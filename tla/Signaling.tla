------------------------------ MODULE Signaling ------------------------------
(***************************************************************************)
(* The signaling server (cmd/signaling/main.go): the registry of agents,   *)
(* the claim of a controller session on an agent, and the two bounded      *)
(* channels through which offers, answers and candidates are relayed.      *)
(*                                                                         *)
(* The server's data is protected by Server.mu, but almost every handler   *)
(* keeps a pointer to the AgentInfo it looked up and goes on using it      *)
(* after the unlock.  Entries are therefore objects with an identity       *)
(* (1, 2, ... in the order of their registration), the pointer 0 is nil,   *)
(* and a handler is a process that runs one critical section, or one       *)
(* channel operation, per step.                                            *)
(*                                                                         *)
(* generateToken is injective (a nanosecond clock read under Server.mu),   *)
(* so the token of entry e is e itself.  Connected is not a variable: the  *)
(* code assigns it together with ControllerSessionToken, always.           *)
(***************************************************************************)
EXTENDS Naturals, Sequences, FiniteSets

CONSTANTS
  Agents,      \* agent ids
  Sessions,    \* login sessions of users who may access every agent
  Kinds,       \* the endpoint families: "web" and "client"
  Reqs,        \* HTTP request goroutines that may run at the same time
  MaxEntries,  \* bound: AgentInfo objects ever allocated
  MaxConns,    \* bound: controller WebSockets ever opened
  ChCap,       \* capacity of ControllerCh and AgentCh (10 in the code)
  None         \* the empty string in a session or kind field

Nil    == 0
Entry  == 1..MaxEntries
Conn   == 1..MaxConns
Disconnect == "disconnect"

ASSUME ConstantsAssumption ==
  /\ MaxEntries \in Nat
  /\ MaxConns \in Nat
  /\ ChCap \in Nat \ {0}
  /\ None \notin Sessions \cup Kinds \cup Agents
  /\ Disconnect \notin Sessions

VARIABLES
  server,   \* "running", or how the process ended: "stopped", "panicked"
  owned,    \* agents whose owner still has an account (persistent)
  store,    \* agents with an AgentRegistration in the data store (persistent)
  agents,   \* Server.agents: agent id -> its current entry, or Nil
  tokens,   \* Server.tokens: the entries whose token is valid
  nEntries, \* entries allocated so far
  idOf,     \* AgentInfo.ID of an entry
  stale,    \* LastSeen is more than 120 s ago
  ctl,      \* the Controller* fields of an entry
  closed,   \* its two channels are closed
  ctlCh,    \* ControllerCh: messages for the agent
  agCh,     \* AgentCh: number of messages for the controller
  req,      \* request goroutines
  conn      \* controller WebSockets with their handler and reader goroutine

persistent == <<owned, store>>
registry   == <<agents, tokens, nEntries, idOf>>
channels   == <<closed, ctlCh, agCh>>
vars == <<server, persistent, registry, stale, ctl, channels, req, conn>>

Free == [sess |-> None, kind |-> None, ws |-> Nil]

\* A goroutine slot: where it is, and the locals it carries from step to step.
Idle == [pc |-> "idle", agent |-> None, sess |-> None, kind |-> None,
         force |-> FALSE, ent |-> Nil, ws |-> Nil]

\* A WebSocket: hd is its handler, rd the reader goroutine the handler starts,
\* open the socket, sess/kind/ent the locals both use.
NoConn == [hd |-> "free", rd |-> "none", open |-> FALSE,
           sess |-> None, kind |-> None, ent |-> Nil]

RegistryTypeOK ==
  /\ server \in {"running", "stopped", "panicked"}
  /\ owned \in SUBSET Agents
  /\ store \in SUBSET Agents
  /\ agents \in [Agents -> Entry \cup {Nil}]
  /\ nEntries \in 0..MaxEntries
  /\ tokens \in SUBSET (1..nEntries)
  /\ idOf \in [Entry -> Agents \cup {None}]

ClaimType == [sess : Sessions \cup {None}, kind : Kinds \cup {None}, ws : Conn \cup {Nil}]

Queue == {q \in Seq(Sessions \cup {Disconnect}) : Len(q) <= ChCap}

EntriesTypeOK ==
  /\ stale \in [Entry -> BOOLEAN]
  /\ ctl \in [Entry -> ClaimType]
  /\ closed \in [Entry -> BOOLEAN]
  /\ ctlCh \in [Entry -> Queue]
  /\ agCh \in [Entry -> 0..ChCap]

ReqType ==
  [pc : {"idle", "regLock", "delLock", "delClose", "admLock", "conLock", "disLock",
         "notify", "csend", "cpoll", "asend", "apoll"},
   agent : Agents \cup {None}, sess : Sessions \cup {None}, kind : Kinds \cup {None},
   force : BOOLEAN, ent : Entry \cup {Nil}, ws : Conn \cup {Nil}]

ConnType ==
  [hd : {"free", "checked", "serving", "gone"}, rd : {"none", "reading", "holding", "ended"},
   open : BOOLEAN, sess : Sessions \cup {None}, kind : Kinds \cup {None},
   ent : Entry \cup {Nil}]

GoroutinesTypeOK ==
  /\ req \in [Reqs -> ReqType]
  /\ conn \in [Conn -> ConnType]

TypeOK == RegistryTypeOK /\ EntriesTypeOK /\ GoroutinesTypeOK

Init ==
  /\ server = "running"
  /\ owned = Agents
  /\ store = {}
  /\ agents = [a \in Agents |-> Nil]
  /\ tokens = {}
  /\ nEntries = 0
  /\ idOf = [e \in Entry |-> None]
  /\ stale = [e \in Entry |-> FALSE]
  /\ ctl = [e \in Entry |-> Free]
  /\ closed = [e \in Entry |-> FALSE]
  /\ ctlCh = [e \in Entry |-> <<>>]
  /\ agCh = [e \in Entry |-> 0]
  /\ req = [r \in Reqs |-> Idle]
  /\ conn = [c \in Conn |-> NoConn]

-----------------------------------------------------------------------------
\* Goroutine steps.

Running == server = "running"

At(r, pc) == Running /\ req[r].pc = pc
Goto(r, locals) == req' = [req EXCEPT ![r] = locals]
Finish(r) == Goto(r, Idle)

\* Mutant: one message too many.
Offer_OffByOne(q, m) == IF Len(q) <= ChCap THEN Append(q, m) ELSE q

\* select { case ch <- m: default: } on an open channel.
Offer(q, m) == IF Len(q) < ChCap THEN Append(q, m) ELSE q

\* conn.Close(): the socket of a non-nil pointer is shut.
Shut(c) == IF c = Nil THEN conn ELSE [conn EXCEPT ![c].open = FALSE]

-----------------------------------------------------------------------------
\* Agent registration: UpsertAgentByUserHash under the store's lock, then the
\* replacement of the entry under Server.mu.

RegisterUpsert(r, a) ==
  /\ At(r, "idle")
  /\ a \in owned
  /\ nEntries + Cardinality({q \in Reqs : req[q].pc = "regLock"}) < MaxEntries
  /\ store' = store \cup {a}
  /\ Goto(r, [Idle EXCEPT !.pc = "regLock", !.agent = a])
  /\ UNCHANGED <<server, owned, registry, stale, ctl, channels, conn>>

RegisterEntry(r) ==
  /\ At(r, "regLock")
  /\ nEntries < MaxEntries
  /\ LET a   == req[r].agent
         old == agents[a]
         new == nEntries + 1
     IN /\ closed' = [e \in Entry |-> closed[e] \/ e = old]
        /\ tokens' = (tokens \ {old}) \cup {new}
        /\ agents' = [agents EXCEPT ![a] = new]
        /\ idOf' = [idOf EXCEPT ![new] = a]
        /\ nEntries' = new
  /\ Finish(r)
  /\ UNCHANGED <<server, persistent, stale, ctl, ctlCh, agCh, conn>>

-----------------------------------------------------------------------------
\* Heartbeats and the expiry of silent agents.

Heartbeat(e) ==
  /\ Running
  /\ e \in tokens
  /\ agents[idOf[e]] # Nil
  /\ stale' = [stale EXCEPT ![agents[idOf[e]]] = FALSE]
  /\ UNCHANGED <<server, persistent, registry, ctl, channels, req, conn>>

\* More than 120 s pass since the agent was last seen.
Age(a) ==
  /\ Running
  /\ agents[a] # Nil
  /\ stale' = [stale EXCEPT ![agents[a]] = TRUE]
  /\ UNCHANGED <<server, persistent, registry, ctl, channels, req, conn>>

Expired == {e \in Entry : stale[e] /\ \E a \in Agents : agents[a] = e}

\* One tick of cleanupLoop, under Server.mu for the whole sweep.
Cleanup ==
  /\ Running
  /\ Expired # {}
  /\ closed' = [e \in Entry |-> closed[e] \/ e \in Expired]
  /\ tokens' = tokens \ Expired
  /\ agents' = [a \in Agents |-> IF agents[a] \in Expired THEN Nil ELSE agents[a]]
  /\ UNCHANGED <<server, persistent, nEntries, idOf, stale, ctl, ctlCh, agCh, req, conn>>

-----------------------------------------------------------------------------
\* Deletion of an agent by its owner: the record, then the entry under
\* Server.mu, then the socket and the channels after the unlock.

DeleteRecord(r, a) ==
  /\ At(r, "idle")
  /\ a \in store
  /\ store' = store \ {a}
  /\ Goto(r, [Idle EXCEPT !.pc = "delLock", !.agent = a])
  /\ UNCHANGED <<server, owned, registry, stale, ctl, channels, conn>>

\* Mutant: delete(s.agents, id) forgotten.
DeleteEntry_EntryKept(r) ==
  /\ At(r, "delLock")
  /\ LET e == agents[req[r].agent]
     IN IF e = Nil
        THEN Finish(r) /\ UNCHANGED tokens
        ELSE /\ tokens' = tokens \ {e}
             /\ Goto(r, [Idle EXCEPT !.pc = "delClose", !.ent = e])
  /\ UNCHANGED <<server, persistent, agents, nEntries, idOf, stale, ctl, channels, conn>>

DeleteEntry(r) ==
  /\ At(r, "delLock")
  /\ LET a == req[r].agent
         e == agents[a]
     IN IF e = Nil
        THEN Finish(r) /\ UNCHANGED <<tokens, agents>>
        ELSE /\ tokens' = tokens \ {e}
             /\ agents' = [agents EXCEPT ![a] = Nil]
             /\ Goto(r, [Idle EXCEPT !.pc = "delClose", !.ent = e])
  /\ UNCHANGED <<server, persistent, nEntries, idOf, stale, ctl, channels, conn>>

DeleteClose(r) ==
  /\ At(r, "delClose")
  /\ LET e == req[r].ent
     IN /\ conn' = Shut(ctl[e].ws)
        /\ ctlCh' = [ctlCh EXCEPT ![e] = Offer(@, Disconnect)]
        /\ closed' = [closed EXCEPT ![e] = TRUE]
  /\ Finish(r)
  /\ UNCHANGED <<server, persistent, registry, stale, ctl, agCh>>

\* Deletion of the owner's account by an administrator: DeleteUser removes the
\* account and its agents' records; the entries and tokens follow under
\* Server.mu.  Neither channels nor sockets are closed.
AdminDeleteUser(r, a) ==
  /\ At(r, "idle")
  /\ a \in owned
  /\ owned' = owned \ {a}
  /\ store' = store \ {a}
  /\ IF a \in store
     THEN Goto(r, [Idle EXCEPT !.pc = "admLock", !.agent = a])
     ELSE UNCHANGED req
  /\ UNCHANGED <<server, registry, stale, ctl, channels, conn>>

\* Mutant: the loop over the tokens forgotten.
AdminDropEntry_TokensKept(r) ==
  /\ At(r, "admLock")
  /\ agents' = [agents EXCEPT ![req[r].agent] = Nil]
  /\ Finish(r)
  /\ UNCHANGED <<server, persistent, tokens, nEntries, idOf, stale, ctl, channels, conn>>

AdminDropEntry(r) ==
  /\ At(r, "admLock")
  /\ agents' = [agents EXCEPT ![req[r].agent] = Nil]
  /\ tokens' = {e \in tokens : idOf[e] # req[r].agent}
  /\ Finish(r)
  /\ UNCHANGED <<server, persistent, nEntries, idOf, stale, ctl, channels, conn>>

-----------------------------------------------------------------------------
\* A controller claims an agent, or gives it up.

CallWithAccess(r, pc, s, k, a, f) ==
  /\ At(r, "idle")
  /\ a \in store
  /\ Goto(r, [Idle EXCEPT !.pc = pc, !.agent = a, !.sess = s, !.kind = k, !.force = f])
  /\ UNCHANGED <<server, persistent, registry, stale, ctl, channels, conn>>

ConnectCall(r, s, k, a, f) == CallWithAccess(r, "conLock", s, k, a, f)
DisconnectCall(r, s, k, a) == CallWithAccess(r, "disLock", s, k, a, FALSE)

HeldByOther(e, s) == ctl[e].sess \notin {None, s}

\* The claim a successful connect writes: the socket field is reset.
Claim(s, k) == [sess |-> s, kind |-> k, ws |-> Nil]

\* The critical section of handleOwnedAgentConnect.
ConnectLock(r) ==
  /\ At(r, "conLock")
  /\ LET q == req[r]
         e == agents[q.agent]
     IN IF e = Nil \/ (HeldByOther(e, q.sess) /\ ~q.force)
        THEN Finish(r) /\ UNCHANGED ctl          \* 404, or 409 busy
        ELSE /\ ctl' = [ctl EXCEPT ![e] = Claim(q.sess, q.kind)]
             /\ IF HeldByOther(e, q.sess)
                THEN Goto(r, [Idle EXCEPT !.pc = "notify", !.ent = e, !.ws = ctl[e].ws])
                ELSE Finish(r)
  /\ UNCHANGED <<server, persistent, registry, stale, channels, conn>>

\* Mutant: any session may give the agent up.
MayRelease_AnySession(e, s, k) == ctl[e].kind = k

\* Only the session that holds the agent, through the same kind of endpoint.
MayRelease(e, s, k) == ctl[e].sess = s /\ ctl[e].kind = k

DisconnectLock(r) ==
  /\ At(r, "disLock")
  /\ LET q == req[r]
         e == agents[q.agent]
     IN IF e # Nil /\ MayRelease(e, q.sess, q.kind)
        THEN /\ ctl' = [ctl EXCEPT ![e] = Free]
             /\ Goto(r, [Idle EXCEPT !.pc = "notify", !.ent = e])
        ELSE Finish(r) /\ UNCHANGED ctl
  /\ UNCHANGED <<server, persistent, registry, stale, channels, conn>>

\* Mutant: the displaced socket is left open.
Notify_SocketKept(r) ==
  /\ At(r, "notify")
  /\ LET e == req[r].ent
     IN ctlCh' = IF closed[e] THEN ctlCh ELSE [ctlCh EXCEPT ![e] = Offer(@, Disconnect)]
  /\ Finish(r)
  /\ UNCHANGED <<server, persistent, registry, stale, ctl, closed, agCh, conn>>

\* After the unlock: the displaced socket is closed and the agent is told to
\* disconnect, unless its channel is full.  On a channel closed meanwhile the
\* send panics and net/http recovers it: the request just ends.
Notify(r) ==
  /\ At(r, "notify")
  /\ LET e == req[r].ent
     IN /\ conn' = Shut(req[r].ws)
        /\ ctlCh' = IF closed[e] THEN ctlCh ELSE [ctlCh EXCEPT ![e] = Offer(@, Disconnect)]
  /\ Finish(r)
  /\ UNCHANGED <<server, persistent, registry, stale, ctl, closed, agCh>>

-----------------------------------------------------------------------------
\* The polling endpoints of the web controller and of the agent.  A handler
\* looks the entry up, checks, and then uses the channel of that entry.

\* Access, lookup and ControllerSessionToken check of a controller's request.
HeldEntry(s, a) ==
  IF Running /\ a \in store /\ agents[a] # Nil /\ ctl[agents[a]].sess = s
  THEN {agents[a]} ELSE {}

ControllerCall(r, pc, s, a) ==
  /\ At(r, "idle")
  /\ \E e \in HeldEntry(s, a) : Goto(r, [Idle EXCEPT !.pc = pc, !.sess = s, !.ent = e])
  /\ UNCHANGED <<server, persistent, registry, stale, ctl, channels, conn>>

ControllerSendCall(r, s, a) == ControllerCall(r, "csend", s, a)
ControllerPollCall(r, s, a) == ControllerCall(r, "cpoll", s, a)

\* A send on a channel closed meanwhile panics; net/http recovers it.
ControllerSend(r) ==
  /\ At(r, "csend")
  /\ LET e == req[r].ent
     IN ctlCh' = IF closed[e] THEN ctlCh ELSE [ctlCh EXCEPT ![e] = Offer(@, req[r].sess)]
  /\ Finish(r)
  /\ UNCHANGED <<server, persistent, registry, stale, ctl, closed, agCh, conn>>

ControllerPoll(r) ==
  /\ At(r, "cpoll")
  /\ agCh[req[r].ent] > 0
  /\ agCh' = [agCh EXCEPT ![req[r].ent] = @ - 1]
  /\ Finish(r)
  /\ UNCHANGED <<server, persistent, registry, stale, ctl, closed, ctlCh, conn>>

AgentCall(r, pc, e) ==
  /\ At(r, "idle")
  /\ e \in tokens
  /\ agents[idOf[e]] # Nil
  /\ Goto(r, [Idle EXCEPT !.pc = pc, !.ent = agents[idOf[e]]])
  /\ UNCHANGED <<server, persistent, registry, stale, ctl, channels, conn>>

AgentSendCall(r, e) == AgentCall(r, "asend", e)
AgentPollCall(r, e) == AgentCall(r, "apoll", e)

AgentSend(r) ==
  /\ At(r, "asend")
  /\ LET e == req[r].ent
     IN agCh' = IF closed[e] \/ agCh[e] = ChCap THEN agCh ELSE [agCh EXCEPT ![e] = @ + 1]
  /\ Finish(r)
  /\ UNCHANGED <<server, persistent, registry, stale, ctl, closed, ctlCh, conn>>

AgentPoll(r) ==
  /\ At(r, "apoll")
  /\ ctlCh[req[r].ent] # <<>>
  /\ ctlCh' = [ctlCh EXCEPT ![req[r].ent] = Tail(@)]
  /\ Finish(r)
  /\ UNCHANGED <<server, persistent, registry, stale, ctl, closed, agCh, conn>>

\* 30 s without a message, the caller went away, or nil from a closed channel.
PollEnds(r) ==
  /\ At(r, "apoll") \/ At(r, "cpoll")
  /\ Finish(r)
  /\ UNCHANGED <<server, persistent, registry, stale, ctl, channels, conn>>

-----------------------------------------------------------------------------
\* The controller WebSocket: handleOwnedAgentWS and the goroutine it starts.

\* Access, lookup and session check; then the upgrade handshake runs unlocked.
WSCheck(c, s, k, a) ==
  /\ conn[c] = NoConn
  /\ \E e \in HeldEntry(s, a) :
       conn' = [conn EXCEPT ![c] = [hd |-> "checked", rd |-> "none", open |-> TRUE,
                                    sess |-> s, kind |-> k, ent |-> e]]
  /\ UNCHANGED <<server, persistent, registry, stale, ctl, channels, req>>

\* The critical section after the upgrade writes the claim again, whoever
\* holds the agent by now.
WSAttach(c) ==
  /\ conn[c].hd = "checked"
  /\ LET w == conn[c]
     IN /\ ctl' = [ctl EXCEPT ![w.ent] = [sess |-> w.sess, kind |-> w.kind, ws |-> c]]
        /\ conn' = [conn EXCEPT ![c].hd = "serving", ![c].rd = "reading"]
  /\ UNCHANGED <<server, persistent, registry, stale, channels, req>>

\* The controller closes its socket, or the network does; an upgrade that
\* fails ends the handler at once.
WSDrop(c) ==
  /\ conn[c].open
  /\ conn' = [conn EXCEPT ![c].hd = IF @ = "checked" THEN "gone" ELSE @, ![c].open = FALSE]
  /\ UNCHANGED <<server, persistent, registry, stale, ctl, channels, req>>

\* The reader has read a message off the socket and holds it.
WSRead(c) ==
  /\ conn[c].rd = "reading"
  /\ conn[c].open
  /\ conn' = [conn EXCEPT ![c].rd = "holding"]
  /\ UNCHANGED <<server, persistent, registry, stale, ctl, channels, req>>

WSRelay(c) ==
  /\ conn[c].rd = "holding"
  /\ ~closed[conn[c].ent]
  /\ ctlCh' = [ctlCh EXCEPT ![conn[c].ent] = Offer(@, conn[c].sess)]
  /\ conn' = [conn EXCEPT ![c].rd = "reading"]
  /\ UNCHANGED <<server, persistent, registry, stale, ctl, closed, agCh, req>>

WSReadEnds(c) ==
  /\ conn[c].rd = "reading"
  /\ ~conn[c].open
  /\ conn' = [conn EXCEPT ![c].rd = "ended"]
  /\ UNCHANGED <<server, persistent, registry, stale, ctl, channels, req>>

\* The writer loop takes an answer and writes it to an open socket.
WSForward(c) ==
  /\ conn[c].hd = "serving"
  /\ conn[c].open
  /\ agCh[conn[c].ent] > 0
  /\ agCh' = [agCh EXCEPT ![conn[c].ent] = @ - 1]
  /\ UNCHANGED <<server, persistent, registry, stale, ctl, closed, ctlCh, req, conn>>

\* Mutants: the deferred clean-up forgotten.
OwnsClaim_Never(c) == FALSE

\* The deferred function clears the claim only if it is still this socket's.
OwnsClaim(c) ==
  LET e == conn[c].ent
  IN /\ agents[idOf[e]] = e
     /\ ctl[e].sess = conn[c].sess
     /\ ctl[e].ws = c

\* The handler returns: its reader ended, or a write to the shut socket failed
\* (the answer it had taken, or the nil of a closed channel, is lost).
WSReturn(c) ==
  /\ conn[c].hd = "serving"
  /\ \/ conn[c].rd = "ended" /\ UNCHANGED agCh
     \/ ~conn[c].open /\ closed[conn[c].ent] /\ UNCHANGED agCh
     \/ /\ ~conn[c].open
        /\ agCh[conn[c].ent] > 0
        /\ agCh' = [agCh EXCEPT ![conn[c].ent] = @ - 1]
  /\ ctl' = IF OwnsClaim(c) THEN [ctl EXCEPT ![conn[c].ent] = Free] ELSE ctl
  /\ conn' = [conn EXCEPT ![c].hd = "gone", ![c].open = FALSE]
  /\ UNCHANGED <<server, persistent, registry, stale, closed, ctlCh, req>>

-----------------------------------------------------------------------------
\* The process ends: what is in memory is gone, the data store is not.

ProcessEnds(how) ==
  /\ server' = how
  /\ agents' = [a \in Agents |-> Nil]
  /\ tokens' = {}
  /\ stale' = [e \in Entry |-> FALSE]
  /\ ctl' = [e \in Entry |-> Free]
  /\ closed' = [e \in Entry |-> FALSE]
  /\ ctlCh' = [e \in Entry |-> <<>>]
  /\ agCh' = [e \in Entry |-> 0]
  /\ req' = [r \in Reqs |-> Idle]
  /\ conn' = [c \in Conn |-> IF conn[c] = NoConn THEN NoConn
                             ELSE [NoConn EXCEPT !.hd = "gone", !.rd = "ended"]]
  /\ UNCHANGED <<persistent, nEntries, idOf>>

\* A send on a closed channel in the reader goroutine, which nothing recovers.
WSRelayPanics(c) ==
  /\ conn[c].rd = "holding"
  /\ closed[conn[c].ent]
  /\ ProcessEnds("panicked")

Stop == Running /\ ProcessEnds("stopped")

Restart ==
  /\ ~Running
  /\ server' = "running"
  /\ UNCHANGED <<persistent, registry, stale, ctl, channels, req, conn>>

-----------------------------------------------------------------------------
RequestStep(r) ==
  \/ RegisterEntry(r) \/ DeleteEntry(r) \/ DeleteClose(r) \/ AdminDropEntry(r)
  \/ ConnectLock(r) \/ DisconnectLock(r) \/ Notify(r)
  \/ ControllerSend(r) \/ ControllerPoll(r)
  \/ AgentSend(r) \/ AgentPoll(r) \/ PollEnds(r)

RequestStarts(r) ==
  \/ \E a \in Agents : RegisterUpsert(r, a) \/ DeleteRecord(r, a) \/ AdminDeleteUser(r, a)
  \/ \E s \in Sessions, a \in Agents :
       \/ ControllerSendCall(r, s, a)
       \/ ControllerPollCall(r, s, a)
       \/ \E k \in Kinds : \/ DisconnectCall(r, s, k, a)
                           \/ \E f \in BOOLEAN : ConnectCall(r, s, k, a, f)
  \/ \E e \in Entry : AgentSendCall(r, e) \/ AgentPollCall(r, e)

WSStep(c) ==
  \/ \E s \in Sessions, k \in Kinds, a \in Agents : WSCheck(c, s, k, a)
  \/ WSAttach(c) \/ WSDrop(c)
  \/ WSRead(c) \/ WSRelay(c) \/ WSReadEnds(c)
  \/ WSForward(c) \/ WSReturn(c)
  \/ WSRelayPanics(c)

Next ==
  \/ \E r \in Reqs : RequestStarts(r) \/ RequestStep(r)
  \/ \E e \in Entry : Heartbeat(e)
  \/ \E a \in Agents : Age(a)
  \/ Cleanup
  \/ \E c \in Conn : WSStep(c)
  \/ Stop \/ Restart

Spec == Init /\ [][Next]_vars

\* Goroutines that can go on do (the Go scheduler is fair, polls have their
\* 30 s timer, ReadMessage fails on a shut socket); callers, agents and the
\* network owe nothing.
Fairness ==
  /\ \A r \in Reqs : WF_vars(RequestStep(r))
  /\ \A c \in Conn : /\ WF_vars(WSReadEnds(c))
                     /\ WF_vars(WSRelay(c) \/ WSRelayPanics(c))
                     /\ WF_vars(WSReturn(c))

LiveSpec == Spec /\ Fairness

-----------------------------------------------------------------------------
(***************************************************************************)
(* Properties                                                              *)
(***************************************************************************)

Live(e) == \E a \in Agents : agents[a] = e

\* Server.agents and Server.tokens agree at every unlock: a valid token leads
\* to the very entry it was issued with, and the channels of an entry that can
\* be looked up are open.  A token that outlived its entry would let an old
\* agent process keep alive, and answer for, its successor.
RegistryConsistent ==
  /\ \A a \in Agents : agents[a] # Nil =>
       /\ idOf[agents[a]] = a
       /\ agents[a] \in tokens
       /\ ~closed[agents[a]]
  /\ \A e \in tokens : agents[idOf[e]] = e

\* handleControllerAgentDelete closes the channels after the unlock (1281-1282);
\* re-registration and cleanupLoop close them under it.  No interleaving of the
\* three closes a channel twice: whoever is about to close holds the only
\* claim to do it.
ClosedOnce ==
  \A r \in Reqs : req[r].pc = "delClose" =>
    /\ ~closed[req[r].ent]
    /\ ~Live(req[r].ent)
    /\ \A q \in Reqs \ {r} : req[q].pc = "delClose" => req[q].ent # req[r].ent

\* The claim on a reachable agent never names a socket that is not there to
\* give it up: the socket recorded in ControllerWSConn belongs to the recorded
\* session, was opened on this very entry and its handler is still running, so
\* its deferred clean-up will free the agent.
ClaimHasItsSocket ==
  \A e \in Entry : Live(e) /\ ctl[e].ws # Nil =>
    LET c == ctl[e].ws
    IN conn[c].hd = "serving" /\ conn[c].ent = e /\ conn[c].sess = ctl[e].sess

\* A controller loses an agent that stays registered only by its own doing (it
\* disconnects or its recorded socket ends), to a forced connect that goes on
\* to tell the agent, or to a socket whose session did hold the agent when the
\* upgrade began.  Nobody else's request, and no other socket's end, evicts it.
ControlLost(e) ==
  /\ ctl[e].sess # None
  /\ ctl'[e].sess # ctl[e].sess
  /\ server' = "running"

EvictionHasACause ==
  [][\A e \in Entry : ControlLost(e) =>
       \/ \E r \in Reqs : /\ req[r].pc = "conLock" /\ req[r].force
                          /\ ctl'[e].sess = req[r].sess
                          /\ req'[r] = [Idle EXCEPT !.pc = "notify", !.ent = e, !.ws = ctl[e].ws]
       \/ \E r \in Reqs : req[r].pc = "disLock" /\ req[r].sess = ctl[e].sess
                                                /\ req[r].kind = ctl[e].kind
       \/ \E c \in Conn : ctl[e].ws = c /\ conn'[c].hd = "gone"
       \/ \E c \in Conn : conn[c].hd = "checked" /\ ctl'[e].ws = c]_vars

\* A controller whose socket ended does not keep the agent: sooner or later no
\* reachable agent names that socket (the deferred clean-up, main.go 1606-1617).
SocketEndFreesAgent ==
  \A c \in Conn :
    (conn[c].hd = "serving" /\ ~conn[c].open)
      ~> (\A e \in Entry : Live(e) => ctl[e].ws # c)

\* A forced take-over ends the displaced controller's socket and its handler
\* (main.go 1408-1412): the old session cannot go on relaying.
DisplacedSocketEnds ==
  \A c \in Conn :
    (\E r \in Reqs : req[r].pc = "notify" /\ req[r].ws = c) ~> conn[c].hd = "gone"
=============================================================================
