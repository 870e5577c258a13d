--------------------------- MODULE SignalingProofs ---------------------------
(***************************************************************************)
(* Proofs about Signaling, for every number of agents, sessions, request   *)
(* goroutines, entries and sockets.  Inv strengthens the checked           *)
(* invariants with what they leave unsaid about entries that have not been *)
(* allocated and about the pointers goroutines carry.                      *)
(***************************************************************************)
EXTENDS Signaling, SequenceTheorems, TLAPS

\* Entries not yet allocated are as NewServer and make() leave them.
Unallocated ==
  \A e \in Entry : e > nEntries => ctl[e] = Free /\ ~closed[e]

\* A token names the agent it was issued to.
TokensHaveAgents == \A e \in tokens : idOf[e] \in Agents

\* The locals a goroutine relies on at its next step are set, and the entries
\* they point to are among the first n.
ReqOK(q, n) ==
  /\ q.ent <= n
  /\ q.pc \in {"regLock", "delLock", "admLock", "conLock", "disLock"} => q.agent \in Agents
  /\ q.pc \in {"delClose", "notify", "csend", "cpoll", "asend", "apoll"} => q.ent # Nil
  /\ q.pc = "csend" => q.sess \in Sessions

ConnOK(w, n) ==
  /\ w.ent <= n
  /\ w.hd \in {"checked", "serving"} \/ w.rd \in {"reading", "holding"}
       => w.ent # Nil /\ w.sess \in Sessions

LocalsOK ==
  /\ \A r \in Reqs : ReqOK(req[r], nEntries)
  /\ \A c \in Conn : ConnOK(conn[c], nEntries)

Inv ==
  /\ TypeOK
  /\ Unallocated
  /\ TokensHaveAgents
  /\ LocalsOK
  /\ RegistryConsistent
  /\ ClosedOnce
  /\ ClaimHasItsSocket

-----------------------------------------------------------------------------
(* Facts about the operators the actions are built from.                    *)

\* A non-blocking send keeps a bounded queue of messages one.
LEMMA OfferType ==
  ASSUME NEW q \in Queue, NEW m \in Sessions \cup {Disconnect}
  PROVE  Offer(q, m) \in Queue
BY ConstantsAssumption DEF Offer, Queue

LEMMA TailType ==
  ASSUME NEW q \in Queue, q # <<>>
  PROVE  Tail(q) \in Queue
BY HeadTailProperties, ConstantsAssumption DEF Queue

\* A goroutine that moves on with well-typed locals leaves the rest alone.
LEMMA GotoType ==
  ASSUME req \in [Reqs -> ReqType], NEW r \in Reqs, NEW l \in ReqType, Goto(r, l)
  PROVE  req' \in [Reqs -> ReqType]
BY DEF Goto

LEMMA IdleType == Idle \in ReqType
BY DEF Idle, ReqType, Nil

LEMMA FinishType ==
  ASSUME req \in [Reqs -> ReqType], NEW r \in Reqs, Finish(r)
  PROVE  req' \in [Reqs -> ReqType]
BY GotoType, IdleType DEF Finish

\* Closing a socket, or no socket at all, changes its open field only.
LEMMA ShutType ==
  ASSUME conn \in [Conn -> ConnType], NEW c
  PROVE  /\ Shut(c) \in [Conn -> ConnType]
         /\ \A d \in Conn : /\ Shut(c)[d].hd = conn[d].hd
                            /\ Shut(c)[d].rd = conn[d].rd
                            /\ Shut(c)[d].sess = conn[d].sess
                            /\ Shut(c)[d].kind = conn[d].kind
                            /\ Shut(c)[d].ent = conn[d].ent
<1>1. CASE c = Nil
  BY <1>1 DEF Shut
<1>2. CASE c # Nil
  <2> DEFINE w == [conn[c] EXCEPT !.open = FALSE]
  <2>1. Shut(c) = [conn EXCEPT ![c] = w]
    BY <1>2 DEF Shut
  <2>2. ASSUME c \in Conn
        PROVE  /\ w \in ConnType /\ w.hd = conn[c].hd /\ w.rd = conn[c].rd
               /\ w.sess = conn[c].sess /\ w.kind = conn[c].kind /\ w.ent = conn[c].ent
    BY <2>2 DEF ConnType
  <2> HIDE DEF w
  <2>3. QED BY <2>1, <2>2
<1>3. QED BY <1>1, <1>2

LEMMA ConnMoveType ==
  ASSUME conn \in [Conn -> ConnType], NEW c \in Conn, NEW w \in ConnType
  PROVE  [conn EXCEPT ![c] = w] \in [Conn -> ConnType]
OBVIOUS

LEMMA RegisterUpsertType ==
  ASSUME Inv, NEW r \in Reqs, NEW a \in Agents, RegisterUpsert(r, a)
  PROVE  TypeOK'
<1> USE DEF Inv, TypeOK, RegisterUpsert
<1>1. RegistryTypeOK'
  BY DEF RegistryTypeOK, registry
<1>2. req' \in [Reqs -> ReqType]
  BY GotoType, FinishType
     DEF GoroutinesTypeOK, ReqType, Idle, Nil, RegistryTypeOK, LocalsOK, ReqOK, ConnOK, At,
         EntriesTypeOK, ClaimType, HeldEntry, TokensHaveAgents
<1>3. EntriesTypeOK' /\ conn' \in [Conn -> ConnType]
  BY DEF EntriesTypeOK, channels, GoroutinesTypeOK
<1>4. QED BY <1>1, <1>2, <1>3 DEF GoroutinesTypeOK

LEMMA RegisterEntryType ==
  ASSUME Inv, NEW r \in Reqs, RegisterEntry(r)
  PROVE  TypeOK'
<1> USE DEF Inv, TypeOK, RegisterEntry
<1>1. RegistryTypeOK'
  <2>1. nEntries' \in 0..MaxEntries /\ nEntries' \in Entry /\ nEntries \in 0..MaxEntries
    BY ConstantsAssumption DEF RegistryTypeOK, Entry
  <2>2. tokens' \in SUBSET (1..nEntries')
    <3> SUFFICES ASSUME NEW x \in tokens' PROVE x \in 1..nEntries'
      OBVIOUS
    <3>1. CASE x \in tokens
      BY <2>1, <3>1 DEF RegistryTypeOK
    <3>2. CASE x = nEntries'
      BY <2>1, <3>2 DEF Entry
    <3>3. QED BY <3>1, <3>2
  <2>3. agents' \in [Agents -> Entry \cup {Nil}] /\ idOf' \in [Entry -> Agents \cup {None}]
    BY <2>1 DEF RegistryTypeOK, GoroutinesTypeOK, ReqType
  <2>4. QED BY <2>1, <2>2, <2>3 DEF RegistryTypeOK, persistent
<1>2. EntriesTypeOK'
  BY DEF EntriesTypeOK
<1>3. req' \in [Reqs -> ReqType]
  BY FinishType DEF GoroutinesTypeOK
<1>4. conn' \in [Conn -> ConnType]
  BY DEF GoroutinesTypeOK
<1>5. QED BY <1>1, <1>2, <1>3, <1>4 DEF GoroutinesTypeOK

LEMMA HeartbeatType ==
  ASSUME Inv, NEW e \in Entry, Heartbeat(e)
  PROVE  TypeOK'
<1> USE DEF Inv, TypeOK, Heartbeat
<1>1. EntriesTypeOK'
  BY ConstantsAssumption
     DEF EntriesTypeOK, channels, ClaimType, Free, Claim, Nil, GoroutinesTypeOK, ReqType, ConnType,
         Queue, Conn
<1>2. RegistryTypeOK' /\ req' \in [Reqs -> ReqType] /\ conn' \in [Conn -> ConnType]
  BY DEF RegistryTypeOK, registry, persistent, GoroutinesTypeOK
<1>3. QED BY <1>1, <1>2 DEF GoroutinesTypeOK

LEMMA AgeType ==
  ASSUME Inv, NEW a \in Agents, Age(a)
  PROVE  TypeOK'
<1> USE DEF Inv, TypeOK, Age
<1>1. EntriesTypeOK'
  BY ConstantsAssumption
     DEF EntriesTypeOK, channels, ClaimType, Free, Claim, Nil, GoroutinesTypeOK, ReqType, ConnType,
         Queue, Conn
<1>2. RegistryTypeOK' /\ req' \in [Reqs -> ReqType] /\ conn' \in [Conn -> ConnType]
  BY DEF RegistryTypeOK, registry, persistent, GoroutinesTypeOK
<1>3. QED BY <1>1, <1>2 DEF GoroutinesTypeOK

LEMMA CleanupType ==
  ASSUME Inv, Cleanup
  PROVE  TypeOK'
<1> USE DEF Inv, TypeOK, Cleanup
<1>1. RegistryTypeOK'
  BY ConstantsAssumption DEF RegistryTypeOK, registry, persistent, Entry, Nil
<1>2. EntriesTypeOK'
  BY DEF EntriesTypeOK
<1>3. req' \in [Reqs -> ReqType] /\ conn' \in [Conn -> ConnType]
  BY DEF GoroutinesTypeOK
<1>4. QED BY <1>1, <1>2, <1>3 DEF GoroutinesTypeOK

LEMMA DeleteRecordType ==
  ASSUME Inv, NEW r \in Reqs, NEW a \in Agents, DeleteRecord(r, a)
  PROVE  TypeOK'
<1> USE DEF Inv, TypeOK, DeleteRecord
<1>1. RegistryTypeOK'
  BY DEF RegistryTypeOK, registry
<1>2. req' \in [Reqs -> ReqType]
  BY GotoType, FinishType
     DEF GoroutinesTypeOK, ReqType, Idle, Nil, RegistryTypeOK, LocalsOK, ReqOK, ConnOK, At,
         EntriesTypeOK, ClaimType, HeldEntry, TokensHaveAgents
<1>3. EntriesTypeOK' /\ conn' \in [Conn -> ConnType]
  BY DEF EntriesTypeOK, channels, GoroutinesTypeOK
<1>4. QED BY <1>1, <1>2, <1>3 DEF GoroutinesTypeOK

LEMMA DeleteEntryType ==
  ASSUME Inv, NEW r \in Reqs, DeleteEntry(r)
  PROVE  TypeOK'
<1> USE DEF Inv, TypeOK, DeleteEntry
<1>1. RegistryTypeOK'
  BY DEF RegistryTypeOK, persistent
<1>2. req' \in [Reqs -> ReqType]
  BY GotoType, FinishType
     DEF GoroutinesTypeOK, ReqType, Idle, Nil, RegistryTypeOK, LocalsOK, ReqOK, ConnOK, At,
         EntriesTypeOK, ClaimType, HeldEntry, TokensHaveAgents
<1>3. EntriesTypeOK' /\ conn' \in [Conn -> ConnType]
  BY DEF EntriesTypeOK, channels, GoroutinesTypeOK
<1>4. QED BY <1>1, <1>2, <1>3 DEF GoroutinesTypeOK

LEMMA DeleteCloseType ==
  ASSUME Inv, NEW r \in Reqs, DeleteClose(r)
  PROVE  TypeOK'
<1> USE DEF Inv, TypeOK, DeleteClose
<1>1. EntriesTypeOK'
  <2>1. ctlCh' \in [Entry -> Queue]
    BY OfferType DEF EntriesTypeOK, GoroutinesTypeOK, ReqType, LocalsOK, ReqOK, At
  <2>2. QED BY <2>1 DEF EntriesTypeOK
<1>2. req' \in [Reqs -> ReqType]
  BY FinishType DEF GoroutinesTypeOK
<1>3. conn' \in [Conn -> ConnType]
  BY ShutType DEF GoroutinesTypeOK
<1>4. RegistryTypeOK'
  BY DEF RegistryTypeOK, registry, persistent
<1>5. QED BY <1>1, <1>2, <1>3, <1>4 DEF GoroutinesTypeOK

LEMMA AdminDeleteUserType ==
  ASSUME Inv, NEW r \in Reqs, NEW a \in Agents, AdminDeleteUser(r, a)
  PROVE  TypeOK'
<1> USE DEF Inv, TypeOK, AdminDeleteUser
<1>1. RegistryTypeOK'
  BY DEF RegistryTypeOK, registry
<1>2. req' \in [Reqs -> ReqType]
  BY GotoType, FinishType
     DEF GoroutinesTypeOK, ReqType, Idle, Nil, RegistryTypeOK, LocalsOK, ReqOK, ConnOK, At,
         EntriesTypeOK, ClaimType, HeldEntry, TokensHaveAgents
<1>3. EntriesTypeOK' /\ conn' \in [Conn -> ConnType]
  BY DEF EntriesTypeOK, channels, GoroutinesTypeOK
<1>4. QED BY <1>1, <1>2, <1>3 DEF GoroutinesTypeOK

LEMMA AdminDropEntryType ==
  ASSUME Inv, NEW r \in Reqs, AdminDropEntry(r)
  PROVE  TypeOK'
<1> USE DEF Inv, TypeOK, AdminDropEntry
<1>1. RegistryTypeOK'
  BY ConstantsAssumption DEF RegistryTypeOK, registry, persistent, Entry, Nil
<1>2. req' \in [Reqs -> ReqType]
  BY FinishType DEF GoroutinesTypeOK
<1>3. EntriesTypeOK' /\ conn' \in [Conn -> ConnType]
  BY DEF EntriesTypeOK, channels, GoroutinesTypeOK
<1>4. QED BY <1>1, <1>2, <1>3 DEF GoroutinesTypeOK

LEMMA CallWithAccessType ==
  ASSUME Inv, NEW r \in Reqs, NEW pc \in {"conLock", "disLock"},
         NEW s \in Sessions, NEW k \in Kinds, NEW a \in Agents, NEW f \in BOOLEAN,
         CallWithAccess(r, pc, s, k, a, f)
  PROVE  TypeOK'
<1> USE DEF Inv, TypeOK, CallWithAccess
<1>1. req' \in [Reqs -> ReqType]
  BY GotoType, FinishType
     DEF GoroutinesTypeOK, ReqType, Idle, Nil, RegistryTypeOK, LocalsOK, ReqOK, ConnOK, At,
         EntriesTypeOK, ClaimType, HeldEntry, TokensHaveAgents
<1>2. RegistryTypeOK' /\ EntriesTypeOK' /\ conn' \in [Conn -> ConnType]
  BY DEF RegistryTypeOK, registry, persistent, EntriesTypeOK, channels, GoroutinesTypeOK
<1>3. QED BY <1>1, <1>2 DEF GoroutinesTypeOK

LEMMA ConnectLockType ==
  ASSUME Inv, NEW r \in Reqs, ConnectLock(r)
  PROVE  TypeOK'
<1> USE DEF Inv, TypeOK, ConnectLock
<1>1. EntriesTypeOK'
  <2>1. Claim(req[r].sess, req[r].kind) \in ClaimType /\ Free \in ClaimType
    BY DEF GoroutinesTypeOK, ReqType, Claim, Free, ClaimType
  <2>2. ctl' \in [Entry -> ClaimType]
    BY <2>1 DEF EntriesTypeOK
  <2>3. QED BY <2>2 DEF EntriesTypeOK, channels
<1>2. req' \in [Reqs -> ReqType]
  <2> DEFINE e == agents[req[r].agent]
  <2>1. e \in Entry \cup {Nil}
    BY DEF RegistryTypeOK, LocalsOK, ReqOK, At
  <2>2. e # Nil => ctl[e].ws \in Conn \cup {Nil}
    BY <2>1 DEF EntriesTypeOK, ClaimType
  <2>3. e # Nil => [Idle EXCEPT !.pc = "notify", !.ent = e, !.ws = ctl[e].ws] \in ReqType
    BY <2>1, <2>2 DEF ReqType, Idle
  <2>4. QED BY <2>3, GotoType, FinishType DEF GoroutinesTypeOK
<1>3. RegistryTypeOK' /\ conn' \in [Conn -> ConnType]
  BY DEF RegistryTypeOK, registry, persistent, GoroutinesTypeOK
<1>4. QED BY <1>1, <1>2, <1>3 DEF GoroutinesTypeOK

LEMMA DisconnectLockType ==
  ASSUME Inv, NEW r \in Reqs, DisconnectLock(r)
  PROVE  TypeOK'
<1> USE DEF Inv, TypeOK, DisconnectLock
<1>1. EntriesTypeOK'
  <2>1. Claim(req[r].sess, req[r].kind) \in ClaimType /\ Free \in ClaimType
    BY DEF GoroutinesTypeOK, ReqType, Claim, Free, ClaimType
  <2>2. ctl' \in [Entry -> ClaimType]
    BY <2>1 DEF EntriesTypeOK
  <2>3. QED BY <2>2 DEF EntriesTypeOK, channels
<1>2. req' \in [Reqs -> ReqType]
  BY GotoType, FinishType
     DEF GoroutinesTypeOK, ReqType, Idle, Nil, RegistryTypeOK, LocalsOK, ReqOK, ConnOK, At,
         EntriesTypeOK, ClaimType, HeldEntry, TokensHaveAgents
<1>3. RegistryTypeOK' /\ conn' \in [Conn -> ConnType]
  BY DEF RegistryTypeOK, registry, persistent, GoroutinesTypeOK
<1>4. QED BY <1>1, <1>2, <1>3 DEF GoroutinesTypeOK

LEMMA NotifyType ==
  ASSUME Inv, NEW r \in Reqs, Notify(r)
  PROVE  TypeOK'
<1> USE DEF Inv, TypeOK, Notify
<1>1. EntriesTypeOK'
  <2>1. ctlCh' \in [Entry -> Queue]
    BY OfferType DEF EntriesTypeOK, GoroutinesTypeOK, ReqType, LocalsOK, ReqOK, At
  <2>2. QED BY <2>1 DEF EntriesTypeOK
<1>2. req' \in [Reqs -> ReqType]
  BY FinishType DEF GoroutinesTypeOK
<1>3. conn' \in [Conn -> ConnType]
  BY ShutType DEF GoroutinesTypeOK
<1>4. RegistryTypeOK'
  BY DEF RegistryTypeOK, registry, persistent
<1>5. QED BY <1>1, <1>2, <1>3, <1>4 DEF GoroutinesTypeOK

LEMMA ControllerCallType ==
  ASSUME Inv, NEW r \in Reqs, NEW pc \in {"csend", "cpoll"}, NEW s \in Sessions,
         NEW a \in Agents, ControllerCall(r, pc, s, a)
  PROVE  TypeOK'
<1> USE DEF Inv, TypeOK, ControllerCall
<1>1. req' \in [Reqs -> ReqType]
  BY GotoType, FinishType
     DEF GoroutinesTypeOK, ReqType, Idle, Nil, RegistryTypeOK, LocalsOK, ReqOK, ConnOK, At,
         EntriesTypeOK, ClaimType, HeldEntry, TokensHaveAgents
<1>2. RegistryTypeOK' /\ EntriesTypeOK' /\ conn' \in [Conn -> ConnType]
  BY DEF RegistryTypeOK, registry, persistent, EntriesTypeOK, channels, GoroutinesTypeOK
<1>3. QED BY <1>1, <1>2 DEF GoroutinesTypeOK

LEMMA ControllerSendType ==
  ASSUME Inv, NEW r \in Reqs, ControllerSend(r)
  PROVE  TypeOK'
<1> USE DEF Inv, TypeOK, ControllerSend
<1>1. EntriesTypeOK'
  <2>1. req[r].ent \in Entry /\ req[r].sess \in Sessions
    BY DEF GoroutinesTypeOK, ReqType, LocalsOK, ReqOK, At
  <2>2. Offer(ctlCh[req[r].ent], req[r].sess) \in Queue
    BY <2>1, OfferType DEF EntriesTypeOK
  <2>3. ctlCh' \in [Entry -> Queue]
    BY <2>1, <2>2 DEF EntriesTypeOK
  <2>4. QED BY <2>3 DEF EntriesTypeOK, channels
<1>2. req' \in [Reqs -> ReqType]
  BY FinishType DEF GoroutinesTypeOK
<1>3. RegistryTypeOK' /\ conn' \in [Conn -> ConnType]
  BY DEF RegistryTypeOK, registry, persistent, GoroutinesTypeOK
<1>4. QED BY <1>1, <1>2, <1>3 DEF GoroutinesTypeOK

LEMMA ControllerPollType ==
  ASSUME Inv, NEW r \in Reqs, ControllerPoll(r)
  PROVE  TypeOK'
<1> USE DEF Inv, TypeOK, ControllerPoll
<1>1. EntriesTypeOK'
  <2>1. agCh' \in [Entry -> 0..ChCap]
    BY ConstantsAssumption DEF EntriesTypeOK, GoroutinesTypeOK, ReqType, LocalsOK, ReqOK, At
  <2>2. QED BY <2>1 DEF EntriesTypeOK
<1>2. req' \in [Reqs -> ReqType]
  BY FinishType DEF GoroutinesTypeOK
<1>3. RegistryTypeOK' /\ conn' \in [Conn -> ConnType]
  BY DEF RegistryTypeOK, registry, persistent, GoroutinesTypeOK
<1>4. QED BY <1>1, <1>2, <1>3 DEF GoroutinesTypeOK

LEMMA AgentCallType ==
  ASSUME Inv, NEW r \in Reqs, NEW pc \in {"asend", "apoll"}, NEW e \in Entry, AgentCall(r, pc, e)
  PROVE  TypeOK'
<1> USE DEF Inv, TypeOK, AgentCall
<1>1. req' \in [Reqs -> ReqType]
  <2>1. agents[idOf[e]] \in Entry
    BY DEF RegistryTypeOK, TokensHaveAgents
  <2>2. [Idle EXCEPT !.pc = pc, !.ent = agents[idOf[e]]] \in ReqType
    BY <2>1 DEF ReqType, Idle, Nil
  <2>3. QED BY <2>2, GotoType DEF GoroutinesTypeOK
<1>2. RegistryTypeOK' /\ EntriesTypeOK' /\ conn' \in [Conn -> ConnType]
  BY DEF RegistryTypeOK, registry, persistent, EntriesTypeOK, channels, GoroutinesTypeOK
<1>3. QED BY <1>1, <1>2 DEF GoroutinesTypeOK

LEMMA AgentSendType ==
  ASSUME Inv, NEW r \in Reqs, AgentSend(r)
  PROVE  TypeOK'
<1> USE DEF Inv, TypeOK, AgentSend
<1>1. EntriesTypeOK'
  <2>1. req[r].ent \in Entry
    BY DEF GoroutinesTypeOK, ReqType, LocalsOK, ReqOK, At
  <2>2. agCh' \in [Entry -> 0..ChCap]
    BY <2>1, ConstantsAssumption DEF EntriesTypeOK
  <2>3. QED BY <2>2 DEF EntriesTypeOK
<1>2. req' \in [Reqs -> ReqType]
  BY FinishType DEF GoroutinesTypeOK
<1>3. RegistryTypeOK' /\ conn' \in [Conn -> ConnType]
  BY DEF RegistryTypeOK, registry, persistent, GoroutinesTypeOK
<1>4. QED BY <1>1, <1>2, <1>3 DEF GoroutinesTypeOK

LEMMA AgentPollType ==
  ASSUME Inv, NEW r \in Reqs, AgentPoll(r)
  PROVE  TypeOK'
<1> USE DEF Inv, TypeOK, AgentPoll
<1>1. EntriesTypeOK'
  <2>1. ctlCh' \in [Entry -> Queue]
    BY TailType DEF EntriesTypeOK, GoroutinesTypeOK, ReqType, LocalsOK, ReqOK, At
  <2>2. QED BY <2>1 DEF EntriesTypeOK
<1>2. req' \in [Reqs -> ReqType]
  BY FinishType DEF GoroutinesTypeOK
<1>3. RegistryTypeOK' /\ conn' \in [Conn -> ConnType]
  BY DEF RegistryTypeOK, registry, persistent, GoroutinesTypeOK
<1>4. QED BY <1>1, <1>2, <1>3 DEF GoroutinesTypeOK

LEMMA PollEndsType ==
  ASSUME Inv, NEW r \in Reqs, PollEnds(r)
  PROVE  TypeOK'
<1> USE DEF Inv, TypeOK, PollEnds
<1>1. req' \in [Reqs -> ReqType]
  BY FinishType DEF GoroutinesTypeOK
<1>2. RegistryTypeOK' /\ EntriesTypeOK' /\ conn' \in [Conn -> ConnType]
  BY DEF RegistryTypeOK, registry, persistent, EntriesTypeOK, channels, GoroutinesTypeOK
<1>3. QED BY <1>1, <1>2 DEF GoroutinesTypeOK

LEMMA WSCheckType ==
  ASSUME Inv, NEW c \in Conn, NEW s \in Sessions, NEW k \in Kinds, NEW a \in Agents, WSCheck(c, s, k, a)
  PROVE  TypeOK'
<1> USE DEF Inv, TypeOK, WSCheck
<1>1. conn' \in [Conn -> ConnType]
  BY DEF GoroutinesTypeOK, ConnType, HeldEntry, RegistryTypeOK
<1>2. RegistryTypeOK' /\ EntriesTypeOK' /\ req' \in [Reqs -> ReqType]
  BY DEF RegistryTypeOK, registry, persistent, EntriesTypeOK, channels, GoroutinesTypeOK
<1>3. QED BY <1>1, <1>2 DEF GoroutinesTypeOK

LEMMA WSAttachType ==
  ASSUME Inv, NEW c \in Conn, WSAttach(c)
  PROVE  TypeOK'
<1> USE DEF Inv, TypeOK, WSAttach
<1>1. EntriesTypeOK'
  BY ConstantsAssumption
     DEF EntriesTypeOK, channels, ClaimType, Free, Claim, Nil, GoroutinesTypeOK, ReqType, ConnType,
         Queue, Conn
<1>2. conn' \in [Conn -> ConnType]
  <2> DEFINE w == [conn[c] EXCEPT !.hd = "serving", !.rd = "reading"]
  <2>1. conn' = [conn EXCEPT ![c] = w]
    BY DEF GoroutinesTypeOK
  <2>2. w \in ConnType
    BY DEF GoroutinesTypeOK, ConnType
  <2> HIDE DEF w
  <2>3. QED BY <2>1, <2>2, ConnMoveType DEF GoroutinesTypeOK
<1>3. RegistryTypeOK' /\ req' \in [Reqs -> ReqType]
  BY DEF RegistryTypeOK, registry, persistent, GoroutinesTypeOK
<1>4. QED BY <1>1, <1>2, <1>3 DEF GoroutinesTypeOK

LEMMA WSDropType ==
  ASSUME Inv, NEW c \in Conn, WSDrop(c)
  PROVE  TypeOK'
<1> USE DEF Inv, TypeOK, WSDrop
<1>1. conn' \in [Conn -> ConnType]
  BY DEF GoroutinesTypeOK, ConnType
<1>2. RegistryTypeOK' /\ EntriesTypeOK' /\ req' \in [Reqs -> ReqType]
  BY DEF RegistryTypeOK, registry, persistent, EntriesTypeOK, channels, GoroutinesTypeOK
<1>3. QED BY <1>1, <1>2 DEF GoroutinesTypeOK

LEMMA WSReadType ==
  ASSUME Inv, NEW c \in Conn, WSRead(c)
  PROVE  TypeOK'
<1> USE DEF Inv, TypeOK, WSRead
<1>1. conn' \in [Conn -> ConnType]
  BY DEF GoroutinesTypeOK, ConnType
<1>2. RegistryTypeOK' /\ EntriesTypeOK' /\ req' \in [Reqs -> ReqType]
  BY DEF RegistryTypeOK, registry, persistent, EntriesTypeOK, channels, GoroutinesTypeOK
<1>3. QED BY <1>1, <1>2 DEF GoroutinesTypeOK

LEMMA WSRelayType ==
  ASSUME Inv, NEW c \in Conn, WSRelay(c)
  PROVE  TypeOK'
<1> USE DEF Inv, TypeOK, WSRelay
<1>1. EntriesTypeOK'
  <2>1. conn[c].ent \in Entry /\ conn[c].sess \in Sessions
    BY DEF GoroutinesTypeOK, ConnType, LocalsOK, ConnOK
  <2>2. Offer(ctlCh[conn[c].ent], conn[c].sess) \in Queue
    BY <2>1, OfferType DEF EntriesTypeOK
  <2>3. ctlCh' \in [Entry -> Queue]
    BY <2>1, <2>2 DEF EntriesTypeOK
  <2>4. QED BY <2>3 DEF EntriesTypeOK, channels
<1>2. conn' \in [Conn -> ConnType]
  BY DEF GoroutinesTypeOK, ConnType
<1>3. RegistryTypeOK' /\ req' \in [Reqs -> ReqType]
  BY DEF RegistryTypeOK, registry, persistent, GoroutinesTypeOK
<1>4. QED BY <1>1, <1>2, <1>3 DEF GoroutinesTypeOK

LEMMA WSReadEndsType ==
  ASSUME Inv, NEW c \in Conn, WSReadEnds(c)
  PROVE  TypeOK'
<1> USE DEF Inv, TypeOK, WSReadEnds
<1>1. conn' \in [Conn -> ConnType]
  BY DEF GoroutinesTypeOK, ConnType
<1>2. RegistryTypeOK' /\ EntriesTypeOK' /\ req' \in [Reqs -> ReqType]
  BY DEF RegistryTypeOK, registry, persistent, EntriesTypeOK, channels, GoroutinesTypeOK
<1>3. QED BY <1>1, <1>2 DEF GoroutinesTypeOK

LEMMA WSForwardType ==
  ASSUME Inv, NEW c \in Conn, WSForward(c)
  PROVE  TypeOK'
<1> USE DEF Inv, TypeOK, WSForward
<1>1. EntriesTypeOK'
  <2>1. agCh' \in [Entry -> 0..ChCap]
    BY ConstantsAssumption DEF EntriesTypeOK, GoroutinesTypeOK, ConnType, LocalsOK, ConnOK
  <2>2. QED BY <2>1 DEF EntriesTypeOK
<1>2. RegistryTypeOK' /\ req' \in [Reqs -> ReqType] /\ conn' \in [Conn -> ConnType]
  BY DEF RegistryTypeOK, registry, persistent, GoroutinesTypeOK
<1>3. QED BY <1>1, <1>2 DEF GoroutinesTypeOK

LEMMA WSReturnType ==
  ASSUME Inv, NEW c \in Conn, WSReturn(c)
  PROVE  TypeOK'
<1> USE DEF Inv, TypeOK, WSReturn
<1>1. EntriesTypeOK'
  <2>1. conn[c].ent \in Entry
    BY DEF GoroutinesTypeOK, ConnType, LocalsOK, ConnOK
  <2>2. agCh' \in [Entry -> 0..ChCap]
    <3>1. CASE UNCHANGED agCh
      BY <3>1 DEF EntriesTypeOK
    <3>2. CASE agCh[conn[c].ent] > 0 /\ agCh' = [agCh EXCEPT ![conn[c].ent] = @ - 1]
      BY <2>1, <3>2, ConstantsAssumption DEF EntriesTypeOK
    <3>3. QED BY <3>1, <3>2
  <2>3. ctl' \in [Entry -> ClaimType]
    BY <2>1 DEF EntriesTypeOK, ClaimType, Free
  <2>4. QED BY <2>2, <2>3 DEF EntriesTypeOK
<1>2. conn' \in [Conn -> ConnType]
  <2> DEFINE w == [conn[c] EXCEPT !.hd = "gone", !.open = FALSE]
  <2>1. conn' = [conn EXCEPT ![c] = w]
    BY DEF GoroutinesTypeOK
  <2>2. w \in ConnType
    BY DEF GoroutinesTypeOK, ConnType
  <2> HIDE DEF w
  <2>3. QED BY <2>1, <2>2, ConnMoveType DEF GoroutinesTypeOK
<1>3. RegistryTypeOK' /\ req' \in [Reqs -> ReqType]
  BY DEF RegistryTypeOK, registry, persistent, GoroutinesTypeOK
<1>4. QED BY <1>1, <1>2, <1>3 DEF GoroutinesTypeOK

LEMMA ProcessEndsType ==
  ASSUME Inv, NEW how \in {"stopped", "panicked"}, ProcessEnds(how)
  PROVE  TypeOK'
<1> USE DEF Inv, TypeOK, ProcessEnds
<1>1. RegistryTypeOK'
  BY DEF RegistryTypeOK, persistent
<1>2. EntriesTypeOK'
  BY ConstantsAssumption DEF EntriesTypeOK, ClaimType, Free, Queue
<1>3. req' \in [Reqs -> ReqType]
  BY IdleType DEF GoroutinesTypeOK
<1>4. conn' \in [Conn -> ConnType]
  BY ShutType DEF GoroutinesTypeOK, ConnType, NoConn, Nil, HeldEntry, RegistryTypeOK
<1>5. QED BY <1>1, <1>2, <1>3, <1>4 DEF GoroutinesTypeOK

LEMMA RestartType ==
  ASSUME Inv, Restart
  PROVE  TypeOK'
<1> USE DEF Inv, TypeOK, Restart
<1>1. RegistryTypeOK'
  BY DEF RegistryTypeOK, registry, persistent
<1>2. EntriesTypeOK' /\ req' \in [Reqs -> ReqType] /\ conn' \in [Conn -> ConnType]
  BY DEF EntriesTypeOK, channels, GoroutinesTypeOK
<1>3. QED BY <1>1, <1>2 DEF GoroutinesTypeOK

-----------------------------------------------------------------------------
(* The initial state, and the type of every step.                           *)

LEMMA InitInv == Init => Inv
<1> SUFFICES ASSUME Init PROVE Inv
  OBVIOUS
<1> USE DEF Init
<1>1. RegistryTypeOK
  BY ConstantsAssumption DEF RegistryTypeOK, Nil
<1>2. EntriesTypeOK
  <2>1. <<>> \in Queue
    BY ConstantsAssumption DEF Queue
  <2>2. QED BY <2>1, ConstantsAssumption DEF EntriesTypeOK, ClaimType, Free, Nil
<1>3. GoroutinesTypeOK
  BY IdleType DEF GoroutinesTypeOK, ConnType, NoConn, Nil
<1>4. Unallocated /\ TokensHaveAgents /\ LocalsOK
  BY DEF Unallocated, TokensHaveAgents, LocalsOK, ReqOK, ConnOK, Idle, NoConn, Nil
<1>5. RegistryConsistent /\ ClosedOnce /\ ClaimHasItsSocket
  BY DEF RegistryConsistent, ClosedOnce, ClaimHasItsSocket, Live, Idle, Free, Nil
<1>6. QED BY <1>1, <1>2, <1>3, <1>4, <1>5 DEF Inv, TypeOK

LEMMA TypeStep ==
  ASSUME Inv, [Next]_vars
  PROVE  TypeOK'
<1>1. ASSUME NEW r \in Reqs, RequestStarts(r) PROVE TypeOK'
  BY <1>1, RegisterUpsertType, DeleteRecordType, AdminDeleteUserType, CallWithAccessType,
     ControllerCallType, AgentCallType
     DEF RequestStarts, ConnectCall, DisconnectCall, ControllerSendCall, ControllerPollCall,
         AgentSendCall, AgentPollCall
<1>2. ASSUME NEW r \in Reqs, RequestStep(r) PROVE TypeOK'
  BY <1>2, RegisterEntryType, DeleteEntryType, DeleteCloseType, AdminDropEntryType,
     ConnectLockType, DisconnectLockType, NotifyType, ControllerSendType, ControllerPollType,
     AgentSendType, AgentPollType, PollEndsType DEF RequestStep
<1>3. ASSUME NEW c \in Conn, WSStep(c) PROVE TypeOK'
  BY <1>3, WSCheckType, WSAttachType, WSDropType, WSReadType, WSRelayType, WSReadEndsType,
     WSForwardType, WSReturnType, ProcessEndsType DEF WSStep, WSRelayPanics
<1>4. CASE Stop
  BY <1>4, ProcessEndsType DEF Stop
<1>5. CASE UNCHANGED vars
  BY <1>5 DEF Inv, TypeOK, RegistryTypeOK, EntriesTypeOK, GoroutinesTypeOK,
              vars, registry, persistent, channels
<1>6. QED
  BY <1>1, <1>2, <1>3, <1>4, <1>5, HeartbeatType, AgeType, CleanupType, RestartType DEF Next

-----------------------------------------------------------------------------
(* The registry.  Only these steps change it or close channels.             *)

LEMMA RegistrySteps ==
  ASSUME [Next]_vars
  PROVE  \/ UNCHANGED <<registry, closed>>
         \/ \E r \in Reqs : RegisterEntry(r) \/ DeleteEntry(r) \/ DeleteClose(r) \/ AdminDropEntry(r)
         \/ Cleanup
         \/ \E how : ProcessEnds(how)
<1>1. ASSUME NEW r \in Reqs, RequestStarts(r) PROVE UNCHANGED <<registry, closed>>
  BY <1>1 DEF RequestStarts, RegisterUpsert, DeleteRecord, AdminDeleteUser, ConnectCall,
              DisconnectCall, CallWithAccess, ControllerSendCall, ControllerPollCall,
              ControllerCall, AgentSendCall, AgentPollCall, AgentCall, channels
<1>2. ASSUME NEW r \in Reqs, RequestStep(r)
      PROVE  \/ UNCHANGED <<registry, closed>>
             \/ RegisterEntry(r) \/ DeleteEntry(r) \/ DeleteClose(r) \/ AdminDropEntry(r)
  BY <1>2 DEF RequestStep, ConnectLock, DisconnectLock, Notify, ControllerSend, ControllerPoll,
              AgentSend, AgentPoll, PollEnds, channels
<1>3. ASSUME NEW c \in Conn, WSStep(c)
      PROVE  UNCHANGED <<registry, closed>> \/ \E how : ProcessEnds(how)
  BY <1>3 DEF WSStep, WSCheck, WSAttach, WSDrop, WSRead, WSRelay, WSReadEnds, WSForward, WSReturn,
              WSRelayPanics, channels
<1>4. CASE Stop
  BY <1>4 DEF Stop
<1>5. CASE (\E e \in Entry : Heartbeat(e)) \/ (\E a \in Agents : Age(a)) \/ Restart \/ UNCHANGED vars
  BY <1>5 DEF Heartbeat, Age, Restart, vars, channels
<1>6. QED
  BY <1>1, <1>2, <1>3, <1>4, <1>5 DEF Next

LEMMA RegistryStep ==
  ASSUME Inv, [Next]_vars
  PROVE  RegistryConsistent' /\ TokensHaveAgents'
<1> USE DEF RegistryConsistent, TokensHaveAgents
<1>1. CASE UNCHANGED <<registry, closed>>
  BY <1>1 DEF Inv, registry
<1>2. ASSUME NEW r \in Reqs, RegisterEntry(r) PROVE RegistryConsistent' /\ TokensHaveAgents'
  <2> DEFINE a == req[r].agent  new == nEntries + 1
  <2>1. a \in Agents /\ new \in Entry
    BY <1>2, ConstantsAssumption DEF RegisterEntry, Inv, LocalsOK, ReqOK, TypeOK, RegistryTypeOK, At, Entry
  <2>2. \A e \in tokens : e \in Entry /\ e # new
    BY <2>1, ConstantsAssumption DEF Inv, TypeOK, RegistryTypeOK, Entry
  <2>3. agents' = [agents EXCEPT ![a] = new] /\ idOf' = [idOf EXCEPT ![new] = a]
    BY <1>2 DEF RegisterEntry
  <2>4. tokens' = (tokens \ {agents[a]}) \cup {new}
    BY <1>2 DEF RegisterEntry
  <2>5. \A e \in Entry : closed'[e] <=> closed[e] \/ e = agents[a]
    BY <1>2 DEF RegisterEntry
  <2>6. ~closed[new] /\ new # Nil
    BY <2>1 DEF Inv, Unallocated, TypeOK, RegistryTypeOK, Entry, Nil
  <2>7. ASSUME NEW b \in Agents, agents'[b] # Nil
        PROVE  idOf'[agents'[b]] = b /\ agents'[b] \in tokens' /\ ~closed'[agents'[b]]
    <3>1. CASE b = a
      BY <3>1, <2>1, <2>2, <2>3, <2>4, <2>5, <2>6 DEF Inv, TypeOK, RegistryTypeOK
    <3>2. CASE b # a
      BY <3>2, <2>1, <2>2, <2>3, <2>4, <2>5, <2>7 DEF Inv, TypeOK, RegistryTypeOK
    <3>3. QED BY <3>1, <3>2
  <2>8. ASSUME NEW e \in tokens' PROVE agents'[idOf'[e]] = e /\ idOf'[e] \in Agents
    <3>1. CASE e = new
      BY <3>1, <2>1, <2>3 DEF Inv, TypeOK, RegistryTypeOK
    <3>2. CASE e # new
      BY <3>2, <2>1, <2>2, <2>3, <2>4, <2>8 DEF Inv, TypeOK, RegistryTypeOK
    <3>3. QED BY <3>1, <3>2
  <2>9. QED BY <2>7, <2>8
<1>3. ASSUME NEW r \in Reqs, DeleteEntry(r) PROVE RegistryConsistent' /\ TokensHaveAgents'
  BY <1>3 DEF DeleteEntry, Inv, LocalsOK, ReqOK, TypeOK, RegistryTypeOK, At, channels, Entry, Nil
<1>4. ASSUME NEW r \in Reqs, DeleteClose(r) PROVE RegistryConsistent' /\ TokensHaveAgents'
  BY <1>4 DEF DeleteClose, Inv, ClosedOnce, Live, TypeOK, RegistryTypeOK, EntriesTypeOK, At, registry
<1>5. ASSUME NEW r \in Reqs, AdminDropEntry(r) PROVE RegistryConsistent' /\ TokensHaveAgents'
  BY <1>5 DEF AdminDropEntry, Inv, LocalsOK, ReqOK, TypeOK, RegistryTypeOK, At, channels, Entry, Nil
<1>6. CASE Cleanup
  BY <1>6 DEF Cleanup, Expired, Inv, TypeOK, RegistryTypeOK, Entry, Nil
<1>7. ASSUME NEW how, ProcessEnds(how) PROVE RegistryConsistent' /\ TokensHaveAgents'
  BY <1>7 DEF ProcessEnds
<1>8. QED
  BY <1>1, <1>2, <1>3, <1>4, <1>5, <1>6, <1>7, RegistrySteps

-----------------------------------------------------------------------------
(* The locals of goroutines.                                                *)

\* A reachable entry is allocated.
LEMMA LiveAllocated ==
  ASSUME Inv, NEW a \in Agents, agents[a] # Nil
  PROVE  agents[a] \in Entry /\ agents[a] <= nEntries
BY ConstantsAssumption DEF Inv, RegistryConsistent, TypeOK, RegistryTypeOK, Entry, Nil

LEMMA EntriesGrow ==
  ASSUME Inv, [Next]_vars
  PROVE  nEntries \in Nat /\ nEntries' \in Nat /\ nEntries <= nEntries'
<1>1. nEntries \in Nat
  BY ConstantsAssumption DEF Inv, TypeOK, RegistryTypeOK
<1>2. nEntries' = nEntries \/ nEntries' = nEntries + 1
  BY RegistrySteps DEF registry, RegisterEntry, DeleteEntry, DeleteClose, AdminDropEntry,
                       Cleanup, ProcessEnds
<1>3. QED BY <1>1, <1>2

LEMMA RequestStartLocals ==
  ASSUME Inv, NEW r \in Reqs, RequestStarts(r)
  PROVE  \A q \in Reqs : req'[q] = req[q] \/ ReqOK(req'[q], nEntries)
<1> USE DEF Inv, TypeOK, GoroutinesTypeOK, Goto, Idle, ReqOK, Nil
<1>1. nEntries \in Nat
  BY ConstantsAssumption DEF RegistryTypeOK
<1>2. ASSUME NEW a \in Agents, RegisterUpsert(r, a) \/ DeleteRecord(r, a) \/ AdminDeleteUser(r, a)
      PROVE  \A q \in Reqs : req'[q] = req[q] \/ ReqOK(req'[q], nEntries)
  <2>1. \/ \E pc \in {"regLock", "delLock", "admLock"} : Goto(r, [Idle EXCEPT !.pc = pc, !.agent = a])
        \/ UNCHANGED req
    BY <1>2 DEF RegisterUpsert, DeleteRecord, AdminDeleteUser
  <2>2. \A pc \in {"regLock", "delLock", "admLock"} : ReqOK([Idle EXCEPT !.pc = pc, !.agent = a], nEntries)
    BY <1>1
  <2>3. CASE UNCHANGED req
    BY <2>3
  <2>4. ASSUME NEW l, Goto(r, l), ReqOK(l, nEntries)
        PROVE  \A q \in Reqs : req'[q] = req[q] \/ ReqOK(req'[q], nEntries)
    <3> HIDE DEF ReqOK, Idle
    <3> QED BY <2>4
  <2>5. QED
    <3> HIDE DEF ReqOK, Idle, Goto
    <3> QED BY <2>1, <2>2, <2>3, <2>4
<1>3. ASSUME NEW a \in Agents, NEW s, NEW k, NEW f, NEW pc \in {"conLock", "disLock"},
             CallWithAccess(r, pc, s, k, a, f)
      PROVE  \A q \in Reqs : req'[q] = req[q] \/ ReqOK(req'[q], nEntries)
  BY <1>1, <1>3 DEF CallWithAccess
<1>4. ASSUME NEW a \in Agents, NEW s \in Sessions, NEW pc \in {"csend", "cpoll"},
             ControllerCall(r, pc, s, a)
      PROVE  \A q \in Reqs : req'[q] = req[q] \/ ReqOK(req'[q], nEntries)
  BY <1>1, <1>4, LiveAllocated DEF ControllerCall, HeldEntry
<1>5. ASSUME NEW e \in Entry, NEW pc \in {"asend", "apoll"}, AgentCall(r, pc, e)
      PROVE  \A q \in Reqs : req'[q] = req[q] \/ ReqOK(req'[q], nEntries)
  BY <1>1, <1>5, LiveAllocated DEF AgentCall, TokensHaveAgents
<1>6. QED
  BY <1>2, <1>3, <1>4, <1>5
     DEF RequestStarts, ConnectCall, DisconnectCall, ControllerSendCall, ControllerPollCall,
         AgentSendCall, AgentPollCall

LEMMA RequestStepLocals ==
  ASSUME Inv, NEW r \in Reqs, RequestStep(r)
  PROVE  \A q \in Reqs : req'[q] = req[q] \/ ReqOK(req'[q], nEntries)
<1> USE DEF Inv, TypeOK, GoroutinesTypeOK, Finish, Goto, Idle, ReqOK, Nil
<1>1. nEntries \in Nat
  BY ConstantsAssumption DEF RegistryTypeOK
<1>2. CASE Finish(r)
  BY <1>1, <1>2
<1>3. ASSUME NEW l, Goto(r, l), l.pc \in {"delClose", "notify"}, l.ent <= nEntries, l.ent # Nil
      PROVE  \A q \in Reqs : req'[q] = req[q] \/ ReqOK(req'[q], nEntries)
  BY <1>1, <1>3
<1>4. CASE DeleteEntry(r) \/ ConnectLock(r) \/ DisconnectLock(r)
  <2>1. req[r].agent \in Agents
    BY <1>4 DEF DeleteEntry, ConnectLock, DisconnectLock, At, LocalsOK
  <2>2. agents[req[r].agent] # Nil => agents[req[r].agent] <= nEntries
    BY <2>1, LiveAllocated
  <2>3. \/ Finish(r)
        \/ \E l : Goto(r, l) /\ l.pc \in {"delClose", "notify"} /\ l.ent <= nEntries /\ l.ent # Nil
    <3> DEFINE e == agents[req[r].agent]
               l(pc, w) == [Idle EXCEPT !.pc = pc, !.ent = e, !.ws = w]
               m(pc) == [Idle EXCEPT !.pc = pc, !.ent = e]
    <3>1. \/ Finish(r)
          \/ e # Nil /\ (Goto(r, m("delClose")) \/ Goto(r, m("notify")) \/ Goto(r, l("notify", ctl[e].ws)))
      <4> HIDE DEF Finish, Goto, Idle, TypeOK, Inv
      <4> QED BY <1>4 DEF DeleteEntry, ConnectLock, DisconnectLock
    <3>2. \A w : l("notify", w).pc = "notify" /\ l("notify", w).ent = e
      OBVIOUS
    <3>3. \A pc : m(pc).pc = pc /\ m(pc).ent = e
      OBVIOUS
    <3> HIDE DEF l, m, Finish, Goto, Idle
    <3>4. QED BY <2>2, <3>1, <3>2, <3>3
  <2>4. QED BY <1>2, <1>3, <2>3
<1>5. QED
  BY <1>2, <1>4 DEF RequestStep, RegisterEntry, DeleteClose, AdminDropEntry, Notify,
                    ControllerSend, ControllerPoll, AgentSend, AgentPoll, PollEnds

LEMMA ConnLocals ==
  ASSUME Inv, [Next]_vars
  PROVE  \A c \in Conn : ConnOK(conn'[c], nEntries)
<1> USE DEF Inv, LocalsOK, TypeOK, GoroutinesTypeOK
<1>1. CASE UNCHANGED conn
  BY <1>1
<1>2. ASSUME NEW d, conn' = Shut(d) PROVE \A c \in Conn : ConnOK(conn'[c], nEntries)
  BY <1>2, ShutType DEF ConnOK
<1>3. ASSUME NEW d \in Conn, NEW s \in Sessions, NEW k \in Kinds, NEW a \in Agents, WSCheck(d, s, k, a)
      PROVE  \A c \in Conn : ConnOK(conn'[c], nEntries)
  BY <1>3, LiveAllocated DEF WSCheck, HeldEntry, ConnOK, Nil
<1>4. ASSUME NEW d \in Conn,
             \/ WSAttach(d) \/ WSDrop(d) \/ WSRead(d) \/ WSRelay(d) \/ WSReadEnds(d) \/ WSReturn(d)
      PROVE  \A c \in Conn : ConnOK(conn'[c], nEntries)
  BY <1>4 DEF WSAttach, WSDrop, WSRead, WSRelay, WSReadEnds, WSReturn, ConnOK, ConnType
<1>5. ASSUME NEW how, ProcessEnds(how) PROVE \A c \in Conn : ConnOK(conn'[c], nEntries)
  BY <1>5, ConstantsAssumption DEF ProcessEnds, NoConn, ConnOK, Nil, RegistryTypeOK
<1>6. QED
  <2>1. ASSUME NEW r \in Reqs, RequestStarts(r) PROVE UNCHANGED conn
    BY <2>1 DEF RequestStarts, RegisterUpsert, DeleteRecord, AdminDeleteUser, ConnectCall,
                DisconnectCall, CallWithAccess, ControllerSendCall, ControllerPollCall,
                ControllerCall, AgentSendCall, AgentPollCall, AgentCall
  <2>2. ASSUME NEW r \in Reqs, RequestStep(r) PROVE UNCHANGED conn \/ \E d : conn' = Shut(d)
    BY <2>2 DEF RequestStep, RegisterEntry, DeleteEntry, DeleteClose, AdminDropEntry, ConnectLock,
                DisconnectLock, Notify, ControllerSend, ControllerPoll, AgentSend, AgentPoll, PollEnds
  <2>3. CASE (\E e \in Entry : Heartbeat(e)) \/ (\E a \in Agents : Age(a)) \/ Cleanup
             \/ Restart \/ UNCHANGED vars
    BY <2>3, <1>1 DEF Heartbeat, Age, Cleanup, Restart, vars
  <2>4. ASSUME NEW d \in Conn, WSStep(d) PROVE \A c \in Conn : ConnOK(conn'[c], nEntries)
    BY <2>4, <1>1, <1>3, <1>4, <1>5 DEF WSStep, WSForward, WSRelayPanics
  <2>5. QED BY <1>1, <1>2, <1>5, <2>1, <2>2, <2>3, <2>4 DEF Next, Stop

LEMMA LocalsStep ==
  ASSUME Inv, [Next]_vars
  PROVE  LocalsOK'
<1>1. \A r \in Reqs : req'[r] = req[r] \/ ReqOK(req'[r], nEntries)
  <2>1. CASE UNCHANGED req
    BY <2>1
  <2>2. ASSUME NEW how, ProcessEnds(how) PROVE \A r \in Reqs : ReqOK(req'[r], nEntries)
    BY <2>2, EntriesGrow DEF ProcessEnds, Idle, ReqOK, Nil
  <2>3. CASE (\E e \in Entry : Heartbeat(e)) \/ (\E a \in Agents : Age(a)) \/ Cleanup
             \/ Restart \/ UNCHANGED vars
    BY <2>3, <2>1 DEF Heartbeat, Age, Cleanup, Restart, vars
  <2>4. ASSUME NEW c \in Conn, WSStep(c) PROVE UNCHANGED req \/ \E how : ProcessEnds(how)
    BY <2>4 DEF WSStep, WSCheck, WSAttach, WSDrop, WSRead, WSRelay, WSReadEnds, WSForward,
                WSReturn, WSRelayPanics
  <2>5. QED
    BY <2>1, <2>2, <2>3, <2>4, RequestStartLocals, RequestStepLocals DEF Next, Stop
<1>2. \A r \in Reqs : ReqOK(req'[r], nEntries)
  BY <1>1 DEF Inv, LocalsOK
<1>3. \A r \in Reqs : ReqOK(req'[r], nEntries')
  <2>1. TypeOK'
    BY TypeStep
  <2>2. \A r \in Reqs : req'[r].ent \in Nat
    BY <2>1 DEF TypeOK, GoroutinesTypeOK, ReqType, Entry, Nil
  <2>3. QED BY <1>2, <2>2, EntriesGrow DEF ReqOK
<1>4. \A c \in Conn : ConnOK(conn'[c], nEntries')
  <2>1. TypeOK'
    BY TypeStep
  <2>2. \A c \in Conn : conn'[c].ent \in Nat
    BY <2>1 DEF TypeOK, GoroutinesTypeOK, ConnType, Entry, Nil
  <2>3. QED BY ConnLocals, <2>2, EntriesGrow DEF ConnOK
<1>5. QED BY <1>3, <1>4 DEF LocalsOK

-----------------------------------------------------------------------------
(* Entries not yet allocated.                                               *)

\* Only these steps change the claim on an entry.
LEMMA ClaimSteps ==
  ASSUME [Next]_vars
  PROVE  \/ UNCHANGED ctl
         \/ \E r \in Reqs : ConnectLock(r) \/ DisconnectLock(r)
         \/ \E c \in Conn : WSAttach(c) \/ WSReturn(c)
         \/ \E how \in {"stopped", "panicked"} : ProcessEnds(how)
<1>1. ASSUME NEW r \in Reqs, RequestStarts(r) PROVE UNCHANGED ctl
  BY <1>1 DEF RequestStarts, RegisterUpsert, DeleteRecord, AdminDeleteUser, ConnectCall,
              DisconnectCall, CallWithAccess, ControllerSendCall, ControllerPollCall,
              ControllerCall, AgentSendCall, AgentPollCall, AgentCall
<1>2. ASSUME NEW r \in Reqs, RequestStep(r)
      PROVE  UNCHANGED ctl \/ ConnectLock(r) \/ DisconnectLock(r)
  BY <1>2 DEF RequestStep, RegisterEntry, DeleteEntry, DeleteClose, AdminDropEntry, Notify,
              ControllerSend, ControllerPoll, AgentSend, AgentPoll, PollEnds
<1>3. ASSUME NEW c \in Conn, WSStep(c)
      PROVE  UNCHANGED ctl \/ WSAttach(c) \/ WSReturn(c)
             \/ \E how \in {"stopped", "panicked"} : ProcessEnds(how)
  BY <1>3 DEF WSStep, WSCheck, WSDrop, WSRead, WSRelay, WSReadEnds, WSForward, WSRelayPanics
<1>4. CASE Stop
  BY <1>4 DEF Stop
<1>5. CASE (\E e \in Entry : Heartbeat(e)) \/ (\E a \in Agents : Age(a)) \/ Cleanup
           \/ Restart \/ UNCHANGED vars
  BY <1>5 DEF Heartbeat, Age, Cleanup, Restart, vars
<1>6. QED
  BY <1>1, <1>2, <1>3, <1>4, <1>5 DEF Next

LEMMA UnallocatedStep ==
  ASSUME Inv, [Next]_vars
  PROVE  Unallocated'
<1>1. \A e \in Entry : e > nEntries' => e > nEntries /\ e # Nil
  BY EntriesGrow DEF Entry, Nil
<1>2. \A x : x <= nEntries => \A e \in Entry : e > nEntries => e # x
  BY EntriesGrow DEF Entry
<1>3. \A a \in Agents : agents[a] # Nil => agents[a] <= nEntries
  BY LiveAllocated
<1>4. \A e \in Entry : e > nEntries' => ctl'[e] = Free
  <2>1. CASE UNCHANGED ctl
    BY <2>1, <1>1 DEF Inv, Unallocated
  <2>2. ASSUME NEW x, NEW v, x <= nEntries, ctl' = [ctl EXCEPT ![x] = v]
        PROVE  \A e \in Entry : e > nEntries => ctl'[e] = Free
    BY <2>2, <1>2 DEF Inv, Unallocated, TypeOK, EntriesTypeOK
  <2>3. ASSUME NEW r \in Reqs, ConnectLock(r) \/ DisconnectLock(r)
        PROVE  UNCHANGED ctl \/ \E x, v : x <= nEntries /\ ctl' = [ctl EXCEPT ![x] = v]
    <3>1. req[r].agent \in Agents
      BY <2>3 DEF ConnectLock, DisconnectLock, At, Inv, LocalsOK, ReqOK
    <3>2. agents[req[r].agent] # Nil => agents[req[r].agent] <= nEntries
      BY <3>1, <1>3
    <3>3. QED
      BY <2>3, <3>2 DEF ConnectLock, DisconnectLock
  <2>4. ASSUME NEW c \in Conn, WSAttach(c) \/ WSReturn(c)
        PROVE  UNCHANGED ctl \/ \E x, v : x <= nEntries /\ ctl' = [ctl EXCEPT ![x] = v]
    <3>1. conn[c].ent <= nEntries
      BY DEF Inv, LocalsOK, ConnOK
    <3>2. QED
      BY <2>4, <3>1 DEF WSAttach, WSReturn
  <2>5. ASSUME NEW how, ProcessEnds(how) PROVE \A e \in Entry : ctl'[e] = Free
    BY <2>5 DEF ProcessEnds
  <2>6. QED BY <1>1, <2>1, <2>2, <2>3, <2>4, <2>5, ClaimSteps
<1>5. \A e \in Entry : e > nEntries' => ~closed'[e]
  <2>1. CASE UNCHANGED <<registry, closed>> \/ UNCHANGED closed
    BY <1>1, <2>1 DEF Inv, Unallocated
  <2>2. ASSUME NEW X, \A x \in X : x = Nil \/ x <= nEntries,
               closed' = [e \in Entry |-> closed[e] \/ e \in X]
        PROVE  \A e \in Entry : e > nEntries' => ~closed'[e]
    BY <1>1, <1>2, <2>2 DEF Inv, Unallocated
  <2>3. ASSUME NEW r \in Reqs, RegisterEntry(r)
        PROVE  \A e \in Entry : e > nEntries' => ~closed'[e]
    <3>1. req[r].agent \in Agents
      BY <2>3 DEF RegisterEntry, At, Inv, LocalsOK, ReqOK
    <3>2. closed' = [e \in Entry |-> closed[e] \/ e \in {agents[req[r].agent]}]
      BY <2>3 DEF RegisterEntry
    <3>3. QED
      BY <2>2, <3>1, <3>2, <1>3
  <2>4. ASSUME NEW r \in Reqs, DeleteEntry(r) \/ AdminDropEntry(r) PROVE UNCHANGED closed
    BY <2>4 DEF DeleteEntry, AdminDropEntry, channels
  <2>5. ASSUME NEW r \in Reqs, DeleteClose(r)
        PROVE  \A e \in Entry : e > nEntries' => ~closed'[e]
    <3>1. req[r].ent <= nEntries
      BY DEF Inv, LocalsOK, ReqOK
    <3>2. \A e \in Entry : closed'[e] => closed[e] \/ e = req[r].ent
      BY <2>5 DEF DeleteClose, Inv, TypeOK, EntriesTypeOK
    <3>3. QED
      BY <1>1, <1>2, <3>1, <3>2 DEF Inv, Unallocated
  <2>6. CASE Cleanup
    <3>1. \A x \in Expired : x = Nil \/ x <= nEntries
      BY <1>3 DEF Expired
    <3>2. closed' = [e \in Entry |-> closed[e] \/ e \in Expired]
      BY <2>6 DEF Cleanup
    <3>3. QED
      BY <2>2, <3>1, <3>2
  <2>7. ASSUME NEW how, ProcessEnds(how) PROVE \A e \in Entry : ~closed'[e]
    BY <2>7 DEF ProcessEnds
  <2>8. QED BY <2>1, <2>3, <2>4, <2>5, <2>6, <2>7, RegistrySteps
<1>6. QED BY <1>4, <1>5 DEF Unallocated

-----------------------------------------------------------------------------
(* Closing channels.                                                        *)

\* The goroutine of one deletion: no other is about to close the same entry.
LEMMA DeleteEntryAlone ==
  ASSUME Inv, NEW r \in Reqs, DeleteEntry(r)
  PROVE  ClosedOnce'
<1> DEFINE a == req[r].agent  e == agents[a]
<1>1. a \in Agents
  BY DEF DeleteEntry, At, Inv, LocalsOK, ReqOK
<1>2. UNCHANGED closed
  BY DEF DeleteEntry, channels
<1>3. CASE e = Nil
  <2>1. agents' = agents /\ Finish(r)
    BY <1>3 DEF DeleteEntry
  <2>2. \A q \in Reqs : req'[q].pc = "delClose" => req'[q] = req[q] /\ req[q].pc = "delClose"
    BY <2>1 DEF Finish, Goto, Idle, Inv, TypeOK, GoroutinesTypeOK
  <2>3. QED BY <1>2, <2>1, <2>2 DEF Inv, ClosedOnce, Live
<1>4. CASE e # Nil
  <2>1. agents' = [agents EXCEPT ![a] = Nil] /\ Goto(r, [Idle EXCEPT !.pc = "delClose", !.ent = e])
    BY <1>4 DEF DeleteEntry
  <2>2. e \in Entry /\ ~closed[e] /\ idOf[e] = a /\ \A b \in Agents : agents[b] = e => b = a
    BY <1>1, <1>4, LiveAllocated DEF Inv, RegistryConsistent
  <2>3. \A b \in Agents : agents'[b] # e /\ (agents'[b] = agents[b] \/ agents'[b] = Nil)
    BY <1>1, <1>4, <2>1, <2>2 DEF Inv, TypeOK, RegistryTypeOK
  <2>4. req'[r].ent = e
    BY <2>1 DEF Goto, Idle, Inv, TypeOK, GoroutinesTypeOK
  <2>5. \A q \in Reqs : q # r => req'[q] = req[q]
    BY <2>1 DEF Goto, Inv, TypeOK, GoroutinesTypeOK
  <2>6. \A q \in Reqs : req[q].pc = "delClose" => req[q].ent # e /\ req[q].ent # Nil
    BY <1>1 DEF Inv, ClosedOnce, Live, LocalsOK, ReqOK
  <2>7. QED BY <1>2, <2>2, <2>3, <2>4, <2>5, <2>6 DEF Inv, ClosedOnce, Live
<1>5. QED BY <1>3, <1>4

\* Requests about to close an entry come only from DeleteEntry.
LEMMA CloseFollowsDelete ==
  ASSUME Inv, [Next]_vars
  PROVE  \/ \E r \in Reqs : DeleteEntry(r)
         \/ \A q \in Reqs : req'[q].pc = "delClose" => req'[q] = req[q]
<1>1. CASE UNCHANGED req
  BY <1>1
<1>2. ASSUME NEW r, NEW l, Goto(r, l), l.pc # "delClose"
      PROVE  \A q \in Reqs : req'[q].pc = "delClose" => req'[q] = req[q]
  BY <1>2 DEF Goto, Inv, TypeOK, GoroutinesTypeOK
<1>3. ASSUME NEW r \in Reqs, RequestStarts(r) \/ RequestStep(r), ~DeleteEntry(r)
      PROVE  UNCHANGED req \/ \E l : Goto(r, l) /\ l.pc # "delClose"
  <2>1. Idle.pc # "delClose"
    BY DEF Idle
  <2> DEFINE ForAgent(pc, a) == [Idle EXCEPT !.pc = pc, !.agent = a]
             ForEntry(pc, e) == [Idle EXCEPT !.pc = pc, !.ent = e]
             ForSocket(pc, e, w) == [Idle EXCEPT !.pc = pc, !.ent = e, !.ws = w]
             ForPoll(pc, s, e) == [Idle EXCEPT !.pc = pc, !.sess = s, !.ent = e]
             ForClaim(pc, a, s, k, f) ==
               [Idle EXCEPT !.pc = pc, !.agent = a, !.sess = s, !.kind = k, !.force = f]
  <2>2. /\ \A pc, a : ForAgent(pc, a).pc = pc
        /\ \A pc, e : ForEntry(pc, e).pc = pc
        /\ \A pc, e, w : ForSocket(pc, e, w).pc = pc
        /\ \A pc, s, e : ForPoll(pc, s, e).pc = pc
        /\ \A pc, a, s, k, f : ForClaim(pc, a, s, k, f).pc = pc
    BY DEF Idle
  <2>3. CASE RequestStarts(r)
    <3> HIDE DEF Goto, Idle
    <3>1. ASSUME NEW a, RegisterUpsert(r, a) \/ DeleteRecord(r, a) \/ AdminDeleteUser(r, a)
          PROVE  \/ UNCHANGED req
                 \/ \E pc \in {"regLock", "delLock", "admLock"} : Goto(r, ForAgent(pc, a))
      BY <3>1 DEF RegisterUpsert, DeleteRecord, AdminDeleteUser
    <3>2. ASSUME NEW a, NEW s, NEW k, NEW f, ConnectCall(r, s, k, a, f) \/ DisconnectCall(r, s, k, a)
          PROVE  \E pc \in {"conLock", "disLock"} : \E g :
                   Goto(r, ForClaim(pc, a, s, k, g))
      BY <3>2 DEF ConnectCall, DisconnectCall, CallWithAccess
    <3>3. ASSUME NEW a, NEW s, ControllerSendCall(r, s, a) \/ ControllerPollCall(r, s, a)
          PROVE  \E pc \in {"csend", "cpoll"} : \E e : Goto(r, ForPoll(pc, s, e))
      BY <3>3 DEF ControllerSendCall, ControllerPollCall, ControllerCall
    <3>4. ASSUME NEW x, AgentSendCall(r, x) \/ AgentPollCall(r, x)
          PROVE  \E pc \in {"asend", "apoll"} : \E e : Goto(r, ForEntry(pc, e))
      BY <3>4 DEF AgentSendCall, AgentPollCall, AgentCall
    <3>5. ASSUME NEW a, RegisterUpsert(r, a) \/ DeleteRecord(r, a) \/ AdminDeleteUser(r, a)
          PROVE  UNCHANGED req \/ \E l : Goto(r, l) /\ l.pc # "delClose"
      <4> HIDE DEF ForAgent, ForEntry, ForPoll, ForClaim
      <4> QED BY <2>2, <3>1, <3>5
    <3>6. ASSUME NEW a, NEW s, NEW k, NEW f, ConnectCall(r, s, k, a, f) \/ DisconnectCall(r, s, k, a)
          PROVE  \E l : Goto(r, l) /\ l.pc # "delClose"
      <4> HIDE DEF ForAgent, ForEntry, ForPoll, ForClaim
      <4> QED BY <2>2, <3>2, <3>6
    <3>7. ASSUME NEW a, NEW s, ControllerSendCall(r, s, a) \/ ControllerPollCall(r, s, a)
          PROVE  \E l : Goto(r, l) /\ l.pc # "delClose"
      <4> HIDE DEF ForAgent, ForEntry, ForPoll, ForClaim
      <4> QED BY <2>2, <3>3, <3>7
    <3>8. ASSUME NEW x, AgentSendCall(r, x) \/ AgentPollCall(r, x)
          PROVE  \E l : Goto(r, l) /\ l.pc # "delClose"
      <4> HIDE DEF ForAgent, ForEntry, ForPoll, ForClaim
      <4> QED BY <2>2, <3>4, <3>8
    <3>9. QED BY <2>3, <3>5, <3>6, <3>7, <3>8 DEF RequestStarts
  <2>4. CASE RequestStep(r)
    <3> HIDE DEF Goto, Idle
    <3>1. ASSUME ConnectLock(r) \/ DisconnectLock(r)
          PROVE  \E l : Goto(r, l) /\ l.pc # "delClose"
      <4>1. \/ Finish(r)
            \/ \E e, w : Goto(r, ForSocket("notify", e, w))
            \/ \E e : Goto(r, ForEntry("notify", e))
        BY <3>1 DEF ConnectLock, DisconnectLock
      <4> HIDE DEF ForEntry, ForSocket
      <4>2. QED BY <2>1, <2>2, <4>1 DEF Finish
    <3>2. ASSUME ~ConnectLock(r), ~DisconnectLock(r) PROVE Finish(r)
      BY <1>3, <2>4, <3>2
         DEF RequestStep, RegisterEntry, DeleteClose, AdminDropEntry,
             Notify, ControllerSend, ControllerPoll, AgentSend, AgentPoll, PollEnds
    <3>3. QED BY <2>1, <3>1, <3>2 DEF Finish
  <2>5. QED BY <1>3, <2>3, <2>4
<1>4. ASSUME NEW c \in Conn, WSStep(c) PROVE UNCHANGED req \/ \E how : ProcessEnds(how)
  BY <1>4 DEF WSStep, WSCheck, WSAttach, WSDrop, WSRead, WSRelay, WSReadEnds, WSForward,
              WSReturn, WSRelayPanics
<1>5. ASSUME NEW how, ProcessEnds(how) PROVE \A q \in Reqs : req'[q].pc # "delClose"
  BY <1>5 DEF ProcessEnds, Idle
<1>6. CASE (\E e \in Entry : Heartbeat(e)) \/ (\E a \in Agents : Age(a)) \/ Cleanup
           \/ Restart \/ UNCHANGED vars
  BY <1>6, <1>1 DEF Heartbeat, Age, Cleanup, Restart, vars
<1>7. QED BY <1>1, <1>2, <1>3, <1>4, <1>5, <1>6 DEF Next, Stop

LEMMA ClosedOnceStep ==
  ASSUME Inv, [Next]_vars
  PROVE  ClosedOnce'
<1>1. CASE \E r \in Reqs : DeleteEntry(r)
  BY <1>1, DeleteEntryAlone
<1>2. CASE \A q \in Reqs : req'[q].pc = "delClose" => req'[q] = req[q]
  <2> USE <1>2
  <2>1. ASSUME NEW q \in Reqs, req'[q].pc = "delClose"
        PROVE  /\ req'[q] = req[q] /\ req[q].pc = "delClose"
               /\ req[q].ent \in Entry /\ req[q].ent # Nil /\ req[q].ent <= nEntries
               /\ ~closed[req[q].ent] /\ ~Live(req[q].ent)
    BY <2>1 DEF Inv, ClosedOnce, LocalsOK, ReqOK, TypeOK, GoroutinesTypeOK, ReqType
  <2>2. \A q \in Reqs : req'[q].pc = "delClose" =>
          \A p \in Reqs \ {q} : req'[p].pc = "delClose" => req'[p].ent # req'[q].ent
    BY <2>1 DEF Inv, ClosedOnce
  <2>3. ASSUME NEW q \in Reqs, req'[q].pc = "delClose"
        PROVE  ~closed'[req[q].ent] /\ \A a \in Agents : agents'[a] # req[q].ent
    <3> DEFINE e == req[q].ent
    <3>1. e \in Entry /\ e # Nil /\ e <= nEntries /\ ~closed[e] /\ \A a \in Agents : agents[a] # e
      BY <2>1, <2>3 DEF Live
    <3>2. CASE UNCHANGED <<registry, closed>>
      BY <3>1, <3>2 DEF registry
    <3>3. ASSUME NEW r \in Reqs, RegisterEntry(r)
          PROVE  ~closed'[e] /\ \A a \in Agents : agents'[a] # e
      <4>1. req[r].agent \in Agents /\ nEntries + 1 # e
        BY <3>1, <3>3, EntriesGrow DEF RegisterEntry, At, Inv, LocalsOK, ReqOK, Entry
      <4>2. QED
        BY <3>1, <3>3, <4>1 DEF RegisterEntry, Inv, TypeOK, RegistryTypeOK
    <3>4. ASSUME NEW r \in Reqs, DeleteClose(r)
          PROVE  ~closed'[e] /\ \A a \in Agents : agents'[a] # e
      <4>1. r # q
        <5>1. req'[r] = Idle
          BY <3>4 DEF DeleteClose, Finish, Goto, Inv, TypeOK, GoroutinesTypeOK
        <5>2. QED BY <5>1, <2>3 DEF Idle
      <4>2. req[r].ent # e
        BY <2>1, <2>3, <3>4, <4>1 DEF DeleteClose, At, Inv, ClosedOnce
      <4>3. QED
        BY <3>1, <3>4, <4>2 DEF DeleteClose, registry, Inv, TypeOK, EntriesTypeOK
    <3>5. ASSUME NEW r \in Reqs, DeleteEntry(r) \/ AdminDropEntry(r)
          PROVE  ~closed'[e] /\ \A a \in Agents : agents'[a] # e
      BY <3>1, <3>5 DEF DeleteEntry, AdminDropEntry, channels, Inv, TypeOK, RegistryTypeOK
    <3>6. CASE Cleanup
      BY <3>1, <3>6 DEF Cleanup, Expired
    <3>7. ASSUME NEW how, ProcessEnds(how)
          PROVE  ~closed'[e] /\ \A a \in Agents : agents'[a] # e
      BY <3>1, <3>7 DEF ProcessEnds
    <3>8. QED
      BY <3>2, <3>3, <3>4, <3>5, <3>6, <3>7, RegistrySteps
  <2>4. QED BY <2>1, <2>2, <2>3 DEF ClosedOnce, Live
<1>3. QED BY <1>1, <1>2, CloseFollowsDelete

-----------------------------------------------------------------------------
(* The claim and its socket.                                                *)

\* What a recorded socket owes its entry.
Serves(c, e) == conn[c].hd = "serving" /\ conn[c].ent = e /\ conn[c].sess = ctl[e].sess

\* Only WSReturn and the end of the process take a serving handler away.
LEMMA ServingSteps ==
  ASSUME Inv, [Next]_vars, NEW c \in Conn, conn[c].hd = "serving"
  PROVE  \/ /\ conn'[c].hd = "serving"
            /\ conn'[c].ent = conn[c].ent
            /\ conn'[c].sess = conn[c].sess
         \/ WSReturn(c)
         \/ \E how : ProcessEnds(how)
<1> DEFINE Kept == /\ conn'[c].hd = "serving"
                   /\ conn'[c].ent = conn[c].ent
                   /\ conn'[c].sess = conn[c].sess
<1>1. CASE UNCHANGED conn
  BY <1>1
<1>2. ASSUME NEW d, conn' = Shut(d) PROVE Kept
  BY <1>2 DEF Shut, Inv, TypeOK, GoroutinesTypeOK, ConnType
<1>3. ASSUME NEW r \in Reqs, RequestStarts(r) PROVE UNCHANGED conn
  BY <1>3 DEF RequestStarts, RegisterUpsert, DeleteRecord, AdminDeleteUser, ConnectCall,
              DisconnectCall, CallWithAccess, ControllerSendCall, ControllerPollCall,
              ControllerCall, AgentSendCall, AgentPollCall, AgentCall
<1>4. ASSUME NEW r \in Reqs, RequestStep(r) PROVE UNCHANGED conn \/ \E d : conn' = Shut(d)
  BY <1>4 DEF RequestStep, RegisterEntry, DeleteEntry, DeleteClose, AdminDropEntry, ConnectLock,
              DisconnectLock, Notify, ControllerSend, ControllerPoll, AgentSend, AgentPoll, PollEnds
<1>5. CASE (\E e \in Entry : Heartbeat(e)) \/ (\E a \in Agents : Age(a)) \/ Cleanup
           \/ Restart \/ UNCHANGED vars
  BY <1>5, <1>1 DEF Heartbeat, Age, Cleanup, Restart, vars
<1>6. ASSUME NEW d \in Conn, WSStep(d) PROVE Kept \/ WSReturn(c) \/ \E how : ProcessEnds(how)
  <2>1. ASSUME NEW s, NEW k, NEW a, WSCheck(d, s, k, a) PROVE Kept
    BY <2>1 DEF WSCheck, NoConn, Inv, TypeOK, GoroutinesTypeOK
  <2>2. ASSUME \/ WSAttach(d) \/ WSDrop(d) \/ WSRead(d) \/ WSRelay(d) \/ WSReadEnds(d)
        PROVE  Kept
    BY <2>2 DEF WSAttach, WSDrop, WSRead, WSRelay, WSReadEnds, Inv, TypeOK, GoroutinesTypeOK, ConnType
  <2>3. CASE WSReturn(d)
    BY <2>3 DEF WSReturn, Inv, TypeOK, GoroutinesTypeOK, ConnType
  <2>4. CASE WSForward(d)
    BY <2>4, <1>1 DEF WSForward
  <2>5. QED BY <1>6, <2>1, <2>2, <2>3, <2>4 DEF WSStep, WSRelayPanics
<1>7. QED
  BY <1>1, <1>2, <1>3, <1>4, <1>5, <1>6 DEF Next, Stop

\* A live entry was live before, or has just been registered with no claim.
LEMMA LiveBefore ==
  ASSUME Inv, [Next]_vars, NEW e \in Entry, \E a \in Agents : agents'[a] = e
  PROVE  Live(e) \/ (ctl[e] = Free /\ ctl'[e] = Free)
<1>1. CASE UNCHANGED <<registry, closed>>
  BY <1>1 DEF Live, registry
<1>2. ASSUME NEW r \in Reqs, RegisterEntry(r) PROVE Live(e) \/ (ctl[e] = Free /\ ctl'[e] = Free)
  <2>1. Live(e) \/ e = nEntries + 1
    BY <1>2 DEF RegisterEntry, Live, Inv, TypeOK, RegistryTypeOK
  <2>2. e = nEntries + 1 => ctl[e] = Free
    BY EntriesGrow DEF Inv, Unallocated
  <2>3. QED BY <1>2, <2>1, <2>2 DEF RegisterEntry
<1>3. ASSUME NEW r \in Reqs, DeleteEntry(r) \/ DeleteClose(r) \/ AdminDropEntry(r) PROVE Live(e)
  BY <1>3 DEF DeleteEntry, DeleteClose, AdminDropEntry, registry, Live, Inv, TypeOK,
              RegistryTypeOK, Entry, Nil
<1>4. CASE Cleanup
  BY <1>4 DEF Cleanup, Live, Entry, Nil
<1>5. ASSUME NEW how, ProcessEnds(how) PROVE FALSE
  BY <1>5 DEF ProcessEnds, Live, Entry, Nil
<1>6. QED
  BY <1>1, <1>2, <1>3, <1>4, <1>5, RegistrySteps

LEMMA ClaimStep ==
  ASSUME Inv, [Next]_vars
  PROVE  ClaimHasItsSocket'
<1> SUFFICES ASSUME NEW e \in Entry, \E a \in Agents : agents'[a] = e, ctl'[e].ws # Nil
             PROVE  Serves(ctl[e].ws, e)'
  BY DEF ClaimHasItsSocket, Live, Serves
<1>1. ctl'[e].ws \in Conn
  BY TypeStep DEF TypeOK, EntriesTypeOK, ClaimType
<1>2. Live(e)
  BY LiveBefore DEF Free
<1>3. ASSUME NEW how, ProcessEnds(how) PROVE FALSE
  BY <1>3 DEF ProcessEnds, Free
<1>4. ASSUME ctl'[e] = ctl[e] PROVE Serves(ctl[e].ws, e)'
  <2> DEFINE c == ctl[e].ws
  <2>1. Serves(c, e) /\ c \in Conn
    BY <1>1, <1>2, <1>4 DEF Inv, ClaimHasItsSocket, Serves
  <2>2. ~WSReturn(c)
    <3>1. SUFFICES ASSUME WSReturn(c) PROVE FALSE
      OBVIOUS
    <3>2. OwnsClaim(c)
      BY <1>2, <2>1 DEF OwnsClaim, Serves, Live, Inv, RegistryConsistent, Entry, Nil
    <3>3. ctl'[e] = Free
      BY <2>1, <3>1, <3>2 DEF WSReturn, Serves, Inv, TypeOK, EntriesTypeOK
    <3>4. QED BY <3>3 DEF Free
  <2>3. QED BY <1>3, <1>4, <2>1, <2>2, ServingSteps DEF Serves
<1>5. ASSUME NEW r \in Reqs, ConnectLock(r) \/ DisconnectLock(r) PROVE ctl'[e] = ctl[e]
  BY <1>5 DEF ConnectLock, DisconnectLock, Claim, Free, Inv, TypeOK, EntriesTypeOK
<1>6. ASSUME NEW c \in Conn, WSAttach(c) PROVE ctl'[e] = ctl[e] \/ Serves(ctl[e].ws, e)'
  <2>1. CASE conn[c].ent = e
    BY <1>6, <2>1 DEF WSAttach, Serves, Inv, TypeOK, EntriesTypeOK, GoroutinesTypeOK, ConnType
  <2>2. CASE conn[c].ent # e
    BY <1>6, <2>2 DEF WSAttach, Inv, TypeOK, EntriesTypeOK
  <2>3. QED BY <2>1, <2>2
<1>7. ASSUME NEW c \in Conn, WSReturn(c) PROVE ctl'[e] = ctl[e]
  BY <1>7 DEF WSReturn, Free, Inv, TypeOK, EntriesTypeOK
<1>8. QED
  BY <1>3, <1>4, <1>5, <1>6, <1>7, ClaimSteps

-----------------------------------------------------------------------------
(* The theorems.                                                            *)

\* Inv holds in every reachable state.
THEOREM Invariance == Spec => []Inv
<1>1. Inv /\ [Next]_vars => Inv'
  BY TypeStep, UnallocatedStep, RegistryStep, LocalsStep, ClosedOnceStep, ClaimStep DEF Inv
<1>2. QED
  BY InitInv, <1>1, PTL DEF Spec

\* Every variable of the server stays within its type: in particular no channel
\* ever holds more than its capacity and every token was issued.
THEOREM TypeCorrect == Spec => []TypeOK
<1>1. Inv => TypeOK
  BY DEF Inv
<1>2. QED
  BY <1>1, Invariance, PTL

\* Server.agents and Server.tokens agree at every unlock, and an entry that can
\* be looked up has open channels, however registrations, expiry, deletions by
\* the owner or the administrator, and restarts interleave.
THEOREM RegistryIsConsistent == Spec => []RegistryConsistent
<1>1. Inv => RegistryConsistent
  BY DEF Inv
<1>2. QED
  BY <1>1, Invariance, PTL

\* No channel is closed twice, though handleControllerAgentDelete closes after
\* the unlock.
THEOREM ChannelsClosedOnce == Spec => []ClosedOnce
<1>1. Inv => ClosedOnce
  BY DEF Inv
<1>2. QED
  BY <1>1, Invariance, PTL

\* The socket recorded in the claim on a reachable agent is being served, for
\* that agent and that session.
THEOREM ClaimsHaveSockets == Spec => []ClaimHasItsSocket
<1>1. Inv => ClaimHasItsSocket
  BY DEF Inv
<1>2. QED
  BY <1>1, Invariance, PTL

\* A controller loses a registered agent only to one of the four causes.
THEOREM EvictionsHaveCauses == Spec => EvictionHasACause
<1> DEFINE Cause(e) ==
       \/ \E r \in Reqs : /\ req[r].pc = "conLock" /\ req[r].force
                          /\ ctl'[e].sess = req[r].sess
                          /\ req'[r] = [Idle EXCEPT !.pc = "notify", !.ent = e, !.ws = ctl[e].ws]
       \/ \E r \in Reqs : req[r].pc = "disLock" /\ req[r].sess = ctl[e].sess
                                                /\ req[r].kind = ctl[e].kind
       \/ \E c \in Conn : ctl[e].ws = c /\ conn'[c].hd = "gone"
       \/ \E c \in Conn : conn[c].hd = "checked" /\ ctl'[e].ws = c
<1>1. ASSUME Inv, [Next]_vars, NEW e \in Entry, ControlLost(e) PROVE Cause(e)
  <2>1. /\ ctl \in [Entry -> ClaimType]
        /\ req \in [Reqs -> ReqType]
        /\ conn \in [Conn -> ConnType]
    BY <1>1 DEF Inv, TypeOK, EntriesTypeOK, GoroutinesTypeOK
  <2>2. ctl'[e] # ctl[e] /\ ctl[e].sess # None /\ ctl'[e].sess # ctl[e].sess /\ server' = "running"
    BY <1>1 DEF ControlLost
  <2>3. ASSUME NEW r \in Reqs, ConnectLock(r) PROVE Cause(e)
    <3> DEFINE q == req[r]
    <3>1. e = agents[q.agent] /\ (HeldByOther(e, q.sess) => q.force)
      BY <2>1, <2>2, <2>3 DEF ConnectLock
    <3>2. ctl'[e] = Claim(q.sess, q.kind)
      BY <2>1, <2>2, <2>3, <3>1 DEF ConnectLock
    <3>3. ctl'[e].sess = q.sess /\ HeldByOther(e, q.sess) /\ q.force
      BY <2>2, <3>1, <3>2 DEF Claim, HeldByOther
    <3>4. Goto(r, [Idle EXCEPT !.pc = "notify", !.ent = e, !.ws = ctl[e].ws])
      BY <2>2, <2>3, <3>1, <3>3 DEF ConnectLock
    <3>5. QED
      BY <2>1, <2>3, <3>3, <3>4 DEF ConnectLock, At, Goto
  <2>4. ASSUME NEW r \in Reqs, DisconnectLock(r) PROVE Cause(e)
    BY <2>1, <2>2, <2>4 DEF DisconnectLock, MayRelease, At
  <2>5. ASSUME NEW c \in Conn, WSAttach(c) PROVE Cause(e)
    BY <2>1, <2>2, <2>5 DEF WSAttach
  <2>6. ASSUME NEW c \in Conn, WSReturn(c) PROVE Cause(e)
    BY <2>1, <2>2, <2>6 DEF WSReturn, OwnsClaim, ConnType
  <2>7. ASSUME NEW how \in {"stopped", "panicked"}, ProcessEnds(how) PROVE FALSE
    BY <2>2, <2>7 DEF ProcessEnds
  <2>8. QED
    BY <1>1, <2>2, <2>3, <2>4, <2>5, <2>6, <2>7, ClaimSteps
<1>2. Inv /\ [Next]_vars => [\A e \in Entry : ControlLost(e) => Cause(e)]_vars
  BY <1>1
<1>3. QED
  BY <1>2, Invariance, PTL DEF Spec, EvictionHasACause
==============================================================================
