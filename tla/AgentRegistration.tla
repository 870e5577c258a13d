-------------------------- MODULE AgentRegistration --------------------------
(***************************************************************************)
(* The agent's link to the signaling server (cmd/agent/main.go): its       *)
(* registration with back-off, the reconnection that heartbeat, poll and   *)
(* send may trigger at the same time, and the long poll that takes the     *)
(* controllers' messages, against a server that restarts, forgets the      *)
(* agent and loses answers.                                                *)
(*                                                                         *)
(* Of a token only one thing matters: whether it is the one of the agent's *)
(* entry at the server ("current") or of an entry that is gone ("dead").   *)
(* So when an entry goes, every copy of its token goes dead at once, and   *)
(* registrations need no bound.                                            *)
(***************************************************************************)
EXTENDS Naturals, Sequences, FiniteSets

CONSTANTS
  Main,       \* the goroutine of main(), which registers first
  Reconnects, \* goroutines that triggerReconnect may have started
  Callers,    \* the heartbeat loop, and senders of answers and candidates
  Heart,      \* the one of them that is the heartbeat loop
  ChCap,      \* capacity of ControllerCh (10 in the code)
  MaxSent,    \* bound: messages the controllers send
  MaxGhosts,  \* bound: polls the agent gave up that wait at the server
  MaxFaults   \* bound: crashes, lost answers, timeouts, forgotten entries

ASSUME ConstantsAssumption ==
  /\ Main \notin Reconnects
  /\ Heart \in Callers
  /\ ChCap \in Nat \ {0}
  /\ MaxSent \in Nat
  /\ MaxGhosts \in Nat
  /\ MaxFaults \in Nat

VARIABLES
  token,            \* a.token
  reconnectRunning, \* a.reconnectRunning
  reg,              \* goroutines in registerWithBackoff
  call,             \* heartbeats and sends
  poll,             \* the poll of signalingLoop
  handled,          \* messages handleSignalingMessage was given
  up,               \* the server runs
  registered,       \* the agent has an entry
  ch,               \* ControllerCh of that entry, and of the dead entry a poll waits at
  ghosts,           \* polls given up by the agent that still wait at either
  late,             \* registrations given up by the agent, not yet handled
  sent,             \* messages sent so far
  faults

agent  == <<token, reconnectRunning, reg, call, poll, handled>>
entry  == <<registered, ch, ghosts>>
remote == <<up, entry, late, sent, faults>>
vars == <<agent, remote>>

Regs   == {Main} \cup Reconnects
Entry  == {"current", "dead"}
Token  == Entry \cup {"none"}

RegType == [pc : {"idle", "posting", "issued", "backoff", "done"}, tok : Token]
CallType == [pc : {"idle", "sent", "unauthorized", "error"}, tok : Token]
PollType == [pc : {"idle", "sent", "waiting", "null", "message", "unauthorized", "error"},
             tok : Token, msg : 0..MaxSent]

TypeOK ==
  /\ token \in Token
  /\ reconnectRunning \in BOOLEAN
  /\ reg \in [Regs -> RegType]
  /\ call \in [Callers -> CallType]
  /\ poll \in PollType
  /\ handled \in Seq(1..MaxSent)
  /\ up \in BOOLEAN
  /\ registered \in BOOLEAN
  /\ ch \in [Entry -> {q \in Seq(1..MaxSent) : Len(q) <= ChCap}]
  /\ ghosts \in [Entry -> 0..MaxGhosts]
  /\ late \in 0..MaxFaults
  /\ sent \in 0..MaxSent
  /\ faults \in 0..MaxFaults

NoReg  == [pc |-> "idle", tok |-> "none"]
NoCall == [pc |-> "idle", tok |-> "none"]
NoPoll == [pc |-> "idle", tok |-> "none", msg |-> 0]

\* main() registers before it starts the loops.
Init ==
  /\ token = "none"
  /\ reconnectRunning = FALSE
  /\ reg = [g \in Regs |-> IF g = Main THEN [NoReg EXCEPT !.pc = "posting"] ELSE NoReg]
  /\ call = [c \in Callers |-> NoCall]
  /\ poll = NoPoll
  /\ handled = <<>>
  /\ up = TRUE
  /\ registered = FALSE
  /\ ch = [e \in Entry |-> <<>>]
  /\ ghosts = [e \in Entry |-> 0]
  /\ late = 0
  /\ sent = 0
  /\ faults = 0

Fault == faults < MaxFaults /\ faults' = faults + 1

-----------------------------------------------------------------------------
\* An entry goes: its token is dead wherever it is held, and its channel is
\* closed, which matters to a poll that waits there.  In the registration that
\* was answered just now, issued, the new token takes its place.

Dead(t) == IF t = "current" THEN "dead" ELSE t

PollAtCurrent == poll.pc = "waiting" /\ poll.tok = "current"

Replace(issued) ==
  /\ token' = Dead(token)
  /\ reg' = [g \in Regs |-> IF g \in issued THEN [pc |-> "issued", tok |-> "current"]
                            ELSE [reg[g] EXCEPT !.tok = Dead(@)]]
  /\ call' = [c \in Callers |-> [call[c] EXCEPT !.tok = Dead(@)]]
  /\ poll' = [poll EXCEPT !.tok = Dead(@)]
  /\ ch' = [current |-> <<>>, dead |-> IF PollAtCurrent THEN ch["current"] ELSE ch["dead"]]
  /\ ghosts' = [current |-> 0, dead |-> IF PollAtCurrent THEN ghosts["current"] ELSE ghosts["dead"]]
  /\ UNCHANGED <<reconnectRunning, handled, up, sent>>

\* handleAgentRegister: a new entry, instead of the one in place.
ServerRegisters(g) ==
  /\ up
  /\ reg[g].pc = "posting"
  /\ registered' = TRUE
  /\ Replace({g})
  /\ UNCHANGED <<late, faults>>

\* A handler does not see that its caller went away.
ServerRegistersLate ==
  /\ late > 0
  /\ late' = late - 1
  /\ registered' = TRUE
  /\ Replace({})
  /\ UNCHANGED faults

-----------------------------------------------------------------------------
\* register and registerWithBackoff.

BackOff(g) == reg' = [reg EXCEPT ![g] = [NoReg EXCEPT !.pc = "backoff"]]

\* The token is stored; a goroutine of triggerReconnect still has to clear the
\* flag, main() goes on to start the loops.
Adopt(g) ==
  /\ reg[g].pc = "issued"
  /\ token' = reg[g].tok
  /\ reg' = [reg EXCEPT ![g] = IF g = Main THEN NoReg ELSE [NoReg EXCEPT !.pc = "done"]]
  /\ UNCHANGED <<reconnectRunning, call, poll, handled, remote>>

\* No server, or it refuses (its store could not be saved).
RegisterFails(g) ==
  /\ reg[g].pc = "posting"
  /\ up => Fault
  /\ ~up => UNCHANGED faults
  /\ BackOff(g)
  /\ UNCHANGED <<token, reconnectRunning, call, poll, handled, up, entry, late, sent>>

\* The answer is lost, or late by 10 s and the request handled or yet to be.
RegisterTimesOut(g) ==
  /\ reg[g].pc \in {"posting", "issued"}
  /\ Fault
  /\ late' = IF up /\ reg[g].pc = "posting" THEN late + 1 ELSE late
  /\ BackOff(g)
  /\ UNCHANGED <<token, reconnectRunning, call, poll, handled, up, entry, sent>>

Retry(g) ==
  /\ reg[g].pc = "backoff"
  /\ reg' = [reg EXCEPT ![g].pc = "posting"]
  /\ UNCHANGED <<token, reconnectRunning, call, poll, handled, remote>>

\* Mutant: the deferred function forgets to clear the flag.
ReconnectDone_FlagKept(g) ==
  /\ reg[g].pc = "done"
  /\ reg' = [reg EXCEPT ![g] = NoReg]
  /\ UNCHANGED <<token, reconnectRunning, call, poll, handled, remote>>

\* The deferred function of the reconnecting goroutine.
ReconnectDone(g) ==
  /\ reg[g].pc = "done"
  /\ reg' = [reg EXCEPT ![g] = NoReg]
  /\ reconnectRunning' = FALSE
  /\ UNCHANGED <<token, call, poll, handled, remote>>

\* Mutant: the flag is not asked.
TriggerReconnect_NotSingle(wanted) ==
  IF wanted
  THEN /\ reconnectRunning' = TRUE
       /\ \E g \in Reconnects :
            /\ reg[g].pc = "idle"
            /\ reg' = [reg EXCEPT ![g] = [NoReg EXCEPT !.pc = "posting"]]
  ELSE UNCHANGED <<reconnectRunning, reg>>

\* triggerReconnect, called if wanted: a goroutine of its own, one at a time.
TriggerReconnect(wanted) ==
  IF wanted /\ ~reconnectRunning
  THEN /\ reconnectRunning' = TRUE
       /\ \E g \in Reconnects :
            /\ reg[g].pc = "idle"
            /\ reg' = [reg EXCEPT ![g] = [NoReg EXCEPT !.pc = "posting"]]
  ELSE UNCHANGED <<reconnectRunning, reg>>

-----------------------------------------------------------------------------
\* Heartbeats, and the sends of answers and candidates.

Online == token # "none"

Call(c) ==
  /\ Online
  /\ call[c].pc = "idle"
  /\ call' = [call EXCEPT ![c] = [pc |-> "sent", tok |-> token]]
  /\ UNCHANGED <<token, reconnectRunning, reg, poll, handled, remote>>

\* The server looks the token up; a caller that is told OK has nothing to do.
ServerAnswers(c) ==
  /\ up
  /\ call[c].pc = "sent"
  /\ call' = [call EXCEPT ![c] = IF call[c].tok = "current" THEN NoCall
                                 ELSE [NoCall EXCEPT !.pc = "unauthorized"]]
  /\ UNCHANGED <<token, reconnectRunning, reg, poll, handled, remote>>

\* No server, or the request or its answer is lost.
CallFails(c) ==
  /\ call[c].pc \in {"sent", "unauthorized"}
  /\ IF up THEN Fault ELSE call[c].pc = "sent" /\ UNCHANGED faults
  /\ call' = [call EXCEPT ![c] = [NoCall EXCEPT !.pc = "error"]]
  /\ UNCHANGED <<token, reconnectRunning, reg, poll, handled, up, entry, late, sent>>

\* The caller gets the answer, however long ago the server gave it, or an error.
CallReturns(c) ==
  /\ call[c].pc \in {"unauthorized", "error"}
  /\ TriggerReconnect(TRUE)
  /\ call' = [call EXCEPT ![c] = NoCall]
  /\ UNCHANGED <<token, poll, handled, remote>>

-----------------------------------------------------------------------------
\* The long poll.

PollStarts ==
  /\ Online
  /\ poll.pc = "idle"
  /\ poll' = [pc |-> "sent", tok |-> token, msg |-> 0]
  /\ UNCHANGED <<token, reconnectRunning, reg, call, handled, remote>>

ServerLooksUp ==
  /\ up
  /\ poll.pc = "sent"
  /\ poll' = IF poll.tok = "current" THEN [poll EXCEPT !.pc = "waiting"]
             ELSE [NoPoll EXCEPT !.pc = "unauthorized"]
  /\ UNCHANGED <<token, reconnectRunning, reg, call, handled, remote>>

\* Mutant: the message stays in the channel until it is acknowledged.
ServerDelivers_NotTaken ==
  /\ poll.pc = "waiting"
  /\ ch[poll.tok] # <<>>
  /\ poll' = [pc |-> "message", tok |-> "none", msg |-> Head(ch[poll.tok])]
  /\ UNCHANGED <<token, reconnectRunning, reg, call, handled, remote>>

\* The handler receives from the channel of the entry it found; a closed
\* channel gives what is left in it, then nil, written as null.
ServerDelivers ==
  /\ poll.pc = "waiting"
  /\ ch[poll.tok] # <<>>
  /\ poll' = [pc |-> "message", tok |-> "none", msg |-> Head(ch[poll.tok])]
  /\ ch' = [ch EXCEPT ![poll.tok] = Tail(@)]
  /\ UNCHANGED <<token, reconnectRunning, reg, call, handled, up, registered, ghosts, late, sent, faults>>

ServerDeliversNull ==
  /\ poll.pc = "waiting"
  /\ poll.tok = "dead"
  /\ ch[poll.tok] = <<>>
  /\ poll' = [NoPoll EXCEPT !.pc = "null"]
  /\ UNCHANGED <<token, reconnectRunning, reg, call, handled, remote>>

\* The HTTP client gives up after 10 s, long before the server's 30 s: this is
\* how every poll without a message ends.  The handler may not have noticed.
PollTimesOut ==
  /\ poll.pc = "waiting"
  /\ \/ ghosts[poll.tok] < MaxGhosts /\ ghosts' = [ghosts EXCEPT ![poll.tok] = @ + 1]
     \/ UNCHANGED ghosts
  /\ poll' = [NoPoll EXCEPT !.pc = "error"]
  /\ UNCHANGED <<token, reconnectRunning, reg, call, handled, up, registered, ch, late, sent, faults>>

\* A handler whose caller is gone takes a message, which is lost with its answer.
GhostTakes(e) ==
  /\ ghosts[e] > 0
  /\ ch[e] # <<>>
  /\ ch' = [ch EXCEPT ![e] = Tail(@)]
  /\ ghosts' = [ghosts EXCEPT ![e] = @ - 1]
  /\ UNCHANGED <<agent, up, registered, late, sent, faults>>

\* It sees that the request was cancelled.
GhostEnds(e) ==
  /\ ghosts[e] > 0
  /\ ghosts' = [ghosts EXCEPT ![e] = @ - 1]
  /\ UNCHANGED <<agent, up, registered, ch, late, sent, faults>>

PollFails ==
  /\ poll.pc \in {"sent", "message"}
  /\ IF up THEN Fault ELSE poll.pc = "sent" /\ UNCHANGED faults
  /\ poll' = [NoPoll EXCEPT !.pc = "error"]
  /\ UNCHANGED <<token, reconnectRunning, reg, call, handled, up, entry, late, sent>>

\* Mutant: the loop ends with the first error.
PollReturns_LoopEnds ==
  /\ poll.pc \in {"null", "message", "unauthorized"}
  /\ handled' = IF poll.pc = "message" THEN Append(handled, poll.msg) ELSE handled
  /\ TriggerReconnect(poll.pc = "unauthorized")
  /\ poll' = NoPoll
  /\ UNCHANGED <<token, call, remote>>

\* signalingLoop goes on with what pollMessage returned: only a 401 reconnects.
PollReturns ==
  /\ poll.pc \in {"null", "message", "unauthorized", "error"}
  /\ handled' = IF poll.pc = "message" THEN Append(handled, poll.msg) ELSE handled
  /\ TriggerReconnect(poll.pc = "unauthorized")
  /\ poll' = NoPoll
  /\ UNCHANGED <<token, call, remote>>

-----------------------------------------------------------------------------
\* The rest of the server.

\* Mutant: a full channel is not noticed.
Relay_Unbounded ==
  /\ registered
  /\ sent < MaxSent
  /\ sent' = sent + 1
  /\ ch' = [ch EXCEPT !["current"] = Append(@, sent + 1)]
  /\ UNCHANGED <<agent, up, registered, ghosts, late, faults>>

\* A controller's message for the agent, dropped if the channel is full.
Relay ==
  /\ registered
  /\ sent < MaxSent
  /\ sent' = sent + 1
  /\ ch' = [ch EXCEPT !["current"] = IF Len(@) < ChCap THEN Append(@, sent + 1) ELSE @]
  /\ UNCHANGED <<agent, up, registered, ghosts, late, faults>>

\* The entry is deleted by its owner, or expired for want of heartbeats.
Forget ==
  /\ registered
  /\ Fault
  /\ registered' = FALSE
  /\ Replace({})
  /\ UNCHANGED late

\* The process ends, and with it every request it was handling.
Crash ==
  /\ up
  /\ Fault
  /\ up' = FALSE
  /\ registered' = FALSE
  /\ token' = Dead(token)
  /\ reg' = [g \in Regs |-> [reg[g] EXCEPT !.tok = Dead(@)]]
  /\ call' = [c \in Callers |-> [call[c] EXCEPT !.tok = Dead(@)]]
  /\ poll' = IF poll.pc = "waiting" THEN [NoPoll EXCEPT !.pc = "error"]
             ELSE [poll EXCEPT !.tok = Dead(@)]
  /\ ch' = [e \in Entry |-> <<>>]
  /\ ghosts' = [e \in Entry |-> 0]
  /\ late' = 0
  /\ UNCHANGED <<reconnectRunning, handled, sent>>

Restart ==
  /\ ~up
  /\ up' = TRUE
  /\ UNCHANGED <<agent, entry, late, sent, faults>>

-----------------------------------------------------------------------------
RegStep(g) ==
  ServerRegisters(g) \/ Adopt(g) \/ RegisterFails(g) \/ RegisterTimesOut(g)
    \/ Retry(g) \/ ReconnectDone(g)

CallStep(c) == Call(c) \/ ServerAnswers(c) \/ CallFails(c) \/ CallReturns(c)

PollStep ==
  PollStarts \/ ServerLooksUp \/ ServerDelivers \/ ServerDeliversNull
    \/ PollTimesOut \/ PollFails \/ PollReturns

ServerStep ==
  \/ ServerRegistersLate \/ Relay \/ Forget \/ Crash \/ Restart
  \/ \E e \in Entry : GhostTakes(e) \/ GhostEnds(e)

Next ==
  \/ \E g \in Regs : RegStep(g)
  \/ \E c \in Callers : CallStep(c)
  \/ PollStep
  \/ ServerStep

Spec == Init /\ [][Next]_vars

\* The agent's goroutines go on, its ticker ticks, and a server that runs
\* handles what it was sent.  A message already there is received long before
\* the 10 s of a poll are over, not in every poll but not never: hence the
\* strong fairness.  Nobody need restart the server, send anything through it,
\* or notice an abandoned request.
Fairness ==
  /\ \A g \in Regs : WF_vars(RegStep(g))
  /\ WF_vars(CallStep(Heart))
  /\ \A c \in Callers : WF_vars(ServerAnswers(c) \/ CallFails(c) \/ CallReturns(c))
  /\ WF_vars(PollStep)
  /\ SF_vars(ServerDelivers)

LiveSpec == Spec /\ Fairness

-----------------------------------------------------------------------------
(***************************************************************************)
(* Properties                                                              *)
(***************************************************************************)

\* Heartbeat, poll and sends may all meet the same outage, yet one goroutine
\* registers at a time (triggerReconnect, main.go 582-602): two would replace
\* each other's entry, and the loser would leave the agent with a dead token.
SingleFlight ==
  \A g, h \in Regs : reg[g].pc # "idle" /\ reg[h].pc # "idle" => g = h

\* Offers and candidates reach handleSignalingMessage in the order in which the
\* controllers sent them and at most once, whatever polls were given up and
\* whatever entries were replaced meanwhile (main.go 635-688): an offer never
\* overtakes the disconnect that was sent before it.
HandledInOrder ==
  \A i, j \in 1..Len(handled) : i < j => handled[i] < handled[j]

\* However the token was lost (a restart, an expiry, a late registration that
\* replaced the entry), the agent has a valid one again, as long as the server
\* runs: no trigger is dropped for good while the flag is set.
Recovers == <>[]up => []<>(token = "current")

\* A message accepted for an agent does not stay in its channel: somebody polls
\* again after every error and every re-registration.
MessagesAreTaken ==
  \A m \in 1..MaxSent :
    (ch["current"] # <<>> /\ Head(ch["current"]) = m)
      ~> (ch["current"] = <<>> \/ Head(ch["current"]) # m)
=============================================================================
