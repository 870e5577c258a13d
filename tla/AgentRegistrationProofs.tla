----------------------- MODULE AgentRegistrationProofs -----------------------
(***************************************************************************)
(* Proofs about AgentRegistration, for any number of goroutines, callers,  *)
(* messages and faults and any capacity of the channel.                    *)
(***************************************************************************)
EXTENDS AgentRegistration, SequenceTheorems, TLAPS

-----------------------------------------------------------------------------
(* One goroutine registers at a time.                                       *)

\* The flag is set while a reconnecting goroutine is on its way, and as long as
\* main() registers nothing else runs that could start one.
FlagIsSet == \A g \in Reconnects : reg[g].pc # "idle" => reconnectRunning
MainIsFirst ==
  reg[Main].pc # "idle" =>
    /\ token = "none" /\ ~reconnectRunning /\ poll.pc = "idle"
    /\ \A c \in Callers : call[c].pc = "idle"

Flight ==
  /\ token \in Token
  /\ reg \in [Regs -> RegType] /\ call \in [Callers -> CallType] /\ poll \in PollType
  /\ reg[Main].pc # "done"
  /\ FlagIsSet /\ MainIsFirst /\ SingleFlight

LEMMA DeadKinds ==
  /\ \A t \in Token : Dead(t) \in Token
  /\ Dead("none") = "none"
BY DEF Dead, Token, Entry

LEMMA Members ==
  /\ NoReg \in RegType /\ NoCall \in CallType /\ NoPoll \in PollType
  /\ NoReg.pc = "idle" /\ NoReg.tok = "none"
BY ConstantsAssumption DEF NoReg, NoCall, NoPoll, RegType, CallType, PollType, Token

\* What a goroutine's record becomes when an entry goes.
LEMMA DeadRecords ==
  /\ \A r \in RegType : /\ [r EXCEPT !.tok = Dead(@)] \in RegType
                        /\ [r EXCEPT !.tok = Dead(@)].pc = r.pc
  /\ \A r \in CallType : /\ [r EXCEPT !.tok = Dead(@)] \in CallType
                         /\ [r EXCEPT !.tok = Dead(@)].pc = r.pc
  /\ \A r \in PollType : /\ [r EXCEPT !.tok = Dead(@)] \in PollType
                         /\ [r EXCEPT !.tok = Dead(@)].pc = r.pc
                         /\ [r EXCEPT !.tok = Dead(@)].msg = r.msg
                         /\ [r EXCEPT !.tok = Dead(@)].tok = Dead(r.tok)
BY DeadKinds DEF RegType, CallType, PollType

LEMMA InitFlight == Init => Flight
<1> SUFFICES ASSUME Init PROVE Flight
  OBVIOUS
<1>1. /\ token \in Token
      /\ reg \in [Regs -> RegType] /\ call \in [Callers -> CallType] /\ poll \in PollType
  BY Members DEF Init, RegType, NoReg, Token
<1>2. \A g \in Regs : g # Main => reg[g].pc = "idle"
  BY DEF Init, NoReg
<1>3. Main \in Regs /\ reg[Main].pc = "posting"
  BY DEF Init, Regs, NoReg
<1>4. FlagIsSet /\ SingleFlight
  BY <1>2, ConstantsAssumption DEF FlagIsSet, SingleFlight, Regs
<1>5. MainIsFirst
  BY DEF Init, MainIsFirst, NoCall, NoPoll
<1>6. QED BY <1>1, <1>3, <1>4, <1>5 DEF Flight

\* Steps that start nothing and leave every goroutine where it is.
LEMMA FlightStable ==
  ASSUME Flight,
         reg' \in [Regs -> RegType], call' \in [Callers -> CallType], poll' \in PollType,
         \A g \in Regs : reg'[g].pc = reg[g].pc,
         reconnectRunning' = reconnectRunning,
         token' \in Token, token = "none" => token' = "none",
         \A c \in Callers : call[c].pc = "idle" /\ token = "none" => call'[c].pc = "idle",
         poll.pc = "idle" /\ token = "none" => poll'.pc = "idle"
  PROVE  Flight'
<1>1. Main \in Regs /\ Reconnects \subseteq Regs
  BY DEF Regs
<1>2. FlagIsSet' /\ SingleFlight'
  BY <1>1 DEF Flight, FlagIsSet, SingleFlight
<1>3. MainIsFirst'
  BY <1>1 DEF Flight, MainIsFirst
<1>4. QED BY <1>1, <1>2, <1>3 DEF Flight

LEMMA FlightReplace ==
  ASSUME Flight, NEW issued \in SUBSET Regs, Replace(issued),
         \A g \in issued : reg[g].pc # "idle",
         \A g \in issued : g = Main \/ g \in Reconnects
  PROVE  Flight'
<1>1. /\ reg \in [Regs -> RegType] /\ call \in [Callers -> CallType] /\ poll \in PollType
  BY DEF Flight
<1>2. [pc |-> "issued", tok |-> "current"] \in RegType
  BY DEF RegType, Token, Entry
<1>3. reg' \in [Regs -> RegType] /\ call' \in [Callers -> CallType] /\ poll' \in PollType
  BY <1>1, <1>2, DeadRecords DEF Replace
<1>4. \A g \in Regs : reg'[g].pc = IF g \in issued THEN "issued" ELSE reg[g].pc
  BY <1>1, DeadRecords DEF Replace
<1>5. \A g \in Regs : reg'[g].pc # "idle" <=> reg[g].pc # "idle"
  BY <1>4
<1>6. Main \in Regs /\ Reconnects \subseteq Regs
  BY DEF Regs
<1>7. FlagIsSet' /\ SingleFlight'
  BY <1>5, <1>6 DEF Flight, FlagIsSet, SingleFlight, Replace
<1>8. reg'[Main].pc # "done"
  BY <1>4, <1>6 DEF Flight
<1>9. \A c \in Callers : call'[c].pc = call[c].pc
  BY <1>1, DeadRecords DEF Replace
<1>10. /\ poll'.pc = poll.pc /\ reconnectRunning' = reconnectRunning
       /\ token' = Dead(token) /\ token' \in Token
  BY <1>1, DeadRecords, DeadKinds DEF Replace, Flight
<1>11. MainIsFirst'
  BY <1>5, <1>6, <1>9, <1>10, DeadKinds DEF Flight, MainIsFirst
<1>12. QED BY <1>3, <1>7, <1>8, <1>10, <1>11 DEF Flight

LEMMA FlightTrigger ==
  ASSUME Flight, NEW wanted \in BOOLEAN, TriggerReconnect(wanted),
         call' \in [Callers -> CallType], poll' \in PollType,
         token' = token, reg[Main].pc = "idle"
  PROVE  Flight'
<1>1. reg \in [Regs -> RegType] /\ Main \in Regs /\ Reconnects \subseteq Regs /\ Main \notin Reconnects
  BY ConstantsAssumption DEF Flight, Regs
<1>2. CASE wanted /\ ~reconnectRunning
  <2>1. PICK g \in Reconnects :
          reg' = [reg EXCEPT ![g] = [NoReg EXCEPT !.pc = "posting"]]
    BY <1>2 DEF TriggerReconnect
  <2>2. [NoReg EXCEPT !.pc = "posting"] \in RegType
    BY DEF NoReg, RegType, Token
  <2>3. reg' \in [Regs -> RegType]
    BY <1>1, <2>1, <2>2
  <2>4. \A h \in Regs : h # g => reg'[h].pc = "idle"
    BY <1>1, <1>2, <2>1 DEF Flight, FlagIsSet, Regs
  <2>5. FlagIsSet' /\ SingleFlight'
    BY <1>2, <2>4 DEF TriggerReconnect, FlagIsSet, SingleFlight
  <2>6. reg'[Main].pc = "idle"
    BY <1>1, <2>4
  <2>7. QED BY <2>3, <2>5, <2>6 DEF Flight, MainIsFirst
<1>3. CASE ~(wanted /\ ~reconnectRunning)
  <2>1. UNCHANGED <<reg, reconnectRunning>>
    BY <1>3 DEF TriggerReconnect
  <2>2. QED BY <2>1 DEF Flight, FlagIsSet, MainIsFirst, SingleFlight
<1>4. QED BY <1>2, <1>3

LEMMA FlightReg ==
  ASSUME Flight, NEW g \in Regs, RegStep(g)
  PROVE  Flight'
<1>1. /\ reg \in [Regs -> RegType] /\ Main \in Regs /\ Reconnects \subseteq Regs
      /\ g = Main \/ g \in Reconnects
  BY DEF Flight, Regs
<1>2. CASE ServerRegisters(g)
  BY <1>1, <1>2, FlightReplace DEF ServerRegisters
<1>3. CASE Adopt(g)
  <2>1. DEFINE r == IF g = Main THEN NoReg ELSE [NoReg EXCEPT !.pc = "done"]
  <2>2. r \in RegType /\ reg' = [reg EXCEPT ![g] = r]
    BY <1>3, Members DEF Adopt, NoReg, RegType, Token
  <2>3. \A h \in Regs : reg'[h].pc # "idle" => reg[h].pc # "idle"
    BY <1>1, <1>3, <2>2 DEF Adopt
  <2>4. reg' \in [Regs -> RegType]
    BY <1>1, <2>2
  <2>5. FlagIsSet' /\ SingleFlight'
    BY <1>1, <1>3, <2>3 DEF Adopt, Flight, FlagIsSet, SingleFlight
  <2>6. g = Main => reg'[Main].pc = "idle"
    BY <1>1, <2>2, Members
  <2>7. g # Main => reg[Main].pc = "idle" /\ reg'[Main].pc = "idle"
    BY <1>1, <1>3, <2>2 DEF Adopt, Flight, SingleFlight
  <2>8. token' \in Token
    BY <1>1, <1>3 DEF Adopt, RegType
  <2>9. QED BY <1>3, <2>4, <2>5, <2>6, <2>7, <2>8 DEF Adopt, Flight, MainIsFirst, remote
<1>4. CASE RegisterFails(g) \/ RegisterTimesOut(g) \/ Retry(g)
  <2>1. PICK r \in RegType : /\ reg' = [reg EXCEPT ![g] = r]
                             /\ r.pc # "idle" /\ r.pc # "done"
    <3>1. [NoReg EXCEPT !.pc = "backoff"] \in RegType /\ [NoReg EXCEPT !.pc = "backoff"].pc = "backoff"
      BY DEF NoReg, RegType, Token
    <3>2. [reg[g] EXCEPT !.pc = "posting"] \in RegType /\ [reg[g] EXCEPT !.pc = "posting"].pc = "posting"
      BY <1>1 DEF RegType
    <3>3. CASE Retry(g)
      BY <1>1, <3>2, <3>3 DEF Retry
    <3>4. CASE RegisterFails(g) \/ RegisterTimesOut(g)
      BY <3>1, <3>4 DEF RegisterFails, RegisterTimesOut, BackOff
    <3>5. QED BY <1>4, <3>3, <3>4
  <2>2. UNCHANGED <<token, reconnectRunning, call, poll>> /\ reg[g].pc # "idle"
    BY <1>4 DEF RegisterFails, RegisterTimesOut, Retry
  <2>3. \A h \in Regs : reg'[h].pc # "idle" <=> reg[h].pc # "idle"
    BY <1>1, <2>1, <2>2
  <2>4. reg' \in [Regs -> RegType] /\ reg'[Main].pc # "done"
    BY <1>1, <2>1 DEF Flight
  <2>5. QED BY <1>1, <2>2, <2>3, <2>4 DEF Flight, FlagIsSet, MainIsFirst, SingleFlight
<1>5. CASE ReconnectDone(g)
  <2>1. g # Main
    BY <1>1, <1>5 DEF ReconnectDone, Flight
  <2>2. \A h \in Regs : reg'[h].pc = "idle"
    BY <1>1, <1>5, Members DEF ReconnectDone, Flight, SingleFlight
  <2>3. reg' \in [Regs -> RegType]
    BY <1>1, <1>5, Members DEF ReconnectDone
  <2>4. UNCHANGED <<token, call, poll>>
    BY <1>5 DEF ReconnectDone
  <2>5. QED BY <1>1, <2>2, <2>3, <2>4 DEF Flight, FlagIsSet, MainIsFirst, SingleFlight
<1>6. QED BY <1>2, <1>3, <1>4, <1>5 DEF RegStep

LEMMA FlightCall ==
  ASSUME Flight, NEW c \in Callers, CallStep(c)
  PROVE  Flight'
<1>1. /\ token \in Token
      /\ call \in [Callers -> CallType] /\ reg \in [Regs -> RegType] /\ poll \in PollType
  BY DEF Flight
<1>2. UNCHANGED <<token, poll>>
  BY DEF CallStep, Call, ServerAnswers, CallFails, CallReturns
<1>3. PICK r \in CallType : call' = [call EXCEPT ![c] = r]
  <2>1. [pc |-> "sent", tok |-> token] \in CallType /\ NoCall \in CallType
    BY <1>1, Members DEF CallType
  <2>2. /\ [NoCall EXCEPT !.pc = "unauthorized"] \in CallType
        /\ [NoCall EXCEPT !.pc = "error"] \in CallType
    BY DEF NoCall, CallType, Token
  <2>3. QED BY <2>1, <2>2 DEF CallStep, Call, ServerAnswers, CallFails, CallReturns
<1>4. call' \in [Callers -> CallType]
  BY <1>1, <1>3
<1>5. token # "none" \/ call[c].pc # "idle"
  BY DEF CallStep, Call, ServerAnswers, CallFails, CallReturns, Online
<1>6. reg[Main].pc = "idle"
  BY <1>5 DEF Flight, MainIsFirst
<1>7. CASE CallReturns(c)
  BY <1>1, <1>2, <1>4, <1>6, <1>7, FlightTrigger DEF CallReturns
<1>8. CASE ~CallReturns(c)
  <2>1. UNCHANGED <<reg, reconnectRunning>>
    BY <1>8 DEF CallStep, Call, ServerAnswers, CallFails
  <2>2. QED BY <1>1, <1>2, <1>4, <1>6, <2>1 DEF Flight, FlagIsSet, MainIsFirst, SingleFlight
<1>9. QED BY <1>7, <1>8

LEMMA FlightPoll ==
  ASSUME Flight, PollStep, poll' \in PollType
  PROVE  Flight'
<1>1. UNCHANGED <<token, call>>
  BY DEF PollStep, PollStarts, ServerLooksUp, ServerDelivers, ServerDeliversNull, PollTimesOut,
         PollFails, PollReturns
<1>2. token # "none" \/ poll.pc # "idle"
  BY DEF PollStep, PollStarts, ServerLooksUp, ServerDelivers, ServerDeliversNull, PollTimesOut,
         PollFails, PollReturns, Online
<1>3. reg[Main].pc = "idle"
  BY <1>2 DEF Flight, MainIsFirst
<1>4. CASE PollReturns
  <2>1. call' \in [Callers -> CallType]
    BY <1>1 DEF Flight
  <2>2. TriggerReconnect(poll.pc = "unauthorized")
    BY <1>4 DEF PollReturns
  <2>3. QED BY <1>1, <1>3, <2>1, <2>2, FlightTrigger
<1>5. CASE ~PollReturns
  <2>1. UNCHANGED <<reg, reconnectRunning>>
    BY <1>5 DEF PollStep, PollStarts, ServerLooksUp, ServerDelivers, ServerDeliversNull,
                PollTimesOut, PollFails, remote
  <2>2. QED BY <1>1, <1>3, <2>1 DEF Flight, FlagIsSet, MainIsFirst, SingleFlight
<1>6. QED BY <1>4, <1>5

LEMMA FlightServer ==
  ASSUME Flight, ServerStep
  PROVE  Flight'
<1>1. CASE ServerRegistersLate \/ Forget
  BY <1>1, FlightReplace DEF ServerRegistersLate, Forget
<1>2. CASE Crash
  <2>1. /\ token \in Token
        /\ reg \in [Regs -> RegType] /\ call \in [Callers -> CallType] /\ poll \in PollType
    BY DEF Flight
  <2>2. [NoPoll EXCEPT !.pc = "error"] \in PollType
    BY ConstantsAssumption DEF NoPoll, PollType, Token
  <2>3. /\ reg' \in [Regs -> RegType] /\ \A g \in Regs : reg'[g].pc = reg[g].pc
        /\ call' \in [Callers -> CallType] /\ \A c \in Callers : call'[c].pc = call[c].pc
    BY <1>2, <2>1, DeadRecords DEF Crash
  <2>4. poll' \in PollType /\ (poll.pc = "idle" => poll'.pc = "idle")
    BY <1>2, <2>1, <2>2, DeadRecords DEF Crash
  <2>5. token' = Dead(token) /\ reconnectRunning' = reconnectRunning
    BY <1>2 DEF Crash
  <2>6. QED BY <2>1, <2>3, <2>4, <2>5, DeadKinds, FlightStable
<1>3. CASE ~(ServerRegistersLate \/ Forget \/ Crash)
  <2>1. UNCHANGED agent
    BY <1>3 DEF ServerStep, Relay, Restart, GhostTakes, GhostEnds
  <2>2. QED BY <2>1 DEF agent, Flight, FlagIsSet, MainIsFirst, SingleFlight
<1>4. QED BY <1>1, <1>2, <1>3

-----------------------------------------------------------------------------
(* Messages are handled in the order in which they were sent.               *)

Numbers == Seq(1..MaxSent)
Sorted(s) == \A i, j \in 1..Len(s) : i < j => s[i] < s[j]
Below(s, t) == \A i \in 1..Len(s), j \in 1..Len(t) : s[i] < t[j]

\* What was handled is older than all that is on its way: first the message a
\* poll brings or the dead channel it waits at, then the channel of the entry.
Waiting(e) == poll.pc = "waiting" /\ poll.tok = e
Order ==
  /\ handled \in Numbers /\ ch \in [Entry -> Numbers] /\ sent \in 0..MaxSent
  /\ poll \in PollType
  /\ poll.pc = "waiting" => poll.tok \in Entry
  /\ poll.pc = "message" => poll.msg \in 1..MaxSent
  /\ Sorted(handled) /\ Sorted(ch["current"]) /\ Sorted(ch["dead"])
  /\ \A i \in 1..Len(handled) : handled[i] <= sent
  /\ \A e \in Entry : \A i \in 1..Len(ch[e]) : ch[e][i] <= sent
  /\ Below(handled, ch["current"])
  /\ Waiting("dead") => Below(handled, ch["dead"]) /\ Below(ch["dead"], ch["current"])
  /\ poll.pc = "message" =>
       /\ poll.msg <= sent
       /\ \A i \in 1..Len(handled) : handled[i] < poll.msg
       /\ \A i \in 1..Len(ch["current"]) : poll.msg < ch["current"][i]

LEMMA HeadAndTail ==
  ASSUME NEW q \in Numbers, q # <<>>
  PROVE  /\ Head(q) \in 1..MaxSent /\ Head(q) = q[1] /\ Len(q) \in Nat /\ Len(q) >= 1
         /\ Tail(q) \in Numbers /\ Len(Tail(q)) = Len(q) - 1
         /\ \A i \in 1..Len(Tail(q)) : i + 1 \in 1..Len(q) /\ Tail(q)[i] = q[i + 1]
<1>1. /\ Head(q) \in 1..MaxSent /\ Tail(q) \in Numbers /\ Len(Tail(q)) = Len(q) - 1
      /\ \A i \in 1..Len(Tail(q)) : Tail(q)[i] = q[i + 1]
  BY HeadTailProperties DEF Numbers
<1>2. Len(q) \in Nat /\ Len(q) >= 1 /\ Head(q) = q[1]
  BY EmptySeq, LenProperties DEF Numbers
<1>3. QED BY <1>1, <1>2

LEMMA SortedTail ==
  ASSUME NEW q \in Numbers, q # <<>>, Sorted(q)
  PROVE  /\ Sorted(Tail(q))
         /\ \A i \in 1..Len(Tail(q)) : Head(q) < Tail(q)[i]
<1>1. \A i \in 1..Len(q) : q[i] \in 1..MaxSent
  BY ElementOfSeq DEF Numbers
<1>2. MaxSent \in Nat
  BY ConstantsAssumption
<1>3. QED BY <1>1, <1>2, HeadAndTail DEF Sorted

LEMMA SortedAppend ==
  ASSUME NEW q \in Numbers, Sorted(q), NEW m \in 1..MaxSent,
         \A i \in 1..Len(q) : q[i] < m
  PROVE  /\ Append(q, m) \in Numbers /\ Sorted(Append(q, m))
         /\ Len(Append(q, m)) = Len(q) + 1 /\ Len(q) \in Nat
         /\ \A i \in 1..Len(q) : Append(q, m)[i] = q[i]
         /\ Append(q, m)[Len(q) + 1] = m
<1>1. /\ Append(q, m) \in Numbers
      /\ Len(Append(q, m)) = Len(q) + 1
      /\ \A i \in 1..Len(q) : Append(q, m)[i] = q[i]
  BY AppendProperties DEF Numbers
<1>2. Sorted(Append(q, m))
  <2> SUFFICES ASSUME NEW i \in 1..Len(Append(q, m)), NEW j \in 1..Len(Append(q, m)), i < j
               PROVE  Append(q, m)[i] < Append(q, m)[j]
    BY DEF Sorted
  <2> DEFINE n == Len(q)
             a == Append(q, m)
  <2>1. n \in Nat /\ Len(a) = n + 1 /\ a[n + 1] = m
    BY AppendProperties, LenProperties DEF Numbers
  <2>2. \A k \in 1..n : a[k] = q[k] /\ q[k] < m
    BY AppendProperties DEF Numbers
  <2>3. \A k, l \in 1..n : k < l => q[k] < q[l]
    BY DEF Sorted
  <2> HIDE DEF n, a
  <2>4. i \in 1..n /\ (j \in 1..n \/ j = n + 1)
    BY <2>1 DEF a
  <2>5. a[i] < a[j]
    BY <2>1, <2>2, <2>3, <2>4
  <2>6. QED BY <2>5 DEF a
<1>3. /\ Len(q) \in Nat /\ Append(q, m)[Len(q) + 1] = m
  BY AppendProperties, LenProperties DEF Numbers
<1>4. QED BY <1>1, <1>2, <1>3

LEMMA InitOrder == Init => Order
<1> SUFFICES ASSUME Init PROVE Order
  OBVIOUS
<1>1. <<>> \in Numbers /\ Len(<<>>) = 0 /\ 1..0 = {}
  BY EmptySeq DEF Numbers
<1>2. ch \in [Entry -> Numbers] /\ ch["current"] = <<>> /\ ch["dead"] = <<>>
  BY <1>1 DEF Init, Entry
<1>3. \A e \in Entry : ch[e] = <<>>
  BY DEF Init
<1>4. handled = <<>> /\ sent = 0 /\ poll = NoPoll /\ poll.pc = "idle"
  BY DEF Init, NoPoll
<1>5. sent \in 0..MaxSent /\ poll \in PollType
  BY <1>4, Members, ConstantsAssumption
<1>6. QED BY <1>1, <1>2, <1>3, <1>4, <1>5 DEF Order, Sorted, Below, Waiting

LEMMA OrderReplace ==
  ASSUME Order, NEW issued, Replace(issued)
  PROVE  Order'
<1>1. /\ poll \in PollType /\ ch \in [Entry -> Numbers]
      /\ "current" \in Entry /\ "dead" \in Entry
  BY DEF Order, Entry
<1>2. <<>> \in Numbers /\ Len(<<>>) = 0 /\ 1..0 = {}
  BY EmptySeq DEF Numbers
<1>3. /\ ch'["current"] = <<>>
      /\ ch'["dead"] = IF PollAtCurrent THEN ch["current"] ELSE ch["dead"]
      /\ ch' \in [Entry -> Numbers]
  BY <1>1, <1>2 DEF Replace, Entry
<1>4. /\ poll' \in PollType /\ poll'.pc = poll.pc /\ poll'.msg = poll.msg
      /\ poll'.tok = Dead(poll.tok)
  BY <1>1, DeadRecords DEF Replace
<1>5. UNCHANGED <<handled, sent>>
  BY DEF Replace
<1>6. poll.pc = "waiting" => poll'.tok = "dead" /\ (poll.tok = "current" \/ poll.tok = "dead")
  BY <1>4 DEF Order, Dead, Entry
<1>7. Sorted(ch'["current"]) /\ Sorted(ch'["dead"]) /\ Below(handled, ch'["current"])
  BY <1>2, <1>3 DEF Order, Sorted, Below
<1>8. \A e \in Entry : \A i \in 1..Len(ch'[e]) : ch'[e][i] <= sent
  BY <1>1, <1>2, <1>3 DEF Order, Entry
<1>9. poll'.pc = "waiting" => Below(handled, ch'["dead"]) /\ Below(ch'["dead"], ch'["current"])
  BY <1>2, <1>3, <1>4, <1>6 DEF Order, Below, Waiting, PollAtCurrent
<1>10. \A i \in 1..Len(ch'["current"]) : poll.msg < ch'["current"][i]
  BY <1>2, <1>3
<1>11. QED BY <1>1, <1>3, <1>4, <1>5, <1>6, <1>7, <1>8, <1>9, <1>10 DEF Order, Waiting

LEMMA OrderCrash == Order /\ Crash => Order'
<1> SUFFICES ASSUME Order, Crash PROVE Order'
  OBVIOUS
<1>1. poll \in PollType
  BY DEF Order
<1>2. <<>> \in Numbers /\ Len(<<>>) = 0 /\ 1..0 = {}
  BY EmptySeq DEF Numbers
<1>3. ch' \in [Entry -> Numbers] /\ \A e \in Entry : ch'[e] = <<>>
  BY <1>2 DEF Crash
<1>4. "current" \in Entry /\ "dead" \in Entry
  BY DEF Entry
<1>5. /\ poll' \in PollType /\ poll'.pc # "waiting"
      /\ poll'.pc = "message" => poll.pc = "message" /\ poll'.msg = poll.msg
  <2>1. /\ [NoPoll EXCEPT !.pc = "error"] \in PollType
        /\ [NoPoll EXCEPT !.pc = "error"].pc = "error"
    BY ConstantsAssumption DEF NoPoll, PollType, Token
  <2>2. QED BY <1>1, <2>1, DeadRecords DEF Crash
<1>6. UNCHANGED <<handled, sent>>
  BY DEF Crash
<1>7. QED BY <1>2, <1>3, <1>4, <1>5, <1>6 DEF Order, Sorted, Below, Waiting

\* A message leaves the channel e, for the poll or for nobody.
LEMMA OrderTake ==
  ASSUME Order, NEW e \in Entry, ch[e] # <<>>,
         ch' = [ch EXCEPT ![e] = Tail(@)], UNCHANGED <<handled, sent>>
  PROVE  /\ ch' \in [Entry -> Numbers]
         /\ Sorted(ch'["current"]) /\ Sorted(ch'["dead"])
         /\ \A d \in Entry : \A i \in 1..Len(ch'[d]) : ch'[d][i] <= sent'
         /\ \A d \in Entry : \A i \in 1..Len(ch'[d]) : \E j \in 1..Len(ch[d]) : ch'[d][i] = ch[d][j]
<1>1. /\ ch \in [Entry -> Numbers] /\ ch[e] \in Numbers
      /\ "current" \in Entry /\ "dead" \in Entry
  BY DEF Order, Entry
<1>2. Sorted(ch[e])
  BY DEF Order, Entry
<1>3. Sorted(Tail(ch[e])) /\ Tail(ch[e]) \in Numbers
  BY <1>1, <1>2, HeadAndTail, SortedTail
<1>4. ch' \in [Entry -> Numbers] /\ \A d \in Entry : ch'[d] = IF d = e THEN Tail(ch[e]) ELSE ch[d]
  BY <1>1, <1>3
<1>5. \A d \in Entry : \A i \in 1..Len(ch'[d]) : \E j \in 1..Len(ch[d]) : ch'[d][i] = ch[d][j]
  BY <1>1, <1>4, HeadAndTail
<1>6. Sorted(ch'["current"]) /\ Sorted(ch'["dead"])
  BY <1>1, <1>3, <1>4 DEF Order
<1>7. \A d \in Entry : \A i \in 1..Len(ch'[d]) : ch'[d][i] <= sent'
  BY <1>5 DEF Order
<1>8. QED BY <1>4, <1>5, <1>6, <1>7

LEMMA OrderDelivers == Order /\ ServerDelivers => Order'
<1> SUFFICES ASSUME Order, ServerDelivers PROVE Order'
  OBVIOUS
<1> DEFINE e == poll.tok
           m == Head(ch[e])
<1>1. /\ e \in Entry /\ Waiting(e) /\ ch[e] # <<>>
      /\ ch' = [ch EXCEPT ![e] = Tail(@)] /\ UNCHANGED <<handled, sent>>
      /\ poll' = [pc |-> "message", tok |-> "none", msg |-> m]
  BY DEF Order, ServerDelivers, Waiting
<1>2. /\ ch \in [Entry -> Numbers] /\ ch[e] \in Numbers /\ Sorted(ch[e])
      /\ "current" \in Entry /\ "dead" \in Entry /\ e \in {"current", "dead"}
  BY <1>1 DEF Order, Entry
<1> HIDE DEF e
<1>3. m \in 1..MaxSent /\ m = ch[e][1] /\ 1 \in 1..Len(ch[e])
  BY <1>1, <1>2, HeadAndTail
<1>4. \A i \in 1..Len(Tail(ch[e])) : m < Tail(ch[e])[i]
  BY <1>1, <1>2, SortedTail
<1> HIDE DEF m
<1>5. poll' \in PollType /\ poll'.pc = "message" /\ poll'.msg = m
  BY <1>1, <1>3 DEF PollType, Token
<1>6. m <= sent /\ \A i \in 1..Len(handled) : handled[i] < m
  BY <1>1, <1>2, <1>3 DEF Order, Below
<1>7. \A i \in 1..Len(ch'["current"]) : m < ch'["current"][i]
  <2>1. CASE e = "current"
    BY <1>1, <1>2, <1>4, <2>1
  <2>2. CASE e = "dead"
    BY <1>1, <1>2, <1>3, <2>2 DEF Order, Below
  <2>3. QED BY <1>2, <2>1, <2>2
<1>8. Below(handled, ch'["current"])
  BY <1>1, <1>2, OrderTake DEF Order, Below
<1>9. QED BY <1>1, <1>3, <1>5, <1>6, <1>7, <1>8, OrderTake DEF Order, Waiting

LEMMA OrderGhostTakes ==
  ASSUME Order, NEW e \in Entry, GhostTakes(e)
  PROVE  Order'
<1>1. /\ ch[e] # <<>> /\ ch' = [ch EXCEPT ![e] = Tail(@)]
      /\ UNCHANGED <<handled, sent, poll>>
  BY DEF GhostTakes, agent
<1>2. "current" \in Entry /\ "dead" \in Entry
  BY DEF Entry
<1>3. Below(handled, ch'["current"])
  BY <1>1, <1>2, OrderTake DEF Order, Below
<1>4. Waiting("dead") => Below(handled, ch'["dead"]) /\ Below(ch'["dead"], ch'["current"])
  BY <1>1, <1>2, OrderTake DEF Order, Below
<1>5. poll.pc = "message" => \A i \in 1..Len(ch'["current"]) : poll.msg < ch'["current"][i]
  BY <1>1, <1>2, OrderTake DEF Order
<1>6. QED BY <1>1, <1>3, <1>4, <1>5, OrderTake DEF Order, Waiting

\* Steps that touch no message: the poll goes where it carries none.
LEMMA OrderStable ==
  ASSUME Order, UNCHANGED <<handled, ch, sent>>, poll' \in PollType,
         \/ poll' = poll
         \/ poll'.pc \notin {"waiting", "message"}
         \/ poll'.pc = "waiting" /\ poll'.tok = "current"
  PROVE  Order'
BY DEF Order, Waiting, Entry

LEMMA OrderPoll == Order /\ token \in Token /\ PollStep => Order'
<1> SUFFICES ASSUME Order, token \in Token, PollStep PROVE Order'
  OBVIOUS
<1>1. poll \in PollType /\ NoPoll \in PollType /\ NoPoll.pc = "idle"
  BY Members DEF Order, NoPoll
<1>2. \A p \in {"null", "unauthorized", "error"} :
        [NoPoll EXCEPT !.pc = p] \in PollType /\ [NoPoll EXCEPT !.pc = p].pc = p
  BY <1>1 DEF PollType
<1>3. CASE PollStarts
  <2>1. poll' \in PollType /\ poll'.pc = "sent"
    BY <1>3, ConstantsAssumption DEF PollStarts, PollType
  <2>2. QED BY <1>3, <2>1, OrderStable DEF PollStarts, remote, entry
<1>4. CASE ServerLooksUp
  <2>1. /\ [poll EXCEPT !.pc = "waiting"] \in PollType
        /\ [poll EXCEPT !.pc = "waiting"].pc = "waiting"
        /\ [poll EXCEPT !.pc = "waiting"].tok = poll.tok
    BY <1>1 DEF PollType
  <2>2. poll' \in PollType /\ (poll'.pc = "unauthorized" \/ (poll'.pc = "waiting" /\ poll'.tok = "current"))
    BY <1>2, <1>4, <2>1 DEF ServerLooksUp
  <2>3. QED BY <1>4, <2>2, OrderStable DEF ServerLooksUp, remote, entry
<1>5. CASE ServerDelivers
  BY <1>5, OrderDelivers
<1>6. CASE ServerDeliversNull \/ PollTimesOut \/ PollFails
  <2>1. poll' \in PollType /\ poll'.pc \in {"null", "error"}
    BY <1>2, <1>6 DEF ServerDeliversNull, PollTimesOut, PollFails
  <2>2. UNCHANGED <<handled, ch, sent>>
    BY <1>6 DEF ServerDeliversNull, PollTimesOut, PollFails, remote, entry
  <2>3. QED BY <2>1, <2>2, OrderStable
<1>7. CASE PollReturns
  <2>1. UNCHANGED <<ch, sent>> /\ poll' \in PollType /\ poll'.pc = "idle"
    BY <1>1, <1>7 DEF PollReturns, remote, entry
  <2>2. CASE poll.pc = "message"
    <3> DEFINE m == poll.msg
    <3>1. handled' = Append(handled, m) /\ m \in 1..MaxSent /\ m <= sent
      BY <1>7, <2>2 DEF PollReturns, Order
    <3>2. handled \in Numbers /\ Sorted(handled) /\ \A i \in 1..Len(handled) : handled[i] < m
      BY <2>2 DEF Order
    <3> HIDE DEF m
    <3>3. handled' \in Numbers /\ Sorted(handled')
      BY <3>1, <3>2, SortedAppend
    <3>4. \A i \in 1..Len(handled') : handled'[i] = m \/ (i \in 1..Len(handled) /\ handled'[i] = handled[i])
      <4>1. /\ Len(handled') = Len(handled) + 1 /\ Len(handled) \in Nat
            /\ handled'[Len(handled) + 1] = m
            /\ \A i \in 1..Len(handled) : handled'[i] = handled[i]
        BY <3>1, <3>2, SortedAppend
      <4> HIDE DEF Numbers
      <4>2. QED BY <4>1
    <3>5. \A i \in 1..Len(handled') : handled'[i] <= sent
      BY <3>1, <3>4 DEF Order
    <3>6. Below(handled', ch["current"])
      BY <2>2, <3>1, <3>4 DEF Order, Below, m
    <3>7. QED BY <2>1, <3>3, <3>5, <3>6 DEF Order, Waiting
  <2>3. CASE poll.pc # "message"
    BY <1>7, <2>1, <2>3, OrderStable DEF PollReturns
  <2>4. QED BY <2>2, <2>3
<1>8. QED BY <1>3, <1>4, <1>5, <1>6, <1>7 DEF PollStep

LEMMA OrderRelay == Order /\ Relay => Order'
<1> SUFFICES ASSUME Order, Relay PROVE Order'
  OBVIOUS
<1> DEFINE q == ch["current"]
<1>1. /\ ch \in [Entry -> Numbers] /\ q \in Numbers /\ Sorted(q)
      /\ "current" \in Entry /\ "dead" \in Entry
  BY DEF Order, Entry
<1>2. /\ UNCHANGED <<handled, poll>> /\ sent \in 0..MaxSent /\ sent < MaxSent
      /\ sent' = sent + 1 /\ sent' \in 1..MaxSent /\ sent' \in 0..MaxSent
  BY ConstantsAssumption DEF Order, Relay, agent
<1>3. \A i \in 1..Len(q) : q[i] \in 1..MaxSent /\ q[i] <= sent
  BY <1>1, ElementOfSeq DEF Order, Numbers
<1>4. PICK p \in Numbers :
        /\ ch' = [ch EXCEPT !["current"] = p]
        /\ Sorted(p)
        /\ \A i \in 1..Len(p) : p[i] = sent' \/ (i \in 1..Len(q) /\ p[i] = q[i])
  <2>1. CASE Len(q) < ChCap
    <3> DEFINE a == Append(q, sent')
    <3>1. \A i \in 1..Len(q) : q[i] < sent'
      BY <1>2, <1>3
    <3>2. /\ a \in Numbers /\ Sorted(a) /\ Len(a) = Len(q) + 1 /\ Len(q) \in Nat
          /\ \A i \in 1..Len(q) : a[i] = q[i]
          /\ a[Len(q) + 1] = sent'
      BY <1>1, <1>2, <3>1, SortedAppend
    <3>3. ch' = [ch EXCEPT !["current"] = a]
      BY <1>2, <2>1 DEF Relay
    <3> HIDE DEF a, q
    <3>4. \A i \in 1..Len(a) : a[i] = sent' \/ (i \in 1..Len(q) /\ a[i] = q[i])
      BY <3>2
    <3>5. QED BY <3>2, <3>3, <3>4
  <2>2. CASE ~(Len(q) < ChCap)
    <3>1. ch' = [ch EXCEPT !["current"] = q]
      BY <2>2 DEF Relay
    <3>2. QED BY <1>1, <3>1
  <2>3. QED BY <2>1, <2>2
<1>5. /\ ch' \in [Entry -> Numbers] /\ ch'["current"] = p /\ ch'["dead"] = ch["dead"]
      /\ \A e \in Entry : e = "current" \/ e = "dead"
  BY <1>1, <1>4 DEF Entry
<1>6. \A i \in 1..Len(handled) : handled[i] <= sent
  BY DEF Order
<1>7. handled \in Numbers /\ \A i \in 1..Len(handled) : handled[i] \in 1..MaxSent
  BY ElementOfSeq DEF Order, Numbers
<1>8. ch["dead"] \in Numbers /\ \A i \in 1..Len(ch["dead"]) : ch["dead"][i] \in 1..MaxSent /\ ch["dead"][i] <= sent
  BY <1>1, ElementOfSeq DEF Order, Numbers
<1> HIDE DEF q
<1>9. /\ \A i \in 1..Len(p) : p[i] <= sent'
      /\ \A i \in 1..Len(handled) : handled[i] <= sent'
      /\ \A i \in 1..Len(ch["dead"]) : ch["dead"][i] <= sent'
  BY <1>2, <1>3, <1>4, <1>6, <1>7, <1>8
<1>10. \A e \in Entry : \A i \in 1..Len(ch'[e]) : ch'[e][i] <= sent'
  BY <1>5, <1>9
<1>11. Below(handled, p)
  BY <1>2, <1>4, <1>6, <1>7 DEF Order, Below, q
<1>12. Waiting("dead") => Below(handled, ch["dead"]) /\ Below(ch["dead"], p)
  BY <1>2, <1>4, <1>8 DEF Order, Below, q
<1>13. poll.pc = "message" => poll.msg <= sent' /\ \A i \in 1..Len(p) : poll.msg < p[i]
  BY <1>2, <1>4 DEF Order, q
<1>14. QED BY <1>1, <1>2, <1>4, <1>5, <1>9, <1>10, <1>11, <1>12, <1>13 DEF Order, Waiting

-----------------------------------------------------------------------------
(* The counters and the capacity of the channel.                            *)

Bounded ==
  /\ reconnectRunning \in BOOLEAN /\ up \in BOOLEAN /\ registered \in BOOLEAN
  /\ ch \in [Entry -> Numbers] /\ \A e \in Entry : Len(ch[e]) <= ChCap
  /\ ghosts \in [Entry -> 0..MaxGhosts]
  /\ late \in Nat /\ late <= faults /\ faults \in 0..MaxFaults

LEMMA InitBounded == Init => Bounded
<1> SUFFICES ASSUME Init PROVE Bounded
  OBVIOUS
<1>1. <<>> \in Numbers /\ Len(<<>>) = 0
  BY EmptySeq DEF Numbers
<1>2. ch \in [Entry -> Numbers] /\ \A e \in Entry : ch[e] = <<>>
  BY <1>1 DEF Init
<1>3. ghosts \in [Entry -> 0..MaxGhosts]
  BY ConstantsAssumption DEF Init
<1>4. late = 0 /\ faults = 0 /\ late \in Nat /\ late <= faults /\ faults \in 0..MaxFaults
  BY ConstantsAssumption DEF Init
<1>5. \A e \in Entry : Len(ch[e]) <= ChCap
  BY <1>1, <1>2, ConstantsAssumption
<1>6. QED BY <1>2, <1>3, <1>4, <1>5 DEF Init, Bounded

LEMMA BoundedFault == Bounded /\ Fault => faults' \in 0..MaxFaults /\ faults' = faults + 1 /\ faults' \in Nat
BY ConstantsAssumption DEF Bounded, Fault

LEMMA BoundedReplace ==
  ASSUME Bounded, NEW issued, Replace(issued),
         registered' \in BOOLEAN, late' \in Nat, late' <= faults', faults' \in 0..MaxFaults
  PROVE  Bounded'
<1>1. <<>> \in Numbers /\ Len(<<>>) <= ChCap
  BY EmptySeq, ConstantsAssumption DEF Numbers
<1>2. ch["current"] \in Numbers /\ ch["dead"] \in Numbers
  BY DEF Bounded, Entry
<1>3. /\ ch' \in [Entry -> Numbers] /\ ch'["current"] = <<>>
      /\ ch'["dead"] = IF PollAtCurrent THEN ch["current"] ELSE ch["dead"]
  BY <1>1, <1>2 DEF Replace, Entry
<1>4. \A e \in Entry : Len(ch'[e]) <= ChCap
  BY <1>1, <1>3 DEF Bounded, Entry
<1>5. ghosts' \in [Entry -> 0..MaxGhosts]
  BY ConstantsAssumption DEF Bounded, Replace, Entry
<1>6. QED BY <1>3, <1>4, <1>5 DEF Bounded, Replace

LEMMA BoundedAgent ==
  ASSUME Bounded, UNCHANGED <<up, entry>>, reconnectRunning' \in BOOLEAN,
         late' \in Nat, late' <= faults', faults' \in 0..MaxFaults
  PROVE  Bounded'
BY DEF Bounded, entry

LEMMA BoundedTake ==
  ASSUME Bounded, NEW e \in Entry, ch[e] # <<>>, ch' = [ch EXCEPT ![e] = Tail(@)],
         UNCHANGED <<reconnectRunning, up, registered, late, faults>>,
         ghosts' \in [Entry -> 0..MaxGhosts]
  PROVE  Bounded'
<1>1. /\ ch \in [Entry -> Numbers] /\ ch[e] \in Numbers /\ Len(ch[e]) <= ChCap
      /\ Tail(ch[e]) \in Numbers /\ Len(Tail(ch[e])) = Len(ch[e]) - 1 /\ Len(ch[e]) \in Nat
  BY HeadAndTail DEF Bounded
<1>2. Len(Tail(ch[e])) <= ChCap
  BY <1>1, ConstantsAssumption
<1>3. ch' \in [Entry -> Numbers] /\ \A d \in Entry : Len(ch'[d]) <= ChCap
  BY <1>1, <1>2 DEF Bounded
<1>4. QED BY <1>3 DEF Bounded

LEMMA BoundedGhosts ==
  ASSUME Bounded, NEW e \in Entry, ghosts[e] > 0
  PROVE  [ghosts EXCEPT ![e] = @ - 1] \in [Entry -> 0..MaxGhosts]
BY ConstantsAssumption DEF Bounded

LEMMA BoundedStep == Bounded /\ sent \in 0..MaxSent /\ Next => Bounded'
<1> SUFFICES ASSUME Bounded, sent \in 0..MaxSent, Next PROVE Bounded'
  OBVIOUS
<1>1. /\ reconnectRunning \in BOOLEAN /\ late \in Nat /\ late <= faults
      /\ faults \in 0..MaxFaults /\ faults \in Nat
  BY ConstantsAssumption DEF Bounded
<1>2. ASSUME NEW g \in Regs, RegStep(g) PROVE Bounded'
  <2>1. CASE ServerRegisters(g)
    BY <1>1, <2>1, BoundedReplace DEF ServerRegisters
  <2>2. CASE Adopt(g) \/ Retry(g) \/ ReconnectDone(g)
    BY <1>1, <2>2, BoundedAgent DEF Adopt, Retry, ReconnectDone, remote
  <2>3. CASE RegisterFails(g) \/ RegisterTimesOut(g)
    <3>1. UNCHANGED <<up, entry>> /\ reconnectRunning' \in BOOLEAN
      BY <1>1, <2>3 DEF RegisterFails, RegisterTimesOut
    <3>2. /\ faults' \in 0..MaxFaults /\ faults' \in Nat
          /\ late' \in Nat /\ late' <= faults'
      BY <1>1, <2>3, BoundedFault DEF RegisterFails, RegisterTimesOut
    <3>3. QED BY <3>1, <3>2, BoundedAgent
  <2>4. QED BY <1>2, <2>1, <2>2, <2>3 DEF RegStep
<1>3. ASSUME NEW c \in Callers, CallStep(c) PROVE Bounded'
  <2>1. UNCHANGED <<up, entry, late>>
    BY <1>3 DEF CallStep, Call, ServerAnswers, CallFails, CallReturns, remote
  <2>2. reconnectRunning' \in BOOLEAN
    BY <1>1, <1>3 DEF CallStep, Call, ServerAnswers, CallFails, CallReturns, TriggerReconnect
  <2>3. faults' \in 0..MaxFaults /\ faults' >= faults /\ faults' \in Nat
    <3>1. faults' = faults \/ Fault
      BY <1>3 DEF CallStep, Call, ServerAnswers, CallFails, CallReturns, remote
    <3>2. QED BY <1>1, <3>1, BoundedFault
  <2>4. QED BY <1>1, <2>1, <2>2, <2>3, BoundedAgent
<1>4. CASE PollStep
  <2>1. CASE ServerDelivers
    <3>1. ASSUME poll.tok \in Entry PROVE Bounded'
      BY <2>1, <3>1, BoundedTake DEF ServerDelivers, Bounded
    <3>2. ASSUME poll.tok \notin Entry PROVE Bounded'
      BY <2>1, <3>2 DEF ServerDelivers, Bounded
    <3>3. QED BY <3>1, <3>2
  <2>2. CASE PollTimesOut
    <3>1. ghosts' \in [Entry -> 0..MaxGhosts]
      <4>1. ghosts \in [Entry -> 0..MaxGhosts] /\ MaxGhosts \in Nat
        BY ConstantsAssumption DEF Bounded
      <4> DEFINE t == poll.tok
      <4>2. ghosts' = ghosts \/ (ghosts[t] < MaxGhosts /\ ghosts' = [ghosts EXCEPT ![t] = @ + 1])
        BY <2>2 DEF PollTimesOut
      <4> HIDE DEF t
      <4>3. CASE t \in Entry
        BY <4>1, <4>2, <4>3
      <4>4. CASE t \notin Entry
        BY <4>1, <4>2, <4>4
      <4>5. QED BY <4>3, <4>4
    <3>2. QED BY <2>2, <3>1 DEF PollTimesOut, Bounded
  <2>3. CASE PollStarts \/ ServerLooksUp \/ ServerDeliversNull \/ PollFails \/ PollReturns
    <3>1. UNCHANGED <<up, entry, late>>
      BY <2>3 DEF PollStarts, ServerLooksUp, ServerDeliversNull, PollFails, PollReturns, remote
    <3>2. reconnectRunning' \in BOOLEAN
      BY <1>1, <2>3 DEF PollStarts, ServerLooksUp, ServerDeliversNull, PollFails, PollReturns,
                        TriggerReconnect
    <3>3. faults' \in 0..MaxFaults /\ faults' >= faults /\ faults' \in Nat
      BY <1>1, <2>3, BoundedFault
         DEF PollStarts, ServerLooksUp, ServerDeliversNull, PollFails, PollReturns, remote
    <3>4. QED BY <1>1, <3>1, <3>2, <3>3, BoundedAgent
  <2>4. QED BY <1>4, <2>1, <2>2, <2>3 DEF PollStep
<1>5. CASE ServerRegistersLate
  <2>1. late' \in Nat /\ late' <= faults' /\ faults' \in 0..MaxFaults
    BY <1>1, <1>5 DEF ServerRegistersLate
  <2>2. QED BY <1>5, <2>1, BoundedReplace DEF ServerRegistersLate
<1>6. CASE Forget
  <2>1. late' \in Nat /\ late' <= faults' /\ faults' \in 0..MaxFaults
    BY <1>1, <1>6, BoundedFault DEF Forget
  <2>2. QED BY <1>6, <2>1, BoundedReplace DEF Forget
<1>7. CASE Crash
  <2>1. <<>> \in Numbers /\ Len(<<>>) <= ChCap
    BY EmptySeq, ConstantsAssumption DEF Numbers
  <2>2. faults' \in 0..MaxFaults /\ late' \in Nat /\ late' <= faults'
    BY <1>1, <1>7, BoundedFault DEF Crash
  <2>3. /\ ch' \in [Entry -> Numbers] /\ \A e \in Entry : Len(ch'[e]) <= ChCap
        /\ ghosts' \in [Entry -> 0..MaxGhosts]
    BY <1>7, <2>1, ConstantsAssumption DEF Crash
  <2>4. QED BY <1>1, <1>7, <2>2, <2>3 DEF Crash, Bounded
<1>8. CASE Restart
  BY <1>8 DEF Restart, Bounded, agent, entry
<1>9. CASE Relay
  <2>1. ch["current"] \in Numbers /\ Len(ch["current"]) \in Nat /\ "current" \in Entry
    BY LenProperties DEF Bounded, Numbers, Entry
  <2>2. PICK p \in Numbers : ch' = [ch EXCEPT !["current"] = p] /\ Len(p) <= ChCap
    <3>1. CASE Len(ch["current"]) < ChCap
      <4>1. sent + 1 \in 1..MaxSent
        BY <1>9, ConstantsAssumption DEF Relay
      <4>2. /\ Append(ch["current"], sent + 1) \in Numbers
            /\ Len(Append(ch["current"], sent + 1)) = Len(ch["current"]) + 1
        BY <2>1, <4>1, AppendProperties DEF Numbers
      <4>3. Len(Append(ch["current"], sent + 1)) <= ChCap
        BY <2>1, <3>1, <4>2, ConstantsAssumption
      <4>4. ch' = [ch EXCEPT !["current"] = Append(ch["current"], sent + 1)]
        BY <1>9, <3>1 DEF Relay
      <4>5. QED BY <4>2, <4>3, <4>4
    <3>2. CASE ~(Len(ch["current"]) < ChCap)
      BY <1>9, <2>1, <3>2 DEF Relay, Bounded
    <3>3. QED BY <3>1, <3>2
  <2>3. QED BY <1>9, <2>1, <2>2 DEF Relay, Bounded, agent
<1>10. ASSUME NEW e \in Entry, GhostTakes(e) \/ GhostEnds(e) PROVE Bounded'
  <2>1. CASE GhostTakes(e)
    BY <2>1, BoundedTake, BoundedGhosts DEF GhostTakes, agent
  <2>2. CASE GhostEnds(e)
    BY <2>2, BoundedGhosts DEF GhostEnds, Bounded, agent
  <2>3. QED BY <1>10, <2>1, <2>2
<1>11. QED BY <1>2, <1>3, <1>4, <1>5, <1>6, <1>7, <1>8, <1>9, <1>10 DEF Next, ServerStep

-----------------------------------------------------------------------------
Inv == Flight /\ Order /\ Bounded

LEMMA InitInv == Init => Inv
BY InitFlight, InitOrder, InitBounded DEF Inv

LEMMA NextInv == Inv /\ [Next]_vars => Inv'
<1> SUFFICES ASSUME Inv, [Next]_vars PROVE Inv'
  OBVIOUS
<1>1. Flight /\ Order /\ Bounded /\ token \in Token /\ sent \in 0..MaxSent
  BY DEF Inv, Flight, Order
<1>2. CASE UNCHANGED vars
  <2>1. UNCHANGED <<token, reg, call, poll, handled, reconnectRunning, up, registered, ch,
                    ghosts, late, sent, faults>>
    BY <1>2 DEF vars, agent, remote, entry
  <2>2. Flight'
    BY <1>1, <2>1 DEF Flight, FlagIsSet, MainIsFirst, SingleFlight
  <2>3. Order'
    BY <1>1, <2>1 DEF Order, Waiting
  <2>4. Bounded'
    BY <1>1, <2>1 DEF Bounded
  <2>5. QED BY <2>2, <2>3, <2>4 DEF Inv
<1>3. ASSUME NEW g \in Regs, RegStep(g) PROVE Inv'
  <2>1. Bounded' /\ Flight'
    BY <1>1, <1>3, BoundedStep, FlightReg DEF Next
  <2>2. CASE ServerRegisters(g)
    BY <1>1, <2>1, <2>2, OrderReplace DEF ServerRegisters, Inv
  <2>3. CASE ~ServerRegisters(g)
    <3>1. UNCHANGED <<poll, handled, ch, sent>>
      BY <1>3, <2>3 DEF RegStep, Adopt, RegisterFails, RegisterTimesOut, Retry, ReconnectDone,
                        remote, entry
    <3>2. poll' \in PollType
      BY <2>1 DEF Flight
    <3>3. QED BY <1>1, <2>1, <3>1, <3>2, OrderStable DEF Inv
  <2>4. QED BY <2>2, <2>3
<1>4. ASSUME NEW c \in Callers, CallStep(c) PROVE Inv'
  <2>1. Bounded' /\ Flight'
    BY <1>1, <1>4, BoundedStep, FlightCall DEF Next
  <2>2. UNCHANGED <<poll, handled, ch, sent>>
    BY <1>4 DEF CallStep, Call, ServerAnswers, CallFails, CallReturns, remote, entry
  <2>3. poll' \in PollType
    BY <2>1 DEF Flight
  <2>4. QED BY <1>1, <2>1, <2>2, <2>3, OrderStable DEF Inv
<1>5. CASE PollStep
  <2>1. Bounded' /\ Order'
    BY <1>1, <1>5, BoundedStep, OrderPoll DEF Next
  <2>2. poll' \in PollType
    BY <2>1 DEF Order
  <2>3. QED BY <1>1, <1>5, <2>1, <2>2, FlightPoll DEF Inv
<1>6. CASE ServerStep
  <2>1. Bounded' /\ Flight'
    BY <1>1, <1>6, BoundedStep, FlightServer DEF Next
  <2>2. CASE ServerRegistersLate \/ Forget
    BY <1>1, <2>1, <2>2, OrderReplace DEF ServerRegistersLate, Forget, Inv
  <2>3. CASE Crash
    BY <1>1, <2>1, <2>3, OrderCrash DEF Inv
  <2>4. CASE Relay
    BY <1>1, <2>1, <2>4, OrderRelay DEF Inv
  <2>5. CASE Restart \/ \E e \in Entry : GhostEnds(e)
    <3>1. UNCHANGED <<poll, handled, ch, sent>>
      BY <2>5 DEF Restart, GhostEnds, agent, entry
    <3>2. poll' \in PollType
      BY <2>1 DEF Flight
    <3>3. QED BY <1>1, <2>1, <3>1, <3>2, OrderStable DEF Inv
  <2>6. CASE \E e \in Entry : GhostTakes(e)
    BY <1>1, <2>1, <2>6, OrderGhostTakes DEF Inv
  <2>7. QED BY <1>6, <2>2, <2>3, <2>4, <2>5, <2>6 DEF ServerStep
<1>7. QED BY <1>2, <1>3, <1>4, <1>5, <1>6 DEF Next

\* What the agent's goroutines, the polls the server still holds and the entries it
\* knows have to do with each other, at every step (cmd/agent/main.go 480-690).
THEOREM AlwaysInv == Spec => []Inv
<1>1. QED BY InitInv, NextInv, PTL DEF Spec

\* One goroutine registers at a time, whichever of main(), heartbeat, poll and
\* senders meet the outage (triggerReconnect and its flag).
THEOREM OneRegistersAtATime == Spec => []SingleFlight
<1>1. Inv => SingleFlight
  BY DEF Inv, Flight
<1>2. QED BY <1>1, AlwaysInv, PTL

\* The controllers' messages are handled in the order sent and at most once,
\* whatever polls are given up and entries replaced (pollMessage, handleAgentPoll).
THEOREM MessagesHandledInOrder == Spec => []HandledInOrder
<1>1. Inv => HandledInOrder
  BY DEF Inv, Order, Sorted, HandledInOrder
<1>2. QED BY <1>1, AlwaysInv, PTL

\* Every variable keeps its type, and the channel its capacity.
THEOREM RegistrationTypeCorrect == Spec => []TypeOK
<1>1. Inv => TypeOK
  <2> SUFFICES ASSUME Inv PROVE TypeOK
    OBVIOUS
  <2>1. late \in 0..MaxFaults
    BY ConstantsAssumption DEF Inv, Bounded
  <2>2. ch \in [Entry -> {q \in Seq(1..MaxSent) : Len(q) <= ChCap}]
    BY DEF Inv, Bounded, Numbers
  <2>3. QED BY <2>1, <2>2 DEF Inv, Flight, Order, Bounded, Numbers, TypeOK
<1>2. QED BY <1>1, AlwaysInv, PTL
=============================================================================
