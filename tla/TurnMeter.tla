------------------------------ MODULE TurnMeter ------------------------------
(***************************************************************************)
(* Metering of the embedded TURN relay (cmd/signaling/turn.go) for one     *)
(* user: what the user's allocations relay, what is billed to the user in  *)
(* the store (store.go), and the cutting off of a user out of quota.       *)
(*                                                                         *)
(* The TURN library allocates, relays and closes; the meter's flush loop   *)
(* and every Close bill with flushOne, which holds no lock while it runs.  *)
(* Bytes are counted in units.  A new month and the administrator's reset  *)
(* do the same to the usage.  Rate limiting only delays.                   *)
(***************************************************************************)
EXTENDS Naturals

CONSTANTS
  Allocs,     \* allocations of the user, each with its allocMeter
  Ports,      \* relay ports; a port whose socket is closed may be given again
  Nil,        \* no allocation
  Loop,       \* the flush loop, beside the allocations the other flusher
  Quota,      \* MonthlyQuotaBytes; 0: no limit
  MaxTotal,   \* bound: units one allocation relays
  MaxFail     \* bound: times the store cannot be saved

ASSUME MeterAssumption ==
  /\ Nil \notin Allocs /\ Loop \notin Allocs
  /\ Quota \in Nat /\ MaxTotal \in Nat /\ MaxFail \in Nat

Flushers == Allocs \cup {Loop}

VARIABLES
  account,    \* the user is in the store
  used,       \* UserRecord.UsedBytes
  failed,     \* saves that failed
  stage,      \* an allocation: asked for, its socket made, quota read, live, closing, gone
  socket,     \* its relay socket
  port,       \* the port of the socket
  quotaRead,  \* OnAllocationCreated: exhausted, as read from the store
  attached,   \* allocMeter.userID is set
  exhausted, total, flushed,     \* allocMeter
  allocs,     \* turnMeter.allocs
  job,        \* flushOne as run by each flusher
  todo,       \* flushAll: the snapshot still to be visited
  billed,     \* history: units of an allocation added to the usage
  due         \* history: its total when its meter was taken from the map

storeVars == <<account, used, failed>>
allocVars == <<stage, socket, port, quotaRead>>
meterVars == <<attached, exhausted, total, flushed, allocs>>
vars == <<storeVars, allocVars, meterVars, job, todo, billed, due>>

Stages == {"none", "asked", "socket", "quota", "live", "closing", "gone"}
Work(pc, am) == [pc |-> pc, am |-> am, new |-> 0, old |-> 0]
NoJob == Work("idle", Nil)
Job == [pc : {"idle", "load", "delta", "bill", "mark", "after"}, am : Allocs \cup {Nil},
        new : Nat, old : Nat]

TypeOK ==
  /\ account \in BOOLEAN /\ used \in Nat /\ failed \in 0..MaxFail
  /\ stage \in [Allocs -> Stages]
  /\ socket \in [Allocs -> {"none", "open", "closed"}]
  /\ port \in [Allocs -> Ports]
  /\ quotaRead \in [Allocs -> BOOLEAN]
  /\ attached \in [Allocs -> BOOLEAN]
  /\ exhausted \in [Allocs -> BOOLEAN]
  /\ total \in [Allocs -> 0..MaxTotal]
  /\ flushed \in [Allocs -> Nat]
  /\ allocs \in [Ports -> Allocs \cup {Nil}]
  /\ job \in [Flushers -> Job]
  /\ todo \in SUBSET Allocs
  /\ billed \in [Allocs -> Nat]
  /\ due \in [Allocs -> Nat]

Init ==
  /\ account = TRUE /\ used = 0 /\ failed = 0
  /\ stage = [a \in Allocs |-> "none"]
  /\ socket = [a \in Allocs |-> "none"]
  /\ port \in [Allocs -> Ports]
  /\ quotaRead = [a \in Allocs |-> FALSE]
  /\ attached = [a \in Allocs |-> FALSE]
  /\ exhausted = [a \in Allocs |-> FALSE]
  /\ total = [a \in Allocs |-> 0]
  /\ flushed = [a \in Allocs |-> 0]
  /\ allocs = [p \in Ports |-> Nil]
  /\ job = [f \in Flushers |-> NoJob]
  /\ todo = {}
  /\ billed = [a \in Allocs |-> 0]
  /\ due = [a \in Allocs |-> 0]

\* UserQuota: a user who is not there has no quota to exhaust.
Exhausted == account /\ Quota > 0 /\ used >= Quota

Listed(a) == stage[a] \in {"socket", "quota", "live"} /\ allocs[port[a]] = a

-----------------------------------------------------------------------------
\* The store.

ResetUsage ==
  /\ account /\ used # 0
  /\ used' = 0
  /\ UNCHANGED <<account, failed, allocVars, meterVars, job, todo, billed, due>>

DeleteUser ==
  /\ account
  /\ account' = FALSE
  /\ UNCHANGED <<used, failed, allocVars, meterVars, job, todo, billed, due>>

-----------------------------------------------------------------------------
\* An allocation.

\* quotaHandler
AskQuota(a) ==
  /\ stage[a] = "none" /\ ~Exhausted
  /\ stage' = [stage EXCEPT ![a] = "asked"]
  /\ UNCHANGED <<storeVars, socket, port, quotaRead, meterVars, job, todo, billed, due>>

\* The system gives a port whose socket is closed; the meter is kept under it.
AllocatePacketConn(a) ==
  /\ stage[a] = "asked"
  /\ \A b \in Allocs : socket[b] = "open" => port[b] # port[a]
  /\ stage' = [stage EXCEPT ![a] = "socket"]
  /\ socket' = [socket EXCEPT ![a] = "open"]
  /\ allocs' = [allocs EXCEPT ![port[a]] = a]
  /\ UNCHANGED <<storeVars, port, quotaRead, attached, exhausted, total, flushed, job, todo,
                 billed, due>>

\* OnAllocationCreated reads the quota, then attaches whatever the map holds.
ReadQuota(a) ==
  /\ stage[a] = "socket"
  /\ stage' = [stage EXCEPT ![a] = "quota"]
  /\ quotaRead' = [quotaRead EXCEPT ![a] = Exhausted]
  /\ UNCHANGED <<storeVars, socket, port, meterVars, job, todo, billed, due>>

Attach(a) ==
  /\ stage[a] = "quota"
  /\ stage' = [stage EXCEPT ![a] = "live"]
  /\ LET am == allocs[port[a]]
     IN IF am = Nil
        THEN UNCHANGED <<attached, exhausted>>
        ELSE /\ attached' = [attached EXCEPT ![am] = TRUE]
             /\ exhausted' = [exhausted EXCEPT ![am] = quotaRead[a]]
  /\ UNCHANGED <<storeVars, socket, port, quotaRead, total, flushed, allocs, job, todo, billed, due>>

Relay(a) ==
  /\ stage[a] \in {"live", "closing"} /\ socket[a] = "open"
  /\ total[a] < MaxTotal
  /\ total' = [total EXCEPT ![a] = @ + 1]
  /\ UNCHANGED <<storeVars, allocVars, attached, exhausted, flushed, allocs, job, todo, billed, due>>

WriteTo(a) == ~exhausted[a] /\ Relay(a)
ReadFrom(a) == Relay(a)

\* Mutant: the meter is dropped without a last settlement.
CloseRemove_NoFlush(a) ==
  /\ stage[a] = "live"
  /\ stage' = [stage EXCEPT ![a] = "closing"]
  /\ allocs' = [allocs EXCEPT ![port[a]] = Nil]
  /\ job' = [job EXCEPT ![a] = Work("after", Nil)]
  /\ due' = IF allocs[port[a]] = Nil THEN due
            ELSE [due EXCEPT ![allocs[port[a]]] = total[allocs[port[a]]]]
  /\ UNCHANGED <<storeVars, socket, port, quotaRead, attached, exhausted, total, flushed, todo, billed>>

\* Close, called by the library: what is under the port is taken from the map
\* and settled.
CloseRemove(a) ==
  /\ stage[a] = "live"
  /\ stage' = [stage EXCEPT ![a] = "closing"]
  /\ allocs' = [allocs EXCEPT ![port[a]] = Nil]
  /\ LET am == allocs[port[a]]
     IN IF am = Nil
        THEN /\ job' = [job EXCEPT ![a] = Work("after", Nil)]
             /\ UNCHANGED due
        ELSE /\ job' = [job EXCEPT ![a] = Work("load", am)]
             /\ due' = [due EXCEPT ![am] = total[am]]
  /\ UNCHANGED <<storeVars, socket, port, quotaRead, attached, exhausted, total, flushed, todo, billed>>

CloseSocket(a) ==
  /\ stage[a] = "closing" /\ job[a].pc = "after"
  /\ stage' = [stage EXCEPT ![a] = "gone"]
  /\ socket' = [socket EXCEPT ![a] = "closed"]
  /\ job' = [job EXCEPT ![a] = NoJob]
  /\ UNCHANGED <<storeVars, port, quotaRead, meterVars, todo, billed, due>>

-----------------------------------------------------------------------------
\* flushOne, by the flush loop or by a Close.

\* A meter that has no user yet is left alone.
FlushLoad(f) ==
  /\ job[f].pc = "load"
  /\ LET am == job[f].am
     IN job' = [job EXCEPT ![f] = IF attached[am] THEN [@ EXCEPT !.pc = "delta", !.new = total[am]]
                                                  ELSE [@ EXCEPT !.pc = "after"]]
  /\ UNCHANGED <<storeVars, allocVars, meterVars, todo, billed, due>>

\* Mutant: the early return is dropped.
FlushDelta_AnyDelta(f) ==
  /\ job[f].pc = "delta"
  /\ job' = [job EXCEPT ![f].pc = "bill", ![f].old = flushed[job[f].am]]
  /\ UNCHANGED <<storeVars, allocVars, meterVars, todo, billed, due>>

\* Nothing new since the last settlement: nothing to bill.
FlushDelta(f) ==
  /\ job[f].pc = "delta"
  /\ LET settled == flushed[job[f].am]
     IN job' = [job EXCEPT ![f] = IF job[f].new > settled THEN [@ EXCEPT !.pc = "bill", !.old = settled]
                                                          ELSE [@ EXCEPT !.pc = "after"]]
  /\ UNCHANGED <<storeVars, allocVars, meterVars, todo, billed, due>>

\* AddUserUsage: the usage grows in memory before it is saved.
AddUsage(f) ==
  /\ used' = used + (job[f].new - job[f].old)
  /\ billed' = [billed EXCEPT ![job[f].am] = @ + (job[f].new - job[f].old)]

FlushBill(f) ==
  /\ job[f].pc = "bill" /\ account
  /\ AddUsage(f)
  /\ job' = [job EXCEPT ![f].pc = "mark"]
  /\ UNCHANGED <<account, failed, allocVars, meterVars, todo, due>>

FlushBillUnsaved(f) ==
  /\ job[f].pc = "bill" /\ account
  /\ failed < MaxFail
  /\ AddUsage(f)
  /\ failed' = failed + 1
  /\ job' = [job EXCEPT ![f].pc = "after"]
  /\ UNCHANGED <<account, allocVars, meterVars, todo, due>>

\* Mutant: the error of AddUserUsage is ignored.
FlushBillNobody_ErrorIgnored(f) ==
  /\ job[f].pc = "bill" /\ ~account
  /\ job' = [job EXCEPT ![f].pc = "mark"]
  /\ UNCHANGED <<storeVars, allocVars, meterVars, todo, billed, due>>

FlushBillNobody(f) ==
  /\ job[f].pc = "bill" /\ ~account
  /\ job' = [job EXCEPT ![f].pc = "after"]
  /\ UNCHANGED <<storeVars, allocVars, meterVars, todo, billed, due>>

\* Mutant: what was relayed meanwhile is marked as settled too.
FlushMark_Reread(f) ==
  /\ job[f].pc = "mark"
  /\ flushed' = [flushed EXCEPT ![job[f].am] = total[job[f].am]]
  /\ job' = [job EXCEPT ![f].pc = "after"]
  /\ UNCHANGED <<storeVars, allocVars, attached, exhausted, total, allocs, todo, billed, due>>

FlushMark(f) ==
  /\ job[f].pc = "mark"
  /\ flushed' = [flushed EXCEPT ![job[f].am] = job[f].new]
  /\ job' = [job EXCEPT ![f].pc = "after"]
  /\ UNCHANGED <<storeVars, allocVars, attached, exhausted, total, allocs, todo, billed, due>>

-----------------------------------------------------------------------------
\* flushAll, every interval.

LoopTick ==
  /\ job[Loop].pc = "idle" /\ todo = {}
  /\ todo' = {allocs[p] : p \in Ports} \ {Nil}
  /\ UNCHANGED <<storeVars, allocVars, meterVars, job, billed, due>>

LoopNext(a) ==
  /\ job[Loop].pc = "idle" /\ a \in todo
  /\ todo' = todo \ {a}
  /\ job' = [job EXCEPT ![Loop] = Work("load", a)]
  /\ UNCHANGED <<storeVars, allocVars, meterVars, billed, due>>

\* Mutant: the socket is left to the library.
LoopCheck_NotClosed ==
  /\ job[Loop].pc = "after"
  /\ exhausted' = IF attached[job[Loop].am] /\ Exhausted
                  THEN [exhausted EXCEPT ![job[Loop].am] = TRUE] ELSE exhausted
  /\ job' = [job EXCEPT ![Loop] = NoJob]
  /\ UNCHANGED <<storeVars, allocVars, attached, total, flushed, allocs, todo, billed, due>>

\* An exhausted user's allocation is cut: its socket is closed behind the
\* library's back.
LoopCheck ==
  /\ job[Loop].pc = "after"
  /\ IF attached[job[Loop].am] /\ Exhausted
     THEN /\ exhausted' = [exhausted EXCEPT ![job[Loop].am] = TRUE]
          /\ socket' = [socket EXCEPT ![job[Loop].am] = "closed"]
     ELSE UNCHANGED <<exhausted, socket>>
  /\ job' = [job EXCEPT ![Loop] = NoJob]
  /\ UNCHANGED <<storeVars, stage, port, quotaRead, attached, total, flushed, allocs, todo, billed, due>>

-----------------------------------------------------------------------------
Flush(f) ==
  \/ FlushLoad(f) \/ FlushDelta(f) \/ FlushMark(f)
  \/ FlushBill(f) \/ FlushBillUnsaved(f) \/ FlushBillNobody(f)

LoopStep == LoopTick \/ (\E a \in Allocs : LoopNext(a)) \/ Flush(Loop) \/ LoopCheck

Next ==
  \/ ResetUsage \/ DeleteUser
  \/ \E a \in Allocs : \/ AskQuota(a) \/ AllocatePacketConn(a) \/ ReadQuota(a) \/ Attach(a)
                       \/ WriteTo(a) \/ ReadFrom(a) \/ CloseRemove(a) \/ CloseSocket(a)
                       \/ Flush(a)
  \/ LoopStep

Spec == Init /\ [][Next]_vars

\* The ticker goes on, so the flush loop does; nothing else is owed.
LiveSpec == Spec /\ WF_vars(LoopStep)

-----------------------------------------------------------------------------
(***************************************************************************)
(* Properties                                                              *)
(***************************************************************************)

\* What a meter holds for settled was billed (turn.go 357-371), although
\* flushOne runs in two goroutines at once and may set flushed back.
SettledIsBilled ==
  \A a \in Allocs : flushed[a] <= billed[a] /\ flushed[a] <= total[a]

\* When an allocation is gone, at least what it had relayed when its meter was
\* taken from the map was billed (turn.go 344-354), unless its user is gone.
ClosedIsBilled ==
  account => \A a \in Allocs :
    attached[a] /\ (\A f \in Flushers : job[f].am # a) => billed[a] >= due[a]

\* A user out of quota is cut off (turn.go 403-405): an allocation in the map
\* loses its socket, unless it leaves the map or the user has quota again.
ExhaustedIsCut ==
  \A a \in Allocs :
    (Exhausted /\ Listed(a) /\ attached[a])
      ~> (socket[a] # "open" \/ ~Listed(a) \/ ~Exhausted)

\* A relay that works is metered, limited and cut (turn.go 450): until it is
\* closed its meter is in the map.
OpenRelayIsMetered ==
  \A a \in Allocs : stage[a] = "live" /\ socket[a] = "open" => Listed(a)
=============================================================================
