--------------------------- MODULE TurnMeterProofs ---------------------------
(***************************************************************************)
(* Proofs about TurnMeter, for every set of allocations and ports, every   *)
(* quota and every amount relayed.                                         *)
(***************************************************************************)
EXTENDS TurnMeter, TLAPS

\* A flusher knows its meter, and what it is about to bill was relayed; what it
\* starts from and what it is about to mark was billed.
JobsSound ==
  \A f \in Flushers :
    LET j == job[f]
    IN /\ j.pc \in {"load", "delta", "bill", "mark"} => j.am \in Allocs
       /\ j.pc \in {"delta", "bill", "mark"} => j.new <= total[j.am]
       /\ j.pc = "bill" => j.old < j.new /\ j.old <= billed[j.am]
       /\ j.pc = "mark" => j.new <= billed[j.am]

\* Only a Close that runs has work to do.
ClosersIdle == \A a \in Allocs : stage[a] # "closing" => job[a].pc = "idle"

\* A meter taken from the map, or not yet in it, stays out of it.
DueIsOut ==
  /\ \A p \in Ports : allocs[p] # Nil => /\ port[allocs[p]] = p
                                         /\ due[allocs[p]] = 0
                                         /\ stage[allocs[p]] \notin {"none", "asked"}
  /\ \A a \in Allocs : stage[a] \in {"none", "asked"} => due[a] = 0
  /\ \A a \in Allocs : due[a] <= total[a]

\* A flusher on its way to bill at least what is due.
WillBill(f, a) ==
  /\ job[f].am = a
  /\ \/ job[f].pc = "load"
     \/ job[f].pc \in {"delta", "bill"} /\ due[a] <= job[f].new

DueIsBilled ==
  account => \A a \in Allocs :
    attached[a] => due[a] <= billed[a] \/ \E f \in Flushers : WillBill(f, a)

Inv == TypeOK /\ SettledIsBilled /\ JobsSound /\ ClosersIdle /\ DueIsOut /\ DueIsBilled

\* Numbers are natural numbers, and fields have their types.
LEMMA Typed ==
  ASSUME Inv
  PROVE  /\ MaxTotal \in Nat /\ MaxFail \in Nat /\ Quota \in Nat /\ used \in Nat /\ failed \in Nat
         /\ \A a \in Allocs : /\ total[a] \in Nat /\ flushed[a] \in Nat /\ billed[a] \in Nat
                              /\ due[a] \in Nat /\ a # Nil /\ a # Loop /\ a \in Flushers
                              /\ port[a] \in Ports
         /\ Loop \in Flushers
         /\ \A p \in Ports : allocs[p] # Nil => allocs[p] \in Allocs
         /\ \A f \in Flushers : /\ job[f] \in Job
                                /\ job[f].new \in Nat /\ job[f].old \in Nat
                                /\ job[f].am \in Allocs \cup {Nil}
<1>1. \A f \in Flushers : job[f] \in Job
  BY DEF Inv, TypeOK
<1>2. \A f \in Flushers : /\ job[f].new \in Nat /\ job[f].old \in Nat
                          /\ job[f].am \in Allocs \cup {Nil}
  BY <1>1 DEF Job
<1>3. \A a \in Allocs : total[a] \in Nat
  BY MeterAssumption DEF Inv, TypeOK
<1>4. failed \in Nat
  BY MeterAssumption DEF Inv, TypeOK
<1>5. QED BY <1>1, <1>2, <1>3, <1>4, MeterAssumption DEF Inv, TypeOK, Flushers

\* New work of a flusher.
LEMMA WorkIsJob ==
  ASSUME NEW a \in Allocs \cup {Nil}
  PROVE  /\ Work("after", a) \in Job /\ Work("load", a) \in Job /\ NoJob \in Job
         /\ Work("load", a).pc = "load" /\ Work("load", a).am = a
         /\ Work("after", a).pc = "after" /\ NoJob.pc = "idle"
BY DEF Work, Job, NoJob

\* A step of one flusher leaves the others' work alone.
LEMMA OneJob ==
  ASSUME Inv, NEW f \in Flushers, NEW w \in Job, job' = [job EXCEPT ![f] = w]
  PROVE  /\ job' \in [Flushers -> Job]
         /\ job'[f] = w
         /\ \A g \in Flushers : g # f => job'[g] = job[g]
BY DEF Inv, TypeOK

LEMMA InitInv == Init => Inv
<1> SUFFICES ASSUME Init PROVE Inv
  OBVIOUS
<1>1. NoJob \in Job /\ NoJob.pc = "idle"
  BY DEF NoJob, Work, Job
<1>2. TypeOK
  <2>1. /\ stage \in [Allocs -> Stages] /\ socket \in [Allocs -> {"none", "open", "closed"}]
        /\ port \in [Allocs -> Ports] /\ allocs \in [Ports -> Allocs \cup {Nil}]
        /\ quotaRead \in [Allocs -> BOOLEAN] /\ attached \in [Allocs -> BOOLEAN]
        /\ exhausted \in [Allocs -> BOOLEAN]
    BY DEF Init, Stages
  <2>2. /\ total \in [Allocs -> 0..MaxTotal] /\ flushed \in [Allocs -> Nat]
        /\ billed \in [Allocs -> Nat] /\ due \in [Allocs -> Nat]
        /\ used \in Nat /\ failed \in 0..MaxFail
    BY MeterAssumption DEF Init
  <2>3. job \in [Flushers -> Job]
    BY <1>1 DEF Init
  <2>4. account \in BOOLEAN
    BY DEF Init
  <2>5. todo \in SUBSET Allocs
    BY DEF Init
  <2>6. QED BY <2>1, <2>2, <2>3, <2>4, <2>5 DEF TypeOK
<1>3. SettledIsBilled
  <2>1. \A a \in Allocs : flushed[a] = 0 /\ billed[a] = 0 /\ total[a] = 0
    BY DEF Init
  <2>2. 0 <= 0
    OBVIOUS
  <2>3. \A a \in Allocs : flushed[a] <= billed[a] /\ flushed[a] <= total[a]
    BY <2>1, <2>2, Zenon
  <2>4. QED BY <2>3 DEF SettledIsBilled
<1>4. JobsSound /\ ClosersIdle
  <2>1. \A f \in Flushers : job[f].pc = "idle"
    BY <1>1 DEF Init
  <2>2. \A a \in Allocs : a \in Flushers
    BY DEF Flushers
  <2>3. JobsSound
    BY <2>1 DEF JobsSound
  <2>4. ClosersIdle
    BY <2>1, <2>2 DEF ClosersIdle
  <2>5. QED BY <2>3, <2>4
<1>5. DueIsOut
  BY DEF Init, DueIsOut
<1>6. DueIsBilled
  BY DEF Init, DueIsBilled
<1>7. QED BY <1>2, <1>3, <1>4, <1>5, <1>6 DEF Inv

-----------------------------------------------------------------------------
(* Steps that touch neither the meters' numbers nor the work of a flusher. *)

LEMMA StoreStep ==
  ASSUME Inv, ResetUsage \/ DeleteUser
  PROVE  Inv'
<1> USE DEF ResetUsage, DeleteUser, allocVars, meterVars
<1>1. TypeOK'
  <2>1. account' \in BOOLEAN
    BY DEF Inv, TypeOK
  <2>2. used' \in Nat
    BY DEF Inv, TypeOK
  <2>3. UNCHANGED <<failed, stage, socket, port, quotaRead, attached, exhausted, total, flushed,
                    allocs, job, todo, billed, due>>
    OBVIOUS
  <2>4. QED BY <2>1, <2>2, <2>3 DEF Inv, TypeOK
<1>2. SettledIsBilled' /\ JobsSound' /\ ClosersIdle' /\ DueIsOut'
  BY DEF Inv, SettledIsBilled, JobsSound, ClosersIdle, DueIsOut
<1>3. DueIsBilled'
  BY DEF Inv, DueIsBilled, WillBill
<1>4. QED BY <1>1, <1>2, <1>3 DEF Inv

\* An allocation on its way to be live, the map apart.
LEMMA Progresses ==
  ASSUME Inv, NEW a \in Allocs, NEW x \in {"asked", "socket", "quota"},
         stage[a] # "closing",
         x = "asked" => stage[a] = "none",
         stage' = [stage EXCEPT ![a] = x],
         UNCHANGED <<account, port, total, flushed, attached, job, billed, due>>
  PROVE  /\ stage' \in [Allocs -> Stages]
         /\ SettledIsBilled' /\ JobsSound' /\ ClosersIdle' /\ DueIsBilled'
         /\ \A b \in Allocs : stage'[b] \in {"none", "asked"} => stage[b] \in {"none", "asked"}
         /\ \A b \in Allocs : stage[b] \notin {"none", "asked"} => stage'[b] \notin {"none", "asked"}
<1>1. stage \in [Allocs -> Stages]
  BY DEF Inv, TypeOK
<1>2. /\ stage' \in [Allocs -> Stages]
      /\ stage'[a] = x
      /\ \A b \in Allocs : b # a => stage'[b] = stage[b]
  BY <1>1 DEF Stages
<1>3. SettledIsBilled' /\ JobsSound' /\ DueIsBilled'
  BY DEF Inv, SettledIsBilled, JobsSound, DueIsBilled, WillBill
<1>4. ClosersIdle'
  BY <1>2 DEF Inv, ClosersIdle
<1>5. x = "asked" => stage[a] \in {"none", "asked"}
  OBVIOUS
<1>6. x # "asked" => x \notin {"none", "asked"}
  OBVIOUS
<1>7. QED BY <1>2, <1>3, <1>4, <1>5, <1>6

LEMMA AskQuotaInv ==
  ASSUME Inv, NEW a \in Allocs, AskQuota(a)
  PROVE  Inv'
<1>1. /\ stage' \in [Allocs -> Stages]
      /\ SettledIsBilled' /\ JobsSound' /\ ClosersIdle' /\ DueIsBilled'
      /\ \A b \in Allocs : stage'[b] \in {"none", "asked"} => stage[b] \in {"none", "asked"}
      /\ \A b \in Allocs : b # a => stage'[b] = stage[b]
  <2>1. UNCHANGED <<account, port, total, flushed, attached, job, billed, due>>
    BY DEF AskQuota, storeVars, meterVars
  <2>2. stage[a] = "none" /\ stage' = [stage EXCEPT ![a] = "asked"]
    BY DEF AskQuota
  <2>3. \A b \in Allocs : b # a => stage'[b] = stage[b]
    BY <2>2 DEF Inv, TypeOK
  <2>4. QED BY <2>1, <2>2, <2>3, Progresses
<1>2. TypeOK'
  BY <1>1 DEF AskQuota, Inv, TypeOK, storeVars, meterVars
<1>3. DueIsOut'
  <2>1. \A p \in Ports : allocs[p] # Nil => allocs[p] # a
    BY DEF AskQuota, Inv, DueIsOut
  <2>2. QED BY <1>1, <2>1, Typed DEF AskQuota, Inv, DueIsOut, meterVars
<1>4. QED BY <1>1, <1>2, <1>3 DEF Inv

LEMMA AllocateInv ==
  ASSUME Inv, NEW a \in Allocs, AllocatePacketConn(a)
  PROVE  Inv'
<1> USE Typed
<1>1. UNCHANGED <<account, port, total, flushed, attached, job, billed, due>>
  BY DEF AllocatePacketConn, storeVars
<1>2. /\ stage[a] = "asked" /\ stage' = [stage EXCEPT ![a] = "socket"]
      /\ allocs' = [allocs EXCEPT ![port[a]] = a]
      /\ socket' = [socket EXCEPT ![a] = "open"]
  BY DEF AllocatePacketConn
<1>3. /\ stage' \in [Allocs -> Stages]
      /\ SettledIsBilled' /\ JobsSound' /\ ClosersIdle' /\ DueIsBilled'
      /\ \A b \in Allocs : stage'[b] \in {"none", "asked"} => stage[b] \in {"none", "asked"}
      /\ \A b \in Allocs : stage[b] \notin {"none", "asked"} => stage'[b] \notin {"none", "asked"}
  BY <1>1, <1>2, Progresses
<1>4. allocs' \in [Ports -> Allocs \cup {Nil}] /\ socket' \in [Allocs -> {"none", "open", "closed"}]
  BY <1>2 DEF Inv, TypeOK
<1>5. TypeOK'
  BY <1>3, <1>4 DEF AllocatePacketConn, Inv, TypeOK, storeVars
<1>6. stage'[a] = "socket"
  BY <1>2 DEF Inv, TypeOK
<1>7. /\ allocs'[port[a]] = a
      /\ \A p \in Ports : p # port[a] => allocs'[p] = allocs[p]
  BY <1>2 DEF Inv, TypeOK
<1>8. DueIsOut'
  <2>1. due[a] = 0
    BY <1>2 DEF Inv, DueIsOut
  <2>2. \A p \in Ports : allocs'[p] # Nil => /\ port[allocs'[p]] = p
                                            /\ due[allocs'[p]] = 0
                                            /\ stage'[allocs'[p]] \notin {"none", "asked"}
    <3> SUFFICES ASSUME NEW p \in Ports, allocs'[p] # Nil
                 PROVE  /\ port[allocs'[p]] = p
                        /\ due[allocs'[p]] = 0
                        /\ stage'[allocs'[p]] \notin {"none", "asked"}
      OBVIOUS
    <3>1. CASE p = port[a]
      BY <1>6, <1>7, <2>1, <3>1
    <3>2. CASE p # port[a]
      BY <1>3, <1>7, <3>2 DEF Inv, DueIsOut
    <3>3. QED BY <3>1, <3>2
  <2>3. QED BY <1>1, <1>3, <2>2 DEF Inv, DueIsOut
<1>9. QED BY <1>3, <1>5, <1>8 DEF Inv

LEMMA ReadQuotaInv ==
  ASSUME Inv, NEW a \in Allocs, ReadQuota(a)
  PROVE  Inv'
<1> USE Typed
<1>1. UNCHANGED <<account, port, total, flushed, attached, job, billed, due, allocs>>
  BY DEF ReadQuota, storeVars, meterVars
<1>2. stage[a] = "socket" /\ stage' = [stage EXCEPT ![a] = "quota"]
  BY DEF ReadQuota
<1>3. /\ stage' \in [Allocs -> Stages]
      /\ SettledIsBilled' /\ JobsSound' /\ ClosersIdle' /\ DueIsBilled'
      /\ \A b \in Allocs : stage'[b] \in {"none", "asked"} => stage[b] \in {"none", "asked"}
      /\ \A b \in Allocs : stage[b] \notin {"none", "asked"} => stage'[b] \notin {"none", "asked"}
  BY <1>1, <1>2, Progresses
<1>4. quotaRead' \in [Allocs -> BOOLEAN]
  BY DEF ReadQuota, Exhausted, Inv, TypeOK
<1>5. TypeOK'
  BY <1>3, <1>4 DEF ReadQuota, Inv, TypeOK, storeVars, meterVars
<1>6. DueIsOut'
  BY <1>1, <1>3 DEF Inv, DueIsOut
<1>7. QED BY <1>3, <1>5, <1>6 DEF Inv

\* The meter that is attached is in the map: nothing of it is due.
LEMMA AttachInv ==
  ASSUME Inv, NEW a \in Allocs, Attach(a)
  PROVE  Inv'
<1> USE Typed
<1> DEFINE am == allocs[port[a]]
<1>1. UNCHANGED <<account, used, failed, socket, port, quotaRead, total, flushed, allocs, job, todo,
                  billed, due>>
  BY DEF Attach, storeVars
<1>2. stage[a] = "quota" /\ stage' = [stage EXCEPT ![a] = "live"]
  BY DEF Attach
<1>3. /\ stage' \in [Allocs -> Stages]
      /\ stage'[a] = "live"
      /\ \A b \in Allocs : b # a => stage'[b] = stage[b]
  BY <1>2 DEF Inv, TypeOK, Stages
<1>4. quotaRead[a] \in BOOLEAN
  BY DEF Inv, TypeOK
<1>5. attached' \in [Allocs -> BOOLEAN] /\ exhausted' \in [Allocs -> BOOLEAN]
  BY <1>4 DEF Attach, Inv, TypeOK
<1>6. TypeOK'
  BY <1>1, <1>3, <1>5 DEF Inv, TypeOK
<1>7. SettledIsBilled' /\ JobsSound'
  BY <1>1 DEF Inv, SettledIsBilled, JobsSound
<1>8. ClosersIdle'
  BY <1>1, <1>2, <1>3 DEF Inv, ClosersIdle
<1>9. DueIsOut'
  BY <1>1, <1>2, <1>3 DEF Inv, DueIsOut
<1>10. \A b \in Allocs : attached'[b] => attached[b] \/ due[b] = 0
  <2>1. CASE am = Nil
    BY <2>1 DEF Attach
  <2>2. CASE am # Nil
    <3>1. due[am] = 0 /\ am \in Allocs
      BY <2>2 DEF Inv, DueIsOut
    <3>2. \A b \in Allocs : b # am => attached'[b] = attached[b]
      BY <2>2 DEF Attach, Inv, TypeOK
    <3>3. QED BY <3>1, <3>2
  <2>3. QED BY <2>1, <2>2
<1>11. DueIsBilled'
  <2> SUFFICES ASSUME account, NEW b \in Allocs, attached'[b]
               PROVE  due[b] <= billed[b] \/ \E f \in Flushers : WillBill(f, b)'
    BY <1>1 DEF DueIsBilled
  <2>1. CASE due[b] = 0
    BY <2>1
  <2>2. CASE attached[b]
    BY <1>1, <2>2 DEF Inv, DueIsBilled, WillBill
  <2>3. QED BY <1>10, <2>1, <2>2
<1>12. QED BY <1>6, <1>7, <1>8, <1>9, <1>11 DEF Inv

LEMMA RelayInv ==
  ASSUME Inv, NEW a \in Allocs, Relay(a)
  PROVE  Inv'
<1> USE Typed
<1>1. UNCHANGED <<account, used, failed, stage, socket, port, quotaRead, attached, exhausted, flushed,
                  allocs, job, todo, billed, due>>
  BY DEF Relay, storeVars, allocVars
<1>2. total' \in [Allocs -> 0..MaxTotal]
  BY DEF Relay, Inv, TypeOK
<1>3. \A b \in Allocs : total'[b] \in Nat /\ total[b] <= total'[b]
  BY <1>2 DEF Relay, Inv, TypeOK
<1>4. TypeOK'
  BY <1>1, <1>2 DEF Inv, TypeOK
<1>5. SettledIsBilled' /\ ClosersIdle' /\ DueIsOut'
  BY <1>1, <1>3 DEF Inv, SettledIsBilled, ClosersIdle, DueIsOut
<1>6. JobsSound'
  BY <1>1, <1>3 DEF Inv, JobsSound
<1>7. DueIsBilled'
  BY <1>1 DEF Inv, DueIsBilled, WillBill
<1>8. QED BY <1>4, <1>5, <1>6, <1>7 DEF Inv

-----------------------------------------------------------------------------
(* Closing, and the work of the flushers. *)

\* Taking a meter from the map makes what it relayed due and hands it to the
\* Close that took it.
LEMMA CloseRemoveInv ==
  ASSUME Inv, NEW a \in Allocs, CloseRemove(a)
  PROVE  Inv'
<1> USE Typed
<1> DEFINE am == allocs[port[a]]
           w == IF am = Nil THEN Work("after", Nil) ELSE Work("load", am)
<1>1. UNCHANGED <<account, used, failed, socket, port, quotaRead, attached, exhausted, total, flushed,
                  todo, billed>>
  BY DEF CloseRemove, storeVars
<1>2. stage[a] = "live" /\ stage' = [stage EXCEPT ![a] = "closing"]
      /\ allocs' = [allocs EXCEPT ![port[a]] = Nil]
  BY DEF CloseRemove
<1>3. /\ stage' \in [Allocs -> Stages]
      /\ stage'[a] = "closing"
      /\ \A b \in Allocs : b # a => stage'[b] = stage[b]
  BY <1>2 DEF Inv, TypeOK, Stages
<1>4. /\ allocs' \in [Ports -> Allocs \cup {Nil}]
      /\ allocs'[port[a]] = Nil
      /\ \A p \in Ports : p # port[a] => allocs'[p] = allocs[p]
  BY <1>2 DEF Inv, TypeOK
<1>5. /\ w \in Job /\ (am = Nil => w.pc = "after")
      /\ (am # Nil => w.pc = "load" /\ w.am = am)
  BY WorkIsJob
<1>6. job' = [job EXCEPT ![a] = w]
  BY DEF CloseRemove
<1>7. /\ job' \in [Flushers -> Job] /\ job'[a] = w
      /\ \A g \in Flushers : g # a => job'[g] = job[g]
  BY <1>5, <1>6, OneJob
<1>8. /\ due' \in [Allocs -> Nat]
      /\ am # Nil => due'[am] = total[am]
      /\ \A b \in Allocs : b # am => due'[b] = due[b]
  BY DEF CloseRemove, Inv, TypeOK
<1>9. TypeOK'
  BY <1>1, <1>3, <1>4, <1>7, <1>8 DEF Inv, TypeOK
<1>10. SettledIsBilled'
  BY <1>1 DEF Inv, SettledIsBilled
<1>11. JobsSound'
  <2> SUFFICES ASSUME NEW f \in Flushers
               PROVE  LET j == job'[f]
                      IN /\ j.pc \in {"load", "delta", "bill", "mark"} => j.am \in Allocs
                         /\ j.pc \in {"delta", "bill", "mark"} => j.new <= total[j.am]
                         /\ j.pc = "bill" => j.old < j.new /\ j.old <= billed[j.am]
                         /\ j.pc = "mark" => j.new <= billed[j.am]
    BY <1>1 DEF JobsSound
  <2>1. CASE f = a
    BY <1>5, <1>7, <2>1
  <2>2. CASE f # a
    BY <1>7, <2>2 DEF Inv, JobsSound
  <2>3. QED BY <2>1, <2>2
<1>12. ClosersIdle'
  BY <1>3, <1>7 DEF Inv, ClosersIdle
<1>13. DueIsOut'
  <2>1. \A p \in Ports : allocs'[p] # Nil =>
          /\ allocs'[p] \in Allocs /\ allocs'[p] # am
          /\ port[allocs'[p]] = p /\ due[allocs'[p]] = 0
          /\ stage[allocs'[p]] \notin {"none", "asked"}
    BY <1>4 DEF Inv, DueIsOut
  <2>2. \A b \in Allocs : stage'[b] \in {"none", "asked"} =>
          stage[b] \in {"none", "asked"} /\ b # am
    BY <1>2, <1>3 DEF Inv, DueIsOut
  <2>3. \A b \in Allocs : stage[b] \notin {"none", "asked"} => stage'[b] \notin {"none", "asked"}
    BY <1>3
  <2>4. \A b \in Allocs : due'[b] <= total[b]
    BY <1>8 DEF Inv, DueIsOut
  <2>5. \A b \in Allocs : stage'[b] \in {"none", "asked"} => due'[b] = 0
    BY <1>8, <2>2 DEF Inv, DueIsOut
  <2>6. \A p \in Ports : allocs'[p] # Nil =>
          port[allocs'[p]] = p /\ due'[allocs'[p]] = 0 /\ stage'[allocs'[p]] \notin {"none", "asked"}
    BY <1>8, <2>1, <2>3
  <2>7. QED BY <1>1, <2>4, <2>5, <2>6 DEF DueIsOut
<1>14. DueIsBilled'
  <2> SUFFICES ASSUME account, NEW b \in Allocs, attached[b]
               PROVE  due'[b] <= billed[b] \/ \E f \in Flushers : WillBill(f, b)'
    BY <1>1 DEF DueIsBilled
  <2>1. CASE b = am
    BY <1>5, <1>7, <2>1 DEF WillBill
  <2>2. CASE b # am
    <3>1. due'[b] = due[b]
      BY <1>8, <2>2
    <3>2. job[a].pc = "idle"
      BY <1>2 DEF Inv, ClosersIdle
    <3>3. \A f \in Flushers : WillBill(f, b) => f # a
      BY <3>2 DEF WillBill
    <3>4. \A f \in Flushers : WillBill(f, b) => WillBill(f, b)'
      BY <1>7, <3>1, <3>3 DEF WillBill
    <3>5. QED BY <3>1, <3>4 DEF Inv, DueIsBilled
  <2>3. QED BY <2>1, <2>2
<1>15. QED BY <1>9, <1>10, <1>11, <1>12, <1>13, <1>14 DEF Inv

\* A flusher that drops its work had no bill to pay.
LEMMA WorkEnds ==
  ASSUME Inv, NEW f \in Flushers, NEW w \in Job, job' = [job EXCEPT ![f] = w],
         w.pc \in {"idle", "after"},
         job[f].pc \in {"idle", "after", "mark"},
         UNCHANGED <<account, attached, total, billed, due>>
  PROVE  JobsSound' /\ DueIsBilled'
<1>1. /\ job' \in [Flushers -> Job] /\ job'[f] = w
      /\ \A g \in Flushers : g # f => job'[g] = job[g]
  BY OneJob
<1>2. JobsSound'
  BY <1>1 DEF Inv, JobsSound
<1>3. \A b \in Allocs, g \in Flushers : WillBill(g, b) => WillBill(g, b)'
  BY <1>1 DEF WillBill
<1>4. DueIsBilled'
  BY <1>3 DEF Inv, DueIsBilled
<1>5. QED BY <1>2, <1>4

LEMMA CloseSocketInv ==
  ASSUME Inv, NEW a \in Allocs, CloseSocket(a)
  PROVE  Inv'
<1> USE Typed
<1>1. UNCHANGED <<account, used, failed, port, quotaRead, attached, exhausted, total, flushed, allocs,
                  todo, billed, due>>
  BY DEF CloseSocket, storeVars, meterVars
<1>2. stage[a] = "closing" /\ job[a].pc = "after" /\ job' = [job EXCEPT ![a] = NoJob]
  BY DEF CloseSocket
<1>3. /\ stage' \in [Allocs -> Stages] /\ socket' \in [Allocs -> {"none", "open", "closed"}]
      /\ stage'[a] = "gone"
      /\ \A b \in Allocs : b # a => stage'[b] = stage[b]
  BY DEF CloseSocket, Inv, TypeOK, Stages
<1>4. NoJob \in Job /\ NoJob.pc = "idle"
  BY WorkIsJob
<1>5. /\ job' \in [Flushers -> Job] /\ job'[a] = NoJob
      /\ \A g \in Flushers : g # a => job'[g] = job[g]
  BY <1>2, <1>4, OneJob
<1>6. TypeOK'
  BY <1>1, <1>3, <1>5 DEF Inv, TypeOK
<1>7. SettledIsBilled'
  BY <1>1 DEF Inv, SettledIsBilled
<1>8. JobsSound' /\ DueIsBilled'
  BY <1>1, <1>2, <1>4, WorkEnds
<1>9. ClosersIdle'
  BY <1>3, <1>4, <1>5 DEF Inv, ClosersIdle
<1>10. DueIsOut'
  BY <1>1, <1>2, <1>3 DEF Inv, DueIsOut
<1>11. QED BY <1>6, <1>7, <1>8, <1>9, <1>10 DEF Inv

\* The bill of a flusher that goes on is kept; the others' is untouched.
LEMMA FlushLoadInv ==
  ASSUME Inv, NEW f \in Flushers, FlushLoad(f)
  PROVE  Inv'
<1> USE Typed
<1> DEFINE am == job[f].am
           w == IF attached[am] THEN [job[f] EXCEPT !.pc = "delta", !.new = total[am]]
                                ELSE [job[f] EXCEPT !.pc = "after"]
<1>1. UNCHANGED <<storeVars, stage, socket, port, quotaRead, attached, exhausted, total, flushed,
                  allocs, todo, billed, due>>
  BY DEF FlushLoad, allocVars, meterVars
<1>2. job[f].pc = "load" /\ am \in Allocs /\ job' = [job EXCEPT ![f] = w]
  BY DEF FlushLoad, Inv, JobsSound
<1>3. total[am] \in Nat
  BY <1>2
<1>4. w \in Job /\ w.am = am
      /\ (attached[am] => w.pc = "delta" /\ w.new = total[am])
      /\ (~attached[am] => w.pc = "after")
  BY <1>2, <1>3 DEF Job
<1>5. /\ job' \in [Flushers -> Job] /\ job'[f] = w
      /\ \A g \in Flushers : g # f => job'[g] = job[g]
  BY <1>2, <1>4, OneJob
<1>6. TypeOK'
  BY <1>1, <1>5 DEF Inv, TypeOK, storeVars
<1>7. SettledIsBilled' /\ DueIsOut'
  BY <1>1 DEF Inv, SettledIsBilled, DueIsOut
<1>8. ClosersIdle'
  BY <1>1, <1>2, <1>5 DEF Inv, ClosersIdle
<1>9. JobsSound'
  <2>1. w.pc = "delta" => w.am \in Allocs /\ w.new <= total[w.am]
    BY <1>2, <1>3, <1>4
  <2>2. w.pc \in {"delta", "after"}
    BY <1>4
  <2>3. QED BY <1>1, <1>5, <2>1, <2>2 DEF Inv, JobsSound
<1>10. DueIsBilled'
  <2> SUFFICES ASSUME account, NEW b \in Allocs, attached[b]
               PROVE  due[b] <= billed[b] \/ \E g \in Flushers : WillBill(g, b)'
    BY <1>1 DEF DueIsBilled, storeVars
  <2>1. due[b] <= total[b]
    BY DEF Inv, DueIsOut
  <2>2. \A g \in Flushers : WillBill(g, b) => WillBill(g, b)'
    <3> SUFFICES ASSUME NEW g \in Flushers, WillBill(g, b) PROVE WillBill(g, b)'
      OBVIOUS
    <3>1. CASE g = f
      BY <1>1, <1>2, <1>4, <1>5, <2>1, <3>1 DEF WillBill
    <3>2. CASE g # f
      BY <1>1, <1>5, <3>2 DEF WillBill
    <3>3. QED BY <3>1, <3>2
  <2>3. QED BY <2>2 DEF Inv, DueIsBilled
<1>11. QED BY <1>6, <1>7, <1>8, <1>9, <1>10 DEF Inv

LEMMA FlushDeltaInv ==
  ASSUME Inv, NEW f \in Flushers, FlushDelta(f)
  PROVE  Inv'
<1> USE Typed
<1> DEFINE am == job[f].am
           settled == flushed[am]
           w == IF job[f].new > settled THEN [job[f] EXCEPT !.pc = "bill", !.old = settled]
                                        ELSE [job[f] EXCEPT !.pc = "after"]
<1>1. UNCHANGED <<storeVars, stage, socket, port, quotaRead, attached, exhausted, total, flushed,
                  allocs, todo, billed, due>>
  BY DEF FlushDelta, allocVars, meterVars
<1>2. job[f].pc = "delta" /\ am \in Allocs /\ job[f].new <= total[am]
      /\ job' = [job EXCEPT ![f] = w]
  BY DEF FlushDelta, Inv, JobsSound
<1>3. settled \in Nat /\ settled <= billed[am]
  BY <1>2 DEF Inv, SettledIsBilled
<1>4. w \in Job /\ w.am = am /\ w.new = job[f].new
      /\ (settled < job[f].new => w.pc = "bill" /\ w.old = settled)
      /\ (~(settled < job[f].new) => w.pc = "after")
  BY <1>2, <1>3 DEF Job
<1>5. /\ job' \in [Flushers -> Job] /\ job'[f] = w
      /\ \A g \in Flushers : g # f => job'[g] = job[g]
  BY <1>2, <1>4, OneJob
<1>6. TypeOK'
  BY <1>1, <1>5 DEF Inv, TypeOK, storeVars
<1>7. SettledIsBilled' /\ DueIsOut'
  BY <1>1 DEF Inv, SettledIsBilled, DueIsOut
<1>8. ClosersIdle'
  BY <1>1, <1>2, <1>5 DEF Inv, ClosersIdle
<1>9. JobsSound'
  <2>1. w.pc = "bill" => /\ w.am \in Allocs /\ w.new <= total[w.am]
                         /\ w.old < w.new /\ w.old <= billed[w.am]
    BY <1>2, <1>3, <1>4
  <2>2. w.pc \in {"bill", "after"}
    BY <1>4
  <2>3. QED BY <1>1, <1>5, <2>1, <2>2 DEF Inv, JobsSound
<1>10. DueIsBilled'
  <2> SUFFICES ASSUME account, NEW b \in Allocs, attached[b]
               PROVE  due[b] <= billed[b] \/ \E g \in Flushers : WillBill(g, b)'
    BY <1>1 DEF DueIsBilled, storeVars
  <2>1. \A g \in Flushers : WillBill(g, b) => WillBill(g, b)' \/ due[b] <= billed[b]
    <3> SUFFICES ASSUME NEW g \in Flushers, WillBill(g, b)
                 PROVE  WillBill(g, b)' \/ due[b] <= billed[b]
      OBVIOUS
    <3>1. CASE g = f /\ settled < job[f].new
      BY <1>1, <1>2, <1>4, <1>5, <3>1 DEF WillBill
    <3>2. CASE g = f /\ ~(settled < job[f].new)
      <4>1. b = am /\ due[b] <= job[f].new
        BY <1>2, <3>2 DEF WillBill
      <4>2. job[f].new \in Nat /\ billed[b] \in Nat /\ due[b] \in Nat
        OBVIOUS
      <4>3. QED BY <1>3, <3>2, <4>1, <4>2
    <3>3. CASE g # f
      BY <1>1, <1>5, <3>3 DEF WillBill
    <3>4. QED BY <3>1, <3>2, <3>3
  <2>2. QED BY <2>1 DEF Inv, DueIsBilled
<1>11. QED BY <1>6, <1>7, <1>8, <1>9, <1>10 DEF Inv

\* Billing pays for everything up to what was relayed when the work began.
LEMMA FlushBillInv ==
  ASSUME Inv, NEW f \in Flushers, NEW x \in {"mark", "after"},
         job[f].pc = "bill", AddUsage(f),
         job' = [job EXCEPT ![f].pc = x],
         failed' \in 0..MaxFail,
         UNCHANGED <<account, stage, socket, port, quotaRead, attached, exhausted, total, flushed,
                     allocs, todo, due>>
  PROVE  Inv'
<1> USE Typed
<1> DEFINE am == job[f].am
           w == [job[f] EXCEPT !.pc = x]
           d == job[f].new - job[f].old
<1>1. /\ am \in Allocs /\ job[f].new <= total[am]
      /\ job[f].old < job[f].new /\ job[f].old <= billed[am]
  BY DEF Inv, JobsSound
<1>2. w \in Job /\ w.pc = x /\ w.am = am /\ w.new = job[f].new
  BY <1>1 DEF Job
<1>3. /\ job' \in [Flushers -> Job] /\ job'[f] = w
      /\ \A g \in Flushers : g # f => job'[g] = job[g]
  BY <1>2, OneJob
<1>4. d \in Nat /\ used' \in Nat
  BY <1>1 DEF AddUsage
<1>5. /\ billed' = [billed EXCEPT ![am] = billed[am] + d]
      /\ billed \in [Allocs -> Nat] /\ billed[am] + d \in Nat
  BY <1>1, <1>4 DEF AddUsage, Inv, TypeOK
<1>6. /\ billed' \in [Allocs -> Nat]
      /\ billed'[am] = billed[am] + d
      /\ \A b \in Allocs : b # am => billed'[b] = billed[b]
  BY <1>1, <1>5
<1>7. \A b \in Allocs : billed'[b] \in Nat /\ billed[b] <= billed'[b]
  <2> SUFFICES ASSUME NEW b \in Allocs PROVE billed'[b] \in Nat /\ billed[b] <= billed'[b]
    OBVIOUS
  <2>1. CASE b = am
    BY <1>4, <1>6, <2>1
  <2>2. CASE b # am
    BY <1>6, <2>2
  <2>3. QED BY <2>1, <2>2
<1>8. job[f].new <= billed'[am]
  BY <1>1, <1>6
<1>9. TypeOK'
  BY <1>3, <1>4, <1>6 DEF Inv, TypeOK
<1>10. SettledIsBilled'
  BY <1>7 DEF Inv, SettledIsBilled
<1>11. DueIsOut'
  BY DEF Inv, DueIsOut
<1>12. ClosersIdle'
  BY <1>3 DEF Inv, ClosersIdle
<1>13. JobsSound'
  <2> SUFFICES ASSUME NEW g \in Flushers
               PROVE  LET j == job'[g]
                      IN /\ j.pc \in {"load", "delta", "bill", "mark"} => j.am \in Allocs
                         /\ j.pc \in {"delta", "bill", "mark"} => j.new <= total[j.am]
                         /\ j.pc = "bill" => j.old < j.new /\ j.old <= billed'[j.am]
                         /\ j.pc = "mark" => j.new <= billed'[j.am]
    BY DEF JobsSound
  <2>1. CASE g = f
    BY <1>1, <1>2, <1>3, <1>8, <2>1
  <2>2. CASE g # f
    <3>1. /\ job[g].pc \in {"load", "delta", "bill", "mark"} => job[g].am \in Allocs
          /\ job[g].pc \in {"delta", "bill", "mark"} => job[g].new <= total[job[g].am]
          /\ job[g].pc = "bill" => job[g].old < job[g].new /\ job[g].old <= billed[job[g].am]
          /\ job[g].pc = "mark" => job[g].new <= billed[job[g].am]
      BY DEF Inv, JobsSound
    <3>2. job[g].pc = "bill" => job[g].old <= billed'[job[g].am]
      BY <1>7, <3>1
    <3>3. job[g].pc = "mark" => job[g].new <= billed'[job[g].am]
      BY <1>7, <3>1
    <3>4. QED BY <1>3, <2>2, <3>1, <3>2, <3>3
  <2>3. QED BY <2>1, <2>2
<1>14. DueIsBilled'
  <2> SUFFICES ASSUME account, NEW b \in Allocs, attached[b]
               PROVE  due[b] <= billed'[b] \/ \E g \in Flushers : WillBill(g, b)'
    BY DEF DueIsBilled
  <2>1. \A g \in Flushers : WillBill(g, b) => WillBill(g, b)' \/ due[b] <= billed'[b]
    <3> SUFFICES ASSUME NEW g \in Flushers, WillBill(g, b)
                 PROVE  WillBill(g, b)' \/ due[b] <= billed'[b]
      OBVIOUS
    <3>1. CASE g = f
      <4>1. b = am /\ due[b] <= job[f].new
        BY <3>1 DEF WillBill
      <4>2. QED BY <1>7, <1>8, <4>1
    <3>2. CASE g # f
      BY <1>3, <3>2 DEF WillBill
    <3>3. QED BY <3>1, <3>2
  <2>2. due[b] <= billed[b] => due[b] <= billed'[b]
    BY <1>7
  <2>3. QED BY <2>1, <2>2 DEF Inv, DueIsBilled
<1>15. QED BY <1>9, <1>10, <1>11, <1>12, <1>13, <1>14 DEF Inv

LEMMA FlushBillNobodyInv ==
  ASSUME Inv, NEW f \in Flushers, FlushBillNobody(f)
  PROVE  Inv'
<1> USE Typed
<1> DEFINE w == [job[f] EXCEPT !.pc = "after"]
<1>1. UNCHANGED <<storeVars, stage, socket, port, quotaRead, attached, exhausted, total, flushed,
                  allocs, todo, billed, due>>
  BY DEF FlushBillNobody, allocVars, meterVars
<1>2. job[f].pc = "bill" /\ ~account /\ job' = [job EXCEPT ![f] = w]
  BY DEF FlushBillNobody
<1>3. w \in Job /\ w.pc = "after"
  BY DEF Job
<1>4. /\ job' \in [Flushers -> Job] /\ job'[f] = w
      /\ \A g \in Flushers : g # f => job'[g] = job[g]
  BY <1>2, <1>3, OneJob
<1>5. TypeOK'
  BY <1>1, <1>4 DEF Inv, TypeOK, storeVars
<1>6. SettledIsBilled' /\ DueIsOut' /\ DueIsBilled'
  BY <1>1, <1>2 DEF Inv, SettledIsBilled, DueIsOut, DueIsBilled, storeVars
<1>7. ClosersIdle' /\ JobsSound'
  BY <1>1, <1>2, <1>3, <1>4 DEF Inv, ClosersIdle, JobsSound
<1>8. QED BY <1>5, <1>6, <1>7 DEF Inv

\* What is marked was billed, so the mark may move either way.
LEMMA FlushMarkInv ==
  ASSUME Inv, NEW f \in Flushers, FlushMark(f)
  PROVE  Inv'
<1> USE Typed
<1> DEFINE am == job[f].am
           w == [job[f] EXCEPT !.pc = "after"]
<1>1. UNCHANGED <<storeVars, stage, socket, port, quotaRead, attached, exhausted, total,
                  allocs, todo, billed, due>>
  BY DEF FlushMark, allocVars
<1>2. job[f].pc = "mark" /\ am \in Allocs /\ job' = [job EXCEPT ![f] = w]
      /\ job[f].new <= total[am] /\ job[f].new <= billed[am]
      /\ flushed' = [flushed EXCEPT ![am] = job[f].new]
  BY DEF FlushMark, Inv, JobsSound
<1>3. w \in Job /\ w.pc = "after"
  BY DEF Job
<1>4. /\ job' \in [Flushers -> Job] /\ job'[f] = w
      /\ \A g \in Flushers : g # f => job'[g] = job[g]
  BY <1>2, <1>3, OneJob
<1>5. /\ flushed' \in [Allocs -> Nat] /\ flushed'[am] = job[f].new
      /\ \A b \in Allocs : b # am => flushed'[b] = flushed[b]
  BY <1>2 DEF Inv, TypeOK
<1>6. TypeOK'
  BY <1>1, <1>4, <1>5 DEF Inv, TypeOK, storeVars
<1>7. SettledIsBilled'
  BY <1>1, <1>2, <1>5 DEF Inv, SettledIsBilled
<1>8. DueIsOut'
  BY <1>1 DEF Inv, DueIsOut
<1>9. ClosersIdle'
  BY <1>1, <1>2, <1>4 DEF Inv, ClosersIdle
<1>10. JobsSound' /\ DueIsBilled'
  BY <1>1, <1>2, <1>3, WorkEnds DEF storeVars
<1>11. QED BY <1>6, <1>7, <1>8, <1>9, <1>10 DEF Inv

LEMMA FlushInv ==
  ASSUME Inv, NEW f \in Flushers, Flush(f)
  PROVE  Inv'
<1>1. CASE FlushBill(f)
  <2>1. /\ job[f].pc = "bill" /\ AddUsage(f) /\ job' = [job EXCEPT ![f].pc = "mark"]
        /\ UNCHANGED <<failed, account, stage, socket, port, quotaRead, attached, exhausted, total,
                       flushed, allocs, todo, due>>
    BY <1>1 DEF FlushBill, allocVars, meterVars
  <2>2. failed' \in 0..MaxFail
    BY <2>1 DEF Inv, TypeOK
  <2>3. QED BY <2>1, <2>2, FlushBillInv
<1>2. CASE FlushBillUnsaved(f)
  <2>1. /\ job[f].pc = "bill" /\ AddUsage(f) /\ job' = [job EXCEPT ![f].pc = "after"]
        /\ UNCHANGED <<account, stage, socket, port, quotaRead, attached, exhausted, total,
                       flushed, allocs, todo, due>>
    BY <1>2 DEF FlushBillUnsaved, allocVars, meterVars
  <2>2. failed' \in 0..MaxFail
    BY <1>2, Typed DEF FlushBillUnsaved
  <2>3. QED BY <2>1, <2>2, FlushBillInv
<1>3. QED BY <1>1, <1>2, FlushLoadInv, FlushDeltaInv, FlushBillNobodyInv, FlushMarkInv DEF Flush

LEMMA LoopInv ==
  ASSUME Inv, LoopTick \/ (\E a \in Allocs : LoopNext(a)) \/ LoopCheck
  PROVE  Inv'
<1> USE Typed
<1>1. CASE LoopTick
  <2>1. UNCHANGED <<storeVars, stage, socket, port, quotaRead, attached, exhausted, total, flushed,
                    allocs, job, billed, due>>
    BY <1>1 DEF LoopTick, allocVars, meterVars
  <2>2. todo' \in SUBSET Allocs
    BY <1>1 DEF LoopTick
  <2>3. TypeOK'
    BY <2>1, <2>2 DEF Inv, TypeOK, storeVars
  <2>4. SettledIsBilled' /\ JobsSound' /\ ClosersIdle' /\ DueIsOut'
    BY <2>1 DEF Inv, SettledIsBilled, JobsSound, ClosersIdle, DueIsOut
  <2>5. DueIsBilled'
    BY <2>1 DEF Inv, DueIsBilled, WillBill, storeVars
  <2>6. QED BY <2>3, <2>4, <2>5 DEF Inv
<1>2. ASSUME NEW a \in Allocs, LoopNext(a) PROVE Inv'
  <2>1. UNCHANGED <<storeVars, stage, socket, port, quotaRead, attached, exhausted, total, flushed,
                    allocs, billed, due>>
    BY <1>2 DEF LoopNext, allocVars, meterVars
  <2>2. /\ job[Loop].pc = "idle" /\ job' = [job EXCEPT ![Loop] = Work("load", a)]
        /\ todo' \in SUBSET Allocs
    BY <1>2 DEF LoopNext, Inv, TypeOK
  <2>3. Work("load", a) \in Job /\ Work("load", a).pc = "load" /\ Work("load", a).am = a
    BY <1>2, WorkIsJob
  <2>4. /\ job' \in [Flushers -> Job] /\ job'[Loop] = Work("load", a)
        /\ \A g \in Flushers : g # Loop => job'[g] = job[g]
    BY <2>2, <2>3, OneJob
  <2>5. TypeOK'
    BY <2>1, <2>2, <2>4 DEF Inv, TypeOK, storeVars
  <2>6. SettledIsBilled' /\ DueIsOut' /\ ClosersIdle'
    BY <2>1, <2>4 DEF Inv, SettledIsBilled, DueIsOut, ClosersIdle
  <2>7. JobsSound'
    BY <1>2, <2>1, <2>3, <2>4 DEF Inv, JobsSound
  <2>8. \A b \in Allocs, g \in Flushers : WillBill(g, b) => WillBill(g, b)'
    BY <2>1, <2>2, <2>4 DEF WillBill
  <2>9. DueIsBilled'
    BY <2>1, <2>8 DEF Inv, DueIsBilled, storeVars
  <2>10. QED BY <2>5, <2>6, <2>7, <2>9 DEF Inv
<1>3. CASE LoopCheck
  <2>1. UNCHANGED <<storeVars, stage, port, quotaRead, attached, total, flushed, allocs, todo,
                    billed, due>>
    BY <1>3 DEF LoopCheck
  <2>2. job[Loop].pc = "after" /\ job' = [job EXCEPT ![Loop] = NoJob]
    BY <1>3 DEF LoopCheck
  <2>3. NoJob \in Job /\ NoJob.pc = "idle"
    BY WorkIsJob
  <2>4. /\ job' \in [Flushers -> Job] /\ job'[Loop] = NoJob
        /\ \A g \in Flushers : g # Loop => job'[g] = job[g]
    BY <2>2, <2>3, OneJob
  <2>5. exhausted' \in [Allocs -> BOOLEAN] /\ socket' \in [Allocs -> {"none", "open", "closed"}]
    BY <1>3 DEF LoopCheck, Inv, TypeOK
  <2>6. TypeOK'
    BY <2>1, <2>4, <2>5 DEF Inv, TypeOK, storeVars
  <2>7. SettledIsBilled' /\ DueIsOut' /\ ClosersIdle'
    BY <2>1, <2>4 DEF Inv, SettledIsBilled, DueIsOut, ClosersIdle
  <2>8. JobsSound' /\ DueIsBilled'
    BY <2>1, <2>2, <2>3, WorkEnds DEF storeVars
  <2>9. QED BY <2>6, <2>7, <2>8 DEF Inv
<1>4. QED BY <1>1, <1>2, <1>3

-----------------------------------------------------------------------------
\* The inductive invariant holds at every step of the meter (turn.go 302-482).
THEOREM MeterInvariance == Spec => []Inv
<1>1. Inv /\ [Next]_vars => Inv'
  <2> SUFFICES ASSUME Inv, [Next]_vars PROVE Inv'
    OBVIOUS
  <2>1. CASE UNCHANGED vars
    <3>1. TypeOK'
      BY <2>1 DEF vars, storeVars, allocVars, meterVars, Inv, TypeOK
    <3>2. SettledIsBilled' /\ JobsSound' /\ ClosersIdle' /\ DueIsOut' /\ DueIsBilled'
      BY <2>1 DEF vars, storeVars, allocVars, meterVars, Inv, SettledIsBilled, JobsSound,
                  ClosersIdle, DueIsOut, DueIsBilled, WillBill
    <3>3. QED BY <3>1, <3>2 DEF Inv
  <2>2. ASSUME NEW a \in Allocs,
               \/ AskQuota(a) \/ AllocatePacketConn(a) \/ ReadQuota(a) \/ Attach(a)
               \/ WriteTo(a) \/ ReadFrom(a) \/ CloseRemove(a) \/ CloseSocket(a)
               \/ Flush(a)
        PROVE  Inv'
    BY <2>2, AskQuotaInv, AllocateInv, ReadQuotaInv, AttachInv, RelayInv, CloseRemoveInv,
       CloseSocketInv, FlushInv, Typed DEF WriteTo, ReadFrom
  <2>3. CASE LoopStep
    BY <2>3, FlushInv, LoopInv, Typed DEF LoopStep
  <2>4. CASE ResetUsage \/ DeleteUser
    BY <2>4, StoreStep
  <2>5. QED BY <2>1, <2>2, <2>3, <2>4 DEF Next
<1>2. QED BY InitInv, <1>1, PTL DEF Spec

\* The type invariant of the meters and of the goroutines that settle them (turn.go 302-482).
THEOREM MeterTypeCorrect == Spec => []TypeOK
<1>1. Inv => TypeOK
  BY DEF Inv
<1>2. QED BY <1>1, MeterInvariance, PTL

\* What a meter holds for settled was billed, with flushOne running in any
\* number of goroutines (turn.go 357-371).
THEOREM SettlementIsBilled == Spec => []SettledIsBilled
<1>1. Inv => SettledIsBilled
  BY DEF Inv
<1>2. QED BY <1>1, MeterInvariance, PTL

\* A closed allocation was billed at least what it had relayed when its meter
\* was taken from the map (turn.go 344-354).
THEOREM ClosingBills == Spec => []ClosedIsBilled
<1>1. Inv => ClosedIsBilled
  BY DEF Inv, ClosedIsBilled, DueIsBilled, WillBill
<1>2. QED BY <1>1, MeterInvariance, PTL
=============================================================================
