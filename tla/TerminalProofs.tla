---------------------------- MODULE TerminalProofs ----------------------------
(***************************************************************************)
(* Proofs about Terminal, for every number of goroutines, shells and       *)
(* chunks, and about the buffer its replays come from: RingBuffer          *)
(* implements History, for every capacity, every set of bytes and every    *)
(* set of chunks.                                                          *)
(***************************************************************************)
EXTENDS RingBuffer, Terminal, TLAPS

\* What NothingLost leaves unsaid: the reader holds the last chunk or none, and
\* only an open link was sent a replay.
Behind ==
  /\ \A s \in Sess : reader[s].k # 0 => reader[s].k = sess[s].out
  /\ \A s \in Sess : from[s] # 0 => link = "open"

\* Goroutines carry sessions that were started, and one that is to be detached
\* or attached is there.
Carried ==
  /\ \A o \in Opens : /\ open[o].s <= started
                      /\ open[o].pc \in {"attach", "onExit", "tell"} => open[o].s # Nil
  /\ cleaner.s <= started
  /\ cleaner.pc = "detach" => cleaner.s # Nil

Inv == TypeOK /\ Behind /\ Carried /\ NothingLost /\ OneShell

LEMMA InitInv == Init => Inv
<1> SUFFICES ASSUME Init PROVE Inv
  OBVIOUS
<1> USE TerminalAssumption
<1>1. NewSession \in Session /\ Nothing \in Reader /\ NoOpen \in Opening /\ NoClean \in Cleaner
  BY DEF NewSession, Session, Nothing, Reader, NoOpen, Opening, NoClean, Cleaner, Nil
<1>2. /\ sess \in [Sess -> Session] /\ reader \in [Sess -> Reader]
      /\ open \in [Opens -> Opening] /\ cleaner \in Cleaner
  BY <1>1 DEF Init
<1>3. waiter \in [Sess -> {"waiting", "telling", "done"}] /\ from \in [Sess -> 0 .. MaxOut + 1]
      /\ shown \in [Sess -> SUBSET (1..MaxOut)]
  BY DEF Init
<1>4. TypeOK
  <2>1. term = 0 /\ closer = 0 /\ started = 0 /\ MaxSess \in Nat
    BY DEF Init, Nil
  <2>2. term \in 0..started /\ closer \in 0..started /\ started \in 0..MaxSess
    BY <2>1
  <2>3. link \in {"none", "opening", "open"} /\ told \in SUBSET Sess
    BY DEF Init
  <2>4. QED BY <1>2, <1>3, <2>2, <2>3 DEF TypeOK
<1>5. Behind /\ NothingLost
  BY DEF Init, Behind, NothingLost, Nothing
<1>6. Carried /\ OneShell
  BY DEF Init, Carried, OneShell, NoOpen, NoClean, Nil
<1>7. QED BY <1>4, <1>5, <1>6 DEF Inv

\* Sessions that were started are sessions, and the fields have their types.
LEMMA Pointers ==
  ASSUME Inv
  PROVE  /\ started \in Nat /\ started <= MaxSess /\ MaxSess \in Nat /\ MaxOut \in Nat
         /\ term # Nil => term \in Sess
         /\ closer # Nil => closer \in Sess
         /\ cleaner \in Cleaner
         /\ cleaner.pc = "detach" => cleaner.s \in Sess
         /\ \A o \in Opens : /\ open[o] \in Opening
                             /\ open[o].pc \in {"attach", "onExit", "tell"} => open[o].s \in Sess
         /\ \A s \in Sess : /\ sess[s] \in Session /\ sess[s].out \in 0..MaxOut
                            /\ reader[s] \in Reader /\ reader[s].k \in 0..MaxOut
<1> USE TerminalAssumption
<1>1. /\ started \in Nat /\ started <= MaxSess /\ MaxSess \in Nat /\ MaxOut \in Nat
      /\ term # Nil => term \in Sess
      /\ closer # Nil => closer \in Sess
  BY DEF Inv, TypeOK, Sess, Nil
<1>2. /\ cleaner \in Cleaner
      /\ \A o \in Opens : open[o] \in Opening
      /\ \A s \in Sess : sess[s] \in Session /\ reader[s] \in Reader
  BY DEF Inv, TypeOK
<1>3. /\ cleaner.s \in 0..MaxSess
      /\ \A o \in Opens : open[o].s \in 0..MaxSess
      /\ \A s \in Sess : sess[s].out \in 0..MaxOut /\ reader[s].k \in 0..MaxOut
  BY <1>2 DEF Cleaner, Opening, Session, Reader
<1>4. \A o \in Opens : open[o].pc \in {"attach", "onExit", "tell"} => open[o].s \in Sess
  BY <1>3 DEF Inv, Carried, Sess, Nil
<1>5. cleaner.pc = "detach" => cleaner.s \in Sess
  BY <1>3 DEF Inv, Carried, Sess, Nil
<1>6. QED BY <1>1, <1>2, <1>3, <1>4, <1>5

\* The goroutine of an open stops, or goes on with a session that was started.
LEMMA OpenMoves ==
  ASSUME Inv, NEW o \in Opens, NEW c \in {"ensure", "attach", "onExit", "tell"},
         NEW x \in Sess,
         \/ open' = [open EXCEPT ![o] = NoOpen]
         \/ open' = [open EXCEPT ![o].pc = c] /\ (c # "ensure" => open[o].s \in Sess)
         \/ open' = [open EXCEPT ![o] = [pc |-> c, s |-> x]] /\ x <= started',
         started' \in Nat, started <= started', cleaner' = cleaner
  PROVE  open' \in [Opens -> Opening] /\ Carried'
<1> USE Pointers, TerminalAssumption
<1>1. NoOpen \in Opening /\ NoOpen.s = 0 /\ NoOpen.pc = "idle"
  BY DEF NoOpen, Opening, Nil
<1>2. [open[o] EXCEPT !.pc = c] \in Opening /\ [pc |-> c, s |-> x] \in Opening
  BY DEF Opening, Sess
<1>3. open \in [Opens -> Opening]
  BY DEF Inv, TypeOK
<1>4. open' \in [Opens -> Opening]
  BY <1>1, <1>2, <1>3
<1>5. \A p \in Opens : open[p].s \in Nat
  BY DEF Opening
<1>6. \A p \in Opens : /\ open'[p].s <= started'
                       /\ open'[p].pc \in {"attach", "onExit", "tell"} => open'[p].s # Nil
  <2> SUFFICES ASSUME NEW p \in Opens
               PROVE  /\ open'[p].s <= started'
                      /\ open'[p].pc \in {"attach", "onExit", "tell"} => open'[p].s # Nil
    OBVIOUS
  <2>1. open[p].s <= started /\ (open[p].pc \in {"attach", "onExit", "tell"} => open[p].s # Nil)
    BY DEF Inv, Carried
  <2>2. open[p].s <= started'
    BY <1>5, <2>1
  <2>3. CASE p # o
    BY <1>3, <2>1, <2>2, <2>3
  <2>4. CASE p = o /\ open' = [open EXCEPT ![o] = NoOpen]
    BY <1>1, <1>3, <2>4
  <2>5. CASE p = o /\ open' = [open EXCEPT ![o].pc = c] /\ (c # "ensure" => open[o].s \in Sess)
    <3>1. open'[p].pc = c /\ open'[p].s = open[p].s
      BY <1>3, <2>5 DEF Opening
    <3>2. QED BY <3>1, <2>2, <2>5 DEF Sess, Nil
  <2>6. CASE p = o /\ open' = [open EXCEPT ![o] = [pc |-> c, s |-> x]] /\ x <= started'
    BY <1>3, <2>6 DEF Sess, Nil
  <2>7. QED BY <2>3, <2>4, <2>5, <2>6
<1>7. cleaner.s <= started'
  <2>1. cleaner.s \in Nat /\ cleaner.s <= started
    BY DEF Inv, Carried, Cleaner
  <2>2. QED BY <2>1
<1>8. QED BY <1>4, <1>6, <1>7 DEF Inv, Carried

-----------------------------------------------------------------------------
(* Each action keeps the invariant. *)

LEMMA ReadChunkInv ==
  ASSUME Inv, NEW s \in Sess, ReadChunk(s)
  PROVE  Inv'
<1> USE Pointers
<1> DEFINE n == [sess[s] EXCEPT !.out = sess[s].out + 1]
           r == [k |-> sess[s].out + 1, sink |-> sess[s].sink]
<1>1. sess' = [sess EXCEPT ![s] = n] /\ reader' = [reader EXCEPT ![s] = r]
  BY DEF ReadChunk
<1>2. n \in Session /\ r \in Reader
  BY DEF ReadChunk, Session, Reader
<1>3. sess \in [Sess -> Session] /\ reader \in [Sess -> Reader]
  BY DEF Inv, TypeOK
<1>4. sess' \in [Sess -> Session] /\ reader' \in [Sess -> Reader]
  BY <1>1, <1>2, <1>3
<1>5. TypeOK'
  BY <1>4 DEF ReadChunk, Inv, TypeOK, viewVars
<1>6. \A t \in Sess : t # s => sess'[t] = sess[t] /\ reader'[t] = reader[t]
  BY <1>1, <1>3
<1>7. /\ sess'[s].out = sess[s].out + 1 /\ sess'[s].sink = sess[s].sink
      /\ sess'[s].closed = sess[s].closed /\ sess'[s].exited = sess[s].exited
      /\ reader'[s] = [k |-> sess[s].out + 1, sink |-> sess[s].sink]
  BY <1>1, <1>3 DEF Session
<1>8. Behind' /\ Carried'
  BY <1>6, <1>7 DEF ReadChunk, Inv, Behind, Carried, viewVars
<1>9. NothingLost'
  <2> SUFFICES ASSUME NEW t \in Sess, sess'[t].sink, from[t] # 0,
                      NEW k \in from[t] .. sess'[t].out
               PROVE  k \in shown[t] \/ reader'[t] = [k |-> k, sink |-> TRUE]
    BY DEF NothingLost, ReadChunk, viewVars
  <2>1. CASE t = s /\ k = sess[s].out + 1
    <3>1. sess[s].sink = TRUE
      BY <1>7, <2>1 DEF Session
    <3>2. QED BY <1>7, <2>1, <3>1
  <2>2. CASE t = s /\ k # sess[s].out + 1
    <3>1. from[s] \in Nat
      BY DEF Inv, TypeOK
    <3>2. k \in from[s] .. sess[s].out
      BY <1>7, <2>2, <3>1
    <3>3. reader[s] # [k |-> k, sink |-> TRUE] \/ k = 0
      BY DEF ReadChunk
    <3>4. k \in shown[s] \/ reader[s] = [k |-> k, sink |-> TRUE]
      BY <1>7, <2>2, <3>2 DEF Inv, NothingLost
    <3>5. k # 0
      BY <2>2, <3>1, <3>2
    <3>6. QED BY <2>2, <3>3, <3>4, <3>5
  <2>3. CASE t # s
    BY <1>6, <2>3 DEF Inv, NothingLost
  <2>4. QED BY <2>1, <2>2, <2>3
<1>10. OneShell'
  BY <1>6, <1>7 DEF ReadChunk, Inv, OneShell, Alive, Sess
<1>11. QED BY <1>5, <1>8, <1>9, <1>10 DEF Inv

LEMMA PushChunkInv ==
  ASSUME Inv, NEW s \in Sess, PushChunk(s)
  PROVE  Inv'
<1> USE Pointers
<1> DEFINE sent == [shown EXCEPT ![s] = shown[s] \cup {reader[s].k}]
<1>1. TypeOK'
  <2>1. /\ reader \in [Sess -> Reader] /\ shown \in [Sess -> SUBSET (1..MaxOut)]
        /\ Nothing \in Reader /\ reader[s].k \in 1..MaxOut
    BY DEF PushChunk, Inv, TypeOK, Nothing, Reader
  <2>2. sent \in [Sess -> SUBSET (1..MaxOut)]
    BY <2>1
  <2>3. reader' \in [Sess -> Reader] /\ shown' \in [Sess -> SUBSET (1..MaxOut)]
    BY <2>1, <2>2 DEF PushChunk
  <2>4. QED BY <2>3 DEF PushChunk, Inv, TypeOK
<1>2. Behind' /\ Carried'
  BY DEF PushChunk, Inv, TypeOK, Behind, Carried, Nothing
<1>3. NothingLost'
  <2> SUFFICES ASSUME NEW t \in Sess, sess[t].sink, from[t] # 0,
                      NEW k \in from[t] .. sess[t].out
               PROVE  k \in shown'[t] \/ reader'[t] = [k |-> k, sink |-> TRUE]
    BY DEF NothingLost, PushChunk
  <2>1. link = "open" /\ (k \in shown[t] \/ reader[t] = [k |-> k, sink |-> TRUE])
    BY DEF Inv, NothingLost, Behind
  <2>2. CASE t = s
    BY <2>1, <2>2 DEF PushChunk, Inv, TypeOK
  <2>3. CASE t # s
    BY <2>1, <2>3 DEF PushChunk, Inv, TypeOK
  <2>4. QED BY <2>2, <2>3
<1>4. OneShell'
  BY DEF PushChunk, Inv, OneShell, Alive
<1>5. QED BY <1>1, <1>2, <1>3, <1>4 DEF Inv

LEMMA ShellExitsInv ==
  ASSUME Inv, NEW s \in Sess, ShellExits(s)
  PROVE  Inv'
<1> USE Pointers
<1> DEFINE n == [sess[s] EXCEPT !.exited = TRUE]
<1>1. sess \in [Sess -> Session] /\ waiter \in [Sess -> {"waiting", "telling", "done"}]
  BY DEF Inv, TypeOK
<1>2. n \in Session
  BY DEF Session
<1>3. sess' = [sess EXCEPT ![s] = n]
  BY DEF ShellExits
<1>4. sess' \in [Sess -> Session] /\ waiter' \in [Sess -> {"waiting", "telling", "done"}]
  BY <1>1, <1>2, <1>3 DEF ShellExits
<1>5. TypeOK'
  BY <1>4 DEF ShellExits, Inv, TypeOK, viewVars
<1>6. \A t \in Sess : /\ sess'[t].out = sess[t].out /\ sess'[t].sink = sess[t].sink
                      /\ sess[t].closed => sess'[t].closed
                      /\ sess[t].exited => sess'[t].exited
  BY <1>1, <1>3 DEF Session
<1>7. Behind' /\ Carried' /\ NothingLost'
  BY <1>6 DEF ShellExits, Inv, Behind, Carried, NothingLost, viewVars
<1>8. OneShell'
  BY <1>6 DEF ShellExits, Inv, OneShell, Alive, Sess
<1>9. QED BY <1>5, <1>7, <1>8 DEF Inv

\* What reports an exit, arrives or leaves the sessions, the readers and the
\* link as they are.
LEMMA QuietInv ==
  ASSUME Inv, TypeOK', Carried',
         UNCHANGED <<sess, reader, from, shown, link, term, started, closer>>
  PROVE  Inv'
BY DEF Inv, Behind, NothingLost, OneShell, Alive

LEMMA WaiterTellsInv ==
  ASSUME Inv, NEW s \in Sess, WaiterTells(s)
  PROVE  Inv'
<1>1. TypeOK' /\ Carried'
  BY DEF WaiterTells, ReportExit, Inv, TypeOK, Carried
<1>2. QED BY <1>1, QuietInv DEF WaiterTells

LEMMA TermOpenInv ==
  ASSUME Inv, NEW o \in Opens, TermOpen(o)
  PROVE  Inv'
<1>1. /\ open' = [open EXCEPT ![o].pc = "ensure"] /\ started' = started /\ cleaner' = cleaner
      /\ started' \in Nat /\ started <= started'
  BY Pointers DEF TermOpen, agentVars
<1>2. 1 \in Sess
  BY TerminalAssumption DEF Sess
<1>3. open' \in [Opens -> Opening] /\ Carried'
  BY <1>1, <1>2, OpenMoves
<1>4. TypeOK'
  BY <1>3 DEF TermOpen, Inv, TypeOK, agentVars, viewVars
<1>5. QED BY <1>3, <1>4, QuietInv DEF TermOpen, agentVars, viewVars

LEMMA KeepTerminalInv ==
  ASSUME Inv, NEW o \in Opens, KeepTerminal(o)
  PROVE  Inv'
<1>1. /\ open' = [open EXCEPT ![o] = [pc |-> "attach", s |-> term]]
      /\ term \in Sess /\ term <= started /\ started' = started /\ cleaner' = cleaner
  BY Pointers DEF KeepTerminal, TermAlive, agentVars, Inv, TypeOK
<1>2. started' \in Nat /\ started <= started' /\ term <= started'
  BY <1>1, Pointers
<1>3. open' \in [Opens -> Opening] /\ Carried'
  BY <1>1, <1>2, OpenMoves
<1>4. TypeOK'
  BY <1>3 DEF KeepTerminal, Inv, TypeOK, agentVars, viewVars
<1>5. QED BY <1>3, <1>4, QuietInv DEF KeepTerminal, agentVars, viewVars

LEMMA OpenTellsInv ==
  ASSUME Inv, NEW o \in Opens, OpenTells(o)
  PROVE  Inv'
<1>1. open[o].s \in Sess /\ open' = [open EXCEPT ![o] = NoOpen]
      /\ started' \in Nat /\ started <= started' /\ cleaner' = cleaner
  BY Pointers DEF OpenTells, agentVars
<1>2. open' \in [Opens -> Opening] /\ Carried'
  BY <1>1, OpenMoves
<1>3. told' \in SUBSET Sess
  BY <1>1 DEF OpenTells, ReportExit, Inv, TypeOK
<1>4. TypeOK'
  BY <1>2, <1>3 DEF OpenTells, Inv, TypeOK, agentVars
<1>5. QED BY <1>2, <1>4, QuietInv DEF OpenTells, agentVars

\* Closing or detaching a session takes its sink away and may end it, no more.
LEMMA SinkGone ==
  ASSUME Inv, NEW s \in Sess, NEW n,
         n = Closed(s) \/ n = [sess[s] EXCEPT !.sink = FALSE],
         sess' = [sess EXCEPT ![s] = n]
  PROVE  /\ sess' \in [Sess -> Session]
         /\ n = Closed(s) => sess'[s].closed
         /\ \A t \in Sess : /\ sess'[t].out = sess[t].out
                            /\ sess'[t].sink => sess[t].sink
                            /\ sess[t].closed => sess'[t].closed
                            /\ sess[t].exited => sess'[t].exited
<1>1. sess \in [Sess -> Session] /\ sess[s] \in Session
  BY DEF Inv, TypeOK
<1>2. /\ n \in Session /\ n.out = sess[s].out /\ n.sink = FALSE
      /\ sess[s].closed => n.closed
      /\ sess[s].exited => n.exited
      /\ n = Closed(s) => n.closed
  BY <1>1 DEF Session, Closed
<1>3. QED BY <1>1, <1>2

\* A step after which no session has a new sink, all else being as it was,
\* loses nothing.
LEMMA NoNewSink ==
  ASSUME Inv, UNCHANGED <<reader, from, shown, link>>,
         \A s \in Sess : sess'[s].out = sess[s].out /\ (sess'[s].sink => sess[s].sink)
  PROVE  Behind' /\ NothingLost'
BY DEF Inv, Behind, NothingLost

LEMMA StartTerminalInv ==
  ASSUME Inv, NEW o \in Opens, StartTerminal(o)
  PROVE  Inv'
<1> USE Pointers
<1>1. /\ sess' \in [Sess -> Session]
      /\ \A s \in Sess : /\ sess'[s].out = sess[s].out
                         /\ sess'[s].sink => sess[s].sink
                         /\ sess[s].closed => sess'[s].closed
                         /\ sess[s].exited => sess'[s].exited
  <2>1. CASE term = Nil
    BY <2>1 DEF StartTerminal, Inv, TypeOK
  <2>2. CASE term # Nil
    BY <2>2, SinkGone DEF StartTerminal
  <2>3. QED BY <2>1, <2>2
<1>2. ASSUME started < MaxSess
      PROVE  TypeOK' /\ Carried' /\ started' = started + 1 /\ term' = started + 1
  <2>1. /\ started' = started + 1 /\ term' = started + 1 /\ cleaner' = cleaner
        /\ open' = [open EXCEPT ![o] = [pc |-> "attach", s |-> started + 1]]
    BY <1>2 DEF StartTerminal
  <2>2. started + 1 \in Sess /\ started' \in Nat /\ started <= started' /\ started + 1 <= started'
    BY <1>2, <2>1 DEF Sess
  <2>3. open' \in [Opens -> Opening] /\ Carried'
    BY <2>1, <2>2, OpenMoves
  <2>4. started' \in 0..MaxSess /\ term' \in 0..started' /\ closer \in 0..started'
    BY <1>2, <2>1, <2>2 DEF Inv, TypeOK
  <2>5. TypeOK'
    BY <1>1, <2>1, <2>3, <2>4 DEF StartTerminal, Inv, TypeOK, viewVars
  <2>6. QED BY <2>1, <2>3, <2>5
<1>3. ASSUME ~(started < MaxSess)
      PROVE  TypeOK' /\ Carried' /\ started' = started
  <2>1. /\ started' = started /\ term' = 0 /\ cleaner' = cleaner
        /\ open' = [open EXCEPT ![o] = NoOpen]
    BY <1>3 DEF StartTerminal, Nil
  <2>2. started' \in Nat /\ started <= started'
    BY <2>1
  <2>3. 1 \in Sess
    BY TerminalAssumption DEF Sess
  <2>4. open' \in [Opens -> Opening] /\ Carried'
    BY <2>1, <2>2, <2>3, OpenMoves
  <2>5. TypeOK'
    BY <1>1, <2>1, <2>4 DEF StartTerminal, Inv, TypeOK, viewVars
  <2>6. QED BY <2>1, <2>4, <2>5
<1>4. /\ TypeOK' /\ Carried'
      /\ \/ started' = started
         \/ started' = started + 1 /\ term' = started + 1
  BY <1>2, <1>3
<1>5. Behind' /\ NothingLost'
  BY <1>1, NoNewSink DEF StartTerminal, viewVars
<1>6. OneShell'
  <2> SUFFICES ASSUME NEW s \in 1..started', ~sess'[s].closed, ~sess'[s].exited
               PROVE  s \in {term', closer}
    BY DEF OneShell, Alive, StartTerminal
  <2>1. CASE s \in 1..started
    <3>1. s \in Sess
      BY <2>1 DEF Sess
    <3>2. Alive(s)
      BY <1>1, <3>1 DEF Alive
    <3>3. s # term
      BY <3>1, <3>2 DEF StartTerminal, TermAlive, Sess, Nil
    <3>4. QED BY <2>1, <3>2, <3>3 DEF Inv, OneShell
  <2>2. CASE s = started + 1 /\ term' = started + 1
    BY <2>2
  <2>3. QED BY <1>4, <2>1, <2>2
<1>7. QED BY <1>4, <1>5, <1>6 DEF Inv

LEMMA AttachWithReplayInv ==
  ASSUME Inv, NEW o \in Opens, AttachWithReplay(o)
  PROVE  Inv'
<1> USE Pointers
<1> DEFINE x == open[o].s
           n == [sess[x] EXCEPT !.sink = TRUE]
           f == IF link = "open" THEN sess[x].out + 1 ELSE 0
<1>1. x \in Sess
  BY DEF AttachWithReplay
<1>2. /\ sess \in [Sess -> Session] /\ from \in [Sess -> 0 .. MaxOut + 1]
      /\ shown \in [Sess -> SUBSET (1..MaxOut)]
  BY DEF Inv, TypeOK
<1>3. n \in Session /\ f \in 0 .. MaxOut + 1
  <2>1. sess[x].out \in 0..MaxOut /\ sess[x] \in Session
    BY <1>1
  <2>2. f \in 0 .. MaxOut + 1
    BY <2>1
  <2>3. n \in Session
    BY <2>1 DEF Session
  <2>4. QED BY <2>2, <2>3
<1>4. /\ sess' = [sess EXCEPT ![x] = n]
      /\ from' = [from EXCEPT ![x] = f]
      /\ shown' = [shown EXCEPT ![x] = {}]
  BY DEF AttachWithReplay
<1>5. /\ sess' \in [Sess -> Session] /\ from' \in [Sess -> 0 .. MaxOut + 1]
      /\ shown' \in [Sess -> SUBSET (1..MaxOut)]
  BY <1>1, <1>2, <1>3, <1>4
<1>6. /\ open' = [open EXCEPT ![o].pc = "onExit"] /\ started' = started /\ cleaner' = cleaner
      /\ started' \in Nat /\ started <= started'
  BY DEF AttachWithReplay
<1>7. open' \in [Opens -> Opening] /\ Carried'
  BY <1>1, <1>6, OpenMoves
<1>8. TypeOK'
  BY <1>5, <1>7 DEF AttachWithReplay, Inv, TypeOK
<1>9. \A t \in Sess : /\ sess'[t].out = sess[t].out
                      /\ sess'[t].closed = sess[t].closed
                      /\ sess'[t].exited = sess[t].exited
  BY <1>1, <1>2, <1>4 DEF Session
<1>10. \A t \in Sess : t # x => /\ sess'[t] = sess[t] /\ from'[t] = from[t]
                               /\ shown'[t] = shown[t]
  BY <1>1, <1>2, <1>4
<1>11. from'[x] = f
  BY <1>1, <1>2, <1>4
<1>12. Behind'
  <2>1. \A t \in Sess : reader'[t].k # 0 => reader'[t].k = sess'[t].out
    BY <1>9 DEF AttachWithReplay, Inv, Behind
  <2>2. \A t \in Sess : from'[t] # 0 => link' = "open"
    BY <1>10, <1>11 DEF AttachWithReplay, Inv, Behind
  <2>3. QED BY <2>1, <2>2 DEF Behind
<1>13. NothingLost'
  <2> SUFFICES ASSUME NEW t \in Sess, sess'[t].sink, from'[t] # 0,
                      NEW k \in from'[t] .. sess'[t].out
               PROVE  k \in shown'[t] \/ reader[t] = [k |-> k, sink |-> TRUE]
    BY DEF NothingLost, AttachWithReplay
  <2>1. CASE t = x
    <3>1. from'[t] = sess[x].out + 1 /\ sess'[t].out = sess[x].out
      BY <1>9, <1>11, <2>1
    <3>2. QED BY <1>1, <3>1
  <2>2. CASE t # x
    BY <1>10, <2>2 DEF Inv, NothingLost
  <2>3. QED BY <2>1, <2>2
<1>14. OneShell'
  BY <1>9 DEF AttachWithReplay, Inv, OneShell, Alive, Sess
<1>15. QED BY <1>7, <1>8, <1>12, <1>13, <1>14 DEF Inv

LEMMA SetOnExitInv ==
  ASSUME Inv, NEW o \in Opens, SetOnExit(o)
  PROVE  Inv'
<1> USE Pointers
<1> DEFINE x == open[o].s
           n == [sess[x] EXCEPT !.onExit = TRUE]
<1>1. x \in Sess
  BY DEF SetOnExit
<1>2. sess' = [sess EXCEPT ![x] = n] /\ sess \in [Sess -> Session] /\ n \in Session
  BY <1>1 DEF SetOnExit, Inv, TypeOK, Session
<1>3. sess' \in [Sess -> Session]
  BY <1>1, <1>2
<1>4. /\ \/ open' = [open EXCEPT ![o] = NoOpen]
         \/ open' = [open EXCEPT ![o].pc = "tell"]
      /\ started' = started /\ cleaner' = cleaner /\ started' \in Nat /\ started <= started'
  <2>1. open' = [open EXCEPT ![o] = NoOpen] \/ open' = [open EXCEPT ![o].pc = "tell"]
    <3>1. CASE sess[x].exited
      BY <3>1 DEF SetOnExit
    <3>2. CASE ~sess[x].exited
      BY <3>2 DEF SetOnExit
    <3>3. QED BY <3>1, <3>2
  <2>2. QED BY <2>1 DEF SetOnExit
<1>5. open' \in [Opens -> Opening] /\ Carried'
  BY <1>1, <1>4, OpenMoves
<1>6. TypeOK'
  BY <1>3, <1>5 DEF SetOnExit, Inv, TypeOK, viewVars
<1>7. \A s \in Sess : /\ sess'[s].out = sess[s].out
                      /\ sess'[s].sink = sess[s].sink
                      /\ sess'[s].closed = sess[s].closed
                      /\ sess'[s].exited = sess[s].exited
  BY <1>1, <1>2 DEF Session
<1>8. Behind' /\ NothingLost'
  BY <1>7, NoNewSink DEF SetOnExit, viewVars
<1>9. OneShell'
  BY <1>7 DEF SetOnExit, Inv, OneShell, Alive, Sess
<1>10. QED BY <1>5, <1>6, <1>8, <1>9 DEF Inv

LEMMA TermCloseInv ==
  ASSUME Inv, TermClose
  PROVE  Inv'
<1>1. TypeOK' /\ Carried'
  BY Pointers DEF TermClose, Inv, TypeOK, Carried, Nil, viewVars
<1>2. Behind' /\ NothingLost'
  BY DEF TermClose, Inv, Behind, NothingLost, viewVars
<1>3. OneShell'
  BY Pointers DEF TermClose, Inv, OneShell, Alive, Nil
<1>4. QED BY <1>1, <1>2, <1>3 DEF Inv

LEMMA CloseSessionInv ==
  ASSUME Inv, CloseSession
  PROVE  Inv'
<1> USE Pointers
<1>1. closer \in Sess /\ sess' = [sess EXCEPT ![closer] = Closed(closer)]
  BY DEF CloseSession
<1>2. /\ sess' \in [Sess -> Session]
      /\ sess'[closer].closed
      /\ \A t \in Sess : /\ sess'[t].out = sess[t].out
                         /\ sess'[t].sink => sess[t].sink
                         /\ sess[t].closed => sess'[t].closed
                         /\ sess[t].exited => sess'[t].exited
  BY <1>1, SinkGone
<1>3. Behind' /\ NothingLost'
  BY <1>2, NoNewSink DEF CloseSession, viewVars
<1>4. TypeOK' /\ Carried'
  BY <1>2 DEF CloseSession, Inv, TypeOK, Carried, viewVars, Nil
<1>5. OneShell'
  <2> SUFFICES ASSUME NEW s \in 1..started, ~sess'[s].closed, ~sess'[s].exited
               PROVE  s = term
    BY DEF OneShell, Alive, CloseSession
  <2>1. s \in Sess
    BY DEF Sess
  <2>2. Alive(s) /\ s # closer
    BY <1>2, <2>1 DEF Alive
  <2>3. QED BY <2>2 DEF Inv, OneShell
<1>6. QED BY <1>3, <1>4, <1>5 DEF Inv

LEMMA CleanStartInv ==
  ASSUME Inv, CleanStart
  PROVE  Inv'
<1>1. cleaner' \in Cleaner /\ cleaner'.s <= started /\ (cleaner'.pc = "detach" => cleaner'.s # Nil)
  BY Pointers DEF CleanStart, Cleaner, Nil, Sess, Inv, TypeOK
<1>2. TypeOK' /\ Carried'
  BY <1>1 DEF CleanStart, Inv, TypeOK, Carried, agentVars, viewVars
<1>3. QED BY <1>2, QuietInv DEF CleanStart, agentVars, viewVars

LEMMA CleanDetachInv ==
  ASSUME Inv, CleanDetach
  PROVE  Inv'
<1> USE Pointers
<1> DEFINE x == cleaner.s
           n == [sess[x] EXCEPT !.sink = FALSE]
<1>1. x \in Sess /\ sess' = [sess EXCEPT ![x] = n]
  BY DEF CleanDetach
<1>2. /\ sess' \in [Sess -> Session]
      /\ \A t \in Sess : /\ sess'[t].out = sess[t].out
                         /\ sess'[t].sink => sess[t].sink
                         /\ sess[t].closed => sess'[t].closed
                         /\ sess[t].exited => sess'[t].exited
  BY <1>1, SinkGone
<1>3. Behind' /\ NothingLost'
  BY <1>2, NoNewSink DEF CleanDetach, viewVars
<1>4. cleaner' \in Cleaner /\ cleaner'.s = 0 /\ cleaner'.pc = "peer"
  BY DEF CleanDetach, Cleaner, Nil
<1>5. TypeOK'
  BY <1>2, <1>4 DEF CleanDetach, Inv, TypeOK, viewVars
<1>6. Carried'
  BY <1>4 DEF CleanDetach, Inv, Carried
<1>7. OneShell'
  BY <1>2 DEF CleanDetach, Inv, OneShell, Alive, Sess, viewVars
<1>8. QED BY <1>3, <1>5, <1>6, <1>7 DEF Inv

LEMMA CleanPeerInv ==
  ASSUME Inv, CleanPeer
  PROVE  Inv'
<1>1. TypeOK' /\ Carried'
  <2>1. cleaner' \in Cleaner /\ cleaner'.s = 0 /\ cleaner'.pc = "idle"
    BY Pointers DEF CleanPeer, NoClean, Cleaner, Nil
  <2>2. from' \in [Sess -> 0 .. MaxOut + 1] /\ shown' \in [Sess -> SUBSET (1..MaxOut)]
    BY Pointers DEF CleanPeer
  <2>3. TypeOK'
    BY <2>1, <2>2 DEF CleanPeer, Inv, TypeOK, agentVars
  <2>4. Carried'
    BY <2>1, Pointers DEF CleanPeer, Inv, Carried, agentVars
  <2>5. QED BY <2>3, <2>4
<1>2. Behind' /\ NothingLost' /\ OneShell'
  BY DEF CleanPeer, Inv, Behind, NothingLost, OneShell, Alive, agentVars
<1>3. QED BY <1>1, <1>2 DEF Inv

LEMMA LinkInv ==
  ASSUME Inv, NewPeer \/ ChannelOpens
  PROVE  Inv'
<1>1. TypeOK' /\ Carried'
  BY DEF NewPeer, ChannelOpens, Inv, TypeOK, Carried, agentVars, viewVars
<1>2. Behind' /\ NothingLost' /\ OneShell'
  BY DEF NewPeer, ChannelOpens, Inv, Behind, NothingLost, OneShell, Alive, agentVars, viewVars
<1>3. QED BY <1>1, <1>2 DEF Inv

-----------------------------------------------------------------------------
\* The inductive invariant holds at every step of the terminal (session.go
\* 109-249, cmd/agent/main.go 1588-1730).
THEOREM TerminalInvariance == Spec => []Inv
<1>1. Inv /\ [Next]_vars => Inv'
  <2> SUFFICES ASSUME Inv, [Next]_vars PROVE Inv'
    OBVIOUS
  <2>1. CASE UNCHANGED vars
    <3>1. TypeOK' /\ Carried'
      BY <2>1 DEF vars, agentVars, viewVars, Inv, TypeOK, Carried
    <3>2. QED BY <2>1, <3>1, QuietInv DEF vars, agentVars, viewVars
  <2>2. CASE Next
    BY <2>2, ReadChunkInv, PushChunkInv, ShellExitsInv, WaiterTellsInv, TermOpenInv,
       KeepTerminalInv, StartTerminalInv, AttachWithReplayInv, SetOnExitInv, OpenTellsInv,
       TermCloseInv, CloseSessionInv, CleanStartInv, CleanDetachInv, CleanPeerInv, LinkInv
       DEF Next, OpenStep
  <2>3. QED BY <2>1, <2>2
<1>2. QED BY InitInv, <1>1, PTL DEF Spec

\* The type invariant of the sessions and of the goroutines around them (session.go 13-60,
\* cmd/agent/main.go 1586-1730).
THEOREM TerminalTypeCorrect == Spec => []TypeOK
<1>1. Inv => TypeOK
  BY DEF Inv
<1>2. QED BY <1>1, TerminalInvariance, PTL

\* Nothing is lost between a replay and the live output, whatever attaches,
\* detaches, closes or reconnects (session.go 166-174).
THEOREM ReplayLosesNothing == Spec => []NothingLost
<1>1. Inv => NothingLost
  BY DEF Inv
<1>2. QED BY <1>1, TerminalInvariance, PTL

\* No shell runs on without an owner (cmd/agent/main.go 1586-1615, 1723-1730).
THEOREM OneShellAtATime == Spec => []OneShell
<1>1. Inv => OneShell
  BY DEF Inv
<1>2. QED BY <1>1, TerminalInvariance, PTL

-----------------------------------------------------------------------------
(* Exits are reported. *)

\* A step that ends no shell and sets no callback, and drops nobody who is about
\* to report but by reporting, leaves no exit unreported.
LEMMA ReportsStay ==
  ASSUME ExitReported, told \subseteq told',
         \A s \in Sess : sess'[s].onExit /\ sess'[s].exited => sess[s].onExit /\ sess[s].exited,
         \A s \in Sess : waiter[s] = "telling" => waiter'[s] = "telling" \/ s \in told',
         \A o \in Opens : open[o].pc = "tell" => open'[o] = open[o] \/ open[o].s \in told'
  PROVE  ExitReported'
<1> SUFFICES ASSUME NEW s \in Sess, sess'[s].onExit, sess'[s].exited
             PROVE  \/ s \in told' \/ waiter'[s] = "telling"
                    \/ \E o \in Opens : open'[o] = [pc |-> "tell", s |-> s]
  BY DEF ExitReported
<1>1. CASE s \in told \/ waiter[s] = "telling"
  BY <1>1
<1>2. CASE \E o \in Opens : open[o] = [pc |-> "tell", s |-> s]
  <2>1. PICK o \in Opens : open[o] = [pc |-> "tell", s |-> s]
    BY <1>2
  <2>2. open[o].pc = "tell" /\ open[o].s = s
    BY <2>1
  <2>3. QED BY <2>1, <2>2
<1>3. QED BY <1>1, <1>2 DEF ExitReported

LEMMA ExitsOfShells ==
  ASSUME Inv, ExitReported,
         \E s \in Sess : ReadChunk(s) \/ PushChunk(s) \/ ShellExits(s) \/ WaiterTells(s)
  PROVE  ExitReported'
<1>1. PICK s \in Sess : ReadChunk(s) \/ PushChunk(s) \/ ShellExits(s) \/ WaiterTells(s)
  OBVIOUS
<1>2. sess \in [Sess -> Session] /\ waiter \in [Sess -> {"waiting", "telling", "done"}]
  BY DEF Inv, TypeOK
<1>3. CASE ReadChunk(s)
  <2>1. \A t \in Sess : sess'[t].onExit = sess[t].onExit /\ sess'[t].exited = sess[t].exited
    BY <1>2, <1>3 DEF ReadChunk, Session
  <2>2. QED BY <1>3, <2>1, ReportsStay DEF ReadChunk, viewVars
<1>4. CASE PushChunk(s)
  BY <1>4, ReportsStay DEF PushChunk
<1>5. CASE ShellExits(s)
  <2> SUFFICES ASSUME NEW t \in Sess, sess'[t].onExit, sess'[t].exited
               PROVE  \/ t \in told' \/ waiter'[t] = "telling"
                      \/ \E o \in Opens : open'[o] = [pc |-> "tell", s |-> t]
    BY DEF ExitReported
  <2>1. CASE t = s
    BY <1>2, <1>5, <2>1 DEF ShellExits, Session
  <2>2. CASE t # s
    BY <1>2, <1>5, <2>2 DEF ShellExits, ExitReported, viewVars
  <2>3. QED BY <2>1, <2>2
<1>6. CASE WaiterTells(s)
  BY <1>2, <1>6, ReportsStay DEF WaiterTells, ReportExit
<1>7. QED BY <1>1, <1>3, <1>4, <1>5, <1>6

LEMMA ExitsOfOpens ==
  ASSUME Inv, ExitReported, NEW o \in Opens, TermOpen(o) \/ OpenStep(o)
  PROVE  ExitReported'
<1>1. /\ sess \in [Sess -> Session] /\ open \in [Opens -> Opening]
      /\ open[o].pc \in {"attach", "onExit", "tell"} => open[o].s \in Sess
      /\ term # Nil => term \in Sess
  BY Pointers DEF Inv, TypeOK
<1>2. CASE TermOpen(o) \/ KeepTerminal(o)
  BY <1>1, <1>2, ReportsStay DEF TermOpen, KeepTerminal, agentVars, viewVars
<1>3. CASE StartTerminal(o)
  <2>1. \A s \in Sess : sess'[s].onExit = sess[s].onExit /\ sess'[s].exited = sess[s].exited
    BY <1>1, <1>3 DEF StartTerminal, Closed, Session
  <2>2. \A p \in Opens : open[p].pc = "tell" => open'[p] = open[p]
    BY <1>1, <1>3 DEF StartTerminal
  <2>3. QED BY <1>3, <2>1, <2>2, ReportsStay DEF StartTerminal, viewVars
<1>4. CASE AttachWithReplay(o)
  <2>1. \A s \in Sess : sess'[s].onExit = sess[s].onExit /\ sess'[s].exited = sess[s].exited
    BY <1>1, <1>4 DEF AttachWithReplay, Session
  <2>2. \A p \in Opens : open[p].pc = "tell" => open'[p] = open[p]
    BY <1>1, <1>4 DEF AttachWithReplay
  <2>3. QED BY <1>4, <2>1, <2>2, ReportsStay DEF AttachWithReplay
<1>5. CASE SetOnExit(o)
  <2> DEFINE x == open[o].s
  <2> SUFFICES ASSUME NEW s \in Sess, sess'[s].onExit, sess'[s].exited
               PROVE  \/ s \in told' \/ waiter'[s] = "telling"
                      \/ \E p \in Opens : open'[p] = [pc |-> "tell", s |-> s]
    BY DEF ExitReported
  <2>1. CASE s = x
    <3>1. sess[x].exited
      BY <1>1, <1>5, <2>1 DEF SetOnExit, Session
    <3>2. open'[o] = [open[o] EXCEPT !.pc = "tell"]
      BY <1>1, <1>5, <3>1 DEF SetOnExit
    <3>3. open'[o] = [pc |-> "tell", s |-> x]
      BY <1>1, <3>2 DEF Opening
    <3>4. QED BY <2>1, <3>3
  <2>2. CASE s # x
    <3>1. sess[s].onExit /\ sess[s].exited
      BY <1>1, <1>5, <2>2 DEF SetOnExit
    <3>2. \A p \in Opens : open[p].pc = "tell" => open'[p] = open[p]
      BY <1>1, <1>5 DEF SetOnExit
    <3>3. \A p \in Opens : open[p] = [pc |-> "tell", s |-> s] => open[p].pc = "tell"
      OBVIOUS
    <3>4. QED BY <1>5, <3>1, <3>2, <3>3 DEF SetOnExit, ExitReported, viewVars
  <2>3. QED BY <2>1, <2>2
<1>6. CASE OpenTells(o)
  <2>1. open[o].s \in told' /\ told \subseteq told' /\ UNCHANGED <<sess, waiter>>
    BY <1>6 DEF OpenTells, ReportExit, agentVars
  <2>2. \A p \in Opens : p # o => open'[p] = open[p]
    BY <1>1, <1>6 DEF OpenTells
  <2>3. QED BY <2>1, <2>2, ReportsStay
<1>7. QED BY <1>2, <1>3, <1>4, <1>5, <1>6 DEF OpenStep

LEMMA ExitsOfOthers ==
  ASSUME Inv, ExitReported,
         \/ TermClose \/ CloseSession \/ CleanStart \/ CleanDetach \/ CleanPeer
         \/ NewPeer \/ ChannelOpens \/ UNCHANGED vars
  PROVE  ExitReported'
<1>1. UNCHANGED <<waiter, open, told>>
  BY DEF TermClose, CloseSession, CleanStart, CleanDetach, CleanPeer, NewPeer,
         ChannelOpens, vars, agentVars, viewVars
<1>2. \A s \in Sess : sess'[s].onExit = sess[s].onExit /\ sess'[s].exited = sess[s].exited
  <2>1. sess \in [Sess -> Session]
    BY DEF Inv, TypeOK
  <2>2. CASE CloseSession
    BY <2>1, <2>2, Pointers DEF CloseSession, Closed, Session
  <2>3. CASE CleanDetach
    BY <2>1, <2>3, Pointers DEF CleanDetach, Session
  <2>4. CASE ~CloseSession /\ ~CleanDetach
    BY <2>4 DEF TermClose, CleanStart, CleanPeer, NewPeer, ChannelOpens, vars, agentVars
  <2>5. QED BY <2>2, <2>3, <2>4
<1>3. QED BY <1>1, <1>2, ReportsStay

\* No exit is missed, whichever comes first of the exit and the callback
\* (session.go 133-153, 211-222).
THEOREM ExitsAreReported == Spec => []ExitReported
<1>1. Init => ExitReported
  BY DEF Init, ExitReported, NewSession
<1>2. Inv /\ ExitReported /\ [Next]_vars => ExitReported'
  BY ExitsOfShells, ExitsOfOpens, ExitsOfOthers DEF Next
<1>3. QED BY <1>1, <1>2, TerminalInvariance, PTL DEF Spec

-----------------------------------------------------------------------------
(* The replay buffer.                                                      *)

\* An index that may have passed the end of the array once.
Wrapped(x) == IF x < Size THEN x ELSE x - Size

\* An index that has passed the end of the array once comes back to its front.
LEMMA Wrap ==
  ASSUME NEW x \in Nat, x < 2 * Size
  PROVE  x % Size = Wrapped(x)
<1>1. Size \in Nat /\ Size > 0
  BY BufferAssumption
<1>2. CASE x < Size
  BY <1>1, <1>2 DEF Wrapped
<1>3. CASE x >= Size
  <2>1. x = (x - Size) + Size /\ x - Size \in 0 .. Size - 1
    BY <1>1, <1>3
  <2>2. QED BY <1>1, <1>3, <2>1 DEF Wrapped
<1>4. QED BY <1>1, <1>2, <1>3

\* The indices of the array never leave it.
LEMMA BufferTypeStep == BufferTypeOK /\ [BufferNext]_bufferVars => BufferTypeOK'
<1> SUFFICES ASSUME BufferTypeOK, [BufferNext]_bufferVars PROVE BufferTypeOK'
  OBVIOUS
<1> USE BufferAssumption
<1>1. CASE UNCHANGED bufferVars
  BY <1>1 DEF BufferTypeOK, bufferVars
<1>2. ASSUME NEW p \in Chunks, Refill(p), chunk' = p PROVE BufferTypeOK'
  BY <1>2 DEF BufferTypeOK, Refill, Slot
<1>3. ASSUME NEW p \in Chunks, Extend(p), chunk' = p PROVE BufferTypeOK'
  <2>1. p \in Seq(Byte) /\ Tip \in Slot
    BY DEF BufferTypeOK, Slot, Tip
  <2>2. buf' \in [Slot -> Byte \cup {Zero}]
    BY <1>3, <2>1 DEF BufferTypeOK, Extend, Overlay, Slot
  <2>3. start' \in Slot /\ count' \in 0..Size
    BY <1>3, <2>1 DEF BufferTypeOK, Extend, Slot
  <2>4. QED BY <1>3, <2>1, <2>2, <2>3 DEF BufferTypeOK
<1>4. QED BY <1>1, <1>2, <1>3 DEF BufferNext, WriteChunk

\* The type invariant of the ring buffer (ringbuffer.go 5-10).
THEOREM BufferTypeCorrect == BufferSpec => []BufferTypeOK
<1>1. NewBuffer => BufferTypeOK
  BY BufferAssumption DEF NewBuffer, BufferTypeOK, Slot
<1>2. QED BY <1>1, BufferTypeStep, PTL DEF BufferSpec

-----------------------------------------------------------------------------
\* The elements of a suffix.
LEMMA LatestElements ==
  ASSUME NEW S, NEW s \in Seq(S),
         NEW m, m = IF Len(s) <= Size THEN Len(s) ELSE Size
  PROVE  Hist!Latest(s) = [i \in 1..m |-> s[Len(s) - m + i]]
<1>1. Size \in Nat /\ Len(s) \in Nat
  BY BufferAssumption
<1>2. CASE Len(s) <= Size
  BY <1>2 DEF Hist!Latest
<1>3. CASE Len(s) > Size
  BY <1>3, BufferAssumption DEF Hist!Latest
<1>4. Len(s) <= Size \/ Len(s) > Size
  BY <1>1
<1>5. QED BY <1>2, <1>3, <1>4

\* A snapshot is a sequence of count bytes, and what a chunk makes of it by
\* concatenation has the elements one expects.
LEMMA SnapshotThenChunk ==
  ASSUME BufferTypeOK, NEW p \in Chunks
  PROVE  /\ Snapshot \in Seq(Byte \cup {Zero})
         /\ Len(Snapshot) = count
         /\ Snapshot \o p \in Seq(Byte \cup {Zero})
         /\ Len(Snapshot \o p) = count + Len(p)
         /\ \A j \in 1 .. count + Len(p) :
              (Snapshot \o p)[j] = IF j <= count THEN buf[(start + j - 1) % Size] ELSE p[j - count]
<1>1. p \in Seq(Byte) /\ p \in Seq(Byte \cup {Zero})
  BY BufferAssumption
<1>2. \A i \in 1..count : (start + i - 1) % Size \in Slot
  BY BufferAssumption DEF BufferTypeOK, Slot
<1>3. Snapshot \in Seq(Byte \cup {Zero}) /\ Len(Snapshot) = count
  BY <1>2 DEF BufferTypeOK, Snapshot
<1>4. QED BY <1>1, <1>3 DEF Snapshot, BufferTypeOK

\* A chunk as long as the buffer replaces it.
LEMMA RefillStep ==
  ASSUME BufferTypeOK, NEW p \in Chunks, Refill(p)
  PROVE  Snapshot' = Hist!Latest(Snapshot \o p)
<1>1. p \in Seq(Byte) /\ Len(p) \in Nat /\ Size \in Nat /\ Size > 0 /\ count \in Nat /\ Len(p) >= Size
  BY BufferAssumption DEF BufferTypeOK, Refill
<1>2. PICK full : full = Snapshot \o p
  OBVIOUS
<1>3. /\ full \in Seq(Byte \cup {Zero}) /\ Len(full) = count + Len(p)
      /\ \A j \in 1 .. count + Len(p) :
           full[j] = IF j <= count THEN buf[(start + j - 1) % Size] ELSE p[j - count]
  BY <1>2, SnapshotThenChunk
<1>4. Hist!Latest(full) = [i \in 1..Size |-> full[Len(full) - Size + i]]
  <2>1. Size = IF Len(full) <= Size THEN Len(full) ELSE Size
    BY <1>1, <1>3
  <2>2. QED BY <1>3, <2>1, LatestElements
<1>5. Snapshot' = [i \in 1..Size |-> buf'[(i - 1) % Size]]
  <2>1. start' = 0 /\ count' = Size
    BY DEF Refill
  <2>2. \A i \in 1..Size : 0 + i - 1 = i - 1
    BY <1>1
  <2>3. QED BY <2>1, <2>2 DEF Snapshot
<1>6. ASSUME NEW i \in 1..Size
      PROVE  buf'[(i - 1) % Size] = full[Len(full) - Size + i]
  <2>1. (i - 1) % Size = i - 1 /\ i - 1 \in Slot
    BY <1>1, Wrap DEF Slot, Wrapped
  <2>2. buf'[i - 1] = p[Len(p) - Size + (i - 1) + 1]
    BY <2>1 DEF Refill
  <2>3. full[Len(full) - Size + i] = p[Len(full) - Size + i - count]
    BY <1>1, <1>3
  <2>4. /\ Len(p) - Size + (i - 1) + 1 = Len(p) - Size + i
        /\ Len(full) - Size + i - count = Len(p) - Size + i
    BY <1>1, <1>3
  <2>5. QED BY <2>1, <2>2, <2>3, <2>4
<1>7. QED BY <1>2, <1>4, <1>5, <1>6

\* A shorter chunk is laid behind the bytes that stay.
LEMMA ExtendStep ==
  ASSUME BufferTypeOK, NEW p \in Chunks, Extend(p)
  PROVE  Snapshot' = Hist!Latest(Snapshot \o p)
<1>1. /\ Size \in Nat /\ Size > 0
      /\ count \in 0..Size /\ start \in 0 .. Size - 1
      /\ Len(p) \in 1 .. Size - 1
  BY BufferAssumption DEF BufferTypeOK, Slot, Extend
<1>2. PICK full : full = Snapshot \o p
  OBVIOUS
<1>3. /\ full \in Seq(Byte \cup {Zero}) /\ Len(full) = count + Len(p)
      /\ \A j \in 1 .. count + Len(p) :
           full[j] = IF j <= count THEN buf[(start + j - 1) % Size] ELSE p[j - count]
  BY <1>2, SnapshotThenChunk
<1> DEFINE over == IF count + Len(p) > Size THEN count + Len(p) - Size ELSE 0
<1>4. over \in Nat /\ over = IF count + Len(p) > Size THEN count + Len(p) - Size ELSE 0
  BY <1>1
<1> HIDE DEF over
<1>5. count' = count + Len(p) - over /\ start' = (start + over) % Size
  <2>1. start % Size = start
    BY <1>1, Wrap DEF Wrapped
  <2>2. CASE count + Len(p) > Size
    <3>1. over = count + Len(p) - Size
      BY <1>4, <2>2
    <3>2. start' = (start + (count + Len(p) - Size)) % Size /\ count' = Size
      BY <2>2 DEF Extend
    <3>3. count + Len(p) - over = Size
      BY <1>1, <3>1
    <3>4. QED BY <3>1, <3>2, <3>3
  <2>3. CASE ~(count + Len(p) > Size)
    <3>1. over = 0
      BY <1>4, <2>3
    <3>2. start' = start /\ count' = count + Len(p)
      BY <2>3 DEF Extend
    <3>3. start + over = start /\ count + Len(p) - over = count + Len(p)
      BY <1>1, <3>1
    <3>4. QED BY <2>1, <3>2, <3>3
  <2>4. QED BY <2>2, <2>3
<1>6. /\ count' \in 0..Size
      /\ start' \in 0 .. Size - 1
      /\ start' = Wrapped(start + over)
  <2>1. start + over \in Nat /\ start + over < 2 * Size
    BY <1>1, <1>4
  <2>2. count' \in 0..Size
    BY <1>1, <1>4, <1>5
  <2>3. (start + over) % Size = Wrapped(start + over)
    BY <2>1, Wrap
  <2>4. start' = Wrapped(start + over)
    BY <1>5, <2>3
  <2>5. start' \in 0 .. Size - 1
    BY <1>1, <1>4, <2>4 DEF Wrapped
  <2>6. QED BY <2>2, <2>4, <2>5
<1>7. Tip \in Nat /\ Tip = Wrapped(start + count)
  BY <1>1, Wrap DEF Tip, Wrapped
<1>8. Hist!Latest(full) = [i \in 1..count' |-> full[Len(full) - count' + i]]
  <2>1. count' = IF Len(full) <= Size THEN Len(full) ELSE Size
    <3>1. Len(full) = count + Len(p) /\ count' = count + Len(p) - over
      BY <1>3, <1>5
    <3>2. CASE count + Len(p) > Size
      <4>1. over = count + Len(p) - Size
        BY <1>4, <3>2
      <4>2. count' = Size /\ Len(full) > Size
        BY <1>1, <3>1, <3>2, <4>1
      <4>3. QED BY <1>1, <4>2
    <3>3. CASE ~(count + Len(p) > Size)
      BY <1>1, <1>4, <3>1, <3>3
    <3>4. QED BY <3>2, <3>3
  <2>2. QED BY <1>3, <2>1, LatestElements
<1>9. ASSUME NEW i \in 1..count'
      PROVE  buf'[(start' + i - 1) % Size] = full[Len(full) - count' + i]
  <2> DEFINE j == over + i
             k == Wrapped(start' + i - 1)
  <2>1. j \in Nat /\ j = over + i
    BY <1>4, <1>6
  <2>2. j \in 1 .. count + Len(p) /\ Len(full) - count' + i = j
    BY <1>1, <1>3, <1>4, <1>5, <2>1
  <2>3. start' + i - 1 \in Nat /\ start' + i - 1 < 2 * Size
    BY <1>1, <1>6
  <2>4. k \in Nat /\ k = Wrapped(start' + i - 1)
    BY <1>1, <1>6, <2>3 DEF Wrapped
  <2> HIDE DEF j, k
  <2>5. (start' + i - 1) % Size = k
    BY <2>3, <2>4, Wrap
  <2>6. /\ k \in 0 .. Size - 1
        /\ j <= count =>
             /\ k = Wrapped(start + j - 1)
             /\ ~(Tip <= k /\ k < Tip + Len(p))
             /\ ~(k + Size < Tip + Len(p))
        /\ j > count =>
             \/ Tip <= k /\ k < Tip + Len(p) /\ k - Tip + 1 = j - count
             \/ ~(Tip <= k) /\ k + Size < Tip + Len(p) /\ k + Size - Tip + 1 = j - count
    <3>1. PICK l \in 1 .. Size - 1 : l = Len(p)
      BY <1>1
    <3>2. PICK st2 \in 0 .. Size - 1 : st2 = start'
      BY <1>6
    <3>3. PICK tip \in Nat : tip = Tip
      BY <1>7
    <3>4. over = IF count + l > Size THEN count + l - Size ELSE 0
      BY <1>4, <3>1
    <3>5. tip = Wrapped(start + count) /\ st2 = Wrapped(start + over) /\ k = Wrapped(st2 + i - 1)
      BY <1>6, <1>7, <2>4, <3>2, <3>3
    <3>6. i \in 1 .. count + l - over
      BY <1>5, <3>1
    <3>7. /\ k \in 0 .. Size - 1
          /\ j <= count =>
               /\ k = Wrapped(start + j - 1)
               /\ ~(tip <= k /\ k < tip + l)
               /\ ~(k + Size < tip + l)
          /\ j > count =>
               \/ tip <= k /\ k < tip + l /\ k - tip + 1 = j - count
               \/ ~(tip <= k) /\ k + Size < tip + l /\ k + Size - tip + 1 = j - count
      <4>1. Size \in Nat /\ Size > 0 /\ count \in 0..Size /\ start \in 0 .. Size - 1
        BY <1>1
      <4>2. l \in 1 .. Size - 1 /\ st2 \in 0 .. Size - 1 /\ tip \in Nat
        BY <3>1, <3>2, <3>3
      <4>3. k \in Nat /\ over \in Nat /\ j \in Nat /\ j = over + i
        BY <1>4, <2>1, <2>4
      <4>4. QED BY <4>1, <4>2, <4>3, <3>4, <3>5, <3>6 DEF Wrapped
    <3>8. QED BY <3>1, <3>3, <3>7
  <2>7. buf'[k] = IF Tip <= k /\ k < Tip + Len(p) THEN p[k - Tip + 1]
                  ELSE IF k + Size < Tip + Len(p) THEN p[k + Size - Tip + 1]
                  ELSE buf[k]
    BY <2>6 DEF Extend, Overlay, Slot
  <2>8. CASE j <= count
    <3>1. start + j - 1 \in Nat /\ start + j - 1 < 2 * Size
      BY <1>1, <2>2, <2>8
    <3>2. k = (start + j - 1) % Size
      BY <2>6, <2>8, <3>1, Wrap
    <3>3. buf'[k] = buf[k]
      BY <2>6, <2>7, <2>8
    <3>4. full[j] = buf[(start + j - 1) % Size]
      BY <1>3, <2>2, <2>8
    <3>5. QED BY <2>2, <2>5, <3>2, <3>3, <3>4
  <2>9. CASE j > count
    <3>1. buf'[k] = p[j - count]
      BY <2>6, <2>7, <2>9
    <3>2. full[j] = p[j - count]
      BY <1>1, <1>3, <2>2, <2>9
    <3>3. QED BY <2>2, <2>5, <3>1, <3>2
  <2>10. QED BY <1>1, <2>2, <2>8, <2>9
<1>10. Snapshot' = [i \in 1..count' |-> buf'[(start' + i - 1) % Size]]
  BY DEF Snapshot
<1>11. QED BY <1>2, <1>8, <1>9, <1>10

\* Snapshots are the latest output: every step of the ring buffer is a write
\* of the same chunk to the history, or leaves it alone (ringbuffer.go 20-59).
THEOREM BufferHoldsLatest == BufferSpec => HoldsLatest
<1>1. NewBuffer => Hist!Init
  BY DEF NewBuffer, Hist!Init, Snapshot
<1>2. BufferTypeOK /\ [BufferNext]_bufferVars => [Hist!Next]_<<Snapshot, chunk>>
  <2> SUFFICES ASSUME BufferTypeOK, [BufferNext]_bufferVars PROVE [Hist!Next]_<<Snapshot, chunk>>
    OBVIOUS
  <2>1. CASE UNCHANGED bufferVars
    BY <2>1 DEF bufferVars, Snapshot
  <2>2. ASSUME NEW p \in Chunks, WriteChunk(p) PROVE Hist!Write(p)
    BY <2>2, RefillStep, ExtendStep DEF WriteChunk, Hist!Write
  <2>3. QED BY <2>1, <2>2 DEF BufferNext, Hist!Next
<1>3. QED BY <1>1, <1>2, BufferTypeCorrect, PTL DEF BufferSpec, Hist!Spec, HoldsLatest
=============================================================================
