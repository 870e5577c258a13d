------------------------------ MODULE RingBuffer ------------------------------
(***************************************************************************)
(* The ring buffer that keeps the latest output of a terminal              *)
(* (pkg/terminal/ringbuffer.go): an array of Size bytes, the index of the  *)
(* oldest one and their number.  Bytes are compared, never interpreted, so *)
(* Byte is any set; Zero is the byte of a slot never written.              *)
(***************************************************************************)
EXTENDS Naturals, Sequences

CONSTANTS Size, Byte, Zero, Chunks

ASSUME BufferAssumption ==
  /\ Size \in Nat \ {0}
  /\ Chunks \subseteq Seq(Byte)

VARIABLES
  buf, start, count,
  chunk   \* history: what append was given last

bufferVars == <<buf, start, count, chunk>>

Slot == 0 .. Size - 1

BufferTypeOK ==
  /\ buf \in [Slot -> Byte \cup {Zero}]
  /\ start \in Slot
  /\ count \in 0..Size
  /\ chunk \in Seq(Byte)

\* newRingBuffer
NewBuffer ==
  /\ buf = [i \in Slot |-> Zero]
  /\ start = 0
  /\ count = 0
  /\ chunk = <<>>

\* A chunk that fills the buffer: its tail replaces everything.
Refill(p) ==
  /\ Len(p) >= Size
  /\ buf' = [i \in Slot |-> p[Len(p) - Size + i + 1]]
  /\ start' = 0
  /\ count' = Size

\* Where the next byte goes.
Tip == (start + count) % Size

\* Mutant: the front of the buffer is not written.
Overlay_NoWrap(p) ==
  [i \in Slot |-> IF Tip <= i /\ i < Tip + Len(p) THEN p[i - Tip + 1] ELSE buf[i]]

\* copy(buf[Tip:], p), and what did not fit goes to the front.
Overlay(p) ==
  [i \in Slot |-> IF Tip <= i /\ i < Tip + Len(p) THEN p[i - Tip + 1]
                  ELSE IF i + Size < Tip + Len(p) THEN p[i + Size - Tip + 1]
                  ELSE buf[i]]

\* Mutant: the count grows past the capacity.
Extend_Uncapped(p) ==
  /\ Len(p) \in 1 .. Size - 1
  /\ buf' = Overlay(p)
  /\ UNCHANGED start
  /\ count' = count + Len(p)

\* The oldest bytes make room for what exceeds the capacity.
Extend(p) ==
  /\ Len(p) \in 1 .. Size - 1
  /\ buf' = Overlay(p)
  /\ IF count + Len(p) > Size
     THEN start' = (start + (count + Len(p) - Size)) % Size /\ count' = Size
     ELSE UNCHANGED start /\ count' = count + Len(p)

WriteChunk(p) == (Refill(p) \/ Extend(p)) /\ chunk' = p

BufferNext == \E p \in Chunks : WriteChunk(p)

BufferSpec == NewBuffer /\ [][BufferNext]_bufferVars

\* snapshot: from the oldest byte to the end of the array, then from its front.
Snapshot == [i \in 1..count |-> buf[(start + i - 1) % Size]]

Hist == INSTANCE History WITH recent <- Snapshot

\* A snapshot is exactly the latest output, in order, whatever the sizes of
\* the chunks and however often the index wrapped (ringbuffer.go 20-59).
HoldsLatest == Hist!Spec
=============================================================================
