------------------------------- MODULE History -------------------------------
(***************************************************************************)
(* What the replay buffer of a terminal promises: of everything written to *)
(* it, it holds the latest Size bytes, in the order they were written.     *)
(***************************************************************************)
EXTENDS Naturals, Sequences

CONSTANTS
  Size,    \* capacity in bytes
  Chunks   \* what one read of the PTY may return: sequences of bytes

VARIABLES
  recent,  \* what it holds
  chunk    \* what was written last

\* The last Size elements of a sequence, or all of a shorter one.
Latest(s) == IF Len(s) <= Size THEN s ELSE SubSeq(s, Len(s) - Size + 1, Len(s))

Init == recent = <<>> /\ chunk = <<>>

Write(p) == recent' = Latest(recent \o p) /\ chunk' = p

Next == \E p \in Chunks : Write(p)

Spec == Init /\ [][Next]_<<recent, chunk>>
=============================================================================
