----------------------------- MODULE MCWebProxy -----------------------------
(* An instance of WebProxy for TLC: the response of q1 has Size chunks.      *)
EXTENDS WebProxy

CONSTANT Size

MCChunks == [q \in Requests |-> Size]
=============================================================================
