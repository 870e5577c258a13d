----------------------------- MODULE MCTurnMeter -----------------------------
(* Instances of TurnMeter for TLC. *)
EXTENDS TurnMeter, TLC

Symmetry == Permutations(Allocs) \cup Permutations(Ports)
=============================================================================
