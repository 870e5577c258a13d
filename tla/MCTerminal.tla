----------------------------- MODULE MCTerminal -----------------------------
(* An instance of Terminal for TLC: the first shell prints, a second one is *)
(* only started, closed and reported beside it.                            *)
EXTENDS Terminal, TLC

Symmetry == Permutations(Opens)

FirstPrints ==
  \/ ReadChunk(1) \/ PushChunk(1)
  \/ \E s \in Sess : ShellExits(s) \/ WaiterTells(s)
  \/ \E o \in Opens : TermOpen(o) \/ OpenStep(o)
  \/ TermClose \/ CloseSession
  \/ CleanStart \/ CleanDetach \/ CleanPeer
  \/ NewPeer \/ ChannelOpens

FirstPrintsSpec == Init /\ [][FirstPrints]_vars
=============================================================================
