------------------------------ MODULE MCTunnel ------------------------------
(* An instance of Tunnel for TLC: the connection c1 carries data both ways. *)
EXTENDS Tunnel

CONSTANTS c1, Size   \* bound: chunks each way on c1

MCBytes == [c \in Conns |-> IF c = c1 THEN Size ELSE 0]
=============================================================================
