--------------------------- MODULE MCAgentSession ---------------------------
(* Instances of AgentSession for TLC. *)
EXTENDS AgentSession

\* A goroutine in cleanup() goes on before anything else happens, the signaling
\* loop excepted: what is left of an older connection can then only be a wait, a
\* timer or a message that began before.
Cleans(t) == t # Loop /\ at[t] \in Cleaning
PromptNext ==
  /\ Next
  /\ (\E t \in Task : Cleans(t)) => \E t \in Task : Cleans(t) /\ Steps(t)

PromptSpec == Init /\ [][PromptNext]_vars
=============================================================================
