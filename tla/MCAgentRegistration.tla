------------------------- MODULE MCAgentRegistration -------------------------
(* An instance of AgentRegistration for TLC.                                 *)
EXTENDS AgentRegistration
=============================================================================
