------------------------------ MODULE MCAccounts ------------------------------
(* Instances of Accounts for TLC. *)
EXTENDS Accounts, FiniteSets, TLC

Symmetry == Permutations(Reqs) \cup Permutations(RandomIds)

\* Bound: agent records, requests in progress, shares made and ids made up, in all.
\* It leaves room for two requests about one agent and its share, and for two records
\* after both ids were made up.
MaxAtOnce == 4

Few ==
  Cardinality({a \in AgentId : data.agents[a] # NoAgent})
  + Cardinality({r \in Reqs : req[r] # Idle})
  + made.shares + Cardinality(made.ids) <= MaxAtOnce
=============================================================================
