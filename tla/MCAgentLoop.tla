---------------------------- MODULE MCAgentLoop ----------------------------
(***************************************************************************)
(* AgentLoop on small instances: nothing orders or names the services.     *)
(***************************************************************************)
EXTENDS AgentLoop, TLC

Symmetry == Permutations(Services)
============================================================================
