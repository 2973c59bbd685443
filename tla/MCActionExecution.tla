------------------------- MODULE MCActionExecution -------------------------
(***************************************************************************)
(* ActionExecution on small instances. Runners and exchanges are           *)
(* interchangeable, and so are approvals: nothing orders or names them.    *)
(***************************************************************************)
EXTENDS ActionExecution, TLC

Symmetry == Permutations(Runners) \cup Permutations(Requests)
                \cup Permutations(Args) \cup Permutations(Approvals)
============================================================================
