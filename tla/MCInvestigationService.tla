----------------------- MODULE MCInvestigationService -----------------------
(***************************************************************************)
(* InvestigationService on small instances. Investigations and requests    *)
(* of one kind are interchangeable: nothing orders or names them.          *)
(***************************************************************************)
EXTENDS InvestigationService, TLC

Symmetry ==
    Permutations(Investigations) \cup Permutations(StartRequests)
        \cup Permutations(DecideRequests) \cup Permutations(ResumeRequests)
=============================================================================
