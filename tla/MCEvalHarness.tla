---------------------------- MODULE MCEvalHarness ----------------------------
(* The evaluation harness for TLC: a suite of a few scenarios, run in full or in
   part. *)
EXTENDS EvalHarness, TLC

Symmetry == Permutations(Harnesses)
WholeOrFirst == {Scenarios, {1}}
OnlyWhole == {Scenarios}
==============================================================================
