------------------------------ MODULE MCCorpus ------------------------------
(* The corpus for TLC: settings that make one chunk and two of the documents. *)
EXTENDS Corpus, TLC

TwoSettings == {1, 2}
OneSetting == <<2>>
Symmetry == Permutations(Seeders) \cup Permutations(Sweepers) \cup Permutations(Versions)
==============================================================================
