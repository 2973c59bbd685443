---------------------------- MODULE MCMigrations ----------------------------
(* The migrations for TLC: the first file creates the tables the second and the
   fourth alter (as 002 for 005, 004 for 007); the third needs none. *)
EXTENDS Migrations

OneChain == [f \in Files |-> IF f \in {2, 4} THEN {1} ELSE {}]
==============================================================================
