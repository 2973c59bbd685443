-------------------------------- MODULE Lists --------------------------------
(***************************************************************************)
(* Lists made of the members of another: some of them in their order, or   *)
(* in an order of their own.  A place of the new list is taken by the      *)
(* member that so many come before.                                        *)
(***************************************************************************)
EXTENDS Integers, Sequences, FiniteSets

(* The members of a list at some of its places; `before` holds the pairs of places of
   which the first comes before the second, and is a strict order of them. *)
Arranged(list, places, before) ==
    LET Place(i) == 1 + Cardinality({j \in places : <<j, i>> \in before})
    IN [p \in 1..Cardinality(places) |-> list[CHOOSE i \in places : Place(i) = p]]

(* Those at some of its places, in the order they are in. *)
InOrder(places) == {c \in places \X places : c[1] < c[2]}
Picked(list, places) == Arranged(list, places, InOrder(places))

(* The numbers of a list in order, equal ones in the order they are in. *)
Upwards(list) ==
    {c \in (DOMAIN list) \X (DOMAIN list) :
        list[c[1]] < list[c[2]] \/ (list[c[1]] = list[c[2]] /\ c[1] < c[2])}
Ascending(list) == Arranged(list, DOMAIN list, Upwards(list))

(* Each value once, where it is first. *)
Firsts(list) == {i \in DOMAIN list : \A j \in DOMAIN list : list[j] = list[i] => i <= j}
==============================================================================
