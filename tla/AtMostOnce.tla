----------------------------- MODULE AtMostOnce -----------------------------
(***************************************************************************)
(* What the execution of approved actions promises, with nothing of how it *)
(* is done: a human may grant an approval, once and for definite           *)
(* arguments, and whatever was granted is applied to the infrastructure at *)
(* most once, with exactly those arguments.                                *)
(* ActionExecution.tla implements this specification.                      *)
(***************************************************************************)
EXTENDS Naturals

CONSTANTS
    Approvals,   \* the approvals, each one proposal of one run
    Args,        \* the arguments an action can be run with
    None         \* no value

VARIABLES
    granted,     \* granted[k]: the arguments a human authorised for k, or None
    effect,      \* effect[k]: the arguments k was applied with, or None
    times        \* times[k]: how many times an action was applied for k

vars == <<granted, effect, times>>

Init ==
    /\ granted = [k \in Approvals |-> None]
    /\ effect = [k \in Approvals |-> None]
    /\ times = [k \in Approvals |-> 0]

(* A human authorises k to run with the arguments a. *)
Grant(k, a) ==
    /\ granted[k] = None
    /\ granted' = [granted EXCEPT ![k] = a]
    /\ UNCHANGED <<effect, times>>

(* The action k authorises takes effect. *)
Apply(k) ==
    /\ granted[k] # None
    /\ times[k] = 0
    /\ effect' = [effect EXCEPT ![k] = granted[k]]
    /\ times' = [times EXCEPT ![k] = 1]
    /\ UNCHANGED granted

Next == \E k \in Approvals : Apply(k) \/ \E a \in Args : Grant(k, a)

Spec == Init /\ [][Next]_vars
=============================================================================
