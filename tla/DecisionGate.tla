---------------------------- MODULE DecisionGate ----------------------------
(***************************************************************************)
(* What an investigation promises the human it asks, with nothing of how   *)
(* it is done: it asks about one proposed action at a time, the answer is  *)
(* final, an action is carried out only on its approval and once, and the  *)
(* run is over only when nothing waits for an answer and what was approved *)
(* is done. After a rejection it may propose again.                        *)
(* InvestigationService.tla implements this specification with the jobs of *)
(* its worker, AgentLoop.tla with the nodes of the graph.                  *)
(***************************************************************************)

CONSTANTS
    Runs,        \* the investigations
    Proposals    \* the proposals a run can make

VARIABLES
    decision,    \* decision[r][p]: absent, pending, approved or rejected
    done,        \* done[r]: the proposals of r that were carried out
    closed       \* the runs that are over

vars == <<decision, done, closed>>

Init ==
    /\ decision = [r \in Runs |-> [p \in Proposals |-> "absent"]]
    /\ done = [r \in Runs |-> {}]
    /\ closed = {}

(* Nothing of r but p was ever proposed, or it was refused. *)
Alone(r, p) ==
    \A q \in Proposals \ {p} : decision[r][q] \in {"absent", "rejected"}

(* The run asks about p. *)
Propose(r, p) ==
    /\ r \notin closed
    /\ decision[r][p] = "absent" /\ Alone(r, p)
    /\ decision' = [decision EXCEPT ![r][p] = "pending"]
    /\ UNCHANGED <<done, closed>>

(* The human answers. *)
Decide(r, p) ==
    /\ decision[r][p] = "pending"
    /\ \E d \in {"approved", "rejected"} : decision' = [decision EXCEPT ![r][p] = d]
    /\ UNCHANGED <<done, closed>>

(* What was approved is carried out. *)
CarryOut(r, p) ==
    /\ r \notin closed
    /\ decision[r][p] = "approved" /\ p \notin done[r]
    /\ done' = [done EXCEPT ![r] = @ \cup {p}]
    /\ UNCHANGED <<decision, closed>>

(* Nothing of p is left to do. *)
Finished(r, p) ==
    /\ decision[r][p] # "pending"
    /\ decision[r][p] = "approved" => p \in done[r]

Close(r) ==
    /\ r \notin closed
    /\ \A p \in Proposals : Finished(r, p)
    /\ closed' = closed \cup {r}
    /\ UNCHANGED <<decision, done>>

Next ==
    \E r \in Runs :
        \/ Close(r)
        \/ \E p \in Proposals : Propose(r, p) \/ Decide(r, p) \/ CarryOut(r, p)

Spec == Init /\ [][Next]_vars

------------------------------------------------------------------------------
(* What follows from it. *)

(* Nothing is carried out without its approval. *)
OnlyOnApproval ==
    \A r \in Runs : \A p \in done[r] : p \in Proposals /\ decision[r][p] = "approved"

(* A run never has two proposals that wait or were approved: it acts at most
   once. *)
OneAction ==
    \A r \in Runs, p, q \in Proposals :
        {decision[r][p], decision[r][q]} \subseteq {"pending", "approved"} => p = q

(* A run that is over stays answered and done. *)
ClosedIsFinished == \A r \in closed : \A p \in Proposals : Finished(r, p)

Kept == OnlyOnApproval /\ OneAction /\ ClosedIsFinished
=============================================================================
