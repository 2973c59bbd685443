------------------------------- MODULE Runner -------------------------------
(***************************************************************************)
(* The jobs of the worker: InvestigationRunner.start, resume and           *)
(* resume_for_decision (agent/graph.py) over the graph's checkpoint, the   *)
(* approvals table and the investigations table that mirrors the           *)
(* checkpoint for the API.                                                 *)
(*                                                                         *)
(* The checkpoint is LangGraph's: the node to run next and the state after *)
(* the last one.  A node's effects come before its checkpoint, and the     *)
(* mirror after it, each a step another process can fall between.          *)
(* The loop from `intake` to `propose` is one node here, `investigate`,    *)
(* that ends with an action to approve or without one; AgentLoop details   *)
(* it.  How `act` executes an action is the subject of ActionExecution.    *)
(***************************************************************************)
EXTENDS Worker

CONSTANTS
    MaxRounds,   \* rounds of proposals the iteration cap leaves room for
    MaxFailures, \* bound: executions of approved actions that fail
    MaxRaises    \* bound: jobs that raise, and failures that cannot be recorded

ASSUME RunnerAssumption ==
    /\ MaxRounds \in Nat \ {0}
    /\ MaxFailures \in Nat
    /\ MaxRaises \in Nat

VARIABLES
    status,      \* status[i]: investigations.status, the mirror, or "absent"
    checkpoint,  \* checkpoint[i]: the graph's last checkpoint
    approvals,   \* approvals[i][n]: the decision on the n-th round's proposal
    executed,    \* executed[i]: rounds whose action was executed
    failures,    \* failures[i]: how many executions of i's actions failed
    raises       \* how many jobs have raised or could not record their failure

runnerVars == <<status, checkpoint, approvals, executed, failures, raises>>

Rounds == 1 .. MaxRounds

Statuses == {"absent", "queued", "running", "awaiting_approval", "complete", "failed"}
Nodes == {"none", "investigate", "await_approval", "act", "summarize", "end"}
Decisions == {"approved", "rejected"}      \* an edited approval counts as approved

NoCheckpoint == [next |-> "none", status |-> "running", round |-> 1]
Checkpoints == [next : Nodes, status : Statuses \ {"absent", "queued"}, round : Rounds]

RunnerTypeOK ==
    /\ status \in [Investigations -> Statuses]
    /\ checkpoint \in [Investigations -> Checkpoints]
    /\ approvals \in [Investigations -> [Rounds -> Decisions \cup {"absent", "pending"}]]
    /\ executed \in [Investigations -> SUBSET Rounds]
    /\ failures \in [Investigations -> 0 .. MaxFailures]
    /\ raises \in 0 .. MaxRaises

RunnerInit ==
    /\ status = [i \in Investigations |-> "absent"]
    /\ checkpoint = [i \in Investigations |-> NoCheckpoint]
    /\ approvals = [i \in Investigations |-> [n \in Rounds |-> "absent"]]
    /\ executed = [i \in Investigations |-> {}]
    /\ failures = [i \in Investigations |-> 0]
    /\ raises = 0

------------------------------------------------------------------------------
(* Helpers. *)

Round(i) == checkpoint[i].round

(* The run stands at the interrupt before `act`. *)
AtInterrupt(i) == checkpoint[i].next = "act"

(* _decided: the approval the run waits for has a decision. *)
Bug_Decided(i) == TRUE                      \* the approvals row is not read
Decided(i) == approvals[i][Round(i)] \in Decisions

(* resume_for_decision: the run has moved past the decision - it finished, or
   acted on it and is paused on a failure. *)
Bug_Consumed(i) == checkpoint[i].next \in {"none", "end"}  \* only a finished run counts
Consumed(i) ==
    \/ checkpoint[i].next \in {"none", "end"}
    \/ AtInterrupt(i) /\ checkpoint[i].status # "awaiting_approval"

(* _persist: the mirror takes the checkpoint's status. *)
Persist(i) ==
    status' = [status EXCEPT ![i] =
                  IF checkpoint[i].next = "none" THEN @ ELSE checkpoint[i].status]

Goto(pc) == job' = [job EXCEPT !.pc = pc]

Save(i, next, st, round) ==
    checkpoint' = [checkpoint EXCEPT ![i] = [next |-> next, status |-> st, round |-> round]]

(* The running job j is at step pc. *)
At(pc) == job.pc = pc

(* The node the graph runs next, when the job is about to run one. *)
RunsNode(node) == At("node") /\ checkpoint[job.inv].next = node

(* In a step of the thread that is not the worker's own. *)
InJob == UNCHANGED <<active, followUps, queue>>

------------------------------------------------------------------------------
(* Starting a job. *)

(* start: refused if there are checkpoints, else the mirror says running. *)
Start ==
    /\ At("begin") /\ job.kind = "start"
    /\ IF checkpoint[job.inv].next = "none"
       THEN status' = [status EXCEPT ![job.inv] = "running"] /\ Goto("node")
       ELSE UNCHANGED status /\ Goto("crashed")
    /\ UNCHANGED <<checkpoint, approvals, executed, failures, raises>>
    /\ InJob

(* resume_for_decision of a decision the run has consumed: the real status is
   put back where the API wrote `queued`. *)
DecisionConsumed ==
    /\ At("begin") /\ job.kind = "decision"
    /\ Consumed(job.inv)
    /\ Persist(job.inv)
    /\ Goto("finally")
    /\ UNCHANGED <<checkpoint, approvals, executed, failures, raises>>
    /\ InJob

(* resume, from either endpoint: `act` is never run for an undecided approval;
   mirroring the checkpoint puts the status back to awaiting_approval. *)
Resumes == job.kind = "resume" \/ (job.kind = "decision" /\ ~ Consumed(job.inv))

SkipUndecided ==
    /\ At("begin") /\ Resumes
    /\ AtInterrupt(job.inv) /\ ~ Decided(job.inv)
    /\ Persist(job.inv)
    /\ Goto("finally")
    /\ UNCHANGED <<checkpoint, approvals, executed, failures, raises>>
    /\ InJob

Resume ==
    /\ At("begin") /\ Resumes
    /\ ~ AtInterrupt(job.inv) \/ Decided(job.inv)
    /\ Goto("running")
    /\ UNCHANGED runnerVars
    /\ InJob

(* A graph that has finished has no node to run and goes straight to settling. *)
MarkRunning ==
    /\ At("running")
    /\ status' = [status EXCEPT ![job.inv] = "running"]
    /\ Goto(IF checkpoint[job.inv].next = "end" THEN "settle" ELSE "node")
    /\ UNCHANGED <<checkpoint, approvals, executed, failures, raises>>
    /\ InJob

------------------------------------------------------------------------------
(* The nodes. *)

(* The graph checkpoints its input before the first node. *)
SaveInput ==
    /\ RunsNode("none") /\ job.kind = "start"
    /\ Save(job.inv, "investigate", "running", 1)
    /\ UNCHANGED <<job, status, approvals, executed, failures, raises>>
    /\ InJob

(* The agent gathers evidence and proposes: an action that needs approval, or
   none. *)
Investigate ==
    /\ RunsNode("investigate")
    /\ \E next \in {"await_approval", "summarize"} :
           Save(job.inv, next, checkpoint[job.inv].status, Round(job.inv))
    /\ Goto("mirror")
    /\ UNCHANGED <<status, approvals, executed, failures, raises>>
    /\ InJob

(* await_approval inserts the approval unless it is there already: its id is
   derived from the proposal, so a run repeated after a crash finds it. *)
Bug_Fresh(i, n) == "pending"                \* the row is written again
Fresh(i, n) == IF approvals[i][n] = "absent" THEN "pending" ELSE approvals[i][n]

CreateApproval ==
    /\ RunsNode("await_approval")
    /\ LET i == job.inv
           n == Round(i)
       IN approvals' = [approvals EXCEPT ![i][n] = Fresh(i, n)]
    /\ Goto("saved_approval")
    /\ UNCHANGED <<status, checkpoint, executed, failures, raises>>
    /\ InJob

SaveAwaiting ==
    /\ At("saved_approval")
    /\ Save(job.inv, "act", "awaiting_approval", Round(job.inv))
    /\ Goto("mirror")
    /\ UNCHANGED <<status, approvals, executed, failures, raises>>
    /\ InJob

(* act: what it does with the decision it reads. An action already recorded as
   executed is not executed again; any other may fail. *)
Bug_ActOutcomes(i) ==                       \* any decision counts as an approval
    IF approvals[i][Round(i)] \notin Decisions THEN {"undecided"}
    ELSE IF Round(i) \in executed[i] THEN {"executed"}
    ELSE {"executed"} \cup (IF failures[i] < MaxFailures THEN {"failed"} ELSE {})
ActOutcomes(i) ==
    IF approvals[i][Round(i)] = "rejected" THEN {"rejected"}
    ELSE IF approvals[i][Round(i)] # "approved" THEN {"undecided"}
    ELSE IF Round(i) \in executed[i] THEN {"executed"}
    ELSE {"executed"} \cup (IF failures[i] < MaxFailures THEN {"failed"} ELSE {})

Act ==
    /\ RunsNode("act")
    /\ LET i == job.inv IN
       \E result \in ActOutcomes(i) :
           /\ job' = [job EXCEPT !.pc = "acted", !.result = result]
           /\ executed' = [executed EXCEPT ![i] =
                              IF result = "executed" THEN @ \cup {Round(i)} ELSE @]
           /\ failures' = [failures EXCEPT ![i] = IF result = "failed" THEN @ + 1 ELSE @]
    /\ UNCHANGED <<status, checkpoint, approvals, raises>>
    /\ InJob

(* route_after_act: a rejection goes back to planning while the cap allows (the
   cap counts iterations, so that any round can be the last), a failed action
   waits before `act` to be retried, anything else closes out. *)
CapAllows(n) == n < MaxRounds

Bug_AfterFailure == [next |-> "summarize", status |-> "running"]  \* it closes out
AfterFailure == [next |-> "act", status |-> "failed"]

SaveAct ==
    LET i == job.inv
        n == Round(i)
    IN
    /\ At("acted")
    /\ \/ /\ job.result = "rejected" /\ CapAllows(n)
          /\ Save(i, "investigate", "running", n + 1)
       \/ job.result = "failed" /\ Save(i, AfterFailure.next, AfterFailure.status, n)
       \/ job.result \in {"rejected", "executed"} /\ Save(i, "summarize", "running", n)
       \/ job.result = "undecided" /\ Save(i, "summarize", "awaiting_approval", n)
    /\ job' = [job EXCEPT !.pc = "mirror", !.result = None]
    /\ UNCHANGED <<status, approvals, executed, failures, raises>>
    /\ InJob

(* summarize closes the investigation, and keeps a failure a failure. *)
Summarize ==
    /\ RunsNode("summarize")
    /\ Save(job.inv, "end",
            IF checkpoint[job.inv].status = "failed" THEN "failed" ELSE "complete",
            Round(job.inv))
    /\ Goto("mirror")
    /\ UNCHANGED <<status, approvals, executed, failures, raises>>
    /\ InJob

(* The job raises: in a node (the model server, the database), in which case no
   checkpoint is written, or at any other query before it ends. *)
JobRaises ==
    /\ job.pc \in JobSteps \ {"crashed", "finally", "follow"}
    /\ raises < MaxRaises
    /\ raises' = raises + 1
    /\ job' = [job EXCEPT !.pc = "crashed", !.result = None]
    /\ UNCHANGED <<status, checkpoint, approvals, executed, failures>>
    /\ InJob

------------------------------------------------------------------------------
(* After a node, and after the run. *)

(* _advance mirrors the checkpoint after every node, and stops at the interrupt
   before `act` or at the end. *)
Mirror ==
    /\ At("mirror")
    /\ Persist(job.inv)
    /\ Goto(IF checkpoint[job.inv].next \in {"act", "end"} THEN "settle" ELSE "node")
    /\ UNCHANGED <<checkpoint, approvals, executed, failures, raises>>
    /\ InJob

(* _settle goes past an approval that is already decided. *)
GoesOn(i) ==
    checkpoint[i].status = "awaiting_approval" /\ AtInterrupt(i) /\ Decided(i)

Settle ==
    /\ At("settle")
    /\ Goto(IF GoesOn(job.inv) THEN "settle_persist" ELSE "final_persist")
    /\ UNCHANGED runnerVars
    /\ InJob

SettlePersist ==
    /\ job.pc \in {"settle_persist", "final_persist"}
    /\ Persist(job.inv)
    /\ Goto(IF At("settle_persist") THEN "node" ELSE "finally")
    /\ UNCHANGED <<checkpoint, approvals, executed, failures, raises>>
    /\ InJob

(* A job that raised leaves the investigation failed, its checkpoints kept; if
   the database is still away, the failure is only logged. *)
MarkFailed ==
    /\ At("crashed")
    /\ \/ status' = [status EXCEPT ![job.inv] = "failed"] /\ UNCHANGED raises
       \/ raises < MaxRaises /\ raises' = raises + 1 /\ UNCHANGED status
    /\ Goto("finally")
    /\ UNCHANGED <<checkpoint, approvals, executed, failures>>
    /\ InJob

RunnerStep ==
    \/ Start \/ DecisionConsumed \/ SkipUndecided \/ Resume \/ MarkRunning
    \/ SaveInput \/ Investigate \/ CreateApproval \/ SaveAwaiting
    \/ Act \/ SaveAct \/ Summarize \/ JobRaises
    \/ Mirror \/ Settle \/ SettlePersist \/ MarkFailed

(* A step of the worker's thread. *)
ThreadStep ==
    \/ RunnerStep
    \/ (TakeJob \/ EndJob \/ SubmitFollowUp) /\ UNCHANGED runnerVars
=============================================================================
