------------------------------ MODULE AgentLoop ------------------------------
(***************************************************************************)
(* One investigation through the nine nodes of the graph (agent/graph.py,  *)
(* agent/nodes.py): gathering evidence under the iteration cap, retrying   *)
(* tools, proposing an action only on evidence, asking a human, going back *)
(* to planning on a rejection, and mirroring the tool calls.               *)
(*                                                                         *)
(* The model may answer anything, and a tool may do anything. The job may  *)
(* die at any step and be run again: it starts from the last checkpoint,   *)
(* and a node that was not checkpointed is run again. This is the inside   *)
(* of the node `investigate` of Runner.tla; who starts and resumes jobs is *)
(* the subject of InvestigationService.                                    *)
(***************************************************************************)
EXTENDS Integers, Sequences, FiniteSets

CONSTANTS
    Services,       \* services the tools and the actions can name
    MaxIterations,  \* settings.max_iterations
    MaxRetries,     \* settings.tool_max_retries
    MaxDeaths,      \* bound: how many times a job dies
    None            \* no value

ASSUME LoopAssumption ==
    /\ None \notin Services
    /\ MaxIterations \in Nat \ {0}
    /\ MaxRetries \in Nat \ {0}
    /\ MaxDeaths \in Nat

VARIABLES
    checkpoint,   \* the next node and the state after the last one
    job,          \* where the job is, and the records of the tool it is running
    rows,         \* the tool_calls table, in the order of insertion
    approvals,    \* approvals[id]: absent, or pending, or its decision
    deaths,       \* how many times a job has died
    returned      \* history: returned[id]: times its rejection led back to planning

vars == <<checkpoint, job, rows, approvals, deaths, returned>>

Nodes == {"intake", "retrieve", "plan", "execute_tool", "retrieve_again", "reflect",
          "propose", "await_approval", "act", "summarize", "end"}

(* settled: the job has ended by itself; dead: it was killed, or has raised. *)
JobSteps == {"dead", "settled", "node", "created", "count", "insert"}

(* ok, abnormal: success or partial, without or with errors or a moved metric.
   failed: also a timeout. *)
Results == {"ok", "abnormal", "failed", "malformed"}

(* One attempt of a tool. *)
Calls == [service : Services, attempt : 1 .. MaxRetries, status : Results]

(* What an approval id hashes: the iteration and the proposed action. *)
Ids == (1 .. MaxIterations) \X Services

Checkpoints ==
    [next : Nodes, iteration : 0 .. MaxIterations, again : BOOLEAN,
     planned : Services \cup {None}, proposal : Services \cup {None}, calls : Seq(Calls),
     status : {"running", "awaiting_approval", "complete", "failed"}]

TypeOK ==
    /\ checkpoint \in Checkpoints
    /\ job \in [pc : JobSteps, batch : Seq(Calls), row : Nat]
    /\ rows \in Seq(Calls)
    /\ approvals \in [Ids -> {"absent", "pending", "approved", "rejected"}]
    /\ deaths \in 0 .. MaxDeaths
    /\ returned \in [Ids -> Nat]

Running == [pc |-> "node", batch |-> << >>, row |-> 0]

Init ==
    /\ checkpoint = [next |-> "intake", iteration |-> 0, again |-> TRUE, planned |-> None,
                     proposal |-> None, calls |-> << >>, status |-> "running"]
    /\ job = Running
    /\ rows = << >>
    /\ approvals = [id \in Ids |-> "absent"]
    /\ deaths = 0
    /\ returned = [id \in Ids |-> 0]

------------------------------------------------------------------------------
(* Helpers. *)

RunsNode(node) == job.pc = "node" /\ checkpoint.next = node

(* The node has returned, its checkpoint is written, and the mirror follows. *)
Mirrors == job' = [Running EXCEPT !.pc = "count"]

(* The node went no further than its checkpoint: nothing outside was touched. *)
Pure == UNCHANGED <<rows, approvals, deaths, returned>>

(* faults: this investigation's own calls showed something abnormal on s. *)
Abnormal(s) ==
    \E n \in DOMAIN checkpoint.calls :
        checkpoint.calls[n].service = s /\ checkpoint.calls[n].status = "abnormal"

(* The approval of the action proposed last. *)
Bug_ApprovalId == <<1, checkpoint.proposal>>      \* the iteration is not hashed
ApprovalId == <<checkpoint.iteration, checkpoint.proposal>>

------------------------------------------------------------------------------
(* Gathering evidence. *)

(* intake and both runs of retrieve always go on, with or without a result. *)
Intake ==
    /\ RunsNode("intake")
    /\ checkpoint' = [checkpoint EXCEPT !.next = "retrieve"]
    /\ Mirrors /\ Pure

Retrieve ==
    /\ \/ RunsNode("retrieve") /\ checkpoint' = [checkpoint EXCEPT !.next = "plan"]
       \/ RunsNode("retrieve_again") /\ checkpoint' = [checkpoint EXCEPT !.next = "reflect"]
    /\ Mirrors /\ Pure

(* Whatever the model chose, a read-only tool is called on some service: an
   invalid choice falls back to the logs. Both count as an iteration. *)
Counted == checkpoint.iteration + 1

Plan ==
    /\ RunsNode("plan")
    /\ \E s \in Services :
           checkpoint' = [checkpoint EXCEPT !.next = "execute_tool", !.planned = s,
                                            !.iteration = Counted]
    /\ Mirrors /\ Pure

(* A result worth another attempt: not a success, and not malformed, since the
   same arguments would be refused again. *)
Bug_WorthRetrying(status) == status \in {"failed", "malformed"}
WorthRetrying(status) == status = "failed"

(* The attempts are over. *)
BatchDone ==
    /\ job.batch # << >>
    /\ \/ Len(job.batch) = MaxRetries
       \/ ~ WorthRetrying(job.batch[Len(job.batch)].status)

Attempt ==
    /\ RunsNode("execute_tool")
    /\ ~ BatchDone
    /\ \E result \in Results :
           job' = [job EXCEPT !.batch =
                      Append(@, [service |-> checkpoint.planned,
                                 attempt |-> Len(@) + 1, status |-> result])]
    /\ UNCHANGED <<checkpoint, rows, approvals, deaths, returned>>

(* Every attempt becomes a record of its own. *)
SaveCalls ==
    /\ RunsNode("execute_tool")
    /\ BatchDone
    /\ checkpoint' = [checkpoint EXCEPT !.next = "retrieve_again", !.calls = @ \o job.batch]
    /\ Mirrors /\ Pure

(* reflect stops at the cap without asking; below it, it goes on unless the
   evidence is sufficient. The route after it checks the cap again. *)
Bug_Capped == checkpoint.iteration > MaxIterations          \* one iteration too many
Capped == checkpoint.iteration >= MaxIterations

RouteAfterReflect(again) == IF ~ Capped /\ again THEN "plan" ELSE "propose"

Reflect ==
    /\ RunsNode("reflect")
    /\ \E again \in IF Capped THEN {FALSE} ELSE BOOLEAN :
           checkpoint' = [checkpoint EXCEPT !.again = again,
                                            !.next = RouteAfterReflect(again)]
    /\ Mirrors /\ Pure

------------------------------------------------------------------------------
(* Proposing. *)

(* An action is withheld if nothing abnormal was seen on its service. *)
Withheld(s) == IF s # None /\ Abnormal(s) THEN s ELSE None

(* The check of the arguments a repair settled on, which may name another
   service. *)
Bug_AfterRepair(s) == s                     \* only the proposal is checked
AfterRepair(s) == Withheld(s)

(* The model names a write action on s, or none: an unparseable answer, a
   hallucinated or a read-only tool. The first check spares an abstention; the
   arguments may then be repaired to name another service. *)
Propose ==
    /\ RunsNode("propose")
    /\ \E s \in Services \cup {None}, abstained \in BOOLEAN, repaired \in Services :
           LET offered == IF abstained THEN s ELSE Withheld(s)
               proposal == IF offered = None THEN None ELSE AfterRepair(repaired)
           IN checkpoint' = [checkpoint EXCEPT
                  !.proposal = proposal,
                  !.next = IF proposal = None THEN "summarize" ELSE "await_approval"]
    /\ Mirrors /\ Pure

(* The approval is inserted unless it is there. *)
Bug_CreateApproval ==                       \* the row is written again
    /\ RunsNode("await_approval")
    /\ approvals' = [approvals EXCEPT ![ApprovalId] = "pending"]
    /\ job' = [job EXCEPT !.pc = "created"]
    /\ UNCHANGED <<checkpoint, rows, deaths, returned>>
CreateApproval ==
    /\ RunsNode("await_approval")
    /\ approvals' = [approvals EXCEPT ![ApprovalId] = IF @ = "absent" THEN "pending" ELSE @]
    /\ job' = [job EXCEPT !.pc = "created"]
    /\ UNCHANGED <<checkpoint, rows, deaths, returned>>

SaveAwaiting ==
    /\ job.pc = "created"
    /\ checkpoint' = [checkpoint EXCEPT !.next = "act", !.status = "awaiting_approval"]
    /\ Mirrors /\ Pure

(* A human decides, at any time after the insert. *)
Decide(id) ==
    /\ approvals[id] = "pending"
    /\ \E d \in {"approved", "rejected"} : approvals' = [approvals EXCEPT ![id] = d]
    /\ UNCHANGED <<checkpoint, job, rows, deaths, returned>>

------------------------------------------------------------------------------
(* Acting. The job is past the interrupt, so the approval is decided. *)

CapAllowsPlan == checkpoint.iteration < MaxIterations

(* A rejection goes back to planning while the cap allows. *)
ActRejected ==
    /\ RunsNode("act")
    /\ approvals[ApprovalId] = "rejected"
    /\ checkpoint' = [checkpoint EXCEPT
           !.status = "running", !.again = TRUE,
           !.next = IF CapAllowsPlan THEN "plan" ELSE "summarize"]
    /\ returned' = [returned EXCEPT ![ApprovalId] = @ + 1]
    /\ Mirrors
    /\ UNCHANGED <<rows, approvals, deaths>>

(* An approved action is executed, or fails and waits before `act`. *)
ActApproved ==
    /\ RunsNode("act")
    /\ approvals[ApprovalId] = "approved"
    /\ \/ checkpoint' = [checkpoint EXCEPT !.status = "running", !.next = "summarize"]
       \/ checkpoint' = [checkpoint EXCEPT !.status = "failed"]
    /\ Mirrors /\ Pure

Summarize ==
    /\ RunsNode("summarize")
    /\ checkpoint' = [checkpoint EXCEPT !.next = "end",
           !.status = IF @ = "failed" THEN "failed" ELSE "complete"]
    /\ Mirrors /\ Pure

------------------------------------------------------------------------------
(* The mirror of the tool calls, after every node: the rows are counted, and
   the calls after them inserted one by one, without a transaction. *)
Bug_FirstMissing == 1                       \* the rows are not counted
FirstMissing == Len(rows) + 1

Count ==
    /\ job.pc = "count"
    /\ job' = [job EXCEPT !.pc = "insert", !.row = FirstMissing]
    /\ UNCHANGED <<checkpoint, rows, approvals, deaths, returned>>

Insert ==
    /\ job.pc = "insert"
    /\ job.row <= Len(checkpoint.calls)
    /\ rows' = Append(rows, checkpoint.calls[job.row])
    /\ job' = [job EXCEPT !.row = @ + 1]
    /\ UNCHANGED <<checkpoint, approvals, deaths, returned>>

(* The graph runs the next node, and stops before `act` or at the end. *)
Mirrored ==
    /\ job.pc = "insert"
    /\ job.row > Len(checkpoint.calls)
    /\ job' = [Running EXCEPT !.pc =
                  IF checkpoint.next \in {"act", "end"} THEN "settled" ELSE "node"]
    /\ UNCHANGED <<checkpoint, rows, approvals, deaths, returned>>

(* The job is killed, or raises: what it had not checkpointed is gone. *)
Die ==
    /\ job.pc \notin {"dead", "settled"}
    /\ deaths < MaxDeaths
    /\ deaths' = deaths + 1
    /\ job' = [Running EXCEPT !.pc = "dead"]
    /\ UNCHANGED <<checkpoint, rows, approvals, returned>>

(* The investigation is resumed, by a person or by its decision; _settle going
   past an approval that is already decided is the same step. A resume never
   runs `act` undecided. *)
Resume ==
    /\ \/ job.pc = "dead" /\ checkpoint.next # "end"
       \/ job.pc = "settled" /\ checkpoint.next = "act"
    /\ checkpoint.next = "act" => approvals[ApprovalId] \in {"approved", "rejected"}
    /\ job' = Running
    /\ UNCHANGED <<checkpoint, rows, approvals, deaths, returned>>

(* A resume with nothing to run only mirrors: the graph is at its end, the
   approval is undecided, or the decision it was made for is consumed. *)
NothingToRun ==
    \/ checkpoint.next = "end"
    \/ /\ checkpoint.next = "act"
       /\ approvals[ApprovalId] = "pending" \/ checkpoint.status # "awaiting_approval"

PersistAgain ==
    /\ job.pc \in {"dead", "settled"}
    /\ NothingToRun
    /\ Mirrors /\ UNCHANGED checkpoint /\ Pure

(* What the job does by itself. *)
Work ==
    \/ Intake \/ Retrieve \/ Plan \/ Attempt \/ SaveCalls \/ Reflect
    \/ Propose \/ CreateApproval \/ SaveAwaiting
    \/ ActRejected \/ ActApproved \/ Summarize
    \/ Count \/ Insert \/ Mirrored

Next == Work \/ Die \/ Resume \/ PersistAgain \/ \E id \in Ids : Decide(id)

Spec == Init /\ [][Next]_vars

------------------------------------------------------------------------------
(* What must hold. *)

(* The distance of a node from the next `plan`, or from the end. *)
Position ==
    [execute_tool |-> 9, retrieve_again |-> 8, reflect |-> 7, propose |-> 6,
     await_approval |-> 5, act |-> 4, intake |-> 3, retrieve |-> 2, plan |-> 1,
     summarize |-> 1, end |-> 0]

Rank == 9 * (MaxIterations - checkpoint.iteration) + Position[checkpoint.next]

(* The graph ends whatever the model says and the human decides: every node
   brings it closer to its end, except a failed action, which is run again only
   when it is resumed. "A model that always answers keep going must still
   terminate" (route_after_reflect, route_after_act). *)
AlwaysCloser ==
    [][\/ Rank' \in Nat /\ Rank' < Rank
       \/ checkpoint'.next = checkpoint.next /\ checkpoint.next = "act"
       \/ UNCHANGED checkpoint]_vars

(* The number of attempts of a tool is what its results call for: an attempt
   after the first follows a result worth another, and a first one follows the
   end of the one before. DESIGN.md, "Retry policy". *)
FirstAttempts == {n \in DOMAIN checkpoint.calls : checkpoint.calls[n].attempt = 1}

AttemptsAreDue ==
    LET calls == checkpoint.calls IN
    \A n \in DOMAIN calls : n > 1 =>
        IF calls[n].attempt = 1
        THEN calls[n-1].status # "failed" \/ calls[n-1].attempt = MaxRetries
        ELSE /\ calls[n-1].status = "failed"
             /\ calls[n].attempt = calls[n-1].attempt + 1
             /\ calls[n].service = calls[n-1].service

(* An iteration that was planned is in the records once, whatever died while its
   tool ran: no more tools are called than iterations counted, and none of them
   is lost. *)
EveryIterationCallsATool ==
    Cardinality(FirstAttempts) =
        checkpoint.iteration - (IF checkpoint.next = "execute_tool" THEN 1 ELSE 0)

(* So the calls are those the iterations and the results call for, no more and no
   fewer. *)
CallsAreDue == AttemptsAreDue /\ EveryIterationCallsATool

(* A human is asked only about an action on a service this investigation has
   seen something abnormal on (propose, "No action on a service this
   investigation has seen nothing abnormal on"), a repair included. *)
AskedOnEvidence ==
    \A id \in Ids : approvals[id] # "absent" => Abnormal(id[2])

(* Each rejection sends the run back to planning once: when it comes back with
   the same action, the human is asked again (approval_id_for). *)
RejectedOnce == \A id \in Ids : returned[id] <= 1

(* The nodes, too, are the gate of DecisionGate, for one run: a job that dies
   and is run again asks about nothing twice and beside nothing open, leaves an
   answer as it is, and closes the run when what it asked is answered. A proposal
   is carried out, here, when the run leaves `act` for its summary on an approval. *)
CarriedOut ==
    {id \in Ids : approvals[id] = "approved" /\ checkpoint.next \in {"summarize", "end"}}

Gate ==
    INSTANCE DecisionGate WITH
        Runs <- {"run"},
        Proposals <- Ids,
        decision <- [r \in {"run"} |-> approvals],
        done <- [r \in {"run"} |-> CarriedOut],
        closed <- {r \in {"run"} : checkpoint.next = "end"}

ImplementsDecisionGate == Gate!Spec

(* The rows never disagree with the records, however often the mirror broke off:
   none is repeated, none is skipped, none is of a node that was not saved. And
   where a job has ended by itself, none is missing. *)
RowsAreTheCalls ==
    /\ Len(rows) <= Len(checkpoint.calls)
    /\ rows = SubSeq(checkpoint.calls, 1, Len(rows))
    /\ job.pc = "settled" => Len(rows) = Len(checkpoint.calls)
=============================================================================
