--------------------------- MODULE ActionExecution ---------------------------
(***************************************************************************)
(* Running an approved write action: the graph's `act` node                *)
(* (agent/nodes.py), execute_action and _record (tools/actions.py), the    *)
(* retrying client (controlplane/client.py) and the control plane with its *)
(* idempotency ledger (controlplane/service.py).                           *)
(*                                                                         *)
(* A runner goes through `act` for one approval in steps, one per SQL      *)
(* statement or HTTP exchange, and may die before any of them. A request   *)
(* sent to the control plane lives on its own: it may be refused, served   *)
(* late, after its sender timed out or died, or lost, and its answer may   *)
(* be lost after it was applied.                                           *)
(*                                                                         *)
(* Every statement runs on an autocommit connection, so each is a step of  *)
(* its own. Reads of data that never changes afterwards (a decided         *)
(* approval) are merged with the step that uses them.                      *)
(***************************************************************************)
EXTENDS Naturals, FiniteSets

CONSTANTS
    Approvals,    \* approval ids; the id is the idempotency key
    Args,         \* the arguments an action can be run with
    Runners,      \* the runners that may execute `act`; one per API process
    Requests,     \* HTTP exchanges that can be in flight at once
    MaxAttempts,  \* settings.action_max_attempts
    MaxRuns,      \* bound: how many times `act` may be entered per approval
    None          \* no value

(* What the control plane can answer. *)
Replies == {"created", "replayed", "refused", "error"}

ASSUME ConstantsAssumption ==
    /\ None \notin Approvals
    /\ None \notin Args
    /\ None \notin Requests
    /\ None \notin Replies
    /\ MaxAttempts \in Nat \ {0}
    /\ MaxRuns \in Nat

VARIABLES
    approval,    \* approval[k]: the row of `approvals`
    ledger,      \* ledger[k]: params in control_plane_operations, or None
    wire,        \* wire[q]: an HTTP exchange with the control plane
    act,         \* act[r]: where runner r is in `act`, and its locals
    row,         \* row[k]: the row of `actions` for k
    audit,       \* audit[k]: how many audit events of each kind name k
    checkpoint,  \* checkpoint[k]: what the graph's checkpoint says of `act`
    runs,        \* runs[k]: how many times `act` was entered for k
    applied,     \* history: how many times an action was applied for k
    sent         \* history: how many requests were posted for k

vars == <<approval, ledger, wire, act, row, audit, checkpoint, runs, applied, sent>>

ApprovedDecisions == {"approved", "modified"}
Decisions == {"pending", "rejected"} \cup ApprovedDecisions

Events == {"action_executed", "action_already_executed", "action_failed",
           "approval_rejected"}

(* The program counter of a runner inside `act`. *)
Steps == {"idle", "execute", "post", "wait", "record_executed", "record_failed",
          "log_executed", "log_already_executed", "log_failed", "log_rejected",
          "save_executed", "save_failed", "save_rejected"}

(* What `act` left in the checkpoint: not run yet, or its outcome. *)
Outcomes == {"interrupt", "executed", "failed", "rejected"}

NotRunning == [pc |-> "idle", key |-> None, attempt |-> 0, request |-> None,
               args |-> None]
NoExchange == [phase |-> "idle", key |-> None, params |-> None, reply |-> None]

Exchanges ==
    [phase : {"idle", "sent", "absent", "answered"}, key : Approvals \cup {None},
     params : Args \cup {None}, reply : Replies \cup {None}]
Activities ==
    [pc : Steps, key : Approvals \cup {None}, attempt : Nat,
     request : Requests \cup {None}, args : Args \cup {None}]

TypeOK ==
    /\ approval \in [Approvals ->
           [decision : Decisions, proposed : Args, modified : Args \cup {None}]]
    /\ ledger \in [Approvals -> Args \cup {None}]
    /\ wire \in [Requests -> Exchanges]
    /\ act \in [Runners -> Activities]
    /\ row \in [Approvals -> [outcome : {"none", "failed", "executed"}, attempts : Nat]]
    /\ audit \in [Approvals -> [Events -> Nat]]
    /\ checkpoint \in [Approvals -> Outcomes]
    /\ runs \in [Approvals -> Nat]
    /\ applied \in [Approvals -> Nat]
    /\ sent \in [Approvals -> Nat]

------------------------------------------------------------------------------
(* Helpers. *)

Approved(k) == approval[k].decision \in ApprovedDecisions

(* What runs is what was approved: the approver's edit if there is one,
   otherwise the proposed arguments. *)
Bug_Effective(k) == approval[k].proposed    \* the edit is discarded
Effective(k) ==
    IF approval[k].modified # None THEN approval[k].modified ELSE approval[k].proposed

(* A reply the client takes as success: any status below 300. *)
Bug_Success(reply) == reply # "refused"     \* a 5xx is not looked at
Success(reply) == reply \in {"created", "replayed"}

(* Timeouts, connection errors, 429 and 5xx are worth another attempt; any
   other refusal (the 422 of a reused key) is not. *)
Retryable(reply) == reply = "error"

Awaited(q) == \E r \in Runners : act[r].pc = "wait" /\ act[r].request = q

(* The exchange q ends with a reply, which nobody reads if the sender timed
   out or died in the meantime. *)
Answer(q, reply) ==
    wire' = [wire EXCEPT ![q] =
                 IF Awaited(q) THEN [@ EXCEPT !.phase = "answered", !.reply = reply]
                               ELSE NoExchange]

(* A stored operation with this key: its response is replayed if it was made
   by the same request, and refused otherwise. *)
Replay(k, params) == IF ledger[k] = params THEN "replayed" ELSE "refused"

(* Runner r moves to step `pc`, its locals unchanged. *)
Goto(r, pc) == act' = [act EXCEPT ![r].pc = pc]

Log(k, event) == audit' = [audit EXCEPT ![k][event] = @ + 1]

------------------------------------------------------------------------------
Init ==
    /\ approval \in [Approvals ->
           [decision : {"pending"}, proposed : Args, modified : {None}]]
    /\ ledger = [k \in Approvals |-> None]
    /\ wire = [q \in Requests |-> NoExchange]
    /\ act = [r \in Runners |-> NotRunning]
    /\ row = [k \in Approvals |-> [outcome |-> "none", attempts |-> 0]]
    /\ audit = [k \in Approvals |-> [e \in Events |-> 0]]
    /\ checkpoint = [k \in Approvals |-> "interrupt"]
    /\ runs = [k \in Approvals |-> 0]
    /\ applied = [k \in Approvals |-> 0]
    /\ sent = [k \in Approvals |-> 0]

(* The conditional UPDATE of decide: the first decision wins. *)
Bug_Undecided(k) == TRUE                    \* the UPDATE is unconditional
Undecided(k) == approval[k].decision = "pending"

(* The decision endpoint. Unchanged arguments approve, edited ones modify;
   arguments the checks refuse leave the approval pending (no step). *)
Decide(k, decision, edited) ==
    /\ Undecided(k)
    /\ decision = "modified" <=> edited # None
    /\ edited # approval[k].proposed
    /\ approval' = [approval EXCEPT ![k].decision = decision, ![k].modified = edited]
    /\ UNCHANGED <<ledger, wire, act, row, audit, checkpoint, runs, applied, sent>>

(* The branch `act` takes on the decision it reads. *)
Branch(k) ==
    IF approval[k].decision = "rejected" THEN "log_rejected" ELSE "execute"

(* `act` starts for an approval the runner found decided: the graph stands at
   the interrupt before `act`, at first or again after a failed execution. A
   rejection is logged, an approval goes to execute_action. *)
BeginAct(r, k) ==
    /\ act[r].pc = "idle"
    /\ checkpoint[k] \in {"interrupt", "failed"}
    /\ approval[k].decision # "pending"
    /\ runs[k] < MaxRuns
    /\ act' = [act EXCEPT ![r] = [NotRunning EXCEPT !.key = k, !.pc = Branch(k)]]
    /\ runs' = [runs EXCEPT ![k] = @ + 1]
    /\ UNCHANGED <<approval, ledger, wire, row, audit, checkpoint, applied, sent>>

(* The actions row says the action was executed. *)
Bug_Done(k) == FALSE                        \* the row is not consulted
Done(k) == row[k].outcome = "executed"

(* execute_action refuses unless the row carries an approving decision, and
   does not call out at all when the action is recorded as executed. *)
AlreadyExecuted(r) ==
    /\ act[r].pc = "execute"
    /\ Approved(act[r].key)
    /\ Done(act[r].key)
    /\ Goto(r, "log_already_executed")
    /\ UNCHANGED <<approval, ledger, wire, row, audit, checkpoint, runs, applied, sent>>

(* The arguments were executable when they were approved and are not any more
   (a deploy or a service has changed since): the action fails unrecorded. *)
InvalidArguments(r) ==
    /\ act[r].pc = "execute"
    /\ Approved(act[r].key)
    /\ ~ Done(act[r].key)
    /\ Goto(r, "log_failed")
    /\ UNCHANGED <<approval, ledger, wire, row, audit, checkpoint, runs, applied, sent>>

(* The effective arguments pass the tool's checks and are submitted. *)
Submit(r) ==
    /\ act[r].pc = "execute"
    /\ Approved(act[r].key)
    /\ ~ Done(act[r].key)
    /\ act' = [act EXCEPT ![r].pc = "post", ![r].attempt = 1,
                          ![r].args = Effective(act[r].key)]
    /\ UNCHANGED <<approval, ledger, wire, row, audit, checkpoint, runs, applied, sent>>

(* One attempt is posted, with the approval id as the idempotency key. *)
Post(r, q) ==
    /\ act[r].pc = "post"
    /\ wire[q].phase = "idle"
    /\ wire' = [wire EXCEPT ![q] = [NoExchange EXCEPT
                   !.phase = "sent", !.key = act[r].key, !.params = act[r].args]]
    /\ act' = [act EXCEPT ![r].pc = "wait", ![r].request = q]
    /\ sent' = [sent EXCEPT ![act[r].key] = @ + 1]
    /\ UNCHANGED <<approval, ledger, row, audit, checkpoint, runs, applied>>

(* The attempt brought no usable answer: the next one is made, or the client
   gives up after the last. *)
Retry(r) ==
    IF act[r].attempt < MaxAttempts
    THEN [act[r] EXCEPT !.pc = "post", !.attempt = @ + 1, !.request = None]
    ELSE [act[r] EXCEPT !.pc = "record_failed", !.request = None]

(* The client reads the answer to its attempt. *)
Receive(r) ==
    /\ act[r].pc = "wait"
    /\ wire[act[r].request].phase = "answered"
    /\ LET reply == wire[act[r].request].reply IN
       act' = [act EXCEPT ![r] =
                  IF Success(reply) THEN [@ EXCEPT !.pc = "record_executed", !.request = None]
                  ELSE IF Retryable(reply) THEN Retry(r)
                  ELSE [@ EXCEPT !.pc = "record_failed", !.request = None]]
    /\ wire' = [wire EXCEPT ![act[r].request] = NoExchange]
    /\ UNCHANGED <<approval, ledger, row, audit, checkpoint, runs, applied, sent>>

(* The client stops waiting for an answer that has not come. *)
Bug_GivesUp(r) == FALSE                     \* the HTTP client has no timeout
GivesUp(r) == act[r].pc = "wait" /\ wire[act[r].request].phase # "answered"

(* The client stops waiting: a read timeout or a broken connection. The
   request may still be on its way or being served. *)
TimeOut(r) ==
    /\ GivesUp(r)
    /\ act' = [act EXCEPT ![r] = Retry(r)]
    /\ UNCHANGED <<approval, ledger, wire, row, audit, checkpoint, runs, applied, sent>>

------------------------------------------------------------------------------
(* The control plane, one request at a time for each of its threads. *)

(* The request dies on the way, or with the process that was serving it. *)
Lose(q) ==
    /\ wire[q].phase \in {"sent", "absent"}
    /\ ~ Awaited(q)
    /\ wire' = [wire EXCEPT ![q] = NoExchange]
    /\ UNCHANGED <<approval, ledger, act, row, audit, checkpoint, runs, applied, sent>>

(* FaultPlan: the control plane answers 503 without looking at the ledger. *)
Unavailable(q) ==
    /\ wire[q].phase = "sent"
    /\ Answer(q, "error")
    /\ UNCHANGED <<approval, ledger, act, row, audit, checkpoint, runs, applied, sent>>

(* The ledger is read for the key: found, the stored response is the answer;
   absent, the operation goes on to be inserted. *)
Look(q) ==
    /\ wire[q].phase = "sent"
    /\ IF ledger[wire[q].key] # None
       THEN Answer(q, Replay(wire[q].key, wire[q].params))
       ELSE wire' = [wire EXCEPT ![q].phase = "absent"]
    /\ UNCHANGED <<approval, ledger, act, row, audit, checkpoint, runs, applied, sent>>

(* INSERT ... ON CONFLICT DO NOTHING succeeds on a key not in the ledger. *)
Bug_Free(k) == TRUE                         \* the key is not unique
Free(k) == ledger[k] = None

(* The operation is applied: its key was free. The answer is 201, or lost. *)
Apply(q) ==
    /\ wire[q].phase = "absent"
    /\ Free(wire[q].key)
    /\ ledger' = [ledger EXCEPT ![wire[q].key] = wire[q].params]
    /\ applied' = [applied EXCEPT ![wire[q].key] = @ + 1]
    /\ \E reply \in {"created", "error"} : Answer(q, reply)
    /\ UNCHANGED <<approval, act, row, audit, checkpoint, runs, sent>>

(* Another request with the key was inserted since this one looked: its
   response is the one that was applied, so it is the one to return. *)
LostRace(q) ==
    /\ wire[q].phase = "absent"
    /\ ~ Free(wire[q].key)
    /\ Answer(q, Replay(wire[q].key, wire[q].params))
    /\ UNCHANGED <<approval, ledger, act, row, audit, checkpoint, runs, applied, sent>>

------------------------------------------------------------------------------
(* Recording the outcome. *)

(* The upsert of _record: the outcome is replaced, the attempts add up. *)
Recorded(k, outcome, attempts) ==
    row' = [row EXCEPT ![k] = [outcome |-> outcome, attempts |-> @.attempts + attempts]]

RecordExecuted(r) ==
    /\ act[r].pc = "record_executed"
    /\ Recorded(act[r].key, "executed", act[r].attempt)
    /\ Goto(r, "log_executed")
    /\ UNCHANGED <<approval, ledger, wire, audit, checkpoint, runs, applied, sent>>

RecordFailed(r) ==
    /\ act[r].pc = "record_failed"
    /\ Recorded(act[r].key, "failed", act[r].attempt)
    /\ Goto(r, "log_failed")
    /\ UNCHANGED <<approval, ledger, wire, audit, checkpoint, runs, applied, sent>>

(* The upsert fails: `act` takes it for a failed action, executed or not. *)
RecordRaises(r) ==
    /\ act[r].pc \in {"record_executed", "record_failed"}
    /\ Goto(r, "log_failed")
    /\ UNCHANGED <<approval, ledger, wire, row, audit, checkpoint, runs, applied, sent>>

(* The audit event of each ending of `act`, and the checkpoint it leads to. *)
Bug_Ending ==                               \* a repetition is logged as an execution
    [log_executed         |-> [event |-> "action_executed",   save |-> "save_executed"],
     log_already_executed |-> [event |-> "action_executed",   save |-> "save_executed"],
     log_failed           |-> [event |-> "action_failed",     save |-> "save_failed"],
     log_rejected         |-> [event |-> "approval_rejected", save |-> "save_rejected"]]
Ending ==
    [log_executed         |-> [event |-> "action_executed",         save |-> "save_executed"],
     log_already_executed |-> [event |-> "action_already_executed", save |-> "save_executed"],
     log_failed           |-> [event |-> "action_failed",           save |-> "save_failed"],
     log_rejected         |-> [event |-> "approval_rejected",       save |-> "save_rejected"]]

LogOutcome(r) ==
    /\ act[r].pc \in DOMAIN Ending
    /\ Log(act[r].key, Ending[act[r].pc].event)
    /\ Goto(r, Ending[act[r].pc].save)
    /\ UNCHANGED <<approval, ledger, wire, row, checkpoint, runs, applied, sent>>

Saved == [save_executed |-> "executed", save_failed |-> "failed",
          save_rejected |-> "rejected"]

(* The node has returned and its checkpoint is written. *)
SaveCheckpoint(r) ==
    /\ act[r].pc \in DOMAIN Saved
    /\ checkpoint' = [checkpoint EXCEPT ![act[r].key] = Saved[act[r].pc]]
    /\ act' = [act EXCEPT ![r] = NotRunning]
    /\ UNCHANGED <<approval, ledger, wire, row, audit, runs, applied, sent>>

(* The process of runner r dies: its locals are gone, an answer it was going
   to read is dropped, and a request it sent may still be served. *)
Crash(r) ==
    /\ act[r].pc # "idle"
    /\ act' = [act EXCEPT ![r] = NotRunning]
    /\ wire' = [q \in Requests |->
                   IF /\ act[r].pc = "wait"
                      /\ act[r].request = q
                      /\ wire[q].phase = "answered"
                   THEN NoExchange ELSE wire[q]]
    /\ UNCHANGED <<approval, ledger, row, audit, checkpoint, runs, applied, sent>>

------------------------------------------------------------------------------
Human ==
    \E k \in Approvals, d \in Decisions \ {"pending"}, e \in Args \cup {None} :
        Decide(k, d, e)

Runner(r) ==
    \/ \E k \in Approvals : BeginAct(r, k)
    \/ AlreadyExecuted(r) \/ InvalidArguments(r) \/ Submit(r)
    \/ \E q \in Requests : Post(r, q)
    \/ Receive(r) \/ TimeOut(r)
    \/ RecordExecuted(r) \/ RecordFailed(r) \/ RecordRaises(r)
    \/ LogOutcome(r) \/ SaveCheckpoint(r)

Service(q) == Lose(q) \/ Unavailable(q) \/ Look(q) \/ Apply(q) \/ LostRace(q)

Next ==
    \/ Human
    \/ \E r \in Runners : Runner(r) \/ Crash(r)
    \/ \E q \in Requests : Service(q)

Spec == Init /\ [][Next]_vars

(* A runner's thread that is not killed keeps going, and a request nobody waits
   for is served or lost in the end. Nothing makes the control plane answer a
   request that is waited for, no human has to decide, and no process has to
   die. *)
FairSpec ==
    /\ Spec
    /\ \A r \in Runners : WF_vars(Runner(r))
    /\ \A q \in Requests : WF_vars(Service(q) /\ ~ Awaited(q))

------------------------------------------------------------------------------
(* Properties that hold whatever the number of runners. *)

(* What a human authorised for k, if anything. *)
Authorised(k) ==
    CASE approval[k].decision = "approved" -> approval[k].proposed
      [] approval[k].decision = "modified" -> approval[k].modified
      [] OTHER -> None

(* A key is applied at most once, whatever is retried, answered late, lost or
   run again after a crash (execute_action, ControlPlane.submit). *)
AppliedAtMostOnce == \A k \in Approvals : applied[k] <= 1

(* Only an approved action is applied, and with the arguments the human
   authorised: the edit if there was one, else the proposal. A request still in flight is
   bound by this too, since it may be applied at any later time. *)
AppliedAsApproved ==
    /\ \A k \in Approvals : ledger[k] # None => ledger[k] = Authorised(k)
    /\ \A q \in Requests : wire[q].phase \in {"sent", "absent"} =>
           wire[q].params = Authorised(wire[q].key)

(* No attempt is ever refused for reusing a key with another body: the 422 of
   ControlPlane._replay means the caller lost track of what it was retrying. *)
KeyNeverReused == \A q \in Requests : wire[q].reply # "refused"

(* Nothing says an action was executed unless the control plane applied it:
   not the actions row, not the audit log, not the graph's checkpoint. *)
ExecutedMeansApplied ==
    \A k \in Approvals :
        \/ row[k].outcome = "executed"
        \/ audit[k]["action_executed"] > 0
        \/ audit[k]["action_already_executed"] > 0
        \/ checkpoint[k] = "executed"
        => ledger[k] # None

(* The recorded attempts, added up over every run of `act`, never exceed the
   requests posted, nor those the attempts allowed in each run. *)
AttemptsAreReal ==
    \A k \in Approvals : /\ row[k].attempts <= sent[k]
                         /\ sent[k] <= MaxAttempts * runs[k]

(* So every post is accounted for: as an attempt of a run, and as the same request
   as the attempts before it. *)
PostsAreAccountedFor == KeyNeverReused /\ AttemptsAreReal

------------------------------------------------------------------------------
(* Properties of one runner, the deployment the code supports (one API
   process with one worker thread). *)

(* Once an action is recorded as executed, no later run of `act` overwrites
   the record or calls the control plane again. *)
ExecutedIsFinal ==
    [][\A k \in Approvals : row[k].outcome = "executed" =>
           row'[k] = row[k] /\ sent'[k] = sent[k]]_vars

(* The audit log shows one execution at most, however often `act` is run
   again, and shows a repetition only of an action recorded as executed. *)
OneExecutionEvent ==
    \A k \in Approvals :
        /\ audit[k]["action_executed"] <= 1
        /\ audit[k]["action_already_executed"] > 0 => row[k].outcome = "executed"

(* A rejected approval leaves no trace of an execution, and an approved one is
   never logged or saved as rejected. *)
RejectionHasNoEffect ==
    \A k \in Approvals :
        /\ approval[k].decision = "rejected" => sent[k] = 0 /\ row[k].outcome = "none"
        /\ Approved(k) => audit[k]["approval_rejected"] = 0 /\ checkpoint[k] # "rejected"

(* So the records of an approval tell one story. *)
RecordsAgree == OneExecutionEvent /\ RejectionHasNoEffect

(* The refinement: an approval grants the arguments it authorises when it is
   decided, and the ledger is what took effect. *)
Granted == [k \in Approvals |-> Authorised(k)]

Abstract == INSTANCE AtMostOnce WITH granted <- Granted, effect <- ledger, times <- applied

(* Every behaviour of the code is one of the promised ones: a human grants
   once, and what was granted takes effect at most once, as granted. *)
ImplementsAtMostOnce == Abstract!Spec

------------------------------------------------------------------------------
(* Liveness. *)

(* A run of `act` that is not killed comes to an end: attempts are limited and
   a control plane that never answers is given up on, so the single worker
   thread, and every investigation queued behind it, is not held forever. *)
ActEnds == \A r \in Runners : act[r].pc # "idle" ~> act[r].pc = "idle"
==============================================================================
