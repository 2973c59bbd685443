------------------------ MODULE InvestigationService ------------------------
(***************************************************************************)
(* One API process over its database: the endpoints that start, decide and *)
(* resume (api/investigations.py, api/approvals.py), the worker they hand  *)
(* jobs to (Worker.tla) and the runs of those jobs (Runner.tla).           *)
(*                                                                         *)
(* A request is handled in steps, one per transaction and one per critical *)
(* section of the worker's lock; any other request, and the worker's       *)
(* thread, may run between two of them. The process may die at any time:   *)
(* requests, reservations, follow-ups and queued jobs are gone, the        *)
(* database and the checkpoints stay.                                      *)
(***************************************************************************)
EXTENDS Runner

CONSTANTS
    StartRequests,    \* POST /investigations, each made once at most
    DecideRequests,   \* POST /approvals/{id}/decision, each made once at most
    ResumeRequests,   \* POST /investigations/{id}/resume, made again if refused
    MaxResumes,       \* bound: resumes that are accepted
    MaxTxFailures,    \* bound: transactions and reads of start and resume that fail
    MaxDeaths         \* bound: how many times the process dies

ASSUME ServiceAssumption ==
    /\ StartRequests \cap DecideRequests = {}
    /\ StartRequests \cap ResumeRequests = {}
    /\ DecideRequests \cap ResumeRequests = {}
    /\ MaxResumes \in Nat
    /\ MaxTxFailures \in Nat
    /\ MaxDeaths \in Nat

VARIABLES
    request,     \* request[c]: the handling of c by the process
    resumed,     \* resumed[i]: how many resumes of i were accepted
    txFailures,  \* how many transactions have failed
    deaths       \* how many times the process has died

serviceVars == <<request, resumed, txFailures, deaths>>
vars == <<workerVars, runnerVars, serviceVars>>

Clients == StartRequests \cup DecideRequests \cup ResumeRequests

(* new: not made; over: answered. The others name the handler's next step. *)
Handling == {"new", "over", "insert", "submit", "release", "commit", "notify", "check",
             "reserve"}

NotMade == [pc |-> "new", inv |-> None, round |-> 0, seen |-> None]

TypeOK ==
    /\ WorkerTypeOK
    /\ RunnerTypeOK
    /\ request \in [Clients ->
           [pc : Handling, inv : Investigations \cup {None}, round : {0} \cup Rounds,
            seen : Statuses \cup {None}]]
    /\ resumed \in [Investigations -> 0 .. MaxResumes]
    /\ txFailures \in 0 .. MaxTxFailures
    /\ deaths \in 0 .. MaxDeaths

Init ==
    /\ WorkerInit
    /\ RunnerInit
    /\ request = [c \in Clients |-> NotMade]
    /\ resumed = [i \in Investigations |-> 0]
    /\ txFailures = 0
    /\ deaths = 0

------------------------------------------------------------------------------
(* Helpers. *)

Handles(c, pc) == request[c].pc = pc
Inv(c) == request[c].inv

(* The handling of c goes on with step pc. *)
Step(c, pc) == request' = [request EXCEPT ![c].pc = pc]

(* The handling of c ends: a request that was refused and may be repeated is
   new again, any other is over. *)
Answer(c) ==
    request' = [request EXCEPT ![c] =
                   IF c \in ResumeRequests THEN NotMade ELSE [NotMade EXCEPT !.pc = "over"]]

SetStatus(i, st) == status' = [status EXCEPT ![i] = st]

(* Parts of the state a step leaves alone. *)
WorkerIdle == UNCHANGED workerVars
RunsIdle == UNCHANGED <<checkpoint, executed, failures, raises>>

------------------------------------------------------------------------------
(* POST /investigations. *)

(* The slot is claimed before the row is visible; taken, the answer is 409. *)
StartReserve(c, i) ==
    /\ c \in StartRequests /\ Handles(c, "new")
    /\ IF Free(i)
       THEN /\ Reserve(i)
            /\ request' = [request EXCEPT ![c] = [NotMade EXCEPT !.pc = "insert", !.inv = i]]
       ELSE /\ UNCHANGED active
            /\ Answer(c)
    /\ UNCHANGED <<followUps, queue, job, runnerVars, resumed, txFailures, deaths>>

(* The row is inserted as queued, unless the id exists (409). *)
StartInsert(c) ==
    /\ c \in StartRequests /\ Handles(c, "insert")
    /\ IF status[Inv(c)] = "absent"
       THEN SetStatus(Inv(c), "queued") /\ Step(c, "submit")
       ELSE UNCHANGED status /\ Step(c, "release")
    /\ WorkerIdle /\ RunsIdle
    /\ UNCHANGED <<approvals, resumed, txFailures, deaths>>

(* The transaction of a start or a resume fails and is rolled back; or the look for
   checkpoints does, after the resume is committed, and the reservation stays. *)
TxFails(c) ==
    /\ \/ /\ \/ c \in StartRequests /\ Handles(c, "insert")
             \/ c \in ResumeRequests /\ Handles(c, "commit")
          /\ Step(c, "release")
       \/ c \in ResumeRequests /\ Handles(c, "submit") /\ Answer(c)
    /\ txFailures < MaxTxFailures
    /\ txFailures' = txFailures + 1
    /\ WorkerIdle
    /\ UNCHANGED <<runnerVars, resumed, deaths>>

(* Nothing will run: the reservation is given back and the error answered. *)
ReleaseSlot(c) ==
    /\ Handles(c, "release")
    /\ Release(Inv(c))
    /\ Answer(c)
    /\ UNCHANGED <<followUps, queue, job, runnerVars, resumed, txFailures, deaths>>

StartSubmit(c) ==
    /\ c \in StartRequests /\ Handles(c, "submit")
    /\ Enqueue(Inv(c), "start")
    /\ Answer(c)
    /\ UNCHANGED <<active, followUps, job, runnerVars, resumed, txFailures, deaths>>

------------------------------------------------------------------------------
(* POST /approvals/{id}/decision. *)

Pending(i, n) == approvals[i][n] = "pending"

(* The row is read: only a pending approval can be decided. *)
DecideRead(c, i, n) ==
    /\ c \in DecideRequests /\ Handles(c, "new")
    /\ Pending(i, n)
    /\ request' = [request EXCEPT ![c] =
                      [NotMade EXCEPT !.pc = "commit", !.inv = i, !.round = n]]
    /\ WorkerIdle
    /\ UNCHANGED <<runnerVars, resumed, txFailures, deaths>>

(* The conditional UPDATE ... WHERE decision IS NULL. *)
StillPending(c) == Pending(Inv(c), request[c].round)

(* One transaction decides and leaves awaiting_approval; a decision made since
   the read wins, and the answer is 409. *)
DecideCommit(c) ==
    /\ c \in DecideRequests /\ Handles(c, "commit")
    /\ IF StillPending(c)
       THEN /\ \E d \in Decisions :
                   approvals' = [approvals EXCEPT ![Inv(c)][request[c].round] = d]
            /\ SetStatus(Inv(c), "queued")
            /\ Step(c, "notify")
       ELSE UNCHANGED <<approvals, status>> /\ Answer(c)
    /\ WorkerIdle /\ RunsIdle
    /\ UNCHANGED <<resumed, txFailures, deaths>>

(* resume_after_decision, under the lock: with a job still running, or the slot
   reserved, the resume is kept as a follow-up. *)
DecideNotify(c) ==
    /\ c \in DecideRequests /\ Handles(c, "notify")
    /\ IF Free(Inv(c))
       THEN UNCHANGED followUps /\ Step(c, "submit")
       ELSE KeepFollowUp(Inv(c)) /\ Answer(c)
    /\ UNCHANGED <<active, queue, job, runnerVars, resumed, txFailures, deaths>>

(* Otherwise it is submitted, the lock released in between: if another caller
   took the slot meanwhile, the resume is dropped. *)
DecideSubmit(c) ==
    /\ c \in DecideRequests /\ Handles(c, "submit")
    /\ \/ Reserve(Inv(c)) /\ Enqueue(Inv(c), "decision")
       \/ ~ Free(Inv(c)) /\ UNCHANGED <<active, queue>>
    /\ Answer(c)
    /\ UNCHANGED <<followUps, job, runnerVars, resumed, txFailures, deaths>>

------------------------------------------------------------------------------
(* POST /investigations/{id}/resume. *)

(* The investigation is read; a complete one is refused (409). *)
ResumeRead(c, i) ==
    /\ c \in ResumeRequests /\ Handles(c, "new")
    /\ status[i] \notin {"absent", "complete"}
    /\ resumed[i] < MaxResumes
    /\ request' = [request EXCEPT ![c] =
                      [NotMade EXCEPT !.pc = "check", !.inv = i, !.seen = status[i]]]
    /\ WorkerIdle
    /\ UNCHANGED <<runnerVars, resumed, txFailures, deaths>>

(* A run paused on a pending approval is resumed by its decision (409); after a
   crash the status is another, and resuming is how the run gets back to it. *)
Bug_IsPaused(c) ==                          \* whatever the status
    \E n \in Rounds : Pending(Inv(c), n)
IsPaused(c) ==
    request[c].seen = "awaiting_approval" /\ \E n \in Rounds : Pending(Inv(c), n)

ResumeCheck(c) ==
    /\ c \in ResumeRequests /\ Handles(c, "check")
    /\ IF IsPaused(c) THEN Answer(c) ELSE Step(c, "reserve")
    /\ WorkerIdle
    /\ UNCHANGED <<runnerVars, resumed, txFailures, deaths>>

ResumeReserve(c) ==
    /\ c \in ResumeRequests /\ Handles(c, "reserve")
    /\ IF Free(Inv(c)) /\ resumed[Inv(c)] < MaxResumes
       THEN Reserve(Inv(c)) /\ Step(c, "commit")
       ELSE UNCHANGED active /\ Answer(c)
    /\ UNCHANGED <<followUps, queue, job, runnerVars, resumed, txFailures, deaths>>

ResumeCommit(c) ==
    /\ c \in ResumeRequests /\ Handles(c, "commit")
    /\ SetStatus(Inv(c), "queued")
    /\ resumed' = [resumed EXCEPT ![Inv(c)] = @ + 1]
    /\ Step(c, "submit")
    /\ WorkerIdle /\ RunsIdle
    /\ UNCHANGED <<approvals, txFailures, deaths>>

(* Without checkpoints there is nothing to resume, so the run is started. *)
ResumeSubmit(c) ==
    /\ c \in ResumeRequests /\ Handles(c, "submit")
    /\ Enqueue(Inv(c), IF checkpoint[Inv(c)].next = "none" THEN "start" ELSE "resume")
    /\ Answer(c)
    /\ UNCHANGED <<active, followUps, job, runnerVars, resumed, txFailures, deaths>>

------------------------------------------------------------------------------
(* The process dies and is started again. It dies while the bound on resumes
   leaves the operator one to answer with. *)
ProcessDies ==
    /\ deaths < MaxDeaths
    /\ \A i \in Investigations : resumed[i] < MaxResumes
    /\ deaths' = deaths + 1
    /\ active' = {}
    /\ followUps' = {}
    /\ queue' = << >>
    /\ job' = NoJob
    /\ request' = [c \in Clients |->
                      IF c \in ResumeRequests \/ Handles(c, "new") THEN NotMade
                      ELSE [NotMade EXCEPT !.pc = "over"]]
    /\ UNCHANGED <<runnerVars, resumed, txFailures>>

(* The handler of c takes its next step. *)
Handle(c) ==
    \/ StartInsert(c) \/ StartSubmit(c) \/ ReleaseSlot(c)
    \/ DecideCommit(c) \/ DecideNotify(c) \/ DecideSubmit(c)
    \/ ResumeCheck(c) \/ ResumeReserve(c) \/ ResumeCommit(c) \/ ResumeSubmit(c)

(* A client makes request c. *)
Call(c) ==
    \E i \in Investigations :
        \/ StartReserve(c, i)
        \/ \E n \in Rounds : DecideRead(c, i, n)
        \/ ResumeRead(c, i)

Thread == ThreadStep /\ UNCHANGED serviceVars

Next ==
    \/ Thread
    \/ \E c \in Clients : Call(c) \/ Handle(c) \/ TxFails(c)
    \/ ProcessDies

Spec == Init /\ [][Next]_vars

(* The thread and the handlers run on. *)
FairSpec == Spec /\ WF_vars(Thread) /\ \A c \in Clients : WF_vars(Handle(c))

(* And the operator who sees an investigation stuck resumes it, again if the
   answer is that it is busy. *)
Stuck(i) == status[i] \in {"queued", "running"}

OperatorSpec ==
    /\ FairSpec
    /\ \A c \in ResumeRequests, i \in Investigations :
           WF_vars(Stuck(i) /\ ResumeRead(c, i))

------------------------------------------------------------------------------
(* What must hold. *)

(* The run never executes an action whose approval has no decision. `act` would
   find nothing to do and close the investigation without its action
   (graph.py:247): the interrupt and the checks of resume and _settle, made in
   other steps than the read in `act`, have to keep it from running. *)
ActsOnlyWhenDecided == job.result # "undecided"

(* A decision is final: neither a second approver who read the row before it
   was decided, nor a run that comes to await_approval again after a crash, nor
   anything else changes it (approvals.py:102, nodes.py await_approval). *)
DecisionIsFinal ==
    [][\A i \in Investigations, n \in Rounds :
           approvals[i][n] \in Decisions => approvals'[i][n] = approvals[i][n]]_vars

(* A failed action is tried again only when someone asks for it: one failed
   execution for the decision, one for each accepted resume, and one more for
   each job or process that broke off before its outcome was checkpointed
   (resume_for_decision's reason to look whether its decision is consumed). *)
NoUnaskedRetry ==
    \A i \in Investigations : failures[i] <= 1 + resumed[i] + raises + deaths

(* An investigation shown as complete is done: its run has ended, nothing waits
   for a decision, and each approved action has been executed. *)
CompleteMeansDone ==
    \A i \in Investigations : status[i] = "complete" =>
        /\ checkpoint[i].next = "end"
        /\ \A n \in Rounds :
               /\ approvals[i][n] # "pending"
               /\ approvals[i][n] = "approved" => n \in executed[i]

(* The service is a gate between proposals and actions (DecisionGate), whatever
   dies, raises, races or is asked twice: a step of a handler or of the thread
   asks about one proposal, records its one answer, carries it out, closes the
   run with nothing left to do, or leaves all of that as it is. *)
Gate ==
    INSTANCE DecisionGate WITH
        Runs <- Investigations,
        Proposals <- Rounds,
        decision <- approvals,
        done <- executed,
        closed <- {i \in Investigations : checkpoint[i].next = "end"}

ImplementsDecisionGate == Gate!Spec

(* Nothing is under way for i: no job, no reservation, no request. *)
AtRest(i) ==
    /\ i \notin active
    /\ job.inv # i
    /\ \A c \in Clients : Inv(c) # i

(* Where nothing died and no reservation was given back (the run checks it with
   one start of each id and no failing transaction), an investigation with
   nothing under way is where a person expects it: it waits for an approval
   that is really pending, or it is complete, or it failed. No decision is
   forgotten between a handler that gives its resume to the worker and a job
   that is just ending. *)
NothingForgotten ==
    deaths = 0 => \A i \in Investigations : AtRest(i) =>
        \/ status[i] \in {"absent", "complete", "failed"}
        \/ /\ status[i] = "awaiting_approval"
           /\ AtInterrupt(i) /\ approvals[i][Round(i)] = "pending"

(* A decision takes effect: the run it was made in acts on it, or the
   investigation fails with the reason, and the operator is asked. (When the
   process dies it is the operator who is promised something, below.) *)
ActedOn(i, n) ==
    \/ n \in executed[i]
    \/ Round(i) > n
    \/ checkpoint[i].next \in {"summarize", "end"}
DecisionTakesEffect ==
    \A i \in Investigations, n \in Rounds :
        approvals[i][n] \in Decisions ~> ActedOn(i, n) \/ status[i] = "failed" \/ deaths > 0

(* With an operator who resumes what is stuck, an investigation settles, also
   when the process died over it: between the commit of a decision and its
   resume, in the middle of a node, or before its first one. *)
InvestigationSettles ==
    \A i \in Investigations : Stuck(i) ~> ~ Stuck(i)

------------------------------------------------------------------------------
(* What the documentation says and the code does not keep; the runs that check
   these expect a counterexample. *)

(* "A resume requested by a decision while the investigation's job is still
   finishing is kept as a follow-up and runs when that job ends" (worker.py:4):
   a follow-up then always has a job, or a caller about to submit one, that it
   waits for. `release` gives the slot back and leaves the follow-up behind. *)
FollowUpHasItsJob ==
    \A i \in followUps :
        \/ QueuedFor(i) # {} \/ RunningFor(i)
        \/ \E c \in Clients : Inv(c) = i /\ ~ Handles(c, "over")

(* "A decided investigation must not still read awaiting_approval"
   (tests/test_approval_api.py:277), so that a client polling for the result
   does not stop watching (approvals.py:121). *)
AwaitingMeansPending ==
    \A i \in Investigations : status[i] = "awaiting_approval" =>
        \E n \in Rounds : Pending(i, n)
=============================================================================
