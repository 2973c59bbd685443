------------------------------- MODULE Worker -------------------------------
(***************************************************************************)
(* The background worker of one API process (api/worker.py): one thread,   *)
(* at most one job per investigation queued or running, and one follow-up  *)
(* per investigation kept for a decision that arrives while a job is still *)
(* finishing.  Everything here is memory of the process and dies with it.  *)
(*                                                                         *)
(* The operators are the worker's methods, one per critical section of its *)
(* lock; Runner.tla gives the jobs their bodies and                        *)
(* InvestigationService.tla calls them from the endpoints.                 *)
(***************************************************************************)
EXTENDS Naturals, Sequences, FiniteSets

CONSTANTS
    Investigations,  \* investigation ids
    None             \* no value

VARIABLES
    active,      \* _active: investigations with a reservation or a job
    followUps,   \* keys of _follow_ups: a decision waits for their job to end
    queue,       \* the pool's queue of submitted jobs
    job          \* the job the pool's one thread is running

workerVars == <<active, followUps, queue, job>>

(* What a job does: runner.start, runner.resume or runner.resume_for_decision. *)
JobKinds == {"start", "resume", "decision"}

(* Where the thread is in the job; Runner.tla gives the steps their meaning. *)
JobSteps == {"begin", "running", "node", "saved_approval", "acted", "mirror", "settle",
             "settle_persist", "final_persist", "crashed", "finally", "follow"}

(* What `act` found or did, until its checkpoint is written. *)
ActResults == {"executed", "failed", "rejected", "undecided"}

ASSUME NoneAssumption == None \notin Investigations \cup ActResults

NoJob == [inv |-> None, kind |-> None, pc |-> "idle", result |-> None]

QueuedJobs == [inv : Investigations, kind : JobKinds]
RunningJobs ==
    [inv : Investigations, kind : JobKinds, pc : JobSteps, result : ActResults \cup {None}]

WorkerTypeOK ==
    /\ active \subseteq Investigations
    /\ followUps \subseteq Investigations
    /\ queue \in Seq(QueuedJobs)
    /\ job \in RunningJobs \cup {NoJob}

WorkerInit ==
    /\ active = {}
    /\ followUps = {}
    /\ queue = << >>
    /\ job = NoJob

------------------------------------------------------------------------------
(* try_reserve succeeds only on an investigation that is not active. *)
Bug_Free(i) == TRUE                         \* two callers both get the slot
Free(i) == i \notin active

Reserve(i) ==
    /\ Free(i)
    /\ active' = active \cup {i}

(* release drops the reservation and leaves a follow-up where it is. *)
Release(i) == active' = active \ {i}

(* pool.submit, for a caller that holds the reservation. *)
Enqueue(i, kind) == queue' = Append(queue, [inv |-> i, kind |-> kind])

(* resume_after_decision on an active investigation. *)
Bug_KeepFollowUp(i) == i \in active /\ UNCHANGED followUps   \* the resume is dropped
KeepFollowUp(i) == i \in active /\ followUps' = followUps \cup {i}

(* The thread takes the next job. *)
TakeJob ==
    /\ job = NoJob
    /\ queue # << >>
    /\ job' = [inv |-> Head(queue).inv, kind |-> Head(queue).kind,
               pc |-> "begin", result |-> None]
    /\ queue' = Tail(queue)
    /\ UNCHANGED <<active, followUps>>

(* The `finally` of a job, under the lock: the slot is freed and the follow-up
   taken out, to be submitted after the lock is released. *)
Bug_EndJob ==                               \* the follow-up is read too early to see it
    /\ job.pc = "finally"
    /\ active' = active \ {job.inv}
    /\ followUps' = followUps \ {job.inv}
    /\ job' = NoJob
    /\ UNCHANGED queue
EndJob ==
    /\ job.pc = "finally"
    /\ active' = active \ {job.inv}
    /\ followUps' = followUps \ {job.inv}
    /\ job' = IF job.inv \in followUps THEN [job EXCEPT !.pc = "follow"] ELSE NoJob
    /\ UNCHANGED queue

(* The follow-up is submitted like any other job: if another caller took the
   slot since the lock was released, it is dropped. *)
SubmitFollowUp ==
    /\ job.pc = "follow"
    /\ job' = NoJob
    /\ \/ Reserve(job.inv) /\ Enqueue(job.inv, "decision")
       \/ ~ Free(job.inv) /\ UNCHANGED <<active, queue>>
    /\ UNCHANGED followUps

------------------------------------------------------------------------------
(* The jobs of an investigation: queued, or running and not yet ended. *)
QueuedFor(i) == {n \in DOMAIN queue : queue[n].inv = i}
RunningFor(i) == job # NoJob /\ job.inv = i /\ job.pc # "follow"

(* No investigation has two jobs, and one that has a job holds its slot. *)
OneJobPerInvestigation ==
    \A i \in Investigations :
        /\ Cardinality(QueuedFor(i)) + (IF RunningFor(i) THEN 1 ELSE 0) <= 1
        /\ QueuedFor(i) # {} \/ RunningFor(i) => i \in active
=============================================================================
