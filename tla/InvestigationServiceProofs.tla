--------------------- MODULE InvestigationServiceProofs ---------------------
(***************************************************************************)
(* Proofs about InvestigationService, for any number of investigations and *)
(* requests and any bounds.                                                *)
(*                                                                         *)
(* The worker's promise is that no investigation has two jobs. It is kept  *)
(* by the slot: whoever hands the worker a job holds the reservation, and  *)
(* a reservation has one holder - a request, a queued job or the running   *)
(* job. Slots says that, and that it is what a handler assumes when it     *)
(* goes on after the worker's lock is released; the types need it, because *)
(* it is what keeps the accepted resumes within their bound.               *)
(***************************************************************************)
EXTENDS InvestigationService, FiniteSetTheorems, TLAPS

(* Where a request of each kind can be, and what it knows there. *)
RequestsOK ==
    \A c \in Clients :
        /\ c \in StartRequests => request[c].pc \in {"new", "over", "insert", "submit", "release"}
        /\ c \in DecideRequests => request[c].pc \in {"new", "over", "commit", "notify", "submit"}
        /\ c \in ResumeRequests =>
               request[c].pc \in {"new", "check", "reserve", "commit", "submit", "release"}
        /\ request[c].pc \notin {"new", "over"} => request[c].inv \in Investigations
        /\ c \in DecideRequests /\ request[c].pc \notin {"new", "over"} =>
               request[c].round \in Rounds
        /\ c \in ResumeRequests /\ request[c].pc = "commit" =>
               resumed[request[c].inv] < MaxResumes

(* The request holds the reservation of its investigation. *)
Holds(c) ==
    \/ c \in StartRequests /\ request[c].pc \in {"insert", "submit", "release"}
    \/ c \in ResumeRequests /\ request[c].pc \in {"commit", "submit", "release"}

(* A reservation has one holder. *)
Slots ==
    /\ \A c \in Clients : Holds(c) =>
           /\ request[c].inv \in active
           /\ ~ RunningFor(request[c].inv)
           /\ \A n \in DOMAIN queue : queue[n].inv # request[c].inv
    /\ \A c, d \in Clients : Holds(c) /\ Holds(d) /\ request[c].inv = request[d].inv => c = d
    /\ \A n \in DOMAIN queue : queue[n].inv \in active /\ ~ RunningFor(queue[n].inv)
    /\ \A m, n \in DOMAIN queue : queue[m].inv = queue[n].inv => m = n
    /\ job # NoJob /\ job.pc # "follow" => job.inv \in active

SlotsInv == TypeOK /\ RequestsOK /\ Slots

Requests ==
    [pc : Handling, inv : Investigations \cup {None}, round : {0} \cup Rounds,
     seen : Statuses \cup {None}]

------------------------------------------------------------------------------
(* Lemmas about the queue. *)

(* Submitting a job adds one element at the end. *)
LEMMA Appended ==
    ASSUME NEW S, NEW q \in Seq(S), NEW e \in S
    PROVE  /\ Append(q, e) \in Seq(S)
           /\ DOMAIN Append(q, e) = DOMAIN q \cup {Len(q) + 1}
           /\ Len(q) + 1 \notin DOMAIN q
           /\ \A n \in DOMAIN q : Append(q, e)[n] = q[n]
           /\ Append(q, e)[Len(q) + 1] = e
  OBVIOUS

(* Taking the next job leaves the others, one place nearer. *)
LEMMA Taken ==
    ASSUME NEW S, NEW q \in Seq(S), q # << >>
    PROVE  /\ Head(q) \in S
           /\ 1 \in DOMAIN q /\ q[1] = Head(q)
           /\ Tail(q) \in Seq(S)
           /\ \A n \in DOMAIN Tail(q) :
                  n \in Nat /\ n + 1 # 1 /\ n + 1 \in DOMAIN q /\ Tail(q)[n] = q[n + 1]
  OBVIOUS

(* A queued job is some investigation's. *)
LEMMA QueuedTypes ==
    ASSUME NEW q \in Seq(QueuedJobs), NEW n \in DOMAIN q
    PROVE  q[n] \in QueuedJobs /\ q[n].inv \in Investigations
  <1>1. q[n] \in QueuedJobs
    OBVIOUS
  <1> QED BY <1>1 DEF QueuedJobs

------------------------------------------------------------------------------
(* The steps of the jobs, seen from outside: only the place in the job and what
   `act` did change, in the run's own tables. *)
RunningStep ==
    /\ job \in RunningJobs /\ job.pc # "follow"
    /\ job' \in RunningJobs /\ job'.pc # "follow"
    /\ job'.inv = job.inv /\ job'.kind = job.kind

(* A job that goes to another of its steps is the same job. *)
LEMMA JobMoves ==
    ASSUME WorkerTypeOK, job.pc \in JobSteps \ {"follow"},
           NEW pc \in JobSteps \ {"follow"}, Goto(pc)
    PROVE  RunningStep
  <1>1. job \in RunningJobs
    BY DEF WorkerTypeOK, NoJob, JobSteps
  <1> QED BY <1>1 DEF Goto, RunningStep, RunningJobs

(* And where it also keeps or drops what `act` did. *)
LEMMA JobActs ==
    ASSUME WorkerTypeOK, job.pc \in JobSteps \ {"follow"},
           NEW pc \in JobSteps \ {"follow"}, NEW result \in ActResults \cup {None},
           job' = [job EXCEPT !.pc = pc, !.result = result]
    PROVE  RunningStep
  <1>1. job \in RunningJobs
    BY DEF WorkerTypeOK, NoJob, JobSteps
  <1> QED BY <1>1 DEF RunningStep, RunningJobs

(* Every step of a job is such a step. *)
LEMMA RunnerMoves ==
    ASSUME WorkerTypeOK, RunnerStep
    PROVE  InJob /\ (RunningStep \/ (job' = job /\ job.pc = "node"))
  <1>1. CASE Start
    BY <1>1, JobMoves DEF Start, At, JobSteps, InJob
  <1>2. CASE DecisionConsumed
    BY <1>2, JobMoves DEF DecisionConsumed, At, JobSteps, InJob
  <1>3. CASE SkipUndecided
    BY <1>3, JobMoves DEF SkipUndecided, At, JobSteps, InJob
  <1>4. CASE Resume
    BY <1>4, JobMoves DEF Resume, At, JobSteps, InJob
  <1>5. CASE MarkRunning
    BY <1>5, JobMoves DEF MarkRunning, At, JobSteps, InJob
  <1>6. CASE SaveInput
    BY <1>6 DEF SaveInput, RunsNode, At, InJob
  <1>7. CASE Investigate
    BY <1>7, JobMoves DEF Investigate, RunsNode, At, JobSteps, InJob
  <1>8. CASE CreateApproval
    BY <1>8, JobMoves DEF CreateApproval, RunsNode, At, JobSteps, InJob
  <1>9. CASE SaveAwaiting
    BY <1>9, JobMoves DEF SaveAwaiting, At, JobSteps, InJob
  <1>10. CASE Act
    <2>1. PICK result \in ActOutcomes(job.inv) :
              job' = [job EXCEPT !.pc = "acted", !.result = result]
      BY <1>10 DEF Act
    <2>2. result \in ActResults
      BY DEF ActOutcomes, ActResults
    <2> QED BY <1>10, <2>1, <2>2, JobActs DEF Act, RunsNode, At, JobSteps, InJob
  <1>11. CASE SaveAct
    BY <1>11, JobActs DEF SaveAct, At, JobSteps, InJob
  <1>12. CASE Summarize
    BY <1>12, JobMoves DEF Summarize, RunsNode, At, JobSteps, InJob
  <1>13. CASE JobRaises
    BY <1>13, JobActs DEF JobRaises, JobSteps, InJob
  <1>14. CASE Mirror
    BY <1>14, JobMoves DEF Mirror, At, JobSteps, InJob
  <1>15. CASE Settle
    BY <1>15, JobMoves DEF Settle, At, JobSteps, InJob
  <1>16. CASE SettlePersist
    BY <1>16, JobMoves DEF SettlePersist, At, JobSteps, InJob
  <1>17. CASE MarkFailed
    BY <1>17, JobMoves DEF MarkFailed, At, JobSteps, InJob
  <1> QED BY <1>1, <1>2, <1>3, <1>4, <1>5, <1>6, <1>7, <1>8, <1>9, <1>10, <1>11, <1>12,
             <1>13, <1>14, <1>15, <1>16, <1>17 DEF RunnerStep

(* What the run records keep their types. *)
LEMMA RunnerTypes ==
    ASSUME WorkerTypeOK, RunnerTypeOK, RunnerStep
    PROVE  RunnerTypeOK'
  <1>0. job.pc \in JobSteps => job \in RunningJobs /\ job.inv \in Investigations
    BY DEF WorkerTypeOK, NoJob, RunningJobs, JobSteps
  <1>s. ASSUME NEW i \in Investigations, Persist(i) \/ UNCHANGED status
        PROVE  status' \in [Investigations -> Statuses]
    BY <1>s DEF Persist, RunnerTypeOK, Checkpoints
  <1>c. ASSUME NEW i \in Investigations, NEW next \in Nodes,
               NEW st \in Statuses \ {"absent", "queued"}, NEW n \in Rounds, Save(i, next, st, n)
        PROVE  checkpoint' \in [Investigations -> Checkpoints]
    BY <1>c DEF Save, RunnerTypeOK, Checkpoints
  <1>n. ASSUME NEW i \in Investigations
        PROVE  /\ checkpoint[i] \in Checkpoints
               /\ Round(i) \in Rounds
               /\ checkpoint[i].status \in Statuses \ {"absent", "queued"}
    BY DEF Round, RunnerTypeOK, Checkpoints
  <1>1. CASE Start
    BY <1>1, <1>0 DEF Start, At, JobSteps, RunnerTypeOK, Statuses
  <1>2. CASE DecisionConsumed
    BY <1>2, <1>0, <1>s DEF DecisionConsumed, At, JobSteps, RunnerTypeOK
  <1>3. CASE SkipUndecided
    BY <1>3, <1>0, <1>s DEF SkipUndecided, At, JobSteps, RunnerTypeOK
  <1>4. CASE Resume
    BY <1>4 DEF Resume, runnerVars, RunnerTypeOK
  <1>5. CASE MarkRunning
    BY <1>5, <1>0 DEF MarkRunning, At, JobSteps, RunnerTypeOK, Statuses
  <1>6. CASE SaveInput
    <2>1. 1 \in Rounds
      BY RunnerAssumption DEF Rounds
    <2> QED BY <1>6, <1>0, <1>c, <2>1
            DEF SaveInput, RunsNode, At, JobSteps, RunnerTypeOK, Nodes, Statuses
  <1>7. CASE Investigate
    BY <1>7, <1>0, <1>c, <1>n
    DEF Investigate, RunsNode, At, JobSteps, RunnerTypeOK, Nodes
  <1>8. CASE CreateApproval
    <2>1. job.inv \in Investigations /\ Round(job.inv) \in Rounds
      BY <1>8, <1>0, <1>n DEF CreateApproval, RunsNode, At, JobSteps
    <2>2. Fresh(job.inv, Round(job.inv)) \in Decisions \cup {"absent", "pending"}
      BY <2>1 DEF Fresh, RunnerTypeOK
    <2> QED BY <1>8, <2>1, <2>2 DEF CreateApproval, RunnerTypeOK
  <1>9. CASE SaveAwaiting
    BY <1>9, <1>0, <1>c, <1>n DEF SaveAwaiting, At, JobSteps, RunnerTypeOK, Nodes, Statuses
  <1>10. CASE Act
    <2>1. job.inv \in Investigations /\ Round(job.inv) \in Rounds
      BY <1>10, <1>0, <1>n DEF Act, RunsNode, At, JobSteps
    <2>2. PICK result \in ActOutcomes(job.inv) :
              /\ executed' = [executed EXCEPT ![job.inv] =
                     IF result = "executed" THEN @ \cup {Round(job.inv)} ELSE @]
              /\ failures' = [failures EXCEPT ![job.inv] = IF result = "failed" THEN @ + 1 ELSE @]
      BY <1>10 DEF Act
    <2>3. result = "failed" => failures[job.inv] < MaxFailures
      BY DEF ActOutcomes
    <2>4. executed' \in [Investigations -> SUBSET Rounds]
      BY <2>1, <2>2 DEF RunnerTypeOK
    <2>5. failures' \in [Investigations -> 0 .. MaxFailures]
      BY <2>1, <2>2, <2>3, RunnerAssumption DEF RunnerTypeOK
    <2> QED BY <1>10, <2>4, <2>5 DEF Act, RunnerTypeOK
  <1>11. CASE SaveAct
    <2>1. job.inv \in Investigations /\ Round(job.inv) \in Rounds
      BY <1>11, <1>0, <1>n DEF SaveAct, At, JobSteps
    <2>2. CapAllows(Round(job.inv)) => Round(job.inv) + 1 \in Rounds
      BY <2>1, RunnerAssumption DEF CapAllows, Rounds
    <2>3. checkpoint' \in [Investigations -> Checkpoints]
      BY <1>11, <2>1, <2>2, <1>c DEF SaveAct, AfterFailure, Nodes, Statuses
    <2> QED BY <1>11, <2>3 DEF SaveAct, RunnerTypeOK
  <1>12. CASE Summarize
    BY <1>12, <1>0, <1>c, <1>n
    DEF Summarize, RunsNode, At, JobSteps, RunnerTypeOK, Nodes, Statuses
  <1>13. CASE JobRaises
    BY <1>13, RunnerAssumption DEF JobRaises, RunnerTypeOK
  <1>14. CASE Mirror
    BY <1>14, <1>0, <1>s DEF Mirror, At, JobSteps, RunnerTypeOK
  <1>15. CASE Settle
    BY <1>15 DEF Settle, runnerVars, RunnerTypeOK
  <1>16. CASE SettlePersist
    BY <1>16, <1>0, <1>s DEF SettlePersist, At, JobSteps, RunnerTypeOK
  <1>17. CASE MarkFailed
    BY <1>17, <1>0, RunnerAssumption DEF MarkFailed, At, JobSteps, RunnerTypeOK, Statuses
  <1> QED BY <1>1, <1>2, <1>3, <1>4, <1>5, <1>6, <1>7, <1>8, <1>9, <1>10, <1>11, <1>12,
             <1>13, <1>14, <1>15, <1>16, <1>17 DEF RunnerStep

------------------------------------------------------------------------------
(* The steps of a request. *)

OthersKept(c) == \A d \in Clients : d # c => request'[d] = request[d]

(* A step of a handler leaves what the handler remembers. *)
LEMMA Stepped ==
    ASSUME request \in [Clients -> Requests], NEW c \in Clients, NEW pc \in Handling, Step(c, pc)
    PROVE  /\ request' \in [Clients -> Requests]
           /\ request'[c].pc = pc
           /\ request'[c].inv = request[c].inv
           /\ request'[c].round = request[c].round
           /\ OthersKept(c)
  BY DEF Step, OthersKept, Requests

(* An answered request holds nothing. *)
LEMMA Answered ==
    ASSUME request \in [Clients -> Requests], NEW c \in Clients, Answer(c)
    PROVE  /\ request' \in [Clients -> Requests]
           /\ request'[c].pc = IF c \in ResumeRequests THEN "new" ELSE "over"
           /\ OthersKept(c)
  <1>1. NotMade \in Requests /\ NotMade.pc = "new"
    BY DEF NotMade, Requests, Handling
  <1>2. [NotMade EXCEPT !.pc = "over"] = [pc |-> "over", inv |-> None, round |-> 0, seen |-> None]
    BY DEF NotMade
  <1>3. /\ [NotMade EXCEPT !.pc = "over"] \in Requests
        /\ [NotMade EXCEPT !.pc = "over"].pc = "over"
    BY <1>2 DEF Requests, Handling
  <1> QED BY <1>1, <1>3 DEF Answer, OthersKept

(* A request that begins. *)
LEMMA Begun ==
    ASSUME request \in [Clients -> Requests], NEW c \in Clients, NEW r \in Requests,
           request' = [request EXCEPT ![c] = r]
    PROVE  request' \in [Clients -> Requests] /\ request'[c] = r /\ OthersKept(c)
  BY DEF OthersKept

------------------------------------------------------------------------------
(* What can happen to a reservation. *)

(* No request has become a holder, or holds another's. *)
NoNewHolder == \A d \in Clients : Holds(d)' => Holds(d) /\ request'[d].inv = request[d].inv

(* A request that is kept holds what it held. *)
LEMMA KeptHolder ==
    ASSUME NEW c \in Clients, OthersKept(c), NEW d \in Clients, d # c
    PROVE  (Holds(d)' <=> Holds(d)) /\ request'[d].inv = request[d].inv
  BY DEF OthersKept, Holds

(* A step that ends or begins no job and takes no slot. *)
LEMMA SlotsKept ==
    ASSUME Slots, active' = active, queue' = queue, NoNewHolder,
           \A i \in Investigations \cup {None} : RunningFor(i)' <=> RunningFor(i),
           \A c \in Clients : Holds(c) => request[c].inv \in Investigations,
           queue \in Seq(QueuedJobs),
           job' # NoJob /\ job'.pc # "follow" =>
               job # NoJob /\ job.pc # "follow" /\ job'.inv = job.inv
    PROVE  Slots'
  <1>1. \A n \in DOMAIN queue : queue[n].inv \in Investigations
    BY QueuedTypes
  <1> QED BY <1>1 DEF Slots, NoNewHolder

(* The slot is taken by a request. *)
LEMMA SlotTaken ==
    ASSUME Slots, NEW i \in Investigations, Reserve(i), queue' = queue, job' = job,
           NEW c \in Clients, OthersKept(c), request'[c].inv = i
    PROVE  Slots'
  <1>1. \A d \in Clients : d # c => (Holds(d)' <=> Holds(d)) /\ request'[d].inv = request[d].inv
    BY KeptHolder
  <1>2. \A d \in Clients : Holds(d) => request[d].inv # i
    BY DEF Slots, Reserve, Free
  <1>3. \A n \in DOMAIN queue : queue[n].inv # i
    BY DEF Slots, Reserve, Free
  <1>4. ~ RunningFor(i)
    BY DEF Slots, Reserve, Free, RunningFor
  <1>5. \A j : RunningFor(j)' <=> RunningFor(j)
    BY DEF RunningFor
  <1> QED BY <1>1, <1>2, <1>3, <1>4, <1>5 DEF Slots, Reserve

(* A request gives its slot to the job it submits. *)
LEMMA SlotHandedOver ==
    ASSUME Slots, queue \in Seq(QueuedJobs), NEW kind \in JobKinds, NEW c \in Clients,
           Holds(c), request[c].inv \in Investigations, ~ Holds(c)', OthersKept(c),
           Enqueue(request[c].inv, kind), active' = active, job' = job
    PROVE  Slots' /\ queue' \in Seq(QueuedJobs)
  <1> DEFINE i == request[c].inv
             e == [inv |-> i, kind |-> kind]
  <1>1. e \in QueuedJobs /\ e.inv = i
    BY DEF QueuedJobs
  <1>2. queue' = Append(queue, e)
    BY DEF Enqueue
  <1>3. /\ queue' \in Seq(QueuedJobs)
        /\ DOMAIN queue' = DOMAIN queue \cup {Len(queue) + 1}
        /\ Len(queue) + 1 \notin DOMAIN queue
        /\ \A n \in DOMAIN queue : queue'[n] = queue[n]
        /\ queue'[Len(queue) + 1].inv = i
    BY <1>1, <1>2, Appended
  <1>4. \A d \in Clients : d # c => (Holds(d)' <=> Holds(d)) /\ request'[d].inv = request[d].inv
    BY KeptHolder
  <1>5. \A d \in Clients : Holds(d)' => d # c /\ Holds(d) /\ request'[d].inv # i
    BY <1>4 DEF Slots
  <1>6. \A j : RunningFor(j)' <=> RunningFor(j)
    BY DEF RunningFor
  <1> HIDE DEF e
  <1> QED BY <1>3, <1>4, <1>5, <1>6 DEF Slots

(* A job is submitted for a slot that was free. *)
LEMMA SlotSubmitted ==
    ASSUME Slots, queue \in Seq(QueuedJobs), NEW kind \in JobKinds, NEW i \in Investigations,
           Reserve(i), Enqueue(i, kind), NoNewHolder,
           job' = job \/ (job.pc = "follow" /\ job' = NoJob)
    PROVE  Slots' /\ queue' \in Seq(QueuedJobs)
  <1> DEFINE e == [inv |-> i, kind |-> kind]
  <1>1. e \in QueuedJobs /\ e.inv = i
    BY DEF QueuedJobs
  <1>2. queue' = Append(queue, e)
    BY DEF Enqueue
  <1>3. /\ queue' \in Seq(QueuedJobs)
        /\ DOMAIN queue' = DOMAIN queue \cup {Len(queue) + 1}
        /\ Len(queue) + 1 \notin DOMAIN queue
        /\ \A n \in DOMAIN queue : queue'[n] = queue[n]
        /\ queue'[Len(queue) + 1].inv = i
    BY <1>1, <1>2, Appended
  <1>4. /\ \A d \in Clients : Holds(d) => request[d].inv # i
        /\ \A n \in DOMAIN queue : queue[n].inv # i
        /\ ~ RunningFor(i)
    BY DEF Slots, Reserve, Free, RunningFor
  <1>5. \A j : RunningFor(j)' => RunningFor(j)
    BY DEF RunningFor
  <1>6. job' # NoJob /\ job'.pc # "follow" => job # NoJob /\ job.pc # "follow" /\ job'.inv = job.inv
    OBVIOUS
  <1> HIDE DEF e
  <1> QED BY <1>3, <1>4, <1>5, <1>6 DEF Slots, Reserve, NoNewHolder

(* The holder of a slot gives it back: a request, or a job that ends. *)
LEMMA SlotReleased ==
    ASSUME Slots, NEW i, Release(i), queue' = queue, NoNewHolder,
           \A d \in Clients : Holds(d)' => request[d].inv # i,
           \A n \in DOMAIN queue : queue[n].inv # i,
           \/ job' = job /\ ~ RunningFor(i)
           \/ job' = NoJob \/ job'.pc = "follow"
    PROVE  Slots'
  <1>1. \A j : RunningFor(j)' => RunningFor(j) /\ j # i
    BY DEF RunningFor
  <1>2. job' # NoJob /\ job'.pc # "follow" =>
            job # NoJob /\ job.pc # "follow" /\ job'.inv = job.inv /\ job.inv # i
    BY DEF RunningFor
  <1> QED BY <1>1, <1>2 DEF Slots, Release, NoNewHolder

------------------------------------------------------------------------------
(* The thread. *)

(* A step of the runner ends no job and begins none. *)
LEMMA RunnerSlots ==
    ASSUME SlotsInv, RunnerStep, UNCHANGED serviceVars
    PROVE  SlotsInv'
  <1>0. WorkerTypeOK /\ RunnerTypeOK
    BY DEF SlotsInv, TypeOK
  <1>1. InJob /\ (RunningStep \/ (job' = job /\ job.pc = "node"))
    BY <1>0, RunnerMoves
  <1>2. RunnerTypeOK'
    BY <1>0, RunnerTypes
  <1>3. WorkerTypeOK'
    BY <1>0, <1>1 DEF WorkerTypeOK, InJob, RunningStep
  <1>4. TypeOK'
    BY <1>2, <1>3 DEF SlotsInv, TypeOK, serviceVars
  <1>5. RequestsOK'
    BY DEF SlotsInv, RequestsOK, serviceVars
  <1>6. NoNewHolder
    BY DEF NoNewHolder, Holds, serviceVars
  <1>7. \A c \in Clients : Holds(c) => request[c].inv \in Investigations
    BY DEF SlotsInv, RequestsOK, Holds
  <1>8. NoJob \notin RunningJobs
    BY DEF NoJob, RunningJobs, JobSteps
  <1>9. job' # NoJob /\ job'.pc # "follow" =>
            job # NoJob /\ job.pc # "follow" /\ job'.inv = job.inv
    BY <1>1, <1>8 DEF RunningStep
  <1>10. \A i \in Investigations \cup {None} : RunningFor(i)' <=> RunningFor(i)
    BY <1>1, <1>8 DEF RunningFor, RunningStep
  <1>11. Slots'
    BY <1>0, <1>1, <1>6, <1>7, <1>9, <1>10, SlotsKept DEF SlotsInv, InJob, WorkerTypeOK
  <1> QED BY <1>4, <1>5, <1>11 DEF SlotsInv

(* The next job is taken from the queue: it runs where it was queued. *)
LEMMA TakeSlots ==
    ASSUME SlotsInv, TakeJob, UNCHANGED <<runnerVars, serviceVars>>
    PROVE  SlotsInv'
  <1>0. queue \in Seq(QueuedJobs) /\ queue # << >>
    BY DEF SlotsInv, TypeOK, WorkerTypeOK, TakeJob
  <1>1. /\ Head(queue) \in QueuedJobs
        /\ 1 \in DOMAIN queue /\ queue[1] = Head(queue)
        /\ Tail(queue) \in Seq(QueuedJobs)
        /\ \A n \in DOMAIN Tail(queue) :
               n \in Nat /\ n + 1 # 1 /\ n + 1 \in DOMAIN queue /\ Tail(queue)[n] = queue[n + 1]
    BY <1>0, Taken
  <1>2. /\ job' \in RunningJobs /\ job'.inv = Head(queue).inv /\ job'.pc = "begin"
        /\ job'.inv \in Investigations
    BY <1>1 DEF TakeJob, QueuedJobs, RunningJobs, JobSteps
  <1>3. queue' = Tail(queue) /\ active' = active /\ followUps' = followUps /\ job = NoJob
    BY DEF TakeJob
  <1>4. TypeOK'
    BY <1>1, <1>2, <1>3
    DEF SlotsInv, TypeOK, WorkerTypeOK, RunnerTypeOK, runnerVars, serviceVars
  <1>5. RequestsOK'
    BY DEF SlotsInv, RequestsOK, serviceVars
  <1>6. \A i : RunningFor(i)' => i = queue[1].inv
    BY <1>1, <1>2 DEF RunningFor
  <1>7. Slots'
    <2>1. \A c \in Clients : (Holds(c)' <=> Holds(c)) /\ request'[c].inv = request[c].inv
      BY DEF Holds, serviceVars
    <2>2. \A c, d \in Clients :
              Holds(c)' /\ Holds(d)' /\ request'[c].inv = request'[d].inv => c = d
      BY <2>1 DEF SlotsInv, Slots
    <2>3. \A c \in Clients : Holds(c)' =>
              /\ request'[c].inv \in active'
              /\ ~ RunningFor(request[c].inv)'
              /\ \A n \in DOMAIN queue' : queue'[n].inv # request'[c].inv
      BY <1>1, <1>3, <1>6, <2>1 DEF SlotsInv, Slots
    <2>4. \A n \in DOMAIN queue' : queue'[n].inv \in active' /\ ~ RunningFor(queue[n].inv)'
      BY <1>1, <1>3, <1>6 DEF SlotsInv, Slots
    <2>5. \A m, n \in DOMAIN queue' : queue'[m].inv = queue'[n].inv => m = n
      BY <1>1, <1>3 DEF SlotsInv, Slots
    <2>6. job'.inv \in active'
      BY <1>1, <1>2, <1>3 DEF SlotsInv, Slots
    <2> QED BY <2>2, <2>3, <2>4, <2>5, <2>6 DEF Slots
  <1> QED BY <1>4, <1>5, <1>7 DEF SlotsInv

(* The job ends; its follow-up, if any, is still to be submitted. *)
LEMMA EndSlots ==
    ASSUME SlotsInv, EndJob, UNCHANGED <<runnerVars, serviceVars>>
    PROVE  SlotsInv'
  <1>1. job \in RunningJobs /\ job # NoJob /\ job.pc = "finally"
    BY DEF SlotsInv, TypeOK, WorkerTypeOK, EndJob, NoJob
  <1>2. job' \in RunningJobs \cup {NoJob} /\ (job' = NoJob \/ job'.pc = "follow")
    BY <1>1 DEF EndJob, RunningJobs, JobSteps
  <1>3. TypeOK'
    BY <1>2
    DEF SlotsInv, TypeOK, WorkerTypeOK, RunnerTypeOK, EndJob, runnerVars, serviceVars
  <1>4. RequestsOK'
    BY DEF SlotsInv, RequestsOK, serviceVars
  <1>5. NoNewHolder
    BY DEF NoNewHolder, Holds, serviceVars
  <1>6. RunningFor(job.inv)
    BY <1>1 DEF RunningFor
  <1>7. \A d \in Clients : Holds(d)' => request[d].inv # job.inv
    BY <1>5, <1>6 DEF NoNewHolder, SlotsInv, Slots
  <1>8. \A n \in DOMAIN queue : queue[n].inv # job.inv
    BY <1>6 DEF SlotsInv, Slots
  <1>9. Slots'
    BY <1>2, <1>5, <1>7, <1>8, SlotReleased DEF SlotsInv, EndJob, Release
  <1> QED BY <1>3, <1>4, <1>9 DEF SlotsInv

(* The follow-up takes the slot if it is free, and is dropped if it is not. *)
LEMMA FollowSlots ==
    ASSUME SlotsInv, SubmitFollowUp, UNCHANGED <<runnerVars, serviceVars>>
    PROVE  SlotsInv'
  <1>0. queue \in Seq(QueuedJobs)
    BY DEF SlotsInv, TypeOK, WorkerTypeOK
  <1>1. job.inv \in Investigations /\ job.pc = "follow" /\ job' = NoJob
    BY DEF SlotsInv, TypeOK, WorkerTypeOK, SubmitFollowUp, NoJob, RunningJobs
  <1>2. NoNewHolder
    BY DEF NoNewHolder, Holds, serviceVars
  <1>3. RequestsOK'
    BY DEF SlotsInv, RequestsOK, serviceVars
  <1>4. CASE Reserve(job.inv) /\ Enqueue(job.inv, "decision")
    <2>1. Slots' /\ queue' \in Seq(QueuedJobs)
      BY <1>0, <1>1, <1>2, <1>4, SlotSubmitted DEF SlotsInv, JobKinds
    <2>2. TypeOK'
      BY <1>1, <1>4, <2>1
      DEF SlotsInv, TypeOK, WorkerTypeOK, RunnerTypeOK, SubmitFollowUp, Reserve, runnerVars,
          serviceVars
    <2> QED BY <1>3, <2>1, <2>2 DEF SlotsInv
  <1>5. CASE UNCHANGED <<active, queue>>
    <2>1. TypeOK'
      BY <1>1, <1>5
      DEF SlotsInv, TypeOK, WorkerTypeOK, RunnerTypeOK, SubmitFollowUp, runnerVars, serviceVars
    <2>2. \A i : RunningFor(i)' <=> RunningFor(i)
      BY <1>1 DEF RunningFor
    <2>3. \A c \in Clients : Holds(c) => request[c].inv \in Investigations
      BY DEF SlotsInv, RequestsOK, Holds
    <2>4. Slots'
      BY <1>0, <1>1, <1>2, <1>5, <2>2, <2>3, SlotsKept DEF SlotsInv
    <2> QED BY <1>3, <2>1, <2>4 DEF SlotsInv
  <1> QED BY <1>4, <1>5 DEF SubmitFollowUp

(* So no step of the thread gives a slot a second holder. *)
LEMMA ThreadSlots ==
    ASSUME SlotsInv, Thread
    PROVE  SlotsInv'
  BY RunnerSlots, TakeSlots, EndSlots, FollowSlots DEF Thread, ThreadStep

------------------------------------------------------------------------------
(* The handlers. *)

(* What a handler leaves to the thread. *)
RunTablesKept == UNCHANGED <<checkpoint, executed, failures, raises, followUps, job>>

(* The requests' own invariant, when only c moved. *)
LEMMA RequestsKept ==
    ASSUME RequestsOK, NEW c \in Clients, OthersKept(c),
           resumed' = resumed \/ Holds(c),
           \A i \in Investigations : i # request[c].inv => resumed'[i] = resumed[i],
           Slots,
           /\ c \in StartRequests =>
                  request'[c].pc \in {"new", "over", "insert", "submit", "release"}
           /\ c \in DecideRequests =>
                  request'[c].pc \in {"new", "over", "commit", "notify", "submit"}
           /\ c \in ResumeRequests =>
                  request'[c].pc \in {"new", "check", "reserve", "commit", "submit", "release"}
           /\ request'[c].pc \notin {"new", "over"} => request'[c].inv \in Investigations
           /\ c \in DecideRequests /\ request'[c].pc \notin {"new", "over"} =>
                  request'[c].round \in Rounds
           /\ c \in ResumeRequests /\ request'[c].pc = "commit" =>
                  resumed'[request'[c].inv] < MaxResumes
    PROVE  RequestsOK'
  <1> SUFFICES ASSUME NEW d \in Clients, d # c
               PROVE  /\ request'[d] = request[d]
                      /\ d \in ResumeRequests /\ request[d].pc = "commit" =>
                             resumed'[request[d].inv] < MaxResumes
    BY DEF RequestsOK, Clients
  <1>1. request'[d] = request[d]
    BY DEF OthersKept
  <1>2. ASSUME d \in ResumeRequests, request[d].pc = "commit"
        PROVE  resumed'[request[d].inv] < MaxResumes
    <2>1. resumed[request[d].inv] < MaxResumes /\ request[d].inv \in Investigations
      BY <1>2 DEF RequestsOK
    <2>2. Holds(c) => request[d].inv # request[c].inv
      BY <1>2 DEF Slots, Holds
    <2> QED BY <2>1, <2>2
  <1> QED BY <1>1, <1>2

(* The slot is untouched, and so are the jobs. *)
LEMMA HandlerSlots ==
    ASSUME SlotsInv, NoNewHolder, active' = active, queue' = queue, job' = job
    PROVE  Slots'
  <1>1. \A i \in Investigations \cup {None} : RunningFor(i)' <=> RunningFor(i)
    BY DEF RunningFor
  <1>2. \A c \in Clients : Holds(c) => request[c].inv \in Investigations
    BY DEF SlotsInv, RequestsOK, Holds
  <1> QED BY <1>1, <1>2, SlotsKept DEF SlotsInv, TypeOK, WorkerTypeOK

(* A start claims the slot before its row is visible, or is answered. *)
LEMMA StartReserveSlots ==
    ASSUME SlotsInv, NEW c \in Clients, NEW i \in Investigations, StartReserve(c, i)
    PROVE  SlotsInv'
  <1>0. request \in [Clients -> Requests] /\ ~ Holds(c)
    BY ServiceAssumption DEF SlotsInv, TypeOK, Requests, StartReserve, Handles, Holds
  <1>1. CASE Free(i)
    <2> DEFINE r == [NotMade EXCEPT !.pc = "insert", !.inv = i]
    <2>r. r \in Requests /\ r.pc = "insert" /\ r.inv = i
      BY DEF NotMade, Requests, Handling
    <2>1. request' = [request EXCEPT ![c] = r] /\ Reserve(i)
      BY <1>1 DEF StartReserve
    <2> HIDE DEF r
    <2>2. /\ request' \in [Clients -> Requests] /\ OthersKept(c)
          /\ request'[c].pc = "insert" /\ request'[c].inv = i
      BY <1>0, <2>r, <2>1, Begun
    <2>3. Slots'
      BY <2>1, <2>2, SlotTaken DEF SlotsInv, StartReserve
    <2>4. RequestsOK'
      BY <2>2, RequestsKept, ServiceAssumption DEF SlotsInv, StartReserve
    <2>5. TypeOK'
      BY <2>1, <2>2
      DEF SlotsInv, TypeOK, WorkerTypeOK, RunnerTypeOK, StartReserve, Reserve, runnerVars, Requests
    <2> QED BY <2>3, <2>4, <2>5 DEF SlotsInv
  <1>2. CASE ~ Free(i)
    <2>1. Answer(c) /\ active' = active
      BY <1>2 DEF StartReserve
    <2>2. /\ request' \in [Clients -> Requests] /\ OthersKept(c)
          /\ request'[c].pc = IF c \in ResumeRequests THEN "new" ELSE "over"
      BY <1>0, <2>1, Answered
    <2>3. NoNewHolder
      BY <1>0, <2>2, KeptHolder, ServiceAssumption DEF NoNewHolder, Holds
    <2>4. Slots'
      BY <2>1, <2>3, HandlerSlots DEF StartReserve
    <2>5. RequestsOK'
      BY <2>2, RequestsKept, ServiceAssumption DEF SlotsInv, StartReserve
    <2>6. TypeOK'
      BY <2>1, <2>2
      DEF SlotsInv, TypeOK, WorkerTypeOK, RunnerTypeOK, StartReserve, runnerVars, Requests
    <2> QED BY <2>4, <2>5, <2>6 DEF SlotsInv
  <1> QED BY <1>1, <1>2

(* A handler that goes on where its request can go keeps the slots as they are. *)
LEMMA StepSlots ==
    ASSUME SlotsInv, NEW c \in Clients, NEW pc \in Handling, Step(c, pc),
           active' = active, queue' = queue, job' = job,
           c \in StartRequests => request[c].pc = "insert" /\ pc \in {"submit", "release"},
           c \in DecideRequests => request[c].pc \in {"commit", "notify"}
                                   /\ pc \in {"notify", "submit"},
           c \in ResumeRequests => \/ request[c].pc = "check" /\ pc = "reserve"
                                   \/ request[c].pc = "commit" /\ pc \in {"submit", "release"},
           \/ resumed' = resumed
           \/ /\ Holds(c)
              /\ resumed' = [resumed EXCEPT ![request[c].inv] = @ + 1]
    PROVE  Slots' /\ RequestsOK' /\ request' \in [Clients -> Requests]
  <1>1. request \in [Clients -> Requests]
    BY DEF SlotsInv, TypeOK, Requests
  <1>2. /\ request' \in [Clients -> Requests] /\ OthersKept(c)
        /\ request'[c].pc = pc
        /\ request'[c].inv = request[c].inv
        /\ request'[c].round = request[c].round
    BY <1>1, Stepped
  <1>3. Holds(c)' => Holds(c)
    BY <1>2, ServiceAssumption DEF Holds
  <1>4. NoNewHolder
    BY <1>2, <1>3, KeptHolder DEF NoNewHolder
  <1>5. \A i \in Investigations : i # request[c].inv => resumed'[i] = resumed[i]
    BY DEF SlotsInv, TypeOK
  <1>6. /\ request[c].inv \in Investigations
        /\ c \in DecideRequests => request[c].round \in Rounds
    BY DEF SlotsInv, RequestsOK, Clients
  <1>7. RequestsOK'
    BY <1>2, <1>5, <1>6, RequestsKept, ServiceAssumption DEF SlotsInv
  <1> QED BY <1>2, <1>4, <1>7, HandlerSlots

(* A request that is answered without having held a slot. *)
LEMMA AnswerSlots ==
    ASSUME SlotsInv, NEW c \in Clients, Answer(c), resumed' = resumed,
           active' = active, queue' = queue, job' = job
    PROVE  Slots' /\ RequestsOK' /\ request' \in [Clients -> Requests]
  <1>1. request \in [Clients -> Requests]
    BY DEF SlotsInv, TypeOK, Requests
  <1>2. /\ request' \in [Clients -> Requests] /\ OthersKept(c)
        /\ request'[c].pc = IF c \in ResumeRequests THEN "new" ELSE "over"
    BY <1>1, Answered
  <1>3. ~ Holds(c)'
    BY <1>2, ServiceAssumption DEF Holds
  <1>4. NoNewHolder
    BY <1>2, <1>3, KeptHolder DEF NoNewHolder
  <1>5. RequestsOK'
    BY <1>2, RequestsKept, ServiceAssumption DEF SlotsInv
  <1> QED BY <1>2, <1>4, <1>5, HandlerSlots

(* A request of a kind that holds nothing yet begins. *)
LEMMA BeginSlots ==
    ASSUME SlotsInv, NEW c \in Clients, NEW r \in Requests, r.inv \in Investigations,
           request' = [request EXCEPT ![c] = r],
           active' = active, queue' = queue, job' = job, resumed' = resumed,
           \/ c \in DecideRequests /\ r.pc = "commit" /\ r.round \in Rounds
           \/ c \in ResumeRequests /\ r.pc = "check"
    PROVE  Slots' /\ RequestsOK' /\ request' \in [Clients -> Requests]
  <1>1. request \in [Clients -> Requests]
    BY DEF SlotsInv, TypeOK, Requests
  <1>2. request' \in [Clients -> Requests] /\ request'[c] = r /\ OthersKept(c)
    BY <1>1, Begun
  <1>3. ~ Holds(c)'
    BY <1>2, ServiceAssumption DEF Holds
  <1>4. NoNewHolder
    BY <1>2, <1>3, KeptHolder DEF NoNewHolder
  <1>5. RequestsOK'
    BY <1>2, RequestsKept, ServiceAssumption DEF SlotsInv
  <1> QED BY <1>2, <1>4, <1>5, HandlerSlots

(* The steps that leave the slots alone, one by one. *)
LEMMA QuietSteps ==
    ASSUME SlotsInv, NEW c \in Clients,
           \/ StartInsert(c) \/ TxFails(c) \/ DecideCommit(c) \/ DecideNotify(c)
           \/ ResumeCheck(c) \/ ResumeCommit(c)
           \/ \E i \in Investigations :
                  ResumeRead(c, i) \/ \E n \in Rounds : DecideRead(c, i, n)
    PROVE  SlotsInv'
  <1>0. /\ WorkerTypeOK /\ RunnerTypeOK
        /\ resumed \in [Investigations -> 0 .. MaxResumes]
        /\ txFailures \in 0 .. MaxTxFailures /\ deaths \in 0 .. MaxDeaths
    BY DEF SlotsInv, TypeOK
  <1>r. /\ request[c].pc \notin {"new", "over"} => request[c].inv \in Investigations
        /\ c \in DecideRequests /\ request[c].pc \notin {"new", "over"} =>
               request[c].round \in Rounds
        /\ c \in ResumeRequests /\ request[c].pc = "commit" => resumed[request[c].inv] < MaxResumes
    BY DEF SlotsInv, RequestsOK
  <1>t. ASSUME request' \in [Clients -> Requests],
               WorkerTypeOK', RunnerTypeOK',
               resumed' \in [Investigations -> 0 .. MaxResumes],
               txFailures' \in 0 .. MaxTxFailures, deaths' = deaths
        PROVE  TypeOK'
    BY <1>t, <1>0 DEF TypeOK, Requests
  <1>1. CASE StartInsert(c)
    <2>1. \/ Step(c, "submit") \/ Step(c, "release")
      BY <1>1 DEF StartInsert
    <2>2. Slots' /\ RequestsOK' /\ request' \in [Clients -> Requests]
      BY <1>1, <2>1, StepSlots, ServiceAssumption
      DEF StartInsert, Handles, WorkerIdle, workerVars, Handling
    <2>3. status' \in [Investigations -> Statuses]
      BY <1>0, <1>1 DEF StartInsert, SetStatus, RunnerTypeOK, Statuses
    <2> QED BY <1>0, <1>1, <1>t, <2>2, <2>3
            DEF SlotsInv, StartInsert, WorkerIdle, workerVars, RunsIdle, WorkerTypeOK,
                RunnerTypeOK
  <1>2. CASE TxFails(c)
    <2>1. Slots' /\ RequestsOK' /\ request' \in [Clients -> Requests]
      <3>1. \/ /\ Step(c, "release")
               /\ \/ c \in StartRequests /\ request[c].pc = "insert"
                  \/ c \in ResumeRequests /\ request[c].pc = "commit"
            \/ Answer(c)
        BY <1>2 DEF TxFails, Handles
      <3>2. active' = active /\ queue' = queue /\ job' = job /\ resumed' = resumed
        BY <1>2 DEF TxFails, WorkerIdle, workerVars
      <3>3. CASE Answer(c)
        BY <3>2, <3>3, AnswerSlots
      <3>4. CASE Step(c, "release") /\ ~ Answer(c)
        BY <3>1, <3>2, <3>4, StepSlots, ServiceAssumption DEF Handling
      <3> QED BY <3>1, <3>3, <3>4
    <2>2. txFailures' \in 0 .. MaxTxFailures
      BY <1>0, <1>2, ServiceAssumption DEF TxFails
    <2> QED BY <1>0, <1>2, <1>t, <2>1, <2>2
            DEF SlotsInv, TxFails, WorkerIdle, workerVars, runnerVars, WorkerTypeOK, RunnerTypeOK
  <1>3. CASE DecideCommit(c)
    <2>1. Step(c, "notify") \/ Answer(c)
      BY <1>3 DEF DecideCommit
    <2>2. Slots' /\ RequestsOK' /\ request' \in [Clients -> Requests]
      BY <1>3, <2>1, StepSlots, AnswerSlots, ServiceAssumption
      DEF DecideCommit, Handles, WorkerIdle, workerVars, Handling
    <2>3. status' \in [Investigations -> Statuses]
      BY <1>0, <1>3 DEF DecideCommit, SetStatus, RunnerTypeOK, Statuses
    <2>4. approvals' \in [Investigations -> [Rounds -> Decisions \cup {"absent", "pending"}]]
      <3>1. \/ approvals' = approvals
            \/ \E d \in Decisions :
                  approvals' = [approvals EXCEPT ![request[c].inv][request[c].round] = d]
        BY <1>3 DEF DecideCommit, Inv
      <3>2. request[c].inv \in Investigations /\ request[c].round \in Rounds
        BY <1>3, <1>r DEF DecideCommit, Handles
      <3>3. CASE approvals' = approvals
        BY <1>0, <3>3 DEF RunnerTypeOK
      <3>4. ASSUME NEW d \in Decisions,
                   approvals' = [approvals EXCEPT ![request[c].inv][request[c].round] = d]
            PROVE  approvals' \in [Investigations -> [Rounds -> Decisions \cup {"absent", "pending"}]]
        <4>1. approvals \in [Investigations -> [Rounds -> Decisions \cup {"absent", "pending"}]]
          BY <1>0 DEF RunnerTypeOK
        <4> QED BY <3>2, <3>4, <4>1
      <3> QED BY <3>1, <3>3, <3>4
    <2> QED BY <1>0, <1>3, <1>t, <2>2, <2>3, <2>4
            DEF SlotsInv, DecideCommit, WorkerIdle, workerVars, RunsIdle, WorkerTypeOK,
                RunnerTypeOK
  <1>4. CASE DecideNotify(c)
    <2>1. Step(c, "submit") \/ Answer(c)
      BY <1>4 DEF DecideNotify
    <2>2. Slots' /\ RequestsOK' /\ request' \in [Clients -> Requests]
      BY <1>4, <2>1, StepSlots, AnswerSlots, ServiceAssumption
      DEF DecideNotify, Handles, Handling
    <2>3. followUps' \subseteq Investigations
      BY <1>0, <1>4, <1>r DEF DecideNotify, Handles, Inv, KeepFollowUp, WorkerTypeOK
    <2> QED BY <1>0, <1>4, <1>t, <2>2, <2>3
            DEF SlotsInv, DecideNotify, runnerVars, WorkerTypeOK, RunnerTypeOK
  <1>5. CASE ResumeCheck(c)
    <2>1. Step(c, "reserve") \/ Answer(c)
      BY <1>5 DEF ResumeCheck
    <2>2. Slots' /\ RequestsOK' /\ request' \in [Clients -> Requests]
      BY <1>5, <2>1, StepSlots, AnswerSlots, ServiceAssumption
      DEF ResumeCheck, Handles, WorkerIdle, workerVars, Handling
    <2> QED BY <1>0, <1>5, <1>t, <2>2
            DEF SlotsInv, ResumeCheck, WorkerIdle, workerVars, runnerVars, WorkerTypeOK,
                RunnerTypeOK
  <1>6. CASE ResumeCommit(c)
    <2>1. request[c].inv \in Investigations /\ resumed[request[c].inv] < MaxResumes
      BY <1>6, <1>r DEF ResumeCommit, Handles
    <2>2. Slots' /\ RequestsOK' /\ request' \in [Clients -> Requests]
      BY <1>6, StepSlots, ServiceAssumption
      DEF ResumeCommit, Handles, WorkerIdle, workerVars, Handling, Holds, Inv
    <2>3. status' \in [Investigations -> Statuses]
      BY <1>0, <1>6 DEF ResumeCommit, SetStatus, RunnerTypeOK, Statuses
    <2>4. resumed' \in [Investigations -> 0 .. MaxResumes]
      BY <1>0, <1>6, <2>1, ServiceAssumption DEF ResumeCommit, Inv
    <2> QED BY <1>0, <1>6, <1>t, <2>2, <2>3, <2>4
            DEF SlotsInv, ResumeCommit, WorkerIdle, workerVars, RunsIdle, WorkerTypeOK,
                RunnerTypeOK
  <1>7. ASSUME NEW i \in Investigations, ResumeRead(c, i)
        PROVE  SlotsInv'
    <2> DEFINE r == [NotMade EXCEPT !.pc = "check", !.inv = i, !.seen = status[i]]
    <2>r. r \in Requests /\ r.pc = "check" /\ r.inv = i
      BY <1>0 DEF RunnerTypeOK, NotMade, Requests, Handling
    <2>1. /\ request' = [request EXCEPT ![c] = r]
          /\ active' = active /\ queue' = queue /\ job' = job /\ resumed' = resumed
          /\ c \in ResumeRequests
      BY <1>7 DEF ResumeRead, WorkerIdle, workerVars
    <2> HIDE DEF r
    <2>3. Slots' /\ RequestsOK' /\ request' \in [Clients -> Requests]
      BY <2>r, <2>1, BeginSlots
    <2> QED BY <1>0, <1>7, <1>t, <2>3
            DEF SlotsInv, ResumeRead, WorkerIdle, workerVars, runnerVars, WorkerTypeOK,
                RunnerTypeOK
  <1>8. ASSUME NEW i \in Investigations, NEW n \in Rounds, DecideRead(c, i, n)
        PROVE  SlotsInv'
    <2> DEFINE r == [NotMade EXCEPT !.pc = "commit", !.inv = i, !.round = n]
    <2>r. r \in Requests /\ r.pc = "commit" /\ r.inv = i /\ r.round = n
      BY DEF NotMade, Requests, Handling
    <2>1. /\ request' = [request EXCEPT ![c] = r]
          /\ active' = active /\ queue' = queue /\ job' = job /\ resumed' = resumed
          /\ c \in DecideRequests
      BY <1>8 DEF DecideRead, WorkerIdle, workerVars
    <2> HIDE DEF r
    <2>2. Slots' /\ RequestsOK' /\ request' \in [Clients -> Requests]
      BY <2>r, <2>1, BeginSlots
    <2> QED BY <1>0, <1>8, <1>t, <2>2
            DEF SlotsInv, DecideRead, WorkerIdle, workerVars, runnerVars, WorkerTypeOK,
                RunnerTypeOK
  <1> QED BY <1>1, <1>2, <1>3, <1>4, <1>5, <1>6, <1>7, <1>8

(* A start or a resume hands its slot to the job it submits. *)
LEMMA SubmitSlots ==
    ASSUME SlotsInv, NEW c \in Clients, StartSubmit(c) \/ ResumeSubmit(c)
    PROVE  SlotsInv'
  <1>0. /\ request \in [Clients -> Requests] /\ queue \in Seq(QueuedJobs)
        /\ request[c].pc = "submit" /\ Holds(c) /\ request[c].inv \in Investigations
    BY DEF SlotsInv, TypeOK, WorkerTypeOK, Requests, RequestsOK, StartSubmit, ResumeSubmit, Handles,
           Holds
  <1>1. PICK kind \in JobKinds : Enqueue(request[c].inv, kind)
    BY DEF StartSubmit, ResumeSubmit, JobKinds, Inv
  <1>2. /\ Answer(c) /\ active' = active /\ job' = job /\ followUps' = followUps
        /\ UNCHANGED <<runnerVars, resumed, txFailures, deaths>>
    BY DEF StartSubmit, ResumeSubmit
  <1>3. /\ request' \in [Clients -> Requests] /\ OthersKept(c)
        /\ request'[c].pc = IF c \in ResumeRequests THEN "new" ELSE "over"
    BY <1>0, <1>2, Answered
  <1>4. ~ Holds(c)'
    BY <1>3, ServiceAssumption DEF Holds
  <1>5. Slots' /\ queue' \in Seq(QueuedJobs)
    BY <1>0, <1>1, <1>2, <1>3, <1>4, SlotHandedOver DEF SlotsInv
  <1>6. RequestsOK'
    BY <1>2, <1>3, RequestsKept, ServiceAssumption DEF SlotsInv
  <1>7. TypeOK'
    BY <1>2, <1>3, <1>5
    DEF SlotsInv, TypeOK, WorkerTypeOK, RunnerTypeOK, runnerVars, Requests
  <1> QED BY <1>5, <1>6, <1>7 DEF SlotsInv

(* A slot nothing will run in is given back. *)
LEMMA ReleaseSlots ==
    ASSUME SlotsInv, NEW c \in Clients, ReleaseSlot(c)
    PROVE  SlotsInv'
  <1>0. /\ request \in [Clients -> Requests]
        /\ Holds(c) /\ request[c].inv \in Investigations
    BY DEF SlotsInv, TypeOK, Requests, RequestsOK, ReleaseSlot, Handles, Holds, Clients
  <1>1. /\ Answer(c) /\ Release(request[c].inv) /\ queue' = queue /\ job' = job
        /\ UNCHANGED <<followUps, runnerVars, resumed, txFailures, deaths>>
    BY DEF ReleaseSlot, Inv
  <1>2. /\ request' \in [Clients -> Requests] /\ OthersKept(c)
        /\ request'[c].pc = IF c \in ResumeRequests THEN "new" ELSE "over"
    BY <1>0, <1>1, Answered
  <1>3. ~ Holds(c)'
    BY <1>2, ServiceAssumption DEF Holds
  <1>4. NoNewHolder
    BY <1>2, <1>3, KeptHolder DEF NoNewHolder
  <1>5. \A d \in Clients : Holds(d)' => request[d].inv # request[c].inv
    BY <1>0, <1>3, <1>4 DEF NoNewHolder, SlotsInv, Slots
  <1>6. /\ \A n \in DOMAIN queue : queue[n].inv # request[c].inv
        /\ ~ RunningFor(request[c].inv)
    BY <1>0 DEF SlotsInv, Slots
  <1>7. Slots'
    BY <1>1, <1>4, <1>5, <1>6, SlotReleased DEF SlotsInv
  <1>8. RequestsOK'
    BY <1>1, <1>2, RequestsKept, ServiceAssumption DEF SlotsInv
  <1>9. TypeOK'
    BY <1>1, <1>2
    DEF SlotsInv, TypeOK, WorkerTypeOK, RunnerTypeOK, Release, runnerVars, Requests
  <1> QED BY <1>7, <1>8, <1>9 DEF SlotsInv

(* A resume claims the slot before its transaction. *)
LEMMA ResumeReserveSlots ==
    ASSUME SlotsInv, NEW c \in Clients, ResumeReserve(c)
    PROVE  SlotsInv'
  <1>0. /\ request \in [Clients -> Requests] /\ c \in ResumeRequests
        /\ request[c].inv \in Investigations
        /\ queue' = queue /\ job' = job /\ resumed' = resumed
    BY DEF SlotsInv, TypeOK, Requests, RequestsOK, ResumeReserve, Handles
  <1>1. CASE Free(request[c].inv) /\ resumed[request[c].inv] < MaxResumes
    <2>1. Reserve(request[c].inv) /\ Step(c, "commit")
      BY <1>1 DEF ResumeReserve, Inv
    <2>2. /\ request' \in [Clients -> Requests] /\ OthersKept(c)
          /\ request'[c].pc = "commit" /\ request'[c].inv = request[c].inv
      BY <1>0, <2>1, Stepped DEF Handling
    <2>3. Slots'
      BY <1>0, <2>1, <2>2, SlotTaken DEF SlotsInv
    <2>4. RequestsOK'
      BY <1>0, <1>1, <2>2, RequestsKept, ServiceAssumption DEF SlotsInv
    <2>5. TypeOK'
      BY <2>1, <2>2
      DEF SlotsInv, TypeOK, WorkerTypeOK, RunnerTypeOK, ResumeReserve, Reserve, Free, runnerVars,
          Requests, RequestsOK, Handles
    <2> QED BY <2>3, <2>4, <2>5 DEF SlotsInv
  <1>2. CASE Answer(c) /\ active' = active
    <2>1. Slots' /\ RequestsOK' /\ request' \in [Clients -> Requests]
      BY <1>0, <1>2, AnswerSlots
    <2>2. TypeOK'
      BY <1>2, <2>1
      DEF SlotsInv, TypeOK, WorkerTypeOK, RunnerTypeOK, ResumeReserve, runnerVars, Requests
    <2> QED BY <2>1, <2>2 DEF SlotsInv
  <1> QED BY <1>1, <1>2 DEF ResumeReserve, Inv

(* A decision's resume takes the slot if it is free, and is dropped if it is not. *)
LEMMA DecideSubmitSlots ==
    ASSUME SlotsInv, NEW c \in Clients, DecideSubmit(c)
    PROVE  SlotsInv'
  <1>0. /\ request \in [Clients -> Requests] /\ queue \in Seq(QueuedJobs)
        /\ request[c].inv \in Investigations
        /\ Answer(c) /\ job' = job /\ resumed' = resumed
    BY DEF SlotsInv, TypeOK, WorkerTypeOK, Requests, RequestsOK, DecideSubmit, Handles
  <1>1. CASE Reserve(request[c].inv) /\ Enqueue(request[c].inv, "decision")
    <2>1. /\ request' \in [Clients -> Requests] /\ OthersKept(c)
          /\ request'[c].pc = IF c \in ResumeRequests THEN "new" ELSE "over"
      BY <1>0, Answered
    <2>2. ~ Holds(c)'
      BY <2>1, ServiceAssumption DEF Holds
    <2>3. NoNewHolder
      BY <2>1, <2>2, KeptHolder DEF NoNewHolder
    <2>4. Slots' /\ queue' \in Seq(QueuedJobs)
      BY <1>0, <1>1, <2>3, SlotSubmitted DEF SlotsInv, JobKinds
    <2>5. RequestsOK'
      BY <1>0, <2>1, RequestsKept, ServiceAssumption DEF SlotsInv
    <2>6. TypeOK'
      BY <1>0, <1>1, <2>1, <2>4
      DEF SlotsInv, TypeOK, WorkerTypeOK, RunnerTypeOK, DecideSubmit, Reserve, runnerVars, Requests
    <2> QED BY <2>4, <2>5, <2>6 DEF SlotsInv
  <1>2. CASE UNCHANGED <<active, queue>>
    <2>1. Slots' /\ RequestsOK' /\ request' \in [Clients -> Requests]
      BY <1>0, <1>2, AnswerSlots
    <2>2. TypeOK'
      BY <1>2, <2>1
      DEF SlotsInv, TypeOK, WorkerTypeOK, RunnerTypeOK, DecideSubmit, runnerVars, Requests
    <2> QED BY <2>1, <2>2 DEF SlotsInv
  <1> QED BY <1>1, <1>2 DEF DecideSubmit, Inv

(* Nothing holds a slot in a process that has just started. *)
LEMMA DeathSlots ==
    ASSUME SlotsInv, ProcessDies
    PROVE  SlotsInv'
  <1>1. NotMade \in Requests /\ NotMade.pc = "new"
    BY DEF NotMade, Requests, Handling
  <1>2. /\ [NotMade EXCEPT !.pc = "over"] \in Requests
        /\ [NotMade EXCEPT !.pc = "over"].pc = "over"
    BY DEF NotMade, Requests, Handling
  <1>3. \A c \in Clients :
            /\ request'[c] \in Requests
            /\ request'[c].pc \in {"new", "over"}
            /\ c \in ResumeRequests => request'[c].pc = "new"
    BY <1>1, <1>2 DEF ProcessDies
  <1>4. request' \in [Clients -> Requests]
    BY <1>3 DEF ProcessDies
  <1>5. /\ active' = {} /\ followUps' = {} /\ queue' = << >> /\ job' = NoJob
        /\ UNCHANGED <<runnerVars, resumed, txFailures>>
        /\ deaths < MaxDeaths /\ deaths' = deaths + 1
    BY DEF ProcessDies
  <1>6. \A c \in Clients : ~ Holds(c)'
    BY <1>3, ServiceAssumption DEF Holds
  <1>7. Slots'
    <2>1. DOMAIN queue' = {}
      BY <1>5
    <2> QED BY <1>5, <1>6, <2>1 DEF Slots
  <1>8. RequestsOK'
    BY <1>3, ServiceAssumption DEF RequestsOK
  <1>9. TypeOK'
    BY <1>4, <1>5, ServiceAssumption
    DEF SlotsInv, TypeOK, WorkerTypeOK, RunnerTypeOK, runnerVars, Requests
  <1> QED BY <1>7, <1>8, <1>9 DEF SlotsInv

------------------------------------------------------------------------------
(* The theorems. *)

(* At the start no request was made and nothing is reserved. *)
LEMMA InitSlots ==
    Init => SlotsInv
  <1> SUFFICES ASSUME Init PROVE SlotsInv
    OBVIOUS
  <1>1. NotMade \in Requests /\ NotMade.pc = "new"
    BY DEF NotMade, Requests, Handling
  <1>2. \A c \in Clients : request[c].pc = "new" /\ request[c] \in Requests
    BY <1>1 DEF Init
  <1>3. WorkerTypeOK
    BY DEF Init, WorkerInit, WorkerTypeOK
  <1>4. RunnerTypeOK
    <2>1. NoCheckpoint \in Checkpoints
      BY RunnerAssumption DEF NoCheckpoint, Checkpoints, Nodes, Statuses, Rounds
    <2> QED BY <2>1, RunnerAssumption DEF Init, RunnerInit, RunnerTypeOK, Statuses
  <1>5. TypeOK
    BY <1>1, <1>3, <1>4, ServiceAssumption DEF Init, TypeOK, Requests
  <1>6. RequestsOK
    BY <1>2 DEF RequestsOK
  <1>7. Slots
    <2>1. DOMAIN queue = {}
      BY DEF Init, WorkerInit
    <2> QED BY <1>2, <2>1 DEF Slots, Holds, Init, WorkerInit
  <1> QED BY <1>5, <1>6, <1>7 DEF SlotsInv

(* Every step of the service keeps its reservations exclusive. *)
LEMMA NextSlots ==
    SlotsInv /\ [Next]_vars => SlotsInv'
  <1> SUFFICES ASSUME SlotsInv, [Next]_vars
               PROVE  SlotsInv'
    OBVIOUS
  <1>1. CASE Thread
    BY <1>1, ThreadSlots
  <1>2. ASSUME NEW c \in Clients, Call(c)
        PROVE  SlotsInv'
    BY <1>2, StartReserveSlots, QuietSteps DEF Call
  <1>3. ASSUME NEW c \in Clients, Handle(c)
        PROVE  SlotsInv'
    BY <1>3, QuietSteps, SubmitSlots, ReleaseSlots, ResumeReserveSlots, DecideSubmitSlots DEF Handle
  <1>4. ASSUME NEW c \in Clients, TxFails(c)
        PROVE  SlotsInv'
    BY <1>4, QuietSteps
  <1>5. CASE ProcessDies
    BY <1>5, DeathSlots
  <1>6. CASE UNCHANGED vars
    <2>1. \A i : RunningFor(i)' <=> RunningFor(i)
      BY <1>6 DEF RunningFor, vars, workerVars
    <2>2. NoNewHolder
      BY <1>6 DEF NoNewHolder, Holds, vars, serviceVars
    <2>3. Slots'
      BY <1>6, <2>2, HandlerSlots DEF vars, workerVars
    <2>4. RequestsOK'
      BY <1>6 DEF SlotsInv, RequestsOK, vars, serviceVars
    <2>5. TypeOK'
      BY <1>6
      DEF SlotsInv, TypeOK, WorkerTypeOK, RunnerTypeOK, vars, workerVars, runnerVars, serviceVars
    <2> QED BY <2>3, <2>4, <2>5 DEF SlotsInv
  <1> QED BY <1>1, <1>2, <1>3, <1>4, <1>5, <1>6 DEF Next

(* A reservation has one holder at any time, for any number of requests and
   investigations (worker.py: try_reserve, submit, release). *)
THEOREM SlotsInvariance ==
    Spec => []SlotsInv
  BY InitSlots, NextSlots, PTL DEF Spec

(* Every variable keeps its type, the bounds on resumes among them. *)
THEOREM ServiceTypeCorrect ==
    Spec => []TypeOK
  <1>1. SlotsInv => TypeOK
    BY DEF SlotsInv
  <1> QED BY <1>1, SlotsInvariance, PTL

(* One job per investigation: among those queued and the one running none has a
   second one, and the investigation of each is reserved (worker.py:1). *)
THEOREM OneJob ==
    Spec => []OneJobPerInvestigation
  <1>1. SlotsInv => OneJobPerInvestigation
    <2> SUFFICES ASSUME SlotsInv, NEW i \in Investigations
                 PROVE  /\ Cardinality(QueuedFor(i)) + (IF RunningFor(i) THEN 1 ELSE 0) <= 1
                        /\ QueuedFor(i) # {} \/ RunningFor(i) => i \in active
      BY DEF OneJobPerInvestigation
    <2>1. QueuedFor(i) # {} \/ RunningFor(i) => i \in active
      BY DEF SlotsInv, Slots, QueuedFor, RunningFor
    <2>2. CASE QueuedFor(i) = {}
      BY <2>1, <2>2, FS_EmptySet
    <2>3. CASE QueuedFor(i) # {}
      <3>1. PICK n : n \in QueuedFor(i)
        BY <2>3
      <3>2. QueuedFor(i) = {n}
        BY <3>1 DEF SlotsInv, Slots, QueuedFor
      <3>3. ~ RunningFor(i)
        BY <3>1 DEF SlotsInv, Slots, QueuedFor
      <3>4. Cardinality(QueuedFor(i)) = 1
        BY <3>2, FS_Singleton
      <3> QED BY <2>1, <3>3, <3>4
    <2> QED BY <2>2, <2>3
  <1> QED BY <1>1, SlotsInvariance, PTL

------------------------------------------------------------------------------
(***************************************************************************)
(* Proofs about the runs of InvestigationService, whatever dies, raises or *)
(* is asked for twice: an action is executed only on a decision, a         *)
(* decision is final, an investigation shown as complete is done, and a    *)
(* failed action is tried again only when that was asked for. And, while   *)
(* nothing dies, no decision is forgotten.                                 *)
(*                                                                         *)
(* The argument for the first three: the checkpoint says how far the       *)
(* decisions are (RunOK), and a job that is about to run a node, or whose  *)
(* node has had its effect and not yet its checkpoint, knows what that     *)
(* node needs (LocalsOK). Retries are an account: a failure that may still *)
(* come is paid for by the first attempt, by a resume accepted since, or   *)
(* by the crash that lost the outcome (Due). A job in two places at once   *)
(* would count twice, so it rests on the slots having one holder.          *)
(***************************************************************************)

(* The decision on the proposal the run is at. *)
Current(i) == approvals[i][Round(i)]

(* The run has the checkpoints a run can have; each earlier round was rejected,
   no later one has a row, and the current row is as far as the checkpoint; the
   mirror shows the run as complete only when it is. *)
RunOK(i) ==
    /\ checkpoint[i].next = "none" => Round(i) = 1
    /\ checkpoint[i].next = "act" => checkpoint[i].status \in {"awaiting_approval", "failed"}
    /\ checkpoint[i].next = "end" => checkpoint[i].status = "complete"
    /\ checkpoint[i].next \notin {"act", "end"} => checkpoint[i].status = "running"
    /\ \A n \in Rounds :
           /\ n < Round(i) => approvals[i][n] = "rejected"
           /\ n > Round(i) => approvals[i][n] = "absent"
    /\ checkpoint[i].next \in {"none", "investigate"} => Current(i) = "absent"
    /\ checkpoint[i].next = "act" => Current(i) # "absent"
    /\ checkpoint[i].next = "act" /\ checkpoint[i].status = "failed" => Current(i) = "approved"
    /\ checkpoint[i].next \in {"summarize", "end"} =>
           /\ Current(i) # "pending"
           /\ Current(i) = "approved" => Round(i) \in executed[i]
    /\ status[i] = "complete" => checkpoint[i].next = "end"

(* What the job knows of the run it is in the middle of. *)
LocalsOK ==
    /\ job.result # None <=> job.pc = "acted"
    /\ job.pc = "saved_approval" =>
           checkpoint[job.inv].next = "await_approval" /\ Current(job.inv) # "absent"
    /\ job.pc \in {"running", "node", "settle_persist"} /\ AtInterrupt(job.inv) =>
           Decided(job.inv)
    /\ job.pc = "acted" =>
           /\ AtInterrupt(job.inv)
           /\ job.result = "rejected" => Current(job.inv) = "rejected"
           /\ job.result # "rejected" => Current(job.inv) = "approved"
           /\ job.result = "executed" => Round(job.inv) \in executed[job.inv]
           /\ job.result # "undecided"

RunsOK == \A i \in Investigations : RunOK(i)

RunsInv == SlotsInv /\ RunsOK /\ LocalsOK

------------------------------------------------------------------------------
(* What a step can leave as it is. *)

(* The types of what belongs to one run. *)
LEMMA RunTypes ==
    ASSUME SlotsInv, NEW i \in Investigations
    PROVE  /\ checkpoint[i] \in Checkpoints
           /\ checkpoint[i].next \in Nodes
           /\ checkpoint[i].status \in Statuses \ {"absent", "queued"}
           /\ Round(i) \in Rounds /\ Round(i) \in Nat /\ Rounds \subseteq Nat
           /\ Current(i) \in Decisions \cup {"absent", "pending"}
           /\ \A n \in Rounds : approvals[i][n] \in Decisions \cup {"absent", "pending"}
  <1>1. checkpoint[i] \in Checkpoints /\ Round(i) \in Rounds
    BY DEF SlotsInv, TypeOK, RunnerTypeOK, Round, Checkpoints
  <1>2. \A n \in Rounds : approvals[i][n] \in Decisions \cup {"absent", "pending"}
    BY DEF SlotsInv, TypeOK, RunnerTypeOK
  <1>3. Rounds \subseteq Nat
    BY DEF Rounds
  <1> QED BY <1>1, <1>2, <1>3 DEF Checkpoints, Current

(* The running job is some investigation's. *)
LEMMA JobTypes ==
    ASSUME SlotsInv, job.pc \in JobSteps
    PROVE  job \in RunningJobs /\ job.inv \in Investigations
  BY DEF SlotsInv, TypeOK, WorkerTypeOK, NoJob, RunningJobs, JobSteps

(* The job goes on, as far as its fields tell. *)
LEMMA GotoFields ==
    ASSUME SlotsInv, job.pc \in JobSteps, NEW pc, Goto(pc)
    PROVE  /\ job'.pc = pc /\ job'.inv = job.inv /\ job'.kind = job.kind
           /\ job'.result = job.result
  <1>1. job \in RunningJobs
    BY JobTypes
  <1> QED BY <1>1 DEF Goto, RunningJobs

(* A run whose tables are as they were is as it was; the mirror may say that it
   is under way. *)
LEMMA RunKept ==
    ASSUME NEW i \in Investigations, RunOK(i), checkpoint'[i] = checkpoint[i],
           approvals'[i] = approvals[i], executed'[i] = executed[i],
           status'[i] = "complete" => status[i] = "complete"
    PROVE  RunOK(i)'
  BY DEF RunOK, Current, Round

(* The mirror takes the checkpoint's status. *)
LEMMA PersistKeeps ==
    ASSUME SlotsInv, RunsOK, NEW i \in Investigations, Persist(i),
           UNCHANGED <<checkpoint, approvals, executed>>
    PROVE  RunsOK'
  <1> SUFFICES ASSUME NEW k \in Investigations PROVE RunOK(k)'
    BY DEF RunsOK
  <1>1. status'[k] = "complete" => status[k] = "complete" \/ checkpoint[k].next = "end"
    BY RunTypes DEF Persist, RunsOK, RunOK, SlotsInv, TypeOK, RunnerTypeOK
  <1> QED BY <1>1 DEF RunsOK, RunOK, Current, Round

(* The run's new checkpoint; the other runs have theirs. *)
LEMMA Saved ==
    ASSUME SlotsInv, NEW i \in Investigations, NEW next, NEW st, NEW n, Save(i, next, st, n)
    PROVE  /\ checkpoint'[i].next = next
           /\ checkpoint'[i].status = st
           /\ Round(i)' = n
           /\ \A k \in Investigations \ {i} : checkpoint'[k] = checkpoint[k]
  BY DEF Save, Round, SlotsInv, TypeOK, RunnerTypeOK

(* The rounds' rows, when a checkpoint does not change them. *)
LEMMA CurrentKept ==
    ASSUME NEW i \in Investigations, approvals' = approvals, Round(i)' = Round(i)
    PROVE  Current(i)' = Current(i)
  BY DEF Current

(* A checkpoint leaves the other runs as they were. *)
LEMMA OthersRun ==
    ASSUME SlotsInv, RunsOK, NEW i \in Investigations, NEW next, NEW st, NEW n,
           Save(i, next, st, n), UNCHANGED <<approvals, executed, status>>, RunOK(i)'
    PROVE  RunsOK'
  BY Saved, RunKept DEF RunsOK

------------------------------------------------------------------------------
(* The jobs' steps that write no checkpoint. *)

(* What a job knows does not depend on more than these. *)
LEMMA LocalsKept ==
    ASSUME LocalsOK, job' = job, UNCHANGED <<checkpoint, approvals, executed>>
    PROVE  LocalsOK'
  BY DEF LocalsOK, Current, Round, AtInterrupt, Decided

(* A job that is only going on, to a place where it need not know anything. *)
LEMMA GoesPlain ==
    ASSUME SlotsInv, LocalsOK, job.pc \in JobSteps, job.pc # "acted", NEW pc, Goto(pc),
           pc \notin {"acted", "saved_approval", "running", "node", "settle_persist"}
    PROVE  LocalsOK'
  BY GotoFields DEF LocalsOK

(* A job that is going on to a node, which it may run. *)
LEMMA GoesToNode ==
    ASSUME SlotsInv, LocalsOK, job.pc \in JobSteps, job.pc # "acted", NEW pc, Goto(pc),
           pc \in {"running", "node", "settle_persist"},
           UNCHANGED <<checkpoint, approvals>>,
           AtInterrupt(job.inv) => Decided(job.inv)
    PROVE  LocalsOK'
  BY GotoFields DEF LocalsOK, AtInterrupt, Decided, Round

(* The steps that write neither the checkpoint nor an approval. *)
LEMMA PlainSteps ==
    ASSUME RunsInv,
           \/ Start \/ DecisionConsumed \/ SkipUndecided \/ Resume \/ MarkRunning
           \/ Mirror \/ Settle \/ SettlePersist \/ MarkFailed \/ JobRaises
    PROVE  RunsOK' /\ LocalsOK'
  <1>0. SlotsInv /\ RunsOK /\ LocalsOK
    BY DEF RunsInv
  <1>j. job.pc \in JobSteps => job.inv \in Investigations
    BY <1>0, JobTypes
  <1>k. ASSUME UNCHANGED <<checkpoint, approvals, executed>>,
               \A i \in Investigations : status'[i] = "complete" => status[i] = "complete"
        PROVE  RunsOK'
    BY <1>0, <1>k, RunKept DEF RunsOK
  <1>s. ASSUME NEW i \in Investigations, NEW st \in {"running", "failed"},
               status' = [status EXCEPT ![i] = st]
        PROVE  \A k \in Investigations : status'[k] = "complete" => status[k] = "complete"
    BY <1>0, <1>s DEF SlotsInv, TypeOK, RunnerTypeOK
  <1>1. CASE Start
    <2>1. RunsOK'
      BY <1>1, <1>j, <1>k, <1>s DEF Start, At, JobSteps
    <2>2. CASE checkpoint[job.inv].next = "none"
      BY <1>0, <1>1, <2>1, <2>2, GoesToNode DEF Start, At, JobSteps, AtInterrupt
    <2>3. CASE checkpoint[job.inv].next # "none"
      BY <1>0, <1>1, <2>1, <2>3, GoesPlain DEF Start, At, JobSteps
    <2> QED BY <2>1, <2>2, <2>3
  <1>2. CASE DecisionConsumed
    BY <1>0, <1>2, <1>j, PersistKeeps, GoesPlain DEF DecisionConsumed, At, JobSteps
  <1>3. CASE SkipUndecided
    BY <1>0, <1>3, <1>j, PersistKeeps, GoesPlain DEF SkipUndecided, At, JobSteps
  <1>4. CASE Resume
    BY <1>0, <1>4, <1>k, GoesToNode DEF Resume, At, JobSteps, runnerVars
  <1>5. CASE MarkRunning
    <2>1. RunsOK'
      BY <1>5, <1>j, <1>k, <1>s DEF MarkRunning, At, JobSteps
    <2>2. CASE checkpoint[job.inv].next = "end"
      BY <1>0, <1>5, <2>1, <2>2, GoesPlain DEF MarkRunning, At, JobSteps
    <2>3. CASE checkpoint[job.inv].next # "end"
      <3>1. AtInterrupt(job.inv) => Decided(job.inv)
        BY <1>0, <1>5 DEF MarkRunning, At, LocalsOK
      <3> QED BY <1>0, <1>5, <2>1, <2>3, <3>1, GoesToNode DEF MarkRunning, At, JobSteps
    <2> QED BY <2>2, <2>3
  <1>6. CASE Mirror
    <2>1. RunsOK'
      BY <1>0, <1>6, <1>j, PersistKeeps DEF Mirror, At, JobSteps
    <2>2. CASE checkpoint[job.inv].next \in {"act", "end"}
      BY <1>0, <1>6, <2>1, <2>2, GoesPlain DEF Mirror, At, JobSteps
    <2>3. CASE checkpoint[job.inv].next \notin {"act", "end"}
      BY <1>0, <1>6, <2>1, <2>3, GoesToNode DEF Mirror, At, JobSteps, AtInterrupt
    <2> QED BY <2>2, <2>3
  <1>7. CASE Settle
    <2>1. RunsOK'
      BY <1>7, <1>k DEF Settle, runnerVars
    <2>2. CASE GoesOn(job.inv)
      BY <1>0, <1>7, <2>1, <2>2, GoesToNode DEF Settle, At, JobSteps, runnerVars, GoesOn
    <2>3. CASE ~ GoesOn(job.inv)
      BY <1>0, <1>7, <2>1, <2>3, GoesPlain DEF Settle, At, JobSteps
    <2> QED BY <2>2, <2>3
  <1>8. CASE SettlePersist
    <2>1. RunsOK'
      BY <1>0, <1>8, <1>j, PersistKeeps DEF SettlePersist, JobSteps
    <2>2. CASE job.pc = "settle_persist"
      <3>1. AtInterrupt(job.inv) => Decided(job.inv)
        BY <1>0, <2>2 DEF LocalsOK
      <3> QED BY <1>0, <1>8, <2>1, <2>2, <3>1, GoesToNode DEF SettlePersist, At, JobSteps
    <2>3. CASE job.pc # "settle_persist"
      BY <1>0, <1>8, <2>1, <2>3, GoesPlain DEF SettlePersist, At, JobSteps
    <2> QED BY <2>2, <2>3
  <1>9. CASE MarkFailed
    <2>1. RunsOK'
      BY <1>9, <1>j, <1>k, <1>s DEF MarkFailed, At, JobSteps
    <2> QED BY <1>0, <1>9, <2>1, GoesPlain DEF MarkFailed, At, JobSteps
  <1>10. CASE JobRaises
    <2>1. RunsOK'
      BY <1>10, <1>k DEF JobRaises
    <2>2. job \in RunningJobs
      BY <1>0, <1>10, JobTypes DEF JobRaises
    <2>3. job'.pc = "crashed" /\ job'.result = None
      BY <1>10, <2>2 DEF JobRaises, RunningJobs
    <2> QED BY <2>1, <2>3 DEF LocalsOK
  <1> QED BY <1>1, <1>2, <1>3, <1>4, <1>5, <1>6, <1>7, <1>8, <1>9, <1>10

------------------------------------------------------------------------------
(* The nodes. *)

(* The first checkpoint: no round has a row yet. *)
LEMMA SaveInputStep ==
    ASSUME RunsInv, SaveInput
    PROVE  RunsOK' /\ LocalsOK'
  <1> PICK i \in Investigations : i = job.inv
    BY JobTypes DEF RunsInv, SaveInput, RunsNode, At, JobSteps
  <1>0. /\ SlotsInv /\ RunsOK /\ LocalsOK /\ i \in Investigations
        /\ job' = job /\ job.pc = "node" /\ checkpoint[i].next = "none"
        /\ UNCHANGED <<approvals, executed, status>>
        /\ Save(i, "investigate", "running", 1)
    BY JobTypes DEF RunsInv, SaveInput, RunsNode, At, JobSteps
  <1>1. checkpoint'[i].next = "investigate" /\ checkpoint'[i].status = "running" /\ Round(i)' = 1
    BY <1>0, Saved
  <1>2. Round(i) = 1 /\ Current(i) = "absent" /\ status[i] # "complete"
    BY <1>0 DEF RunsOK, RunOK
  <1>3. Current(i)' = Current(i)
    BY <1>0, <1>1, <1>2, CurrentKept
  <1>4. RunOK(i)'
    BY <1>0, <1>1, <1>2, <1>3 DEF RunsOK, RunOK
  <1>5. RunsOK'
    BY <1>0, <1>4, OthersRun
  <1>6. LocalsOK'
    BY <1>0, <1>1 DEF LocalsOK, AtInterrupt
  <1> QED BY <1>5, <1>6

(* The agent proposes an action, or none. *)
LEMMA InvestigateStep ==
    ASSUME RunsInv, Investigate
    PROVE  RunsOK' /\ LocalsOK'
  <1> PICK i \in Investigations : i = job.inv
    BY JobTypes DEF RunsInv, Investigate, RunsNode, At, JobSteps
  <1>0. /\ SlotsInv /\ RunsOK /\ LocalsOK /\ i \in Investigations
        /\ job.pc = "node" /\ checkpoint[i].next = "investigate" /\ Goto("mirror")
        /\ UNCHANGED <<approvals, executed, status>>
    BY JobTypes DEF RunsInv, Investigate, RunsNode, At, JobSteps
  <1>1. PICK next \in {"await_approval", "summarize"} :
            Save(i, next, checkpoint[i].status, Round(i))
    BY DEF Investigate
  <1>2. checkpoint'[i].next = next /\ checkpoint'[i].status = checkpoint[i].status
        /\ Round(i)' = Round(i)
    BY <1>0, <1>1, Saved
  <1>3. checkpoint[i].status = "running" /\ Current(i) = "absent" /\ status[i] # "complete"
    BY <1>0 DEF RunsOK, RunOK
  <1>4. Current(i)' = Current(i)
    BY <1>0, <1>2, CurrentKept
  <1>5. RunOK(i)'
    BY <1>0, <1>2, <1>3, <1>4 DEF RunsOK, RunOK
  <1>6. RunsOK'
    BY <1>0, <1>1, <1>5, OthersRun
  <1>7. LocalsOK'
    BY <1>0, GoesPlain DEF JobSteps
  <1> QED BY <1>6, <1>7

(* A row that has a decision keeps it when the node runs again. *)
LEMMA FreshKeeps ==
    ASSUME NEW i, NEW n
    PROVE  /\ Fresh(i, n) # "absent"
           /\ approvals[i][n] # "absent" => Fresh(i, n) = approvals[i][n]
  BY DEF Fresh

(* The approval is inserted, unless it is there. *)
LEMMA CreateApprovalStep ==
    ASSUME RunsInv, CreateApproval
    PROVE  RunsOK' /\ LocalsOK'
  <1> PICK i \in Investigations : i = job.inv
    BY JobTypes DEF RunsInv, CreateApproval, RunsNode, At, JobSteps
  <1>0. /\ SlotsInv /\ RunsOK /\ LocalsOK /\ i \in Investigations /\ Round(i) \in Rounds
        /\ job.pc = "node" /\ checkpoint[i].next = "await_approval" /\ Goto("saved_approval")
        /\ UNCHANGED <<checkpoint, executed, status>>
        /\ approvals' = [approvals EXCEPT ![i][Round(i)] = Fresh(i, Round(i))]
    BY JobTypes, RunTypes DEF RunsInv, CreateApproval, RunsNode, At, JobSteps
  <1>1. approvals \in [Investigations -> [Rounds -> Decisions \cup {"absent", "pending"}]]
    BY <1>0 DEF SlotsInv, TypeOK, RunnerTypeOK
  <1>2. /\ \A n \in Rounds : n # Round(i) => approvals'[i][n] = approvals[i][n]
        /\ approvals'[i][Round(i)] = Fresh(i, Round(i))
        /\ \A k \in Investigations : k # i => approvals'[k] = approvals[k]
    BY <1>0, <1>1
  <1>3. Round(i)' = Round(i) /\ checkpoint'[i] = checkpoint[i]
    BY <1>0 DEF Round
  <1>4. Current(i)' # "absent"
    BY <1>2, <1>3, FreshKeeps DEF Current
  <1>5. RunOK(i)'
    BY <1>0, <1>2, <1>3, <1>4, RunTypes DEF RunsOK, RunOK
  <1>6. \A k \in Investigations : k # i => RunOK(k)'
    BY <1>0, <1>2, RunKept DEF RunsOK
  <1>7. /\ job'.pc = "saved_approval" /\ job'.inv = i /\ job'.result = job.result
    BY <1>0, GotoFields DEF JobSteps
  <1>8. LocalsOK'
    BY <1>0, <1>3, <1>4, <1>7 DEF LocalsOK
  <1> QED BY <1>5, <1>6, <1>8 DEF RunsOK

(* The run waits before act for the approval it inserted. *)
LEMMA SaveAwaitingStep ==
    ASSUME RunsInv, SaveAwaiting
    PROVE  RunsOK' /\ LocalsOK'
  <1> PICK i \in Investigations : i = job.inv
    BY JobTypes DEF RunsInv, SaveAwaiting, At, JobSteps
  <1>0. /\ SlotsInv /\ RunsOK /\ LocalsOK /\ i \in Investigations
        /\ job.pc = "saved_approval" /\ Goto("mirror")
        /\ UNCHANGED <<approvals, executed, status>>
        /\ Save(i, "act", "awaiting_approval", Round(i))
    BY JobTypes DEF RunsInv, SaveAwaiting, At, JobSteps
  <1>1. /\ checkpoint'[i].next = "act" /\ checkpoint'[i].status = "awaiting_approval"
        /\ Round(i)' = Round(i)
    BY <1>0, Saved
  <1>2. checkpoint[i].next = "await_approval" /\ Current(i) # "absent" /\ status[i] # "complete"
    BY <1>0 DEF RunsOK, RunOK, LocalsOK
  <1>3. Current(i)' = Current(i)
    BY <1>0, <1>1, CurrentKept
  <1>4. RunOK(i)'
    BY <1>0, <1>1, <1>2, <1>3 DEF RunsOK, RunOK
  <1>5. RunsOK'
    BY <1>0, <1>4, OthersRun
  <1>6. LocalsOK'
    BY <1>0, GoesPlain DEF JobSteps
  <1> QED BY <1>5, <1>6

(* `act` executes an approved action, refuses a rejected one, and finds a
   decision, because the job knows there is one. *)
LEMMA ActStep ==
    ASSUME RunsInv, Act
    PROVE  RunsOK' /\ LocalsOK'
  <1> PICK i \in Investigations : i = job.inv
    BY JobTypes DEF RunsInv, Act, RunsNode, At, JobSteps
  <1>0. /\ SlotsInv /\ RunsOK /\ LocalsOK /\ i \in Investigations /\ Round(i) \in Rounds
        /\ job \in RunningJobs /\ job.pc = "node" /\ checkpoint[i].next = "act"
        /\ UNCHANGED <<checkpoint, approvals, status>>
    BY JobTypes, RunTypes DEF RunsInv, Act, RunsNode, At, JobSteps
  <1>1. PICK result \in ActOutcomes(i) :
            /\ job' = [job EXCEPT !.pc = "acted", !.result = result]
            /\ executed' = [executed EXCEPT ![i] =
                               IF result = "executed" THEN @ \cup {Round(i)} ELSE @]
    BY DEF Act
  <1>2. Current(i) \in {"approved", "rejected"}
    BY <1>0 DEF LocalsOK, AtInterrupt, Decided, Decisions, Current
  <1>3. /\ result = "rejected" => Current(i) = "rejected"
        /\ result # "rejected" => Current(i) = "approved"
        /\ result # "undecided" /\ result \in ActResults
    BY <1>2 DEF ActOutcomes, Current, ActResults
  <1>4. /\ job'.pc = "acted" /\ job'.inv = i /\ job'.result = result
    BY <1>0, <1>1 DEF RunningJobs
  <1>5. /\ \A k \in Investigations : executed[k] \subseteq executed'[k]
        /\ result = "executed" => Round(i) \in executed'[i]
    BY <1>0, <1>1 DEF SlotsInv, TypeOK, RunnerTypeOK
  <1>6. \A k \in Investigations : Current(k)' = Current(k) /\ Round(k)' = Round(k)
    BY <1>0 DEF Current, Round
  <1>7. RunsOK'
    BY <1>0, <1>5, <1>6 DEF RunsOK, RunOK
  <1>8. LocalsOK'
    BY <1>0, <1>3, <1>4, <1>5, <1>6, NoneAssumption DEF LocalsOK, AtInterrupt
  <1> QED BY <1>7, <1>8

(* The outcome is checkpointed: a rejection begins the next round, whose row is
   not there yet; a failure leaves the approved round where it is. *)
LEMMA SaveActStep ==
    ASSUME RunsInv, SaveAct
    PROVE  RunsOK' /\ LocalsOK'
  <1> PICK i \in Investigations : i = job.inv
    BY JobTypes DEF RunsInv, SaveAct, At, JobSteps
  <1>0. /\ SlotsInv /\ RunsOK /\ LocalsOK /\ i \in Investigations /\ Round(i) \in Rounds
        /\ job \in RunningJobs /\ job.pc = "acted"
        /\ UNCHANGED <<approvals, executed, status>>
    BY JobTypes, RunTypes DEF RunsInv, SaveAct, At, JobSteps
  <1>1. /\ checkpoint[i].next = "act" /\ job.result # "undecided"
        /\ job.result = "rejected" => Current(i) = "rejected"
        /\ job.result # "rejected" => Current(i) = "approved"
        /\ job.result = "executed" => Round(i) \in executed[i]
        /\ status[i] # "complete"
    BY <1>0 DEF LocalsOK, AtInterrupt, RunsOK, RunOK
  <1>5. job'.pc = "mirror" /\ job'.result = None
    BY <1>0 DEF SaveAct, RunningJobs
  <1>6. LocalsOK'
    BY <1>5 DEF LocalsOK
  <1>r. \A n \in Rounds :
            /\ n < Round(i) => approvals[i][n] = "rejected"
            /\ n > Round(i) => approvals[i][n] = "absent"
    BY <1>0 DEF RunsOK, RunOK
  <1>2. CASE /\ job.result = "rejected" /\ CapAllows(Round(i))
             /\ Save(i, "investigate", "running", Round(i) + 1)
    <2>1. Save(i, "investigate", "running", Round(i) + 1)
      BY <1>2
    <2>2. /\ checkpoint'[i].next = "investigate" /\ checkpoint'[i].status = "running"
          /\ Round(i)' = Round(i) + 1
      BY <1>0, <2>1, Saved
    <2>3. Round(i) + 1 \in Rounds /\ Round(i) \in Nat
      BY <1>0, <1>2, RunnerAssumption DEF CapAllows, Rounds
    <2>4. Current(i)' = "absent"
      BY <1>0, <1>1, <1>r, <2>2, <2>3 DEF Current
    <2>5. \A n \in Rounds :
              /\ n < Round(i) + 1 => approvals[i][n] = "rejected"
              /\ n > Round(i) + 1 => approvals[i][n] = "absent"
      <3>1. \A n \in Rounds : n \in Nat
        BY DEF Rounds
      <3>2. approvals[i][Round(i)] = "rejected"
        BY <1>1, <1>2 DEF Current
      <3> QED BY <1>r, <2>3, <3>1, <3>2
    <2>6. RunOK(i)'
      BY <1>0, <1>1, <1>r, <2>2, <2>4, <2>5 DEF RunOK
    <2> QED BY <1>0, <1>6, <2>1, <2>6, OthersRun
  <1>3. CASE /\ job.result \in {"rejected", "executed"}
             /\ Save(i, "summarize", "running", Round(i))
    <2>1. Save(i, "summarize", "running", Round(i))
      BY <1>3
    <2>2. /\ checkpoint'[i].next = "summarize" /\ checkpoint'[i].status = "running"
          /\ Round(i)' = Round(i)
      BY <1>0, <2>1, Saved
    <2>3. Current(i)' = Current(i)
      BY <1>0, <2>2, CurrentKept
    <2>4. Current(i) # "pending" /\ Current(i) # "absent"
      BY <1>1
    <2>5. RunOK(i)'
      BY <1>0, <1>1, <1>3, <2>2, <2>3, <2>4 DEF RunsOK, RunOK
    <2> QED BY <1>0, <1>6, <2>1, <2>5, OthersRun
  <1>4. CASE job.result = "failed"
    <2>1. Save(i, "act", "failed", Round(i))
      BY <1>0, <1>4 DEF SaveAct, AfterFailure
    <2>2. /\ checkpoint'[i].next = "act" /\ checkpoint'[i].status = "failed"
          /\ Round(i)' = Round(i)
      BY <1>0, <2>1, Saved
    <2>3. Current(i)' = Current(i)
      BY <1>0, <2>2, CurrentKept
    <2>4. Current(i) # "pending" /\ Current(i) # "absent"
      BY <1>1
    <2>5. RunOK(i)'
      BY <1>0, <1>1, <1>4, <2>2, <2>3, <2>4 DEF RunsOK, RunOK
    <2> QED BY <1>0, <1>6, <2>1, <2>5, OthersRun
  <1> QED BY <1>0, <1>1, <1>2, <1>3, <1>4 DEF SaveAct

(* The run closes with every approved action executed. *)
LEMMA SummarizeStep ==
    ASSUME RunsInv, Summarize
    PROVE  RunsOK' /\ LocalsOK'
  <1> PICK i \in Investigations : i = job.inv
    BY JobTypes DEF RunsInv, Summarize, RunsNode, At, JobSteps
  <1> DEFINE st == IF checkpoint[i].status = "failed" THEN "failed" ELSE "complete"
  <1>0. /\ SlotsInv /\ RunsOK /\ LocalsOK /\ i \in Investigations
        /\ job.pc = "node" /\ checkpoint[i].next = "summarize" /\ Goto("mirror")
        /\ UNCHANGED <<approvals, executed, status>>
        /\ Save(i, "end", st, Round(i))
    BY JobTypes DEF RunsInv, Summarize, RunsNode, At, JobSteps
  <1>1. checkpoint[i].status = "running"
    BY <1>0 DEF RunsOK, RunOK
  <1>2. /\ checkpoint'[i].next = "end" /\ checkpoint'[i].status = "complete"
        /\ Round(i)' = Round(i)
    BY <1>0, <1>1, Saved
  <1>3. Current(i)' = Current(i)
    BY <1>0, <1>2, CurrentKept
  <1>4. RunOK(i)'
    BY <1>0, <1>2, <1>3 DEF RunsOK, RunOK
  <1>5. RunsOK'
    BY <1>0, <1>4, OthersRun
  <1>6. LocalsOK'
    BY <1>0, GoesPlain DEF JobSteps
  <1> QED BY <1>5, <1>6

(* Every step of a job keeps the runs' invariant. *)
LEMMA RunnerRuns ==
    ASSUME RunsInv, RunnerStep
    PROVE  RunsOK' /\ LocalsOK'
  BY PlainSteps, SaveInputStep, InvestigateStep, CreateApprovalStep, SaveAwaitingStep, ActStep,
     SaveActStep, SummarizeStep DEF RunnerStep

------------------------------------------------------------------------------
(* The other steps. *)

(* The worker's own steps put the thread where it knows nothing. *)
LEMMA WorkerRuns ==
    ASSUME RunsInv, TakeJob \/ EndJob \/ SubmitFollowUp, UNCHANGED runnerVars
    PROVE  RunsOK' /\ LocalsOK'
  <1>1. RunsOK'
    BY RunKept DEF RunsInv, RunsOK, runnerVars
  <1>2. NoJob.pc = "idle" /\ NoJob.result = None
    BY DEF NoJob
  <1>3. CASE TakeJob
    BY <1>1, <1>3 DEF TakeJob, LocalsOK
  <1>4. CASE EndJob
    <2>1. job \in RunningJobs /\ job.pc = "finally" /\ job.result = None
      BY <1>4, JobTypes DEF EndJob, JobSteps, RunsInv, LocalsOK
    <2>2. job'.result = None /\ job'.pc \in {"idle", "follow"}
      BY <1>2, <1>4, <2>1 DEF EndJob, RunningJobs
    <2> QED BY <1>1, <2>2 DEF LocalsOK
  <1>5. CASE SubmitFollowUp
    BY <1>1, <1>2, <1>5 DEF SubmitFollowUp, LocalsOK
  <1> QED BY <1>3, <1>4, <1>5

(* What a handler's step does to the tables a run reads. *)
LEMMA HandlerEffect ==
    ASSUME SlotsInv, NEW c \in Clients, Call(c) \/ Handle(c) \/ TxFails(c)
    PROVE  /\ UNCHANGED <<checkpoint, executed, failures, raises, job, deaths>>
           /\ DecideCommit(c) \/ approvals' = approvals
           /\ \A i \in Investigations : status'[i] = "complete" => status[i] = "complete"
  <1>1. \/ status' = status
        \/ status' = [status EXCEPT ![Inv(c)] = "queued"]
    BY DEF Call, Handle, TxFails, StartReserve, DecideRead, ResumeRead, StartInsert, StartSubmit,
           ReleaseSlot, DecideCommit, DecideNotify, DecideSubmit, ResumeCheck, ResumeReserve,
           ResumeCommit, ResumeSubmit, SetStatus, runnerVars
  <1>2. UNCHANGED <<checkpoint, executed, failures, raises, job, deaths>>
    BY DEF Call, Handle, TxFails, StartReserve, DecideRead, ResumeRead, StartInsert, StartSubmit,
           ReleaseSlot, DecideCommit, DecideNotify, DecideSubmit, ResumeCheck, ResumeReserve,
           ResumeCommit, ResumeSubmit, runnerVars, RunsIdle, WorkerIdle, workerVars
  <1>3. DecideCommit(c) \/ approvals' = approvals
    BY DEF Call, Handle, TxFails, StartReserve, DecideRead, ResumeRead, StartInsert, StartSubmit,
           ReleaseSlot, DecideNotify, DecideSubmit, ResumeCheck, ResumeReserve,
           ResumeCommit, ResumeSubmit, runnerVars
  <1>4. status \in [Investigations -> Statuses]
    BY DEF SlotsInv, TypeOK, RunnerTypeOK
  <1> QED BY <1>1, <1>2, <1>3, <1>4

(* The decision a commit makes, on a row that is pending. *)
LEMMA CommitEffect ==
    ASSUME SlotsInv, NEW c \in Clients, DecideCommit(c)
    PROVE  \/ approvals' = approvals
           \/ \E i \in Investigations, n \in Rounds, d \in Decisions :
                  /\ approvals[i][n] = "pending"
                  /\ approvals'[i][n] = d
                  /\ \A k \in Investigations, m \in Rounds :
                         k # i \/ m # n => approvals'[k][m] = approvals[k][m]
  <1>1. request[c].inv \in Investigations /\ request[c].round \in Rounds
    BY DEF SlotsInv, RequestsOK, DecideCommit, Handles
  <1>2. CASE StillPending(c)
    <2>1. PICK d \in Decisions :
              approvals' = [approvals EXCEPT ![request[c].inv][request[c].round] = d]
      BY <1>2 DEF DecideCommit, Inv
    <2>2. approvals \in [Investigations -> [Rounds -> Decisions \cup {"absent", "pending"}]]
      BY DEF SlotsInv, TypeOK, RunnerTypeOK
    <2>3. approvals[request[c].inv][request[c].round] = "pending"
      BY <1>2 DEF StillPending, Pending, Inv
    <2>4. /\ approvals'[request[c].inv][request[c].round] = d
          /\ \A k \in Investigations, m \in Rounds :
                 k # request[c].inv \/ m # request[c].round => approvals'[k][m] = approvals[k][m]
      BY <1>1, <2>1, <2>2
    <2> QED BY <1>1, <2>3, <2>4
  <1> QED BY <1>2 DEF DecideCommit

(* A handler decides only what the run is waiting for, or coming to wait for. *)
LEMMA HandlerRuns ==
    ASSUME RunsInv, NEW c \in Clients, Call(c) \/ Handle(c) \/ TxFails(c)
    PROVE  RunsOK' /\ LocalsOK'
  <1>0. SlotsInv /\ RunsOK /\ LocalsOK
    BY DEF RunsInv
  <1>1. /\ UNCHANGED <<checkpoint, executed, failures, raises, job>>
        /\ DecideCommit(c) \/ approvals' = approvals
        /\ \A i \in Investigations : status'[i] = "complete" => status[i] = "complete"
    BY <1>0, HandlerEffect
  <1>2. CASE approvals' = approvals
    <2>1. RunsOK'
      BY <1>0, <1>1, <1>2, RunKept DEF RunsOK
    <2> QED BY <1>0, <1>1, <1>2, <2>1, LocalsKept
  <1>3. ASSUME NEW i \in Investigations, NEW n \in Rounds, NEW d \in Decisions,
               approvals[i][n] = "pending", approvals'[i][n] = d,
               \A k \in Investigations, m \in Rounds :
                   k # i \/ m # n => approvals'[k][m] = approvals[k][m]
        PROVE  RunsOK' /\ LocalsOK'
    <2>1. n = Round(i) /\ Current(i) = "pending"
      <3>1. n \in Nat /\ Round(i) \in Nat
        BY <1>0, RunTypes
      <3>2. ~ (n < Round(i)) /\ ~ (n > Round(i))
        BY <1>0, <1>3 DEF RunsOK, RunOK
      <3> QED BY <1>3, <3>1, <3>2 DEF Current
    <2>2. \A k \in Investigations : Round(k)' = Round(k) /\ Round(k) \in Rounds
      BY <1>0, <1>1, RunTypes DEF Round
    <2>3. /\ Current(i)' = d
          /\ \A k \in Investigations : k # i => Current(k)' = Current(k)
      BY <1>3, <2>1, <2>2 DEF Current
    <2>4. RunOK(i)'
      BY <1>0, <1>1, <1>3, <2>1, <2>2, <2>3 DEF RunsOK, RunOK, Decisions
    <2>5. \A k \in Investigations : k # i => RunOK(k)'
      BY <1>0, <1>1, <1>3, <2>2, <2>3 DEF RunsOK, RunOK
    <2>6. LocalsOK'
      <3>1. job'.pc \in {"saved_approval", "running", "node", "settle_persist", "acted"} =>
                job.inv \in Investigations
        BY <1>0, <1>1, JobTypes DEF JobSteps
      <3>2. CASE job.inv = i
        BY <1>0, <1>1, <2>1, <2>2, <2>3, <3>2
        DEF LocalsOK, AtInterrupt, Decided, Decisions, Current
      <3>3. CASE job.inv # i
        BY <1>0, <1>1, <2>2, <2>3, <3>1, <3>3
        DEF LocalsOK, AtInterrupt, Decided, Decisions, Current
      <3> QED BY <3>2, <3>3
    <2> QED BY <2>4, <2>5, <2>6 DEF RunsOK
  <1> QED BY <1>0, <1>1, <1>2, <1>3, CommitEffect

(* A death leaves the tables, and a thread that knows nothing. *)
LEMMA DeathRuns ==
    ASSUME RunsInv, ProcessDies
    PROVE  RunsOK' /\ LocalsOK'
  <1>1. RunsOK'
    BY RunKept DEF RunsInv, RunsOK, ProcessDies, runnerVars
  <1>2. job'.pc = "idle" /\ job'.result = None
    BY DEF ProcessDies, NoJob
  <1> QED BY <1>1, <1>2 DEF LocalsOK

------------------------------------------------------------------------------
(* The theorems. *)

(* The runs begin as the invariant says. *)
LEMMA InitRuns ==
    Init => RunsInv
  <1> SUFFICES ASSUME Init PROVE RunsInv
    OBVIOUS
  <1>1. SlotsInv
    BY InitSlots
  <1>2. RunsOK
    <2> SUFFICES ASSUME NEW i \in Investigations PROVE RunOK(i)
      BY DEF RunsOK
    <2>1. /\ checkpoint[i].next = "none" /\ checkpoint[i].status = "running" /\ Round(i) = 1
          /\ status[i] = "absent"
      BY DEF Init, RunnerInit, NoCheckpoint, Round
    <2>2. \A n \in Rounds : approvals[i][n] = "absent"
      BY DEF Init, RunnerInit
    <2>3. \A n \in Rounds : n \in Nat /\ n >= 1
      BY RunnerAssumption DEF Rounds
    <2>4. Current(i) = "absent"
      BY <1>1, <2>2, RunTypes DEF Current
    <2> QED BY <2>1, <2>2, <2>3, <2>4 DEF RunOK
  <1>3. LocalsOK
    BY DEF Init, WorkerInit, NoJob, LocalsOK
  <1> QED BY <1>1, <1>2, <1>3 DEF RunsInv

(* So does every step of the service. *)
LEMMA NextRuns ==
    RunsInv /\ [Next]_vars => RunsInv'
  <1> SUFFICES ASSUME RunsInv, [Next]_vars
               PROVE  RunsInv'
    OBVIOUS
  <1>1. SlotsInv'
    BY NextSlots DEF RunsInv
  <1>2. CASE Thread
    BY <1>1, <1>2, RunnerRuns, WorkerRuns DEF Thread, ThreadStep, RunsInv
  <1>3. ASSUME NEW c \in Clients, Call(c) \/ Handle(c) \/ TxFails(c)
        PROVE  RunsInv'
    BY <1>1, <1>3, HandlerRuns DEF RunsInv
  <1>4. CASE ProcessDies
    BY <1>1, <1>4, DeathRuns DEF RunsInv
  <1>5. CASE UNCHANGED vars
    <2>1. UNCHANGED <<checkpoint, approvals, executed, status, job>>
      BY <1>5 DEF vars, workerVars, runnerVars
    <2>2. RunsOK'
      BY <2>1, RunKept DEF RunsInv, RunsOK
    <2>3. LocalsOK'
      BY <2>1, LocalsKept DEF RunsInv
    <2> QED BY <1>1, <2>2, <2>3 DEF RunsInv
  <1> QED BY <1>2, <1>3, <1>4, <1>5 DEF Next

(* What the checkpoint, the rows, the mirror and the job say of a run agree, at
   every step between a node's effect and its checkpoint. *)
THEOREM RunsInvariance ==
    Spec => []RunsInv
  BY InitRuns, NextRuns, PTL DEF Spec

(* `act` never runs without a decision: the interrupt, resume's look at the row
   and _settle's keep it from it (graph.py: resume, _settle). *)
THEOREM OnlyWhenDecided ==
    Spec => []ActsOnlyWhenDecided
  <1>1. RunsInv => ActsOnlyWhenDecided
    BY NoneAssumption DEF RunsInv, LocalsOK, ActsOnlyWhenDecided, ActResults
  <1> QED BY <1>1, RunsInvariance, PTL

(* Complete means done: the run has ended, nothing waits for a decision and what
   was approved has been executed (graph.py: _persist). *)
THEOREM CompleteIsDone ==
    Spec => []CompleteMeansDone
  <1>1. RunsInv => CompleteMeansDone
    <2> SUFFICES ASSUME RunsInv, NEW i \in Investigations, status[i] = "complete"
                 PROVE  /\ checkpoint[i].next = "end"
                        /\ \A n \in Rounds :
                               /\ approvals[i][n] # "pending"
                               /\ approvals[i][n] = "approved" => n \in executed[i]
      BY DEF CompleteMeansDone
    <2>1. RunOK(i) /\ SlotsInv
      BY DEF RunsInv, RunsOK
    <2>2. checkpoint[i].next = "end"
      BY <2>1 DEF RunOK
    <2>3. ASSUME NEW n \in Rounds
          PROVE  /\ approvals[i][n] # "pending"
                 /\ approvals[i][n] = "approved" => n \in executed[i]
      <3>1. n \in Nat /\ Round(i) \in Nat
        BY <2>1, RunTypes
      <3>2. n < Round(i) \/ n > Round(i) \/ n = Round(i)
        BY <3>1
      <3> QED BY <2>1, <2>2, <3>2 DEF RunOK, Current
    <2> QED BY <2>2, <2>3
  <1> QED BY <1>1, RunsInvariance, PTL

(* A decision is final: no second approver, no run that comes to await_approval
   again, and nothing else changes it (approvals.py:102, nodes.py await_approval). *)
THEOREM FinalDecision ==
    Spec => DecisionIsFinal
  <1> DEFINE Final == \A i \in Investigations, n \in Rounds :
                          approvals[i][n] \in Decisions => approvals'[i][n] = approvals[i][n]
  <1>1. RunsInv /\ [Next]_vars => [Final]_vars
    <2> SUFFICES ASSUME RunsInv, Next PROVE Final
      OBVIOUS
    <2>0. SlotsInv
      BY DEF RunsInv
    <2>1. CASE Thread
      <3>1. CASE CreateApproval
        <4>1. /\ job.inv \in Investigations /\ Round(job.inv) \in Rounds
              /\ approvals' = [approvals EXCEPT ![job.inv][Round(job.inv)] =
                                  Fresh(job.inv, Round(job.inv))]
          BY <2>0, <3>1, JobTypes, RunTypes DEF CreateApproval, RunsNode, At, JobSteps
        <4>2. approvals \in [Investigations -> [Rounds -> Decisions \cup {"absent", "pending"}]]
          BY <2>0 DEF SlotsInv, TypeOK, RunnerTypeOK
        <4> QED BY <4>1, <4>2, FreshKeeps DEF Decisions
      <3>2. CASE approvals' = approvals
        BY <3>2
      <3>3. ASSUME ~ CreateApproval PROVE approvals' = approvals
        BY <2>1, <3>3
        DEF Thread, ThreadStep, RunnerStep, Start, DecisionConsumed, SkipUndecided, Resume,
            MarkRunning, SaveInput, Investigate, SaveAwaiting, Act, SaveAct, Summarize, JobRaises,
            Mirror, Settle, SettlePersist, MarkFailed, runnerVars
      <3> QED BY <3>1, <3>2, <3>3
    <2>2. ASSUME NEW c \in Clients, Call(c) \/ Handle(c) \/ TxFails(c)
          PROVE  Final
      <3>1. CASE approvals' = approvals
        BY <3>1
      <3>2. CASE DecideCommit(c)
        BY <2>0, <3>2, CommitEffect DEF Decisions
      <3> QED BY <2>0, <2>2, <3>1, <3>2, HandlerEffect
    <2>3. CASE ProcessDies
      BY <2>3 DEF ProcessDies, runnerVars
    <2> QED BY <2>1, <2>2, <2>3 DEF Next
  <1> QED BY <1>1, RunsInvariance, PTL DEF Spec, DecisionIsFinal

------------------------------------------------------------------------------
(* The account of the failures. *)

(* i's run is paused on a failed action. *)
Paused(i) == checkpoint[i].next = "act" /\ checkpoint[i].status = "failed"

(* An accepted resume of i has not come to `act` yet. *)
Retrying(i) ==
    \/ \E c \in ResumeRequests : request[c].pc = "submit" /\ request[c].inv = i
    \/ \E n \in DOMAIN queue : queue[n].inv = i /\ queue[n].kind = "resume"
    \/ job.inv = i /\ job.kind = "resume" /\ job.pc \in {"begin", "running", "node"}

(* No action of i's can fail unless something more is asked for or breaks off. *)
Spent(i) ==
    \/ Paused(i) /\ ~ Retrying(i)
    \/ checkpoint[i].next \in {"summarize", "end"}
    \/ job.inv = i /\ job.result = "failed"

(* The failure that may still come otherwise. *)
Due(i) == IF Spent(i) THEN 0 ELSE 1

(* A job that is on its way to the nodes of a paused run was asked for. *)
OnlyResumesRetry ==
    /\ job.pc \in {"running", "node"} /\ Paused(job.inv) => job.kind = "resume"
    /\ job.pc = "settle_persist" => ~ Paused(job.inv)

Account ==
    \A i \in Investigations : failures[i] + Due(i) <= 1 + resumed[i] + raises + deaths

AccountInv == RunsInv /\ OnlyResumesRetry /\ Account

(* The account holds after a step in which nothing failed: what had been spent
   stays spent, or something was asked for or broke off. *)
LEMMA AccountKept ==
    ASSUME RunsInv, Account, RunsInv', failures' = failures,
           \A k \in Investigations : resumed'[k] >= resumed[k],
           raises' >= raises, deaths' >= deaths,
           \A k \in Investigations :
               Spent(k) => \/ Spent(k)'
                           \/ raises' > raises \/ deaths' > deaths \/ resumed'[k] > resumed[k]
    PROVE  Account'
  <1> SUFFICES ASSUME NEW k \in Investigations
               PROVE  failures'[k] + Due(k)' <= 1 + resumed'[k] + raises' + deaths'
    BY DEF Account
  <1>1. /\ failures[k] \in Nat /\ resumed[k] \in Nat /\ raises \in Nat /\ deaths \in Nat
        /\ resumed'[k] \in Nat /\ raises' \in Nat /\ deaths' \in Nat
    BY RunnerAssumption, ServiceAssumption DEF RunsInv, SlotsInv, TypeOK, RunnerTypeOK
  <1>2. failures[k] + Due(k) <= 1 + resumed[k] + raises + deaths
    BY DEF Account
  <1>3. CASE Spent(k)'
    BY <1>1, <1>2, <1>3 DEF Due
  <1>4. CASE ~ Spent(k)
    BY <1>1, <1>2, <1>4 DEF Due
  <1>5. CASE raises' > raises \/ deaths' > deaths \/ resumed'[k] > resumed[k]
    BY <1>1, <1>2, <1>5 DEF Due
  <1> QED BY <1>3, <1>4, <1>5

(* What the running job does not work on stays as it was. *)
LEMMA OthersSpent ==
    ASSUME NEW k, k # job.inv, job'.inv = job.inv, checkpoint'[k] = checkpoint[k],
           request' = request, queue' = queue
    PROVE  Spent(k) => Spent(k)'
  BY DEF Spent, Paused, Retrying

(* A job that goes on in the same run. *)
LEMMA GoesOnSpent ==
    ASSUME RunsInv, job.pc \in JobSteps, job.pc # "acted", NEW pc, Goto(pc),
           UNCHANGED <<checkpoint, request, queue>>,
           pc \in {"begin", "running", "node"} /\ Paused(job.inv) /\ job.kind = "resume" =>
               job.pc \in {"begin", "running", "node"}
    PROVE  \A k \in Investigations : Spent(k) => Spent(k)'
  <1>1. job'.pc = pc /\ job'.inv = job.inv /\ job'.kind = job.kind /\ job'.result = job.result
    BY GotoFields DEF RunsInv
  <1> QED BY <1>1 DEF Spent, Paused, Retrying

(* The account over the jobs' steps that write no checkpoint. *)
LEMMA PlainAccount ==
    ASSUME AccountInv, RunsInv', UNCHANGED serviceVars,
           \/ Start \/ DecisionConsumed \/ SkipUndecided \/ Resume \/ MarkRunning
           \/ Mirror \/ Settle \/ SettlePersist \/ MarkFailed \/ CreateApproval
    PROVE  OnlyResumesRetry' /\ Account'
  <1>0. RunsInv /\ OnlyResumesRetry /\ Account /\ SlotsInv
    BY DEF AccountInv, RunsInv
  <1>a. ASSUME UNCHANGED <<checkpoint, failures>>, raises' >= raises,
               \A k \in Investigations : Spent(k) => Spent(k)'
        PROVE  Account'
    <2>1. /\ \A k \in Investigations : resumed'[k] >= resumed[k]
          /\ deaths' >= deaths
      BY <1>0, ServiceAssumption DEF RunsInv, SlotsInv, TypeOK, serviceVars
    <2> QED BY <1>0, <1>a, <2>1, AccountKept
  <1>b. ASSUME job.pc \in JobSteps, NEW pc, Goto(pc), checkpoint' = checkpoint,
               /\ pc \in {"running", "node"} /\ Paused(job.inv) => job.kind = "resume"
               /\ pc = "settle_persist" => ~ Paused(job.inv)
        PROVE  OnlyResumesRetry'
    BY <1>0, <1>b, GotoFields DEF OnlyResumesRetry, Paused
  <1>r. raises \in Nat
    BY <1>0, RunnerAssumption DEF SlotsInv, TypeOK, RunnerTypeOK
  <1>u. request' = request
    BY DEF serviceVars
  <1>1. CASE Start
    BY <1>0, <1>1, <1>a, <1>b, <1>r, <1>u, GoesOnSpent DEF Start, At, JobSteps, InJob, Paused
  <1>2. CASE DecisionConsumed
    BY <1>0, <1>2, <1>a, <1>b, <1>r, <1>u, GoesOnSpent DEF DecisionConsumed, At, JobSteps, InJob
  <1>3. CASE SkipUndecided
    BY <1>0, <1>3, <1>a, <1>b, <1>r, <1>u, GoesOnSpent DEF SkipUndecided, At, JobSteps, InJob
  <1>4. CASE Resume
    <2>1. Paused(job.inv) => job.kind = "resume"
      BY <1>4 DEF Resume, Resumes, Consumed, AtInterrupt, Paused
    <2> QED BY <1>0, <1>4, <1>a, <1>b, <1>r, <1>u, <2>1, GoesOnSpent
            DEF Resume, At, JobSteps, InJob, runnerVars
  <1>5. CASE MarkRunning
    <2>1. Paused(job.inv) => job.kind = "resume"
      BY <1>0, <1>5 DEF MarkRunning, At, OnlyResumesRetry
    <2>2. PICK pc \in {"settle", "node"} : Goto(pc)
      BY <1>5 DEF MarkRunning
    <2> QED BY <1>0, <1>5, <1>a, <1>b, <1>r, <1>u, <2>1, <2>2, GoesOnSpent
            DEF MarkRunning, At, JobSteps, InJob
  <1>6. CASE Mirror
    <2>1. PICK pc \in {"settle", "node"} : Goto(pc) /\ (pc = "node" => ~ Paused(job.inv))
      BY <1>6 DEF Mirror, Paused
    <2> QED BY <1>0, <1>6, <1>a, <1>b, <1>r, <1>u, <2>1, GoesOnSpent DEF Mirror, At, JobSteps, InJob
  <1>7. CASE Settle
    <2>1. PICK pc \in {"settle_persist", "final_persist"} :
              Goto(pc) /\ (pc = "settle_persist" => ~ Paused(job.inv))
      BY <1>7 DEF Settle, GoesOn, Paused
    <2> QED BY <1>0, <1>7, <1>a, <1>b, <1>r, <1>u, <2>1, GoesOnSpent
            DEF Settle, At, JobSteps, InJob, runnerVars
  <1>8. CASE SettlePersist
    <2>1. PICK pc \in {"node", "finally"} : Goto(pc) /\ (pc = "node" => ~ Paused(job.inv))
      BY <1>0, <1>8 DEF SettlePersist, At, OnlyResumesRetry
    <2> QED BY <1>0, <1>8, <1>a, <1>b, <1>r, <1>u, <2>1, GoesOnSpent
            DEF SettlePersist, JobSteps, InJob
  <1>9. CASE MarkFailed
    <2>1. raises' >= raises
      BY <1>9, <1>r DEF MarkFailed
    <2> QED BY <1>0, <1>9, <1>a, <1>b, <1>u, <2>1, GoesOnSpent DEF MarkFailed, At, JobSteps, InJob
  <1>10. CASE CreateApproval
    BY <1>0, <1>10, <1>a, <1>b, <1>r, <1>u, GoesOnSpent
    DEF CreateApproval, RunsNode, At, JobSteps, InJob
  <1> QED BY <1>1, <1>2, <1>3, <1>4, <1>5, <1>6, <1>7, <1>8, <1>9, <1>10

(* The account over the checkpoints: a run that goes on is one whose failure is
   still due, and one that is paused has nothing asked for, because the job that
   pauses it is the only holder of its slot. *)
LEMMA SavesAccount ==
    ASSUME AccountInv, RunsInv', UNCHANGED serviceVars,
           SaveInput \/ Investigate \/ SaveAwaiting \/ SaveAct \/ Summarize
    PROVE  OnlyResumesRetry' /\ Account'
  <1>0. RunsInv /\ OnlyResumesRetry /\ Account /\ SlotsInv /\ RunsOK /\ LocalsOK /\ Slots
    BY DEF AccountInv, RunsInv, SlotsInv
  <1> PICK i \in Investigations : i = job.inv
    BY <1>0, JobTypes
    DEF SaveInput, Investigate, SaveAwaiting, SaveAct, Summarize, RunsNode, At, JobSteps
  <1>1. /\ job \in RunningJobs /\ job # NoJob
        /\ UNCHANGED <<request, queue, failures, raises, resumed, deaths>>
    BY <1>0, JobTypes
    DEF SaveInput, Investigate, SaveAwaiting, SaveAct, Summarize, RunsNode, At, JobSteps, InJob,
        serviceVars, NoJob
  <1>2. PICK next, st, n : Save(i, next, st, n)
    BY DEF SaveInput, Investigate, SaveAwaiting, SaveAct, Summarize
  <1>3. \A k \in Investigations \ {i} : checkpoint'[k] = checkpoint[k]
    BY <1>0, <1>2, Saved
  <1>4. job'.inv = job.inv
    BY <1>1
    DEF SaveInput, Investigate, SaveAwaiting, SaveAct, Summarize, Goto, RunningJobs
  <1>5. \A k \in Investigations \ {i} : Spent(k) => Spent(k)'
    BY <1>1, <1>3, <1>4, OthersSpent
  <1>6. raises \in Nat /\ deaths \in Nat /\ \A k \in Investigations : resumed[k] \in Nat
    BY <1>0, RunnerAssumption, ServiceAssumption DEF SlotsInv, TypeOK, RunnerTypeOK
  <1>a. ASSUME Spent(i) => Spent(i)'
        PROVE  Account'
    BY <1>0, <1>1, <1>5, <1>6, <1>a, AccountKept
  <1>7. CASE SaveInput
    <2>1. ~ Spent(i)
      BY <1>0, <1>7, NoneAssumption DEF SaveInput, RunsNode, At, Spent, Paused, LocalsOK, ActResults
    <2>2. ~ Paused(i)'
      <3>1. Save(i, "investigate", "running", 1)
        BY <1>7 DEF SaveInput
      <3> QED BY <1>0, <3>1, Saved DEF Paused
    <2>3. job' = job /\ job.pc = "node"
      BY <1>7 DEF SaveInput, RunsNode, At
    <2> QED BY <1>a, <2>1, <2>2, <2>3 DEF OnlyResumesRetry, Paused
  <1>8. CASE Investigate
    <2>1. ~ Spent(i)
      BY <1>0, <1>8, NoneAssumption DEF Investigate, RunsNode, At, Spent, Paused, LocalsOK, ActResults
    <2>2. job'.pc = "mirror"
      BY <1>0, <1>8, GotoFields DEF Investigate, RunsNode, At, JobSteps
    <2> QED BY <1>a, <2>1, <2>2 DEF OnlyResumesRetry
  <1>9. CASE SaveAwaiting
    <2>1. ~ Spent(i)
      BY <1>0, <1>9, NoneAssumption DEF SaveAwaiting, At, Spent, Paused, LocalsOK, ActResults
    <2>2. job'.pc = "mirror"
      BY <1>0, <1>9, GotoFields DEF SaveAwaiting, At, JobSteps
    <2> QED BY <1>a, <2>1, <2>2 DEF OnlyResumesRetry
  <1>10. CASE Summarize
    <2>1. checkpoint'[i].next = "end"
      <3>1. PICK st1, n1 : Save(i, "end", st1, n1)
        BY <1>10 DEF Summarize
      <3> QED BY <1>0, <3>1, Saved
    <2>2. Spent(i)'
      BY <2>1 DEF Spent
    <2>3. job'.pc = "mirror"
      BY <1>0, <1>10, GotoFields DEF Summarize, RunsNode, At, JobSteps
    <2> QED BY <1>a, <2>2, <2>3 DEF OnlyResumesRetry
  <1>11. CASE SaveAct
    <2>1. /\ job.pc = "acted" /\ checkpoint[i].next = "act" /\ job.result # "undecided"
          /\ job.result = "rejected" => Current(i) = "rejected"
          /\ Paused(i) => Current(i) = "approved"
      BY <1>0, <1>11 DEF SaveAct, At, LocalsOK, AtInterrupt, RunsOK, RunOK, Paused
    <2>2. job'.pc = "mirror"
      BY <1>1, <1>11 DEF SaveAct, RunningJobs
    <2>3. CASE job.result = "rejected"
      <3>1. ~ Spent(i)
        BY <2>1, <2>3 DEF Spent
      <3> QED BY <1>a, <2>2, <3>1 DEF OnlyResumesRetry
    <2>4. CASE job.result = "executed"
      <3>1. Save(i, "summarize", "running", Round(i))
        BY <1>11, <2>4 DEF SaveAct
      <3>2. Spent(i)'
        BY <1>0, <3>1, Saved DEF Spent
      <3> QED BY <1>a, <2>2, <3>2 DEF OnlyResumesRetry
    <2>5. CASE job.result = "failed"
      <3>1. Save(i, "act", "failed", Round(i))
        BY <1>11, <2>5 DEF SaveAct, AfterFailure
      <3>2. Paused(i)'
        BY <1>0, <3>1, Saved DEF Paused
      <3>3. RunningFor(i)
        BY <1>1, <2>1 DEF RunningFor
      <3>4. \A c \in ResumeRequests : ~ (request[c].pc = "submit" /\ request[c].inv = i)
        BY <1>0, <3>3 DEF Slots, Holds, Clients
      <3>5. \A m \in DOMAIN queue : queue[m].inv # i
        BY <1>0, <3>3 DEF Slots
      <3>6. ~ Retrying(i)'
        BY <1>1, <2>2, <3>4, <3>5 DEF Retrying
      <3>7. Spent(i)'
        BY <3>2, <3>6 DEF Spent
      <3> QED BY <1>a, <2>2, <3>7 DEF OnlyResumesRetry
    <2> QED BY <1>11, <2>1, <2>3, <2>4, <2>5 DEF SaveAct
  <1> QED BY <1>7, <1>8, <1>9, <1>10, <1>11

(* The account over `act`: a failure was due, and the next is not. *)
LEMMA ActAccount ==
    ASSUME AccountInv, RunsInv', UNCHANGED serviceVars, Act
    PROVE  OnlyResumesRetry' /\ Account'
  <1>0. RunsInv /\ OnlyResumesRetry /\ Account /\ SlotsInv /\ LocalsOK
    BY DEF AccountInv, RunsInv
  <1> PICK i \in Investigations : i = job.inv
    BY <1>0, JobTypes DEF Act, RunsNode, At, JobSteps
  <1>1. /\ job \in RunningJobs /\ job.pc = "node" /\ checkpoint[i].next = "act"
        /\ UNCHANGED <<request, queue, checkpoint, raises, resumed, deaths>>
    BY <1>0, JobTypes DEF Act, RunsNode, At, JobSteps, InJob, serviceVars
  <1>2. PICK result \in ActOutcomes(i) :
            /\ job' = [job EXCEPT !.pc = "acted", !.result = result]
            /\ failures' = [failures EXCEPT ![i] = IF result = "failed" THEN @ + 1 ELSE @]
    BY DEF Act
  <1>3. job'.pc = "acted" /\ job'.inv = i /\ job'.result = result
    BY <1>1, <1>2 DEF RunningJobs
  <1>4. OnlyResumesRetry'
    BY <1>3 DEF OnlyResumesRetry
  <1>5. ~ Spent(i)
    <2>1. job.result = None
      BY <1>0, <1>1 DEF LocalsOK
    <2>2. Paused(i) => Retrying(i)
      BY <1>0, <1>1 DEF OnlyResumesRetry, Retrying
    <2> QED BY <1>1, <2>1, <2>2, NoneAssumption DEF Spent, ActResults
  <1>6. \A k \in Investigations \ {i} : Spent(k) => Spent(k)'
    BY <1>1, <1>3, OthersSpent
  <1>7. failures \in [Investigations -> Nat]
    BY <1>0, RunnerAssumption DEF SlotsInv, TypeOK, RunnerTypeOK
  <1>8. CASE result = "failed"
    <2>1. Spent(i)'
      BY <1>3, <1>8 DEF Spent
    <2>2. /\ failures'[i] = failures[i] + 1
          /\ \A k \in Investigations \ {i} : failures'[k] = failures[k]
      BY <1>2, <1>7, <1>8
    <2>3. raises \in Nat /\ deaths \in Nat /\ \A k \in Investigations : resumed[k] \in Nat
      BY <1>0, RunnerAssumption, ServiceAssumption DEF SlotsInv, TypeOK, RunnerTypeOK
    <2> SUFFICES ASSUME NEW k \in Investigations
                 PROVE  failures'[k] + Due(k)' <= 1 + resumed'[k] + raises' + deaths'
      BY <1>4 DEF Account
    <2>4. failures[k] + Due(k) <= 1 + resumed[k] + raises + deaths
      BY <1>0 DEF Account
    <2>5. CASE k = i
      <3>1. Due(k) = 1 /\ Due(k)' = 0
        BY <1>5, <2>1, <2>5 DEF Due
      <3> QED BY <1>1, <1>7, <2>2, <2>3, <2>4, <2>5, <3>1
    <2>6. CASE k # i
      <3>1. Due(k)' <= Due(k) /\ Due(k) \in {0, 1} /\ Due(k)' \in {0, 1}
        BY <1>6, <2>6 DEF Due
      <3> QED BY <1>1, <1>7, <2>2, <2>3, <2>4, <2>6, <3>1
    <2> QED BY <2>5, <2>6
  <1>9. CASE result # "failed"
    <2>1. failures' = failures
      BY <1>2, <1>7, <1>9
    <2>2. \A k \in Investigations : Spent(k) => Spent(k)'
      BY <1>5, <1>6
    <2>3. raises \in Nat /\ deaths \in Nat /\ \A k \in Investigations : resumed[k] \in Nat
      BY <1>0, RunnerAssumption, ServiceAssumption DEF SlotsInv, TypeOK, RunnerTypeOK
    <2> QED BY <1>0, <1>1, <1>4, <2>1, <2>2, <2>3, AccountKept
  <1> QED BY <1>8, <1>9

(* A job that raises pays for the failure its run may have again. *)
LEMMA RaiseAccount ==
    ASSUME AccountInv, RunsInv', UNCHANGED serviceVars, JobRaises
    PROVE  OnlyResumesRetry' /\ Account'
  <1>0. RunsInv /\ Account /\ SlotsInv
    BY DEF AccountInv, RunsInv
  <1>1. /\ job \in RunningJobs /\ raises' = raises + 1
        /\ UNCHANGED <<failures, resumed, deaths>>
    BY <1>0, JobTypes DEF JobRaises, serviceVars
  <1>2. job'.pc = "crashed"
    BY <1>1 DEF JobRaises, RunningJobs
  <1>3. raises \in Nat /\ deaths \in Nat /\ \A k \in Investigations : resumed[k] \in Nat
    BY <1>0, RunnerAssumption, ServiceAssumption DEF SlotsInv, TypeOK, RunnerTypeOK
  <1> QED BY <1>0, <1>1, <1>2, <1>3, AccountKept DEF OnlyResumesRetry

(* The worker only ever submits a decision's resume of its own accord. *)
LEMMA WorkerAccount ==
    ASSUME AccountInv, RunsInv', UNCHANGED <<runnerVars, serviceVars>>,
           TakeJob \/ EndJob \/ SubmitFollowUp
    PROVE  OnlyResumesRetry' /\ Account'
  <1>0. RunsInv /\ Account /\ SlotsInv /\ LocalsOK /\ queue \in Seq(QueuedJobs)
    BY DEF AccountInv, RunsInv, SlotsInv, TypeOK, WorkerTypeOK
  <1>1. raises \in Nat /\ deaths \in Nat /\ \A k \in Investigations : resumed[k] \in Nat
    BY <1>0, RunnerAssumption, ServiceAssumption DEF SlotsInv, TypeOK, RunnerTypeOK
  <1>2. UNCHANGED <<checkpoint, failures, raises, request, resumed, deaths>>
    BY DEF runnerVars, serviceVars
  <1>3. NoJob.pc = "idle" /\ NoJob.result # "failed"
    BY NoneAssumption DEF NoJob, ActResults
  <1>a. ASSUME \A k \in Investigations : Retrying(k)' => Retrying(k),
               job.result # "failed"
        PROVE  Account'
    <2>1. \A k \in Investigations : Spent(k) => Spent(k)'
      BY <1>2, <1>a DEF Spent, Paused
    <2> QED BY <1>0, <1>1, <1>2, <2>1, AccountKept
  <1>4. CASE TakeJob
    <2>1. queue # << >> /\ job = NoJob
      BY <1>4 DEF TakeJob
    <2>2. /\ 1 \in DOMAIN queue /\ queue[1] = Head(queue)
          /\ \A n \in DOMAIN Tail(queue) :
                 n \in Nat /\ n + 1 # 1 /\ n + 1 \in DOMAIN queue /\ Tail(queue)[n] = queue[n + 1]
      BY <1>0, <2>1, Taken
    <2>3. /\ queue' = Tail(queue)
          /\ job'.inv = queue[1].inv /\ job'.kind = queue[1].kind /\ job'.pc = "begin"
      BY <1>4, <2>2 DEF TakeJob
    <2>4. \A k \in Investigations : Retrying(k)' => Retrying(k)
      BY <1>2, <2>2, <2>3 DEF Retrying
    <2> QED BY <1>3, <1>a, <2>1, <2>3, <2>4 DEF OnlyResumesRetry
  <1>5. CASE EndJob
    <2>1. job \in RunningJobs /\ job.pc = "finally" /\ job.result = None
      BY <1>0, <1>5, JobTypes DEF EndJob, JobSteps, LocalsOK
    <2>2. job'.pc \in {"idle", "follow"} /\ queue' = queue
      BY <1>3, <1>5, <2>1 DEF EndJob, RunningJobs
    <2>3. \A k \in Investigations : Retrying(k)' => Retrying(k)
      BY <1>2, <2>2 DEF Retrying
    <2> QED BY <1>a, <2>1, <2>2, <2>3, NoneAssumption DEF OnlyResumesRetry, ActResults
  <1>6. CASE SubmitFollowUp
    <2>1. job.pc = "follow" /\ job.result = None /\ job' = NoJob
      BY <1>0, <1>6 DEF SubmitFollowUp, LocalsOK
    <2>2. job.inv \in Investigations
      BY <1>0, <2>1, JobTypes DEF JobSteps
    <2>3. \A k \in Investigations : Retrying(k)' => Retrying(k)
      <3>1. CASE Enqueue(job.inv, "decision")
        <4> DEFINE e == [inv |-> job.inv, kind |-> "decision"]
        <4>1. e \in QueuedJobs /\ e.kind = "decision"
          BY <2>2 DEF QueuedJobs, JobKinds
        <4>2. queue' = Append(queue, e)
          BY <3>1 DEF Enqueue
        <4> HIDE DEF e
        <4>3. \A n \in DOMAIN queue' :
                  \/ n \in DOMAIN queue /\ queue'[n] = queue[n]
                  \/ queue'[n].kind = "decision"
          BY <1>0, <4>1, <4>2, Appended
        <4> QED BY <1>2, <1>3, <2>1, <4>3 DEF Retrying
      <3>2. CASE queue' = queue
        BY <1>2, <1>3, <2>1, <3>2 DEF Retrying
      <3> QED BY <1>6, <3>1, <3>2 DEF SubmitFollowUp
    <2> QED BY <1>3, <1>a, <2>1, <2>3, NoneAssumption DEF OnlyResumesRetry, ActResults
  <1> QED BY <1>4, <1>5, <1>6

(* An accepted resume is counted when it is accepted; the job it submits only
   takes its place. *)
LEMMA HandlerRetrying ==
    ASSUME SlotsInv, NEW c \in Clients, Call(c) \/ Handle(c) \/ TxFails(c),
           NEW k \in Investigations, Paused(k), Retrying(k)'
    PROVE  Retrying(k) \/ (ResumeCommit(c) /\ request[c].inv = k)
  <1>0. /\ job' = job /\ checkpoint' = checkpoint
        /\ request \in [Clients -> Requests] /\ queue \in Seq(QueuedJobs)
    BY HandlerEffect DEF SlotsInv, TypeOK, WorkerTypeOK, Requests
  <1>1. CASE \E d \in ResumeRequests : request'[d].pc = "submit" /\ request'[d].inv = k
    <2>1. PICK d \in ResumeRequests : request'[d].pc = "submit" /\ request'[d].inv = k
      BY <1>1
    <2>2. CASE request'[d] = request[d]
      BY <2>1, <2>2 DEF Retrying
    <2>3. CASE request'[d] # request[d]
      <3>1. d = c
        <4>1. request' = request \/ \E r : request' = [request EXCEPT ![c] = r]
          BY DEF Call, Handle, TxFails, StartReserve, DecideRead, ResumeRead, StartInsert,
                 StartSubmit, ReleaseSlot, DecideCommit, DecideNotify, DecideSubmit, ResumeCheck,
                 ResumeReserve, ResumeCommit, ResumeSubmit, Step, Answer
        <4> QED BY <1>0, <2>1, <2>3, <4>1 DEF Clients
      <3>2. c \in ResumeRequests /\ c \notin StartRequests /\ c \notin DecideRequests
        BY <3>1, ServiceAssumption
      <3>3. ~ Answer(c)
        BY <1>0, <2>1, <3>1, <3>2, Answered
      <3>4. \A pc \in Handling : Step(c, pc) => pc = "submit" /\ request[c].inv = k
        BY <1>0, <2>1, <3>1, Stepped
      <3>5. \A i \in Investigations : ~ ResumeRead(c, i)
        <4> SUFFICES ASSUME NEW i \in Investigations, ResumeRead(c, i) PROVE FALSE
          OBVIOUS
        <4>1. request'[c].pc = "check"
          BY <1>0 DEF ResumeRead, NotMade
        <4> QED BY <2>1, <3>1, <4>1
      <3>6. ResumeCommit(c)
        BY <3>2, <3>3, <3>4, <3>5
        DEF Call, Handle, TxFails, StartReserve, DecideRead, StartInsert, StartSubmit,
            ReleaseSlot, DecideCommit, DecideNotify, DecideSubmit, ResumeCheck, ResumeReserve,
            ResumeSubmit, Handling
      <3>7. request[c].inv = k
        BY <3>4, <3>6 DEF ResumeCommit, Handling
      <3> QED BY <3>6, <3>7
    <2> QED BY <2>2, <2>3
  <1>2. CASE \E n \in DOMAIN queue' : queue'[n].inv = k /\ queue'[n].kind = "resume"
    <2>1. PICK n \in DOMAIN queue' : queue'[n].inv = k /\ queue'[n].kind = "resume"
      BY <1>2
    <2>2. CASE queue' = queue
      BY <2>1, <2>2 DEF Retrying
    <2>3. CASE queue' # queue
      <3>1. PICK kind \in JobKinds :
                /\ Enqueue(request[c].inv, kind)
                /\ request[c].pc = "submit"
                /\ kind = "resume" => c \in ResumeRequests
        BY <2>3
        DEF Call, Handle, TxFails, StartReserve, DecideRead, ResumeRead, StartInsert, StartSubmit,
            ReleaseSlot, DecideCommit, DecideNotify, DecideSubmit, ResumeCheck, ResumeReserve,
            ResumeCommit, ResumeSubmit, WorkerIdle, workerVars, Handles, Inv, JobKinds
      <3>2. request[c].inv \in Investigations
        BY <3>1 DEF SlotsInv, RequestsOK
      <3> DEFINE e == [inv |-> request[c].inv, kind |-> kind]
      <3>3. e \in QueuedJobs /\ e.kind = kind /\ e.inv = request[c].inv
        BY <3>2 DEF QueuedJobs
      <3>4. queue' = Append(queue, e)
        BY <3>1 DEF Enqueue
      <3> HIDE DEF e
      <3>5. \/ n \in DOMAIN queue /\ queue'[n] = queue[n]
            \/ queue'[n] = e
        BY <1>0, <2>1, <3>3, <3>4, Appended
      <3> QED BY <2>1, <3>1, <3>3, <3>5 DEF Retrying
    <2> QED BY <2>2, <2>3
  <1>3. CASE job'.inv = k /\ job'.kind = "resume" /\ job'.pc \in {"begin", "running", "node"}
    BY <1>0, <1>3 DEF Retrying
  <1> QED BY <1>1, <1>2, <1>3 DEF Retrying

(* A step of a request's handler: only an accepted resume adds to the account. *)
LEMMA HandlerAccount ==
    ASSUME AccountInv, RunsInv', NEW c \in Clients, Call(c) \/ Handle(c) \/ TxFails(c)
    PROVE  OnlyResumesRetry' /\ Account'
  <1>0. RunsInv /\ OnlyResumesRetry /\ Account /\ SlotsInv
    BY DEF AccountInv, RunsInv
  <1>1. UNCHANGED <<checkpoint, failures, raises, job, deaths>>
    BY <1>0, HandlerEffect
  <1>2. \/ resumed' = resumed /\ ~ ResumeCommit(c)
        \/ ResumeCommit(c)
    BY DEF Call, Handle, TxFails, StartReserve, DecideRead, ResumeRead, StartInsert, StartSubmit,
           ReleaseSlot, DecideCommit, DecideNotify, DecideSubmit, ResumeCheck, ResumeReserve,
           ResumeSubmit
  <1>3. resumed \in [Investigations -> Nat] /\ raises \in Nat /\ deaths \in Nat
    BY <1>0, RunnerAssumption, ServiceAssumption DEF SlotsInv, TypeOK, RunnerTypeOK
  <1>4. /\ \A k \in Investigations : resumed'[k] >= resumed[k]
        /\ ResumeCommit(c) => \A k \in Investigations :
                                  request[c].inv = k => resumed'[k] > resumed[k]
    BY <1>2, <1>3 DEF ResumeCommit, Inv
  <1>5. ASSUME NEW k \in Investigations, Spent(k)
        PROVE  Spent(k)' \/ resumed'[k] > resumed[k]
    <2>1. Paused(k)' = Paused(k)
      BY <1>1 DEF Paused
    <2>2. CASE Paused(k) /\ ~ Retrying(k)
      BY <1>0, <1>4, <2>1, <2>2, HandlerRetrying DEF Spent
    <2>3. CASE ~ (Paused(k) /\ ~ Retrying(k))
      BY <1>1, <1>5, <2>3 DEF Spent
    <2> QED BY <2>2, <2>3
  <1>6. Account'
    BY <1>0, <1>1, <1>3, <1>4, <1>5, AccountKept
  <1>7. OnlyResumesRetry'
    BY <1>0, <1>1 DEF OnlyResumesRetry, Paused
  <1> QED BY <1>6, <1>7

(* A death pays for the failure whose outcome it lost. *)
LEMMA DeathAccount ==
    ASSUME AccountInv, RunsInv', ProcessDies
    PROVE  OnlyResumesRetry' /\ Account'
  <1>0. RunsInv /\ Account /\ SlotsInv
    BY DEF AccountInv, RunsInv
  <1>1. deaths' = deaths + 1 /\ job'.pc = "idle" /\ UNCHANGED <<failures, raises, resumed>>
    BY DEF ProcessDies, NoJob, runnerVars
  <1>2. raises \in Nat /\ deaths \in Nat /\ \A k \in Investigations : resumed[k] \in Nat
    BY <1>0, RunnerAssumption, ServiceAssumption DEF SlotsInv, TypeOK, RunnerTypeOK
  <1> QED BY <1>0, <1>1, <1>2, AccountKept DEF OnlyResumesRetry

(* The account is even at the start. *)
LEMMA InitAccount ==
    Init => AccountInv
  <1> SUFFICES ASSUME Init PROVE AccountInv
    OBVIOUS
  <1>1. OnlyResumesRetry
    BY DEF Init, WorkerInit, NoJob, OnlyResumesRetry
  <1>2. Account
    BY DEF Init, RunnerInit, Account, Due
  <1> QED BY <1>1, <1>2, InitRuns DEF AccountInv

(* Every step keeps the account. *)
LEMMA NextAccount ==
    AccountInv /\ [Next]_vars => AccountInv'
  <1> SUFFICES ASSUME AccountInv, [Next]_vars
               PROVE  AccountInv'
    OBVIOUS
  <1>1. RunsInv'
    BY NextRuns DEF AccountInv
  <1>2. CASE Thread
    <2>1. CASE RunnerStep
      BY <1>1, <1>2, <2>1, PlainAccount, SavesAccount, ActAccount, RaiseAccount
      DEF Thread, RunnerStep, AccountInv
    <2>2. CASE (TakeJob \/ EndJob \/ SubmitFollowUp) /\ UNCHANGED runnerVars
      BY <1>1, <1>2, <2>2, WorkerAccount DEF Thread, AccountInv
    <2> QED BY <1>2, <2>1, <2>2 DEF Thread, ThreadStep
  <1>3. ASSUME NEW c \in Clients, Call(c) \/ Handle(c) \/ TxFails(c)
        PROVE  AccountInv'
    BY <1>1, <1>3, HandlerAccount DEF AccountInv
  <1>4. CASE ProcessDies
    BY <1>1, <1>4, DeathAccount DEF AccountInv
  <1>5. CASE UNCHANGED vars
    <2>1. OnlyResumesRetry'
      BY <1>5 DEF AccountInv, OnlyResumesRetry, Paused, vars, workerVars, runnerVars
    <2>2. Account'
      BY <1>5
      DEF AccountInv, Account, Due, Spent, Paused, Retrying, vars, workerVars, runnerVars, serviceVars
    <2> QED BY <1>1, <2>1, <2>2 DEF AccountInv
  <1> QED BY <1>2, <1>3, <1>4, <1>5 DEF Next

(* The account is kept for ever: every failure was the decision's one, or was
   asked for, or had its outcome lost. *)
THEOREM AccountInvariance ==
    Spec => []AccountInv
  BY InitAccount, NextAccount, PTL DEF Spec

(* A failed action is tried again only when someone asks for it, or when the
   outcome was lost with a job or a process (graph.py: resume_for_decision). *)
THEOREM OnlyAskedRetries ==
    Spec => []NoUnaskedRetry
  <1>1. AccountInv => NoUnaskedRetry
    <2> SUFFICES ASSUME AccountInv, NEW i \in Investigations
                 PROVE  failures[i] <= 1 + resumed[i] + raises + deaths
      BY DEF NoUnaskedRetry
    <2>1. failures[i] \in Nat /\ resumed[i] \in Nat /\ raises \in Nat /\ deaths \in Nat
      BY RunnerAssumption, ServiceAssumption DEF AccountInv, RunsInv, SlotsInv, TypeOK, RunnerTypeOK
    <2> QED BY <2>1 DEF AccountInv, Account, Due
  <1> QED BY <1>1, AccountInvariance, PTL

------------------------------------------------------------------------------
(***************************************************************************)
(* Nothing is forgotten, as long as nothing dies, no reservation is given  *)
(* back and every failure is recorded.  An investigation is either tended  *)
(* to - its slot is taken, or a decision's resume is on its way to the     *)
(* worker - or it is where a person expects it.  What has to be known of   *)
(* the end of a job is that a decision it did not see is still Coming: its *)
(* handler has not told the worker yet, or left a follow-up, because the   *)
(* slot is the job's until it ends.                                        *)
(***************************************************************************)
Settled(i) ==
    \/ status[i] \in {"absent", "complete", "failed"}
    \/ /\ status[i] = "awaiting_approval"
       /\ AtInterrupt(i) /\ approvals[i][Round(i)] = "pending"

(* A decision's resume is given to the worker, which the job that runs will see. *)
Notifies(c, i) == c \in DecideRequests /\ Handles(c, "notify") /\ Inv(c) = i
Submits(c, i) == c \in DecideRequests /\ Handles(c, "submit") /\ Inv(c) = i
Coming(i) == i \in followUps \/ \E c \in Clients : Notifies(c, i)

Tended(i) ==
    \/ i \in active
    \/ job.inv = i /\ job.pc = "follow"
    \/ \E c \in Clients : Notifies(c, i) \/ Submits(c, i)

TendedOK == deaths = 0 => \A i \in Investigations : Tended(i) \/ Settled(i)

EndsOK ==
    /\ job.pc = "final_persist" /\ GoesOn(job.inv) => Coming(job.inv)
    /\ job.pc = "finally" => Settled(job.inv) \/ Coming(job.inv)

(* A job that settles has run as far as the graph goes, and who resumes for a
   decision resumes a run there is. *)
HasBegun(i) == checkpoint[i].next # "none"
BegunOK ==
    /\ job.pc \in {"settle", "settle_persist", "final_persist"} =>
           checkpoint[job.inv].next \in {"act", "end"}
    /\ job.pc = "follow" \/ (job.pc # "idle" /\ job.kind = "decision") => HasBegun(job.inv)
    /\ \A n \in DOMAIN queue : queue[n].kind = "decision" => HasBegun(queue[n].inv)
    /\ \A i \in followUps : HasBegun(i)
    /\ \A c \in Clients, i \in Investigations : Notifies(c, i) \/ Submits(c, i) => HasBegun(i)

ForgetInv == RunsInv /\ BegunOK /\ EndsOK /\ TendedOK

(* No reservation is given back, and every failure of a job is recorded. *)
NoneGivenBack == \A c \in Clients : ~ Handles(c, "release")
Recorded == MarkFailed => UNCHANGED raises

(* A job's step touches its own run alone, and no run loses its checkpoints. *)
LEMMA OwnRun ==
    ASSUME SlotsInv, RunnerStep
    PROVE  /\ job.inv \in Investigations /\ job.inv \in active
           /\ job'.inv = job.inv /\ job'.kind = job.kind
           /\ job.pc # "follow" /\ job'.pc # "follow"
           /\ UNCHANGED <<active, followUps, queue>>
           /\ \A k \in Investigations \ {job.inv} :
                  /\ status'[k] = status[k] /\ checkpoint'[k] = checkpoint[k]
                  /\ approvals'[k] = approvals[k]
           /\ \A k \in Investigations : HasBegun(k) => HasBegun(k)'
  <1>1. InJob /\ (RunningStep \/ (job' = job /\ job.pc = "node"))
    BY RunnerMoves DEF SlotsInv, TypeOK
  <1>2. job.pc \in JobSteps /\ job.pc # "follow" /\ job'.pc # "follow"
        /\ job'.inv = job.inv /\ job'.kind = job.kind
    BY <1>1 DEF RunningStep, RunningJobs, JobSteps
  <1>3. job.inv \in Investigations /\ job # NoJob
    BY <1>2, JobTypes DEF NoJob, JobSteps
  <1>4. job.inv \in active
    BY <1>2, <1>3 DEF SlotsInv, Slots
  <1>d DEFINE StatusOwn == status' = status \/ \E st : status' = [status EXCEPT ![job.inv] = st]
              CheckpointOwn == \/ checkpoint' = checkpoint
                               \/ \E next \in Nodes \ {"none"} : \E st, n : Save(job.inv, next, st, n)
              ApprovalsOwn ==
                  approvals' = approvals
                  \/ \E n, d : approvals' = [approvals EXCEPT ![job.inv][n] = d]
  <1>5. StatusOwn /\ CheckpointOwn /\ ApprovalsOwn
    <2>1. CASE Start
      BY <2>1 DEF Start
    <2>2. CASE DecisionConsumed
      BY <2>2 DEF DecisionConsumed, Persist
    <2>3. CASE SkipUndecided
      BY <2>3 DEF SkipUndecided, Persist
    <2>4. CASE Resume
      BY <2>4 DEF Resume, runnerVars
    <2>5. CASE MarkRunning
      BY <2>5 DEF MarkRunning
    <2>6. CASE SaveInput
      BY <2>6 DEF SaveInput, Nodes
    <2>7. CASE Investigate
      BY <2>7 DEF Investigate, Nodes
    <2>8. CASE CreateApproval
      BY <2>8 DEF CreateApproval
    <2>9. CASE SaveAwaiting
      BY <2>9 DEF SaveAwaiting, Nodes
    <2>10. CASE Act
      BY <2>10 DEF Act
    <2>11. CASE SaveAct
      BY <2>11 DEF SaveAct, AfterFailure, Nodes
    <2>12. CASE Summarize
      BY <2>12 DEF Summarize, Nodes
    <2>13. CASE JobRaises
      BY <2>13 DEF JobRaises
    <2>14. CASE Mirror
      BY <2>14 DEF Mirror, Persist
    <2>15. CASE Settle
      BY <2>15 DEF Settle, runnerVars
    <2>16. CASE SettlePersist
      BY <2>16 DEF SettlePersist, Persist
    <2>17. CASE MarkFailed
      BY <2>17 DEF MarkFailed
    <2> QED BY <2>1, <2>2, <2>3, <2>4, <2>5, <2>6, <2>7, <2>8,
               <2>9, <2>10, <2>11, <2>12, <2>13, <2>14, <2>15, <2>16, <2>17 DEF RunnerStep
  <1>8. \A k \in Investigations \ {job.inv} :
            status'[k] = status[k] /\ approvals'[k] = approvals[k]
    BY <1>5 DEF SlotsInv, TypeOK, RunnerTypeOK
  <1>9. /\ \A k \in Investigations \ {job.inv} : checkpoint'[k] = checkpoint[k]
        /\ \A k \in Investigations : HasBegun(k) => HasBegun(k)'
    <2>1. CASE checkpoint' = checkpoint
      BY <2>1 DEF HasBegun
    <2>2. ASSUME NEW next \in Nodes \ {"none"}, NEW st, NEW n, Save(job.inv, next, st, n)
          PROVE  /\ \A k \in Investigations \ {job.inv} : checkpoint'[k] = checkpoint[k]
                 /\ \A k \in Investigations : HasBegun(k) => HasBegun(k)'
      BY <1>3, <2>2, Saved DEF HasBegun
    <2> QED BY <1>5, <2>1, <2>2
  <1> QED BY <1>1, <1>2, <1>3, <1>4, <1>8, <1>9 DEF InJob

(* A job that settles has come from the interrupt or the end. *)
LEMMA SettlesBegun ==
    ASSUME RunsInv, BegunOK, RunnerStep,
           job'.pc \in {"settle", "settle_persist", "final_persist"}
    PROVE  checkpoint'[job.inv].next \in {"act", "end"}
  <1>1. SlotsInv
    BY DEF RunsInv
  <1>2. CASE MarkRunning
    BY <1>1, <1>2, GotoFields DEF MarkRunning, At, JobSteps
  <1>3. CASE Mirror
    BY <1>1, <1>3, GotoFields DEF Mirror, At, JobSteps
  <1>4. CASE Settle
    BY <1>4 DEF Settle, At, BegunOK, runnerVars
  <1>6. CASE Start
    BY <1>1, <1>6, GotoFields DEF Start, At, JobSteps
  <1>7. CASE DecisionConsumed
    BY <1>1, <1>7, GotoFields DEF DecisionConsumed, At, JobSteps
  <1>8. CASE SkipUndecided
    BY <1>1, <1>8, GotoFields DEF SkipUndecided, At, JobSteps
  <1>9. CASE Resume
    BY <1>1, <1>9, GotoFields DEF Resume, At, JobSteps
  <1>10. CASE SaveInput
    BY <1>1, <1>10, GotoFields DEF SaveInput, RunsNode, At
  <1>11. CASE Investigate
    BY <1>1, <1>11, GotoFields DEF Investigate, RunsNode, At, JobSteps
  <1>12. CASE CreateApproval
    BY <1>1, <1>12, GotoFields DEF CreateApproval, RunsNode, At, JobSteps
  <1>13. CASE SaveAwaiting
    BY <1>1, <1>13, GotoFields DEF SaveAwaiting, At, JobSteps
  <1>14. CASE Act
    BY <1>1, <1>14, JobTypes DEF Act, RunsNode, At, JobSteps, RunningJobs
  <1>15. CASE SaveAct
    BY <1>1, <1>15, JobTypes DEF SaveAct, At, JobSteps, RunningJobs
  <1>16. CASE Summarize
    BY <1>1, <1>16, GotoFields DEF Summarize, RunsNode, At, JobSteps
  <1>17. CASE JobRaises
    BY <1>1, <1>17, JobTypes DEF JobRaises, JobSteps, RunningJobs
  <1>18. CASE MarkFailed
    BY <1>1, <1>18, GotoFields DEF MarkFailed, At, JobSteps
  <1>19. CASE SettlePersist
    BY <1>1, <1>19, GotoFields DEF SettlePersist, At, JobSteps
  <1> QED BY <1>2, <1>3, <1>4, <1>6, <1>7, <1>8, <1>9, <1>10, <1>11, <1>12,
             <1>13, <1>14, <1>15, <1>16, <1>17, <1>18, <1>19 DEF RunnerStep

(* The steps of the thread keep BegunOK. *)
LEMMA ThreadBegun ==
    ASSUME RunsInv, BegunOK, Thread
    PROVE  BegunOK'
  <1> SlotsInv
    BY DEF RunsInv
  <1>0. /\ request' = request
        /\ followUps \subseteq Investigations /\ queue \in Seq(QueuedJobs)
    BY DEF Thread, serviceVars, SlotsInv, TypeOK, WorkerTypeOK
  <1>1. CASE RunnerStep
    <2>1. /\ job.inv \in Investigations /\ job'.inv = job.inv /\ job'.kind = job.kind
          /\ job'.pc # "follow" /\ UNCHANGED <<followUps, queue>>
          /\ \A k \in Investigations : HasBegun(k) => HasBegun(k)'
      BY <1>1, OwnRun
    <2>2. job'.kind = "decision" => HasBegun(job.inv)'
      BY <1>1, <2>1, RunnerMoves DEF BegunOK, RunningStep, RunningJobs, JobSteps, SlotsInv, TypeOK
    <2>3. \A n \in DOMAIN queue : queue[n].inv \in Investigations
      BY <1>0, QueuedTypes
    <2>4. \A n \in DOMAIN queue : queue[n].kind = "decision" => HasBegun(queue[n].inv)'
      BY <2>1, <2>3 DEF BegunOK
    <2>5. \A i \in followUps : HasBegun(i)'
      BY <1>0, <2>1 DEF BegunOK
    <2>6. \A c \in Clients, i \in Investigations :
              Notifies(c, i)' \/ Submits(c, i)' => HasBegun(i)'
      BY <1>0, <2>1 DEF BegunOK, Notifies, Submits, Handles, Inv
    <2>7. job'.pc \in {"settle", "settle_persist", "final_persist"} =>
              checkpoint'[job'.inv].next \in {"act", "end"}
      BY <1>1, <2>1, SettlesBegun
    <2> QED BY <2>1, <2>2, <2>4, <2>5, <2>6, <2>7 DEF BegunOK, HasBegun
  <1>2. ASSUME checkpoint' = checkpoint, followUps' \subseteq followUps,
               job' = NoJob \/ (job'.pc \in {"begin", "follow"}
                   /\ (job'.kind = "decision" \/ job'.pc = "follow" => HasBegun(job'.inv))),
               \A n \in DOMAIN queue' : queue'[n].kind = "decision" => HasBegun(queue'[n].inv)
        PROVE  BegunOK'
    <2>1. \A i : HasBegun(i)' <=> HasBegun(i)
      BY <1>2 DEF HasBegun
    <2>2. job'.pc \notin {"settle", "settle_persist", "final_persist"}
      BY <1>2 DEF NoJob
    <2>3. job'.pc = "follow" \/ (job'.pc # "idle" /\ job'.kind = "decision") =>
              checkpoint'[job'.inv].next # "none"
      BY <1>2 DEF NoJob, HasBegun
    <2>4. \A n \in DOMAIN queue' :
              queue'[n].kind = "decision" => checkpoint'[queue'[n].inv].next # "none"
      BY <1>2 DEF HasBegun
    <2>5. \A i \in followUps' : HasBegun(i)'
      BY <1>2, <2>1 DEF BegunOK
    <2>6. \A c \in Clients, i \in Investigations :
              Notifies(c, i)' \/ Submits(c, i)' => HasBegun(i)'
      BY <1>0, <2>1 DEF BegunOK, Notifies, Submits, Handles, Inv
    <2> QED BY <2>2, <2>3, <2>4, <2>5, <2>6 DEF BegunOK, HasBegun
  <1>3. CASE TakeJob /\ UNCHANGED runnerVars
    <2>1. queue # << >> /\ queue' = Tail(queue) /\ job'.pc = "begin"
          /\ job'.inv = Head(queue).inv /\ job'.kind = Head(queue).kind
          /\ UNCHANGED <<checkpoint, followUps>>
      BY <1>3 DEF TakeJob, runnerVars
    <2>2. \A n \in DOMAIN queue' : queue'[n].kind = "decision" => HasBegun(queue'[n].inv)
      BY <1>0, <2>1, Taken DEF BegunOK
    <2>3. job'.kind = "decision" => HasBegun(job'.inv)
      BY <1>0, <2>1, Taken DEF BegunOK
    <2> QED BY <1>2, <2>1, <2>2, <2>3
  <1>4. CASE EndJob /\ UNCHANGED runnerVars
    <2>1. job.pc = "finally" /\ job \in RunningJobs
      BY <1>4, JobTypes DEF EndJob, JobSteps
    <2>2. UNCHANGED <<checkpoint, queue>> /\ followUps' \subseteq followUps
      BY <1>4 DEF EndJob, runnerVars
    <2>3. CASE job.inv \in followUps
      <3>1. job'.pc = "follow" /\ job'.inv = job.inv
        BY <1>4, <2>1, <2>3 DEF EndJob, RunningJobs
      <3> QED BY <1>2, <2>2, <2>3, <3>1 DEF BegunOK
    <2>4. CASE job.inv \notin followUps
      <3>1. job' = NoJob
        BY <1>4, <2>4 DEF EndJob
      <3> QED BY <1>2, <2>2, <3>1 DEF BegunOK
    <2> QED BY <2>3, <2>4
  <1>5. CASE SubmitFollowUp /\ UNCHANGED runnerVars
    <2>1. job.pc = "follow" /\ job' = NoJob /\ job.inv \in Investigations
          /\ UNCHANGED <<checkpoint, followUps>>
      BY <1>5, JobTypes DEF SubmitFollowUp, runnerVars, JobSteps
    <2>2. \A n \in DOMAIN queue' : queue'[n].kind = "decision" => HasBegun(queue'[n].inv)
      <3>1. CASE queue' = queue
        BY <3>1 DEF BegunOK
      <3>2. CASE Enqueue(job.inv, "decision")
        <4>1. [inv |-> job.inv, kind |-> "decision"] \in QueuedJobs
          BY <2>1 DEF QueuedJobs, JobKinds
        <4> QED BY <1>0, <2>1, <3>2, <4>1, Appended DEF BegunOK, Enqueue
      <3> QED BY <1>5, <3>1, <3>2 DEF SubmitFollowUp
    <2> QED BY <1>2, <2>1, <2>2
  <1> QED BY <1>1, <1>3, <1>4, <1>5 DEF Thread, ThreadStep

(* The handler of a decision takes one of the steps of a decision. *)
LEMMA DeciderSteps ==
    ASSUME SlotsInv, NEW c \in DecideRequests, Call(c) \/ Handle(c) \/ TxFails(c)
    PROVE  \/ \E i \in Investigations, n \in Rounds : DecideRead(c, i, n)
           \/ DecideCommit(c) \/ DecideNotify(c) \/ DecideSubmit(c)
  <1>1. c \notin StartRequests /\ c \notin ResumeRequests /\ request[c].pc # "release"
    BY ServiceAssumption DEF SlotsInv, RequestsOK, Clients
  <1>2. CASE Call(c)
    <2>1. PICK i \in Investigations :
              StartReserve(c, i) \/ (\E n \in Rounds : DecideRead(c, i, n)) \/ ResumeRead(c, i)
      BY <1>2 DEF Call
    <2>2. ~ StartReserve(c, i) /\ ~ ResumeRead(c, i)
      BY <1>1 DEF StartReserve, ResumeRead
    <2> QED BY <2>1, <2>2
  <1>3. CASE Handle(c)
    BY <1>1, <1>3 DEF Handle, StartInsert, StartSubmit, ReleaseSlot, ResumeCheck, ResumeReserve,
                      ResumeCommit, ResumeSubmit, Handles
  <1>4. CASE TxFails(c)
    BY <1>1, <1>4 DEF TxFails
  <1> QED BY <1>2, <1>3, <1>4

(* A row that is decided is the one its run waits for, or is coming to wait for. *)
LEMMA CommitsCurrent ==
    ASSUME RunsInv, NEW c \in DecideRequests, DecideCommit(c), StillPending(c)
    PROVE  /\ Inv(c) \in Investigations
           /\ request[c].round = Round(Inv(c))
           /\ HasBegun(Inv(c))
  <1>1. /\ c \in Clients
        /\ request[c].inv \in Investigations /\ request[c].round \in Rounds
    BY DEF RunsInv, SlotsInv, RequestsOK, DecideCommit, Handles, Clients
  <1>2. RunOK(request[c].inv)
    BY <1>1 DEF RunsInv, RunsOK
  <1>3. approvals[request[c].inv][request[c].round] = "pending"
    BY DEF StillPending, Pending, Inv
  <1>4. request[c].round \in Nat /\ Round(request[c].inv) \in Nat
    BY <1>1, RunTypes DEF RunsInv
  <1>5. request[c].round = Round(request[c].inv)
    BY <1>1, <1>2, <1>3, <1>4 DEF RunOK
  <1>6. Current(request[c].inv) = "pending"
    BY <1>3, <1>5 DEF Current
  <1> QED BY <1>1, <1>2, <1>5, <1>6 DEF RunOK, HasBegun, Inv

(* Whose requests are about to give a decision's resume to the worker, after a
   step of c's handler. *)
LEMMA Tellers ==
    ASSUME SlotsInv, NEW c \in Clients, OthersKept(c),
           NEW d \in Clients, d # c \/ c \notin DecideRequests, NEW i
    PROVE  /\ Notifies(d, i)' <=> Notifies(d, i)
           /\ Submits(d, i)' <=> Submits(d, i)
  BY DEF OthersKept, Notifies, Submits, Handles, Inv

(* A handler moves one request: its own. *)
LEMMA OneRequest ==
    ASSUME SlotsInv, NEW c \in Clients, Call(c) \/ Handle(c) \/ TxFails(c)
    PROVE  OthersKept(c)
  <1>r. ASSUME NEW r, request' = [request EXCEPT ![c] = r]
        PROVE  OthersKept(c)
    BY <1>r DEF OthersKept, SlotsInv, TypeOK
  <1>s. ASSUME NEW pc, Step(c, pc)
        PROVE  OthersKept(c)
    BY <1>r, <1>s DEF Step
  <1>a. ASSUME Answer(c)
        PROVE  OthersKept(c)
    BY <1>r, <1>a DEF Answer
  <1>1. CASE Call(c)
    <2>1. PICK i \in Investigations :
              StartReserve(c, i) \/ (\E n \in Rounds : DecideRead(c, i, n)) \/ ResumeRead(c, i)
      BY <1>1 DEF Call
    <2>2. CASE StartReserve(c, i)
      BY <1>r, <1>a, <2>2 DEF StartReserve
    <2>3. CASE \E n \in Rounds : DecideRead(c, i, n)
      BY <1>r, <2>3 DEF DecideRead
    <2>4. CASE ResumeRead(c, i)
      BY <1>r, <2>4 DEF ResumeRead
    <2> QED BY <2>1, <2>2, <2>3, <2>4
  <1>2. CASE StartInsert(c) \/ StartSubmit(c) \/ ReleaseSlot(c) \/ TxFails(c)
    BY <1>2, <1>s, <1>a DEF StartInsert, StartSubmit, ReleaseSlot, TxFails
  <1>3. CASE DecideCommit(c) \/ DecideNotify(c) \/ DecideSubmit(c)
    BY <1>3, <1>s, <1>a DEF DecideCommit, DecideNotify, DecideSubmit
  <1>4. CASE ResumeCheck(c) \/ ResumeReserve(c) \/ ResumeCommit(c) \/ ResumeSubmit(c)
    BY <1>4, <1>s, <1>a DEF ResumeCheck, ResumeReserve, ResumeCommit, ResumeSubmit
  <1> QED BY <1>1, <1>2, <1>3, <1>4 DEF Handle

(* What a handler's step does to what the worker holds. *)
LEMMA HandlerQueue ==
    ASSUME SlotsInv, NEW c \in Clients, Call(c) \/ Handle(c) \/ TxFails(c)
    PROVE  /\ followUps' = followUps
              \/ (DecideNotify(c) /\ followUps' = followUps \cup {Inv(c)})
           /\ queue' = queue
              \/ (DecideSubmit(c) /\ Enqueue(Inv(c), "decision"))
              \/ \E kind \in {"start", "resume"} : Handles(c, "submit") /\ Enqueue(Inv(c), kind)
  <1>1. CASE Call(c)
    <2>1. PICK i \in Investigations :
              StartReserve(c, i) \/ (\E n \in Rounds : DecideRead(c, i, n)) \/ ResumeRead(c, i)
      BY <1>1 DEF Call
    <2>2. ASSUME NEW n \in Rounds, DecideRead(c, i, n)
          PROVE  followUps' = followUps /\ queue' = queue
      BY <2>2 DEF DecideRead, WorkerIdle, workerVars
    <2>3. StartReserve(c, i) => followUps' = followUps /\ queue' = queue
      BY DEF StartReserve
    <2>4. ResumeRead(c, i) => followUps' = followUps /\ queue' = queue
      BY DEF ResumeRead, WorkerIdle, workerVars
    <2> QED BY <2>1, <2>2, <2>3, <2>4
  <1>2. CASE StartInsert(c) \/ StartSubmit(c) \/ ReleaseSlot(c) \/ TxFails(c)
    BY <1>2 DEF StartInsert, StartSubmit, ReleaseSlot, TxFails, WorkerIdle, workerVars
  <1>3. CASE DecideCommit(c) \/ DecideNotify(c) \/ DecideSubmit(c)
    BY <1>3 DEF DecideCommit, DecideNotify, DecideSubmit, KeepFollowUp, WorkerIdle, workerVars
  <1>4. CASE ResumeCheck(c) \/ ResumeReserve(c) \/ ResumeCommit(c) \/ ResumeSubmit(c)
    BY <1>4 DEF ResumeCheck, ResumeReserve, ResumeCommit, ResumeSubmit, WorkerIdle, workerVars
  <1> QED BY <1>1, <1>2, <1>3, <1>4 DEF Handle

(* Who tells the worker of a decision, or is about to, has just made it, or was
   already on the way. *)
LEMMA NewTellers ==
    ASSUME SlotsInv, NEW c \in Clients, Call(c) \/ Handle(c) \/ TxFails(c),
           NEW d \in Clients, NEW i, Notifies(d, i)' \/ Submits(d, i)'
    PROVE  \/ Notifies(d, i) \/ Submits(d, i)
           \/ d = c /\ DecideCommit(c) /\ StillPending(c) /\ Inv(c) = i
  <1>0. request \in [Clients -> Requests]
    BY DEF SlotsInv, TypeOK, Requests
  <1>1. CASE d # c \/ c \notin DecideRequests
    BY <1>1, OneRequest, Tellers
  <1>2. CASE d = c /\ c \in DecideRequests
    <2>1. request'[c].pc \in {"notify", "submit"} /\ request'[c].inv = i
      BY <1>2 DEF Notifies, Submits, Handles, Inv
    <2>2. c \notin ResumeRequests
      BY <1>2, ServiceAssumption
    <2>3. ~ Answer(c)
      BY <1>0, <2>1, <2>2, Answered
    <2>4. \A k \in Investigations, n \in Rounds : ~ DecideRead(c, k, n)
      <3> SUFFICES ASSUME NEW k \in Investigations, NEW n \in Rounds, DecideRead(c, k, n)
                   PROVE  FALSE
        OBVIOUS
      <3>1. request'[c].pc = "commit"
        BY <1>0 DEF DecideRead, NotMade
      <3> QED BY <2>1, <3>1
    <2>5. \/ DecideCommit(c) /\ StillPending(c) /\ Step(c, "notify")
          \/ DecideNotify(c) /\ Step(c, "submit")
      BY <1>2, <2>3, <2>4, DeciderSteps DEF DecideCommit, DecideNotify, DecideSubmit
    <2>6. request'[c].inv = request[c].inv
      BY <1>0, <2>5, Stepped DEF Handling
    <2> QED BY <1>2, <2>1, <2>5, <2>6 DEF DecideNotify, Notifies, Inv
  <1> QED BY <1>1, <1>2

(* The steps of the handlers keep BegunOK. *)
LEMMA HandlerBegun ==
    ASSUME RunsInv, BegunOK, NEW c \in Clients, Call(c) \/ Handle(c) \/ TxFails(c)
    PROVE  BegunOK'
  <1>0. /\ SlotsInv /\ request \in [Clients -> Requests] /\ queue \in Seq(QueuedJobs)
        /\ RequestsOK
    BY DEF RunsInv, SlotsInv, TypeOK, WorkerTypeOK, Requests
  <1>1. checkpoint' = checkpoint /\ job' = job
    BY <1>0, HandlerEffect
  <1>2. \A i : HasBegun(i)' <=> HasBegun(i)
    BY <1>1 DEF HasBegun
  <1>3. c \in DecideRequests /\ (Handles(c, "notify") \/ Handles(c, "submit")) =>
            HasBegun(Inv(c)) /\ Inv(c) \in Investigations
    BY <1>0 DEF BegunOK, RequestsOK, Notifies, Submits, Handles, Inv
  <1>4. \A i \in followUps' : HasBegun(i)'
    BY <1>0, <1>2, <1>3, HandlerQueue DEF BegunOK, DecideNotify
  <1>5. \A n \in DOMAIN queue' : queue'[n].kind = "decision" => HasBegun(queue'[n].inv)
    <2>1. CASE queue' = queue
      BY <2>1 DEF BegunOK
    <2>2. CASE DecideSubmit(c) /\ Enqueue(Inv(c), "decision")
      <3> DEFINE e == [inv |-> Inv(c), kind |-> "decision"]
      <3>1. HasBegun(Inv(c)) /\ Inv(c) \in Investigations
        BY <1>3, <2>2 DEF DecideSubmit
      <3>2. e \in QueuedJobs /\ e.inv = Inv(c)
        BY <3>1 DEF QueuedJobs, JobKinds
      <3>3. queue' = Append(queue, e)
        BY <2>2 DEF Enqueue
      <3> HIDE DEF e
      <3> QED BY <1>0, <3>1, <3>2, <3>3, Appended DEF BegunOK
    <2>3. ASSUME NEW kind \in {"start", "resume"}, Handles(c, "submit"), Enqueue(Inv(c), kind)
          PROVE  \A n \in DOMAIN queue' : queue'[n].kind = "decision" => HasBegun(queue'[n].inv)
      <3> DEFINE e == [inv |-> Inv(c), kind |-> kind]
      <3>1. e \in QueuedJobs /\ e.kind = kind
        BY <1>0, <2>3 DEF QueuedJobs, JobKinds, RequestsOK, Handles, Inv
      <3>2. queue' = Append(queue, e)
        BY <2>3 DEF Enqueue
      <3> HIDE DEF e
      <3> QED BY <1>0, <2>3, <3>1, <3>2, Appended DEF BegunOK
    <2> QED BY <1>0, <2>1, <2>2, <2>3, HandlerQueue
  <1>6. ASSUME NEW d \in Clients, NEW i \in Investigations, Notifies(d, i)' \/ Submits(d, i)'
        PROVE  HasBegun(i)'
    <2>1. \/ Notifies(d, i) \/ Submits(d, i)
          \/ DecideCommit(c) /\ StillPending(c) /\ Inv(c) = i
      BY <1>0, <1>6, NewTellers
    <2>2. ASSUME DecideCommit(c), StillPending(c), Inv(c) = i
          PROVE  HasBegun(i)
      BY <2>2, CommitsCurrent DEF DecideCommit
    <2> QED BY <1>2, <2>1, <2>2 DEF BegunOK
  <1>7. \A n \in DOMAIN queue' :
            queue'[n].kind = "decision" => checkpoint'[queue'[n].inv].next # "none"
    BY <1>1, <1>5 DEF HasBegun
  <1> QED BY <1>1, <1>4, <1>6, <1>7 DEF BegunOK, HasBegun

(* A handler's step touches at most one investigation, which is then tended to;
   a job of it that is ending will see the decision, or has none to see. *)
LEMMA OneTouched ==
    ASSUME SlotsInv, EndsOK, TendedOK, NEW i \in Investigations,
           UNCHANGED <<job, deaths, checkpoint>>,
           active \subseteq active', followUps \subseteq followUps',
           \A k \in Investigations \ {i} :
               /\ status'[k] = status[k] /\ approvals'[k] = approvals[k]
               /\ \A d \in Clients : /\ Notifies(d, k) => Notifies(d, k)'
                                     /\ Submits(d, k) => Submits(d, k)',
           Tended(i)',
           \/ job.inv = i /\ job.pc \in {"final_persist", "finally"} => Coming(i)'
           \/ status' = status /\ approvals' = approvals /\ (Coming(i) => Coming(i)')
    PROVE  EndsOK' /\ TendedOK'
  <1>1. ASSUME NEW k \in Investigations \ {i}
        PROVE  /\ Settled(k) => Settled(k)'
               /\ Tended(k) => Tended(k)'
               /\ Coming(k) => Coming(k)'
               /\ GoesOn(k)' => GoesOn(k)
    BY DEF Settled, Tended, Coming, GoesOn, AtInterrupt, Decided, Round
  <1>2. job.pc \in {"final_persist", "finally"} => job.inv \in Investigations
    BY JobTypes DEF JobSteps
  <1>3. TendedOK'
    BY <1>1 DEF TendedOK
  <1>4. CASE job.inv = i /\ (job.pc \in {"final_persist", "finally"} => Coming(i)')
    BY <1>3, <1>4 DEF EndsOK
  <1>5. CASE job.inv = i /\ status' = status /\ approvals' = approvals /\ (Coming(i) => Coming(i)')
    <2>1. Settled(i)' = Settled(i) /\ GoesOn(i)' = GoesOn(i)
      BY <1>5 DEF Settled, GoesOn, AtInterrupt, Decided, Round
    <2> QED BY <1>3, <1>5, <2>1 DEF EndsOK
  <1>6. CASE job.inv # i
    BY <1>1, <1>2, <1>3, <1>6 DEF EndsOK
  <1> QED BY <1>4, <1>5, <1>6

(* Or none. *)
LEMMA NoneTouched ==
    ASSUME SlotsInv, EndsOK, TendedOK,
           UNCHANGED <<job, deaths, checkpoint, status, approvals>>,
           active \subseteq active', followUps \subseteq followUps',
           \A k \in Investigations, d \in Clients :
               /\ Notifies(d, k) => Notifies(d, k)'
               /\ Submits(d, k) => Submits(d, k)'
    PROVE  EndsOK' /\ TendedOK'
  <1>1. ASSUME NEW k \in Investigations
        PROVE  /\ Settled(k) => Settled(k)'
               /\ Tended(k) => Tended(k)'
               /\ Coming(k) => Coming(k)'
               /\ GoesOn(k)' => GoesOn(k)
    BY DEF Settled, Tended, Coming, GoesOn, AtInterrupt, Decided, Round
  <1>2. job.pc \in {"final_persist", "finally"} => job.inv \in Investigations
    BY JobTypes DEF JobSteps
  <1> QED BY <1>1, <1>2 DEF TendedOK, EndsOK

(* A slot that a request holds, or nobody, is not that of an ending job. *)
LEMMA NotEnding ==
    ASSUME SlotsInv, NEW i \in Investigations,
           i \notin active \/ \E c \in Clients : Holds(c) /\ request[c].inv = i
    PROVE  ~ (job.inv = i /\ job.pc \in {"final_persist", "finally"})
  BY DEF SlotsInv, Slots, RunningFor, NoJob

(* A start's and a resume's handler keep every investigation tended to. *)
LEMMA OtherHandlers ==
    ASSUME RunsInv, EndsOK, TendedOK, NoneGivenBack, NoneGivenBack', NEW c \in Clients,
           Call(c) \/ Handle(c) \/ TxFails(c), c \notin DecideRequests
    PROVE  EndsOK' /\ TendedOK'
  <1>0. /\ SlotsInv /\ request \in [Clients -> Requests] /\ RequestsOK /\ Slots
        /\ status \in [Investigations -> Statuses]
    BY DEF RunsInv, SlotsInv, TypeOK, RunnerTypeOK, Requests
  <1>1. UNCHANGED <<job, deaths, checkpoint, approvals>>
    BY <1>0, HandlerEffect DEF DecideCommit
  <1>2. \A k \in Investigations, d \in Clients :
            /\ Notifies(d, k) => Notifies(d, k)'
            /\ Submits(d, k) => Submits(d, k)'
    BY <1>0, OneRequest, Tellers
  <1>3. followUps \subseteq followUps'
    BY <1>0, HandlerQueue
  <1>4. ~ Handles(c, "release") /\ ~ Step(c, "release")
    <2>1. Step(c, "release") => request'[c].pc = "release"
      BY <1>0, Stepped DEF Handling
    <2> QED BY <2>1 DEF NoneGivenBack, Handles
  <1>5. CASE active \subseteq active' /\ status' = status
    BY <1>0, <1>1, <1>2, <1>3, <1>5, NoneTouched
  <1>6. CASE active' = active /\ Holds(c) /\ \E st : SetStatus(Inv(c), st)
    <2>1. PICK i \in Investigations : i = request[c].inv
      BY <1>0, <1>6 DEF RequestsOK, Holds
    <2>2. i \in active
      BY <1>0, <1>6, <2>1 DEF Slots
    <2>3. \A k \in Investigations \ {i} : status'[k] = status[k]
      BY <1>0, <1>6, <2>1 DEF SetStatus, Inv
    <2>4. Tended(i)'
      BY <1>6, <2>2 DEF Tended
    <2>5. ~ (job.inv = i /\ job.pc \in {"final_persist", "finally"})
      BY <1>0, <1>6, <2>1, NotEnding
    <2> QED BY <1>0, <1>1, <1>2, <1>3, <1>6, <2>3, <2>4, <2>5, OneTouched
  <1>7. CASE Call(c)
    <2>1. PICK i \in Investigations :
              StartReserve(c, i) \/ (\E n \in Rounds : DecideRead(c, i, n)) \/ ResumeRead(c, i)
      BY <1>7 DEF Call
    <2>2. \A n \in Rounds : ~ DecideRead(c, i, n)
      BY DEF DecideRead
    <2>3. StartReserve(c, i) => active \subseteq active' /\ status' = status
      BY DEF StartReserve, Reserve, runnerVars
    <2>4. ResumeRead(c, i) => active' = active /\ status' = status
      BY DEF ResumeRead, WorkerIdle, workerVars, runnerVars
    <2> QED BY <1>5, <2>1, <2>2, <2>3, <2>4
  <1>8. CASE StartInsert(c)
    <2>1. active' = active /\ Holds(c) /\ SetStatus(Inv(c), "queued")
      BY <1>4, <1>8 DEF StartInsert, Holds, Handles, WorkerIdle, workerVars
    <2> QED BY <1>6, <2>1
  <1>9. CASE ResumeCommit(c)
    <2>1. active' = active /\ Holds(c) /\ SetStatus(Inv(c), "queued")
      BY <1>9 DEF ResumeCommit, Holds, Handles, WorkerIdle, workerVars
    <2> QED BY <1>6, <2>1
  <1>10. CASE StartSubmit(c) \/ ResumeCheck(c) \/ ResumeReserve(c) \/ ResumeSubmit(c)
    <2>1. active \subseteq active' /\ status' = status
      BY <1>10 DEF StartSubmit, ResumeCheck, ResumeReserve, ResumeSubmit, Reserve, WorkerIdle,
                   workerVars, runnerVars
    <2> QED BY <1>5, <2>1
  <1>11. CASE TxFails(c)
    <2>1. active' = active /\ status' = status
      BY <1>11 DEF TxFails, WorkerIdle, workerVars, runnerVars
    <2> QED BY <1>5, <2>1
  <1> QED BY <1>4, <1>7, <1>8, <1>9, <1>10, <1>11
          DEF Handle, ReleaseSlot, DecideCommit, DecideNotify, DecideSubmit

(* A decision's handler: from the commit until the worker has been told, its
   resume is on the way. *)
LEMMA DeciderHandlers ==
    ASSUME RunsInv, EndsOK, TendedOK, NEW c \in DecideRequests,
           Call(c) \/ Handle(c) \/ TxFails(c)
    PROVE  EndsOK' /\ TendedOK'
  <1>0. /\ SlotsInv /\ request \in [Clients -> Requests] /\ RequestsOK /\ Slots /\ c \in Clients
        /\ status \in [Investigations -> Statuses]
        /\ approvals \in [Investigations -> [Rounds -> Decisions \cup {"absent", "pending"}]]
        /\ c \notin ResumeRequests
    BY ServiceAssumption DEF RunsInv, SlotsInv, TypeOK, RunnerTypeOK, Requests, Clients
  <1>1. UNCHANGED <<job, deaths, checkpoint>> /\ OthersKept(c)
    BY <1>0, HandlerEffect, OneRequest
  <1>2. \A d \in Clients \ {c} : \A k :
            /\ Notifies(d, k)' <=> Notifies(d, k)
            /\ Submits(d, k)' <=> Submits(d, k)
    BY <1>0, <1>1, Tellers
  <1>3. followUps \subseteq followUps'
    BY <1>0, HandlerQueue
  <1>4. ASSUME request[c].pc \notin {"notify", "submit"},
               status' = status, approvals' = approvals, active' = active
        PROVE  EndsOK' /\ TendedOK'
    <2>1. \A k : ~ Notifies(c, k) /\ ~ Submits(c, k)
      BY <1>4 DEF Notifies, Submits, Handles
    <2> QED BY <1>0, <1>1, <1>2, <1>3, <1>4, <2>1, NoneTouched
  <1>5. ASSUME NEW i \in Investigations, NEW n \in Rounds, DecideRead(c, i, n)
        PROVE  EndsOK' /\ TendedOK'
    BY <1>4, <1>5 DEF DecideRead, Handles, WorkerIdle, workerVars, runnerVars
  <1>6. ASSUME request[c].pc \notin {"new", "over"}
        PROVE  request[c].inv \in Investigations
    BY <1>0, <1>6 DEF RequestsOK
  <1>7. CASE DecideCommit(c) /\ ~ StillPending(c)
    BY <1>4, <1>7 DEF DecideCommit, Handles, WorkerIdle, workerVars
  <1>8. CASE DecideCommit(c) /\ StillPending(c)
    <2>1. PICK i \in Investigations : i = request[c].inv
      BY <1>6, <1>8 DEF DecideCommit, Handles
    <2>2. \A k \in Investigations \ {i} : status'[k] = status[k] /\ approvals'[k] = approvals[k]
      BY <1>0, <1>8, <2>1 DEF DecideCommit, SetStatus, Inv
    <2>3. \A k : ~ Notifies(c, k) /\ ~ Submits(c, k)
      BY <1>8 DEF DecideCommit, Notifies, Submits, Handles
    <2>4. Notifies(c, i)'
      <3>1. Step(c, "notify")
        BY <1>8 DEF DecideCommit
      <3>2. request'[c].pc = "notify" /\ request'[c].inv = i
        BY <1>0, <2>1, <3>1, Stepped DEF Handling
      <3> QED BY <3>2 DEF Notifies, Handles, Inv
    <2>5. Tended(i)' /\ Coming(i)'
      BY <1>0, <2>4 DEF Tended, Coming
    <2>6. active' = active
      BY <1>8 DEF DecideCommit, WorkerIdle, workerVars
    <2> QED BY <1>0, <1>1, <1>2, <1>3, <2>2, <2>3, <2>5, <2>6, OneTouched
  <1>9. CASE DecideNotify(c) /\ Free(Inv(c))
    <2>1. PICK i \in Investigations : i = request[c].inv
      BY <1>6, <1>9 DEF DecideNotify, Handles
    <2>2. status' = status /\ approvals' = approvals /\ active' = active
      BY <1>9 DEF DecideNotify, runnerVars
    <2>3. \A k \in Investigations \ {i} : ~ Notifies(c, k) /\ ~ Submits(c, k)
      BY <2>1 DEF Notifies, Submits, Inv
    <2>4. Submits(c, i)'
      <3>1. Step(c, "submit")
        BY <1>9 DEF DecideNotify
      <3>2. request'[c].pc = "submit" /\ request'[c].inv = i
        BY <1>0, <2>1, <3>1, Stepped DEF Handling
      <3> QED BY <3>2 DEF Submits, Handles, Inv
    <2>5. Tended(i)'
      BY <1>0, <2>4 DEF Tended
    <2>6. ~ (job.inv = i /\ job.pc \in {"final_persist", "finally"})
      BY <1>0, <1>9, <2>1, NotEnding DEF Free, Inv
    <2> QED BY <1>0, <1>1, <1>2, <1>3, <2>2, <2>3, <2>5, <2>6, OneTouched
  <1>10. CASE DecideNotify(c) /\ ~ Free(Inv(c))
    <2>1. PICK i \in Investigations : i = request[c].inv
      BY <1>6, <1>10 DEF DecideNotify, Handles
    <2>2. status' = status /\ approvals' = approvals /\ active' = active
      BY <1>10 DEF DecideNotify, runnerVars
    <2>3. \A k \in Investigations \ {i} : ~ Notifies(c, k) /\ ~ Submits(c, k)
      BY <2>1 DEF Notifies, Submits, Inv
    <2>4. i \in followUps' /\ i \in active'
      BY <1>10, <2>1, <2>2 DEF DecideNotify, KeepFollowUp, Inv
    <2>5. Tended(i)' /\ Coming(i)'
      BY <2>4 DEF Tended, Coming
    <2> QED BY <1>0, <1>1, <1>2, <1>3, <2>2, <2>3, <2>5, OneTouched
  <1>11. CASE DecideSubmit(c)
    <2>1. PICK i \in Investigations : i = request[c].inv
      BY <1>6, <1>11 DEF DecideSubmit, Handles
    <2>2. status' = status /\ approvals' = approvals /\ followUps' = followUps
      BY <1>11 DEF DecideSubmit, runnerVars
    <2>3. active \subseteq active' /\ i \in active'
      BY <1>11, <2>1 DEF DecideSubmit, Reserve, Free, Inv
    <2>4. /\ \A k \in Investigations \ {i} : ~ Submits(c, k)
          /\ \A k : ~ Notifies(c, k)
      BY <1>11, <2>1 DEF DecideSubmit, Notifies, Submits, Handles, Inv
    <2>5. Tended(i)' /\ (Coming(i) => Coming(i)')
      BY <1>2, <2>2, <2>3, <2>4 DEF Tended, Coming
    <2> QED BY <1>0, <1>1, <1>2, <1>3, <2>2, <2>3, <2>4, <2>5, OneTouched
  <1> QED BY <1>0, <1>5, <1>7, <1>8, <1>9, <1>10, <1>11, DeciderSteps

(* The steps that end a job, and the one after which it will only mirror. *)
LEMMA LastSteps ==
    ASSUME SlotsInv, RunnerStep
    PROVE  /\ job'.pc = "finally" =>
                  DecisionConsumed \/ SkipUndecided \/ SettlePersist \/ MarkFailed
           /\ job'.pc = "final_persist" => Settle /\ ~ GoesOn(job.inv)
  <1>1. CASE Start
    BY <1>1, GotoFields DEF Start, At, JobSteps
  <1>2. CASE Resume
    BY <1>2, GotoFields DEF Resume, At, JobSteps
  <1>3. CASE MarkRunning
    BY <1>3, GotoFields DEF MarkRunning, At, JobSteps
  <1>4. CASE SaveInput
    BY <1>4, GotoFields DEF SaveInput, RunsNode, At
  <1>5. CASE Investigate
    BY <1>5, GotoFields DEF Investigate, RunsNode, At, JobSteps
  <1>6. CASE CreateApproval
    BY <1>6, GotoFields DEF CreateApproval, RunsNode, At, JobSteps
  <1>7. CASE SaveAwaiting
    BY <1>7, GotoFields DEF SaveAwaiting, At, JobSteps
  <1>8. CASE Act
    BY <1>8, JobTypes DEF Act, RunsNode, At, JobSteps, RunningJobs
  <1>9. CASE SaveAct
    BY <1>9, JobTypes DEF SaveAct, At, JobSteps, RunningJobs
  <1>10. CASE Summarize
    BY <1>10, GotoFields DEF Summarize, RunsNode, At, JobSteps
  <1>11. CASE JobRaises
    BY <1>11, JobTypes DEF JobRaises, JobSteps, RunningJobs
  <1>12. CASE Mirror
    BY <1>12, GotoFields DEF Mirror, At, JobSteps
  <1>13. CASE DecisionConsumed
    BY <1>13, GotoFields DEF DecisionConsumed, At, JobSteps
  <1>14. CASE SkipUndecided
    BY <1>14, GotoFields DEF SkipUndecided, At, JobSteps
  <1>15. CASE Settle
    BY <1>15, GotoFields DEF Settle, At, JobSteps
  <1>16. CASE SettlePersist
    BY <1>16, GotoFields DEF SettlePersist, At, JobSteps
  <1>17. CASE MarkFailed
    BY <1>17, GotoFields DEF MarkFailed, At, JobSteps
  <1> QED BY <1>1, <1>2, <1>3, <1>4, <1>5, <1>6, <1>7, <1>8,
             <1>9, <1>10, <1>11, <1>12, <1>13, <1>14, <1>15, <1>16, <1>17 DEF RunnerStep

(* A job that ends leaves its investigation where a person expects it, or a
   decision it did not see is on its way. *)
LEMMA JobEnds ==
    ASSUME RunsInv, BegunOK, EndsOK, RunnerStep, Recorded, request' = request,
           job'.pc = "finally", NEW i \in Investigations, i = job.inv
    PROVE  Settled(i)' \/ Coming(i)'
  <1>0. SlotsInv /\ LocalsOK
    BY DEF RunsInv
  <1>1. i = job.inv
    OBVIOUS
  <1>2. /\ RunOK(i) /\ status \in [Investigations -> Statuses] /\ raises \in Nat
        /\ Current(i) \in Decisions \cup {"absent", "pending"}
    BY <1>0, <1>1, RunTypes, RunnerAssumption DEF RunsInv, RunsOK, SlotsInv, TypeOK, RunnerTypeOK
  <1>3. ASSUME Persist(i), UNCHANGED <<checkpoint, approvals>>,
               \/ checkpoint[i].next = "end"
               \/ AtInterrupt(i) /\ checkpoint[i].status = "failed"
               \/ AtInterrupt(i) /\ ~ Decided(i)
        PROVE  Settled(i)'
    <2>1. checkpoint[i].next # "none"
      BY <1>3 DEF AtInterrupt
    <2>2. status'[i] = checkpoint[i].status
      BY <1>2, <1>3, <2>1 DEF Persist
    <2>3. CASE checkpoint[i].next = "end"
      BY <1>2, <2>2, <2>3 DEF RunOK, Settled
    <2>4. CASE AtInterrupt(i) /\ checkpoint[i].status = "failed"
      BY <2>2, <2>4 DEF Settled
    <2>5. CASE AtInterrupt(i) /\ ~ Decided(i)
      <3>1. approvals[i][Round(i)] = "pending"
        BY <1>2, <2>5 DEF RunOK, AtInterrupt, Decided, Current
      <3>2. checkpoint[i].status \in {"awaiting_approval", "failed"}
        BY <1>2, <2>5 DEF RunOK, AtInterrupt
      <3> QED BY <1>3, <2>2, <2>5, <3>1, <3>2 DEF Settled, AtInterrupt, Round
    <2> QED BY <1>3, <2>3, <2>4, <2>5
  <1>4. CASE DecisionConsumed
    <2>1. checkpoint[i].next # "none"
      BY <1>1, <1>4 DEF DecisionConsumed, At, BegunOK, HasBegun
    <2>2. \/ checkpoint[i].next = "end"
          \/ AtInterrupt(i) /\ checkpoint[i].status = "failed"
      BY <1>1, <1>2, <1>4, <2>1 DEF DecisionConsumed, Consumed, RunOK, AtInterrupt
    <2> QED BY <1>1, <1>3, <1>4, <2>2 DEF DecisionConsumed
  <1>5. CASE SkipUndecided
    BY <1>1, <1>3, <1>5 DEF SkipUndecided
  <1>6. CASE SettlePersist
    <2>1. job.pc = "final_persist"
      BY <1>0, <1>6, GotoFields DEF SettlePersist, At, JobSteps
    <2>2. checkpoint[i].next \in {"act", "end"}
      BY <1>1, <2>1 DEF BegunOK
    <2>3. CASE GoesOn(i)
      <3>1. Coming(i)
        BY <1>1, <2>1, <2>3 DEF EndsOK
      <3>2. followUps' = followUps
        BY <1>6 DEF SettlePersist, InJob
      <3>3. Coming(i)'
        BY <3>1, <3>2 DEF Coming, Notifies, Handles, Inv
      <3> QED BY <3>3
    <2>4. CASE ~ GoesOn(i)
      <3>1. \/ checkpoint[i].next = "end"
            \/ AtInterrupt(i) /\ checkpoint[i].status = "failed"
            \/ AtInterrupt(i) /\ ~ Decided(i)
        BY <1>2, <2>2, <2>4 DEF GoesOn, AtInterrupt, RunOK
      <3>2. Settled(i)'
        BY <1>1, <1>3, <1>6, <3>1 DEF SettlePersist
      <3> QED BY <3>2
    <2> QED BY <2>3, <2>4
  <1>7. CASE MarkFailed
    <2>1. status' = [status EXCEPT ![i] = "failed"]
      BY <1>1, <1>2, <1>7 DEF MarkFailed, Recorded
    <2> QED BY <1>2, <2>1 DEF Settled
  <1> QED BY <1>0, <1>4, <1>5, <1>6, <1>7, LastSteps

(* A job's own steps: its investigation is tended to, and when the job ends, a
   decision it has not seen is on its way. *)
LEMMA RunnerForgets ==
    ASSUME ForgetInv, RunnerStep, Recorded, UNCHANGED <<request, deaths>>
    PROVE  EndsOK' /\ TendedOK'
  <1>0. RunsInv /\ SlotsInv /\ BegunOK /\ EndsOK /\ TendedOK
    BY DEF ForgetInv, RunsInv
  <1>1. /\ job.inv \in Investigations /\ job.inv \in active
        /\ job'.inv = job.inv
        /\ job.pc # "follow"
        /\ UNCHANGED <<active, followUps>>
        /\ \A k \in Investigations \ {job.inv} :
               status'[k] = status[k] /\ checkpoint'[k] = checkpoint[k]
               /\ approvals'[k] = approvals[k]
    BY <1>0, OwnRun
  <1>2. ASSUME NEW k \in Investigations
        PROVE  (Tended(k) \/ Settled(k))' \/ ~ (Tended(k) \/ Settled(k))
    <2>1. CASE k = job.inv
      BY <1>1, <2>1 DEF Tended
    <2>2. CASE k # job.inv
      <3>1. Settled(k)' <=> Settled(k)
        BY <1>1, <2>2 DEF Settled, AtInterrupt, Round
      <3>2. Tended(k) => Tended(k)'
        BY <1>1, <2>2 DEF Tended, Notifies, Submits, Handles, Inv
      <3> QED BY <3>1, <3>2
    <2> QED BY <2>1, <2>2
  <1>3. TendedOK'
    BY <1>0, <1>2 DEF TendedOK
  <1>4. ASSUME NEW i \in Investigations, i = job.inv
        PROVE  /\ job'.pc = "finally" => Settled(i)' \/ Coming(i)'
               /\ job'.pc = "final_persist" => ~ GoesOn(i)'
    <2>1. job'.pc = "finally" => Settled(i)' \/ Coming(i)'
      BY <1>0, <1>4, JobEnds
    <2>2. ASSUME job'.pc = "final_persist"
          PROVE  ~ GoesOn(i)'
      <3>1. Settle /\ ~ GoesOn(i)
        BY <1>0, <1>4, <2>2, LastSteps
      <3>2. UNCHANGED <<checkpoint, approvals>>
        BY <3>1 DEF Settle, runnerVars
      <3> QED BY <3>1, <3>2 DEF GoesOn, AtInterrupt, Decided, Round
    <2> QED BY <2>1, <2>2
  <1> QED BY <1>1, <1>3, <1>4 DEF EndsOK

(* The worker's steps: what leaves a slot is expected or still to be told. *)
LEMMA WorkerForgets ==
    ASSUME ForgetInv, TakeJob \/ EndJob \/ SubmitFollowUp,
           UNCHANGED runnerVars, UNCHANGED <<request, deaths>>
    PROVE  EndsOK' /\ TendedOK'
  <1>0. SlotsInv /\ EndsOK /\ TendedOK /\ UNCHANGED <<status, checkpoint, approvals>>
    BY DEF ForgetInv, RunsInv, runnerVars
  <1>1. job'.pc \notin {"finally", "final_persist"}
    <2>1. CASE TakeJob
      BY <2>1 DEF TakeJob
    <2>2. CASE EndJob
      <3>1. job \in RunningJobs
        BY <1>0, <2>2, JobTypes DEF EndJob, JobSteps
      <3> QED BY <2>2, <3>1 DEF EndJob, RunningJobs, NoJob
    <2>3. CASE SubmitFollowUp
      BY <2>3 DEF SubmitFollowUp, NoJob
    <2> QED BY <2>1, <2>2, <2>3
  <1>2. EndsOK'
    BY <1>1 DEF EndsOK
  <1>3. ASSUME NEW k \in Investigations
        PROVE  /\ Settled(k)' <=> Settled(k)
               /\ \A c \in Clients : /\ Notifies(c, k)' <=> Notifies(c, k)
                                     /\ Submits(c, k)' <=> Submits(c, k)
    BY <1>0 DEF Settled, AtInterrupt, Round, Notifies, Submits, Handles, Inv
  <1>4. ASSUME NEW k \in Investigations, Tended(k) \/ Settled(k)
        PROVE  Tended(k)' \/ Settled(k)'
    <2>1. CASE Settled(k) \/ \E c \in Clients : Notifies(c, k) \/ Submits(c, k)
      BY <1>3, <2>1 DEF Tended
    <2>2. CASE TakeJob /\ (k \in active \/ (job.inv = k /\ job.pc = "follow"))
      BY <2>2 DEF TakeJob, NoJob, Tended
    <2>3. CASE EndJob /\ (k \in active \/ (job.inv = k /\ job.pc = "follow"))
      <3>1. job \in RunningJobs /\ job.pc = "finally"
        BY <1>0, <2>3, JobTypes DEF EndJob, JobSteps
      <3>2. CASE k # job.inv
        BY <2>3, <3>1, <3>2 DEF EndJob, Tended
      <3>3. CASE k = job.inv /\ k \in followUps
        <4>1. job'.inv = k /\ job'.pc = "follow"
          BY <2>3, <3>1, <3>3 DEF EndJob, RunningJobs
        <4> QED BY <4>1 DEF Tended
      <3>4. CASE k = job.inv /\ k \notin followUps
        <4>1. Settled(k) \/ \E c \in Clients : Notifies(c, k)
          BY <1>0, <3>1, <3>4 DEF EndsOK, Coming
        <4> QED BY <1>3, <4>1 DEF Tended
      <3> QED BY <3>2, <3>3, <3>4
    <2>4. CASE SubmitFollowUp /\ (k \in active \/ (job.inv = k /\ job.pc = "follow"))
      <3>1. k \in active'
        BY <2>4 DEF SubmitFollowUp, Reserve, Free
      <3> QED BY <3>1 DEF Tended
    <2> QED BY <1>4, <2>1, <2>2, <2>3, <2>4 DEF Tended
  <1> QED BY <1>0, <1>2, <1>4 DEF TendedOK

(* A death leaves nobody to tell the worker anything. *)
LEMMA DeathForgets ==
    ASSUME ForgetInv, ProcessDies
    PROVE  BegunOK' /\ EndsOK' /\ TendedOK'
  <1>1. deaths \in Nat /\ deaths' = deaths + 1
    BY ServiceAssumption DEF ForgetInv, RunsInv, SlotsInv, TypeOK, ProcessDies
  <1>2. job'.pc = "idle" /\ queue' = << >> /\ followUps' = {}
    BY DEF ProcessDies, NoJob
  <1>3. \A c \in Clients : request'[c].pc \in {"new", "over"}
    BY DEF ProcessDies, NotMade
  <1>4. TendedOK'
    BY <1>1 DEF TendedOK
  <1>5. EndsOK'
    BY <1>2 DEF EndsOK
  <1>6. \A c \in Clients, i \in Investigations : ~ Notifies(c, i)' /\ ~ Submits(c, i)'
    BY <1>3 DEF Notifies, Submits, Handles
  <1>7. BegunOK'
    BY <1>2, <1>6 DEF BegunOK
  <1> QED BY <1>4, <1>5, <1>7

(* At the start nobody has been told anything. *)
LEMMA InitForgets ==
    Init => ForgetInv
  <1> SUFFICES ASSUME Init PROVE ForgetInv
    OBVIOUS
  <1>1. job.pc = "idle" /\ queue = << >> /\ followUps = {}
    BY DEF Init, WorkerInit, NoJob
  <1>2. \A c \in Clients : \A i : ~ Notifies(c, i) /\ ~ Submits(c, i)
    BY DEF Init, NotMade, Notifies, Submits, Handles
  <1>3. BegunOK
    BY <1>1, <1>2 DEF BegunOK
  <1>4. EndsOK
    BY <1>1 DEF EndsOK
  <1>5. TendedOK
    BY DEF Init, RunnerInit, TendedOK, Settled
  <1> QED BY <1>3, <1>4, <1>5, InitRuns DEF ForgetInv

(* Every step that gives no reservation back and loses no failure keeps it. *)
LEMMA NextForgets ==
    ForgetInv /\ NoneGivenBack /\ NoneGivenBack' /\ [Next]_vars /\ [Recorded]_vars => ForgetInv'
  <1> SUFFICES ASSUME ForgetInv, NoneGivenBack, NoneGivenBack', [Next]_vars, [Recorded]_vars
               PROVE  ForgetInv'
    OBVIOUS
  <1>0. RunsInv /\ BegunOK /\ EndsOK /\ TendedOK /\ RunsInv'
    BY NextRuns DEF ForgetInv
  <1>1. CASE UNCHANGED vars
    <2>1. /\ UNCHANGED <<active, followUps, queue, job, status, checkpoint, approvals>>
          /\ UNCHANGED <<request, deaths>>
      BY <1>1 DEF vars, workerVars, runnerVars, serviceVars
    <2>2. /\ \A i : /\ HasBegun(i)' <=> HasBegun(i)
                    /\ Settled(i)' <=> Settled(i)
                    /\ GoesOn(i)' <=> GoesOn(i)
          /\ \A c, i : /\ Notifies(c, i)' <=> Notifies(c, i)
                       /\ Submits(c, i)' <=> Submits(c, i)
      BY <2>1 DEF HasBegun, Settled, GoesOn, AtInterrupt, Decided, Round, Notifies, Submits,
                  Handles, Inv
    <2>3. \A i : (Tended(i)' <=> Tended(i)) /\ (Coming(i)' <=> Coming(i))
      BY <2>1, <2>2 DEF Tended, Coming
    <2>4. BegunOK'
      BY <1>0, <2>1, <2>2 DEF BegunOK
    <2>5. EndsOK' /\ TendedOK'
      BY <1>0, <2>1, <2>2, <2>3 DEF EndsOK, TendedOK
    <2> QED BY <1>0, <2>4, <2>5 DEF ForgetInv
  <1>2. CASE Thread /\ ~ UNCHANGED vars
    <2>1. UNCHANGED <<request, deaths>> /\ Recorded
      BY <1>2 DEF Thread, serviceVars
    <2>2. BegunOK'
      BY <1>0, <1>2, ThreadBegun
    <2>3. EndsOK' /\ TendedOK'
      BY <1>2, <2>1, RunnerForgets, WorkerForgets DEF Thread, ThreadStep
    <2> QED BY <1>0, <2>2, <2>3 DEF ForgetInv
  <1>3. ASSUME NEW c \in Clients, Call(c) \/ Handle(c) \/ TxFails(c)
        PROVE  ForgetInv'
    <2>1. BegunOK'
      BY <1>0, <1>3, HandlerBegun
    <2>2. EndsOK' /\ TendedOK'
      BY <1>0, <1>3, OtherHandlers, DeciderHandlers
    <2> QED BY <1>0, <2>1, <2>2 DEF ForgetInv
  <1>4. CASE ProcessDies
    BY <1>0, <1>4, DeathForgets DEF ForgetInv
  <1> QED BY <1>1, <1>2, <1>3, <1>4 DEF Next

(* As long as no reservation is given back (FollowUpStranded shows what happens then) and
   every failure is recorded, a slot, a handler or a follow-up stands behind
   every investigation that is not where a person expects it. *)
THEOREM ForgetInvariance ==
    Spec /\ []NoneGivenBack /\ [][Recorded]_vars => []ForgetInv
  BY InitForgets, NextForgets, PTL DEF Spec

(* No decision is forgotten between a handler that gives its resume to the
   worker and a job that is just ending (worker.py: resume_after_decision and
   the `finally` of _run; graph.py: _settle). *)
THEOREM NothingLost ==
    Spec /\ []NoneGivenBack /\ [][Recorded]_vars => []NothingForgotten
  <1>1. ForgetInv => NothingForgotten
    <2> SUFFICES ASSUME ForgetInv, deaths = 0, NEW i \in Investigations, AtRest(i)
                 PROVE  Settled(i)
      BY DEF NothingForgotten, Settled
    <2>1. ~ Tended(i)
      BY DEF AtRest, Tended, Notifies, Submits
    <2> QED BY <2>1 DEF ForgetInv, TendedOK
  <1> QED BY <1>1, ForgetInvariance, PTL

------------------------------------------------------------------------------
(* The service implements the gate. The run's current proposal is the only one *)
(* that is not yet refused, which is what the gate asks of a new proposal; a   *)
(* row is written once before its decision and once by it; and a run comes to  *)
(* its summary with what was approved executed.                                *)

(* The runs that are over. *)
ClosedRuns == {i \in Investigations : checkpoint[i].next = "end"}

(* Every proposal but the current one is refused, or not made yet. *)
LEMMA OthersSettled ==
    ASSUME SlotsInv, RunsOK, NEW i \in Investigations, NEW n \in Rounds, n # Round(i)
    PROVE  approvals[i][n] \in {"absent", "rejected"}
  <1>1. n \in Nat /\ Round(i) \in Nat
    BY RunTypes
  <1>2. n < Round(i) \/ n > Round(i)
    BY <1>1
  <1> QED BY <1>2 DEF RunsOK, RunOK

(* A checkpoint that neither leaves nor reaches the end closes no run. *)
LEMMA NoneCloses ==
    ASSUME SlotsInv, NEW i \in Investigations, NEW next, NEW st, NEW n, Save(i, next, st, n),
           next # "end", checkpoint[i].next # "end"
    PROVE  ClosedRuns' = ClosedRuns
  BY Saved DEF ClosedRuns

(* The gate is idle when the rows, the executions and the closed runs stay. *)
LEMMA GateIdles ==
    ASSUME UNCHANGED <<approvals, executed>>, ClosedRuns' = ClosedRuns
    PROVE  UNCHANGED Gate!vars
  BY DEF Gate!vars, ClosedRuns

(* Everything a job does but asking, acting and closing is outside the gate. *)
LEMMA JobIdles ==
    ASSUME RunsInv, RunnerStep, ~ CreateApproval, ~ Act, ~ Summarize
    PROVE  UNCHANGED Gate!vars
  <1>0. SlotsInv /\ RunsOK /\ LocalsOK
    BY DEF RunsInv
  <1>1. UNCHANGED <<approvals, executed>>
    BY DEF RunnerStep, Start, DecisionConsumed, SkipUndecided, Resume, MarkRunning, SaveInput,
           Investigate, SaveAwaiting, SaveAct, JobRaises, Mirror, Settle, SettlePersist,
           MarkFailed, runnerVars
  <1>2. CASE SaveInput \/ Investigate \/ SaveAwaiting \/ SaveAct
    <2>1. job.inv \in Investigations
      BY <1>0, <1>2, JobTypes
      DEF SaveInput, Investigate, SaveAwaiting, SaveAct, RunsNode, At, JobSteps
    <2>2. checkpoint[job.inv].next # "end"
      BY <1>0, <1>2 DEF SaveInput, Investigate, SaveAwaiting, SaveAct, RunsNode, At, LocalsOK,
                        AtInterrupt
    <2>3. PICK next, st, n : Save(job.inv, next, st, n) /\ next # "end"
      BY <1>2 DEF SaveInput, Investigate, SaveAwaiting, SaveAct, AfterFailure
    <2>4. ClosedRuns' = ClosedRuns
      BY <1>0, <2>1, <2>2, <2>3, NoneCloses
    <2> QED BY <1>1, <2>4, GateIdles
  <1>3. ASSUME ~ (SaveInput \/ Investigate \/ SaveAwaiting \/ SaveAct)
        PROVE  checkpoint' = checkpoint
    BY <1>3
    DEF RunnerStep, Start, DecisionConsumed, SkipUndecided, Resume, MarkRunning, JobRaises,
        Mirror, Settle, SettlePersist, MarkFailed, runnerVars
  <1>4. CASE checkpoint' = checkpoint
    <2>1. ClosedRuns' = ClosedRuns
      BY <1>4 DEF ClosedRuns
    <2> QED BY <1>1, <2>1, GateIdles
  <1> QED BY <1>2, <1>3, <1>4

(* await_approval asks, or finds that it has asked. *)
LEMMA CreationAsks ==
    ASSUME RunsInv, CreateApproval
    PROVE  Gate!Next \/ UNCHANGED Gate!vars
  <1> PICK i \in Investigations : i = job.inv
    BY JobTypes DEF RunsInv, CreateApproval, RunsNode, At, JobSteps
  <1>0. /\ SlotsInv /\ RunsOK /\ Round(i) \in Rounds
        /\ checkpoint[i].next = "await_approval"
        /\ UNCHANGED <<checkpoint, executed>>
        /\ approvals' = [approvals EXCEPT ![i][Round(i)] = Fresh(i, Round(i))]
    BY RunTypes DEF RunsInv, CreateApproval, RunsNode
  <1>1. ClosedRuns' = ClosedRuns /\ i \notin ClosedRuns
    BY <1>0 DEF ClosedRuns
  <1>2. CASE approvals[i][Round(i)] = "absent"
    <2>1. approvals' = [approvals EXCEPT ![i][Round(i)] = "pending"]
      BY <1>0, <1>2 DEF Fresh
    <2>2. Gate!Alone(i, Round(i))
      BY <1>0, OthersSettled DEF Gate!Alone
    <2>3. Gate!Propose(i, Round(i))
      BY <1>0, <1>1, <1>2, <2>1, <2>2 DEF Gate!Propose, ClosedRuns
    <2> QED BY <1>0, <2>3 DEF Gate!Next
  <1>3. CASE approvals[i][Round(i)] # "absent"
    <2>1. approvals' = [approvals EXCEPT ![i][Round(i)] = approvals[i][Round(i)]]
      BY <1>0, <1>3 DEF Fresh
    <2>2. approvals \in [Investigations -> [Rounds -> Decisions \cup {"absent", "pending"}]]
      BY <1>0 DEF SlotsInv, TypeOK, RunnerTypeOK
    <2>3. approvals' = approvals
      BY <2>1, <2>2
    <2> QED BY <1>0, <1>1, <2>3, GateIdles
  <1> QED BY <1>2, <1>3

(* `act` carries out what was approved, or finds that it has, or does nothing. *)
LEMMA ActCarriesOut ==
    ASSUME RunsInv, Act
    PROVE  Gate!Next \/ UNCHANGED Gate!vars
  <1> PICK i \in Investigations : i = job.inv
    BY JobTypes DEF RunsInv, Act, RunsNode, At, JobSteps
  <1>0. /\ SlotsInv /\ RunsOK /\ Round(i) \in Rounds /\ checkpoint[i].next = "act"
        /\ executed \in [Investigations -> SUBSET Rounds]
        /\ UNCHANGED <<checkpoint, approvals>>
    BY RunTypes DEF RunsInv, Act, RunsNode, SlotsInv, TypeOK, RunnerTypeOK
  <1>1. PICK result \in ActOutcomes(i) :
            executed' = [executed EXCEPT ![i] =
                            IF result = "executed" THEN @ \cup {Round(i)} ELSE @]
    BY DEF Act
  <1>2. ClosedRuns' = ClosedRuns /\ i \notin ClosedRuns
    BY <1>0 DEF ClosedRuns
  <1>3. CASE result = "executed" /\ Round(i) \notin executed[i]
    <2>1. approvals[i][Round(i)] = "approved"
      BY <1>3 DEF ActOutcomes
    <2>2. executed' = [executed EXCEPT ![i] = @ \cup {Round(i)}]
      BY <1>1, <1>3
    <2>3. Gate!CarryOut(i, Round(i))
      BY <1>0, <1>2, <1>3, <2>1, <2>2 DEF Gate!CarryOut, ClosedRuns
    <2> QED BY <1>0, <2>3 DEF Gate!Next
  <1>4. CASE result # "executed" \/ Round(i) \in executed[i]
    <2>1. executed' = executed
      BY <1>0, <1>1, <1>4
    <2> QED BY <1>0, <1>2, <2>1, GateIdles
  <1> QED BY <1>3, <1>4

(* summarize closes a run with nothing left to do. *)
LEMMA SummaryCloses ==
    ASSUME RunsInv, Summarize
    PROVE  Gate!Next
  <1> PICK i \in Investigations : i = job.inv
    BY JobTypes DEF RunsInv, Summarize, RunsNode, At, JobSteps
  <1>0. /\ SlotsInv /\ RunsOK /\ checkpoint[i].next = "summarize"
        /\ UNCHANGED <<approvals, executed>>
    BY DEF RunsInv, Summarize, RunsNode
  <1>1. PICK st, n : Save(i, "end", st, n)
    BY DEF Summarize
  <1>2. ClosedRuns' = ClosedRuns \cup {i} /\ i \notin ClosedRuns
    BY <1>0, <1>1, Saved DEF ClosedRuns
  <1>3. \A m \in Rounds : Gate!Finished(i, m)
    <2> SUFFICES ASSUME NEW m \in Rounds PROVE Gate!Finished(i, m)
      OBVIOUS
    <2>1. CASE m = Round(i)
      BY <1>0, <2>1 DEF Gate!Finished, RunsOK, RunOK, Current
    <2>2. CASE m # Round(i)
      BY <1>0, <2>2, OthersSettled DEF Gate!Finished
    <2> QED BY <2>1, <2>2
  <1>4. Gate!Close(i)
    BY <1>0, <1>2, <1>3 DEF Gate!Close, ClosedRuns
  <1> QED BY <1>4 DEF Gate!Next

(* The commit of a decision answers the one proposal that is pending. *)
LEMMA CommitAnswers ==
    ASSUME RunsInv, NEW c \in Clients, DecideCommit(c)
    PROVE  Gate!Next \/ UNCHANGED Gate!vars
  <1>1. /\ request[c].inv \in Investigations /\ request[c].round \in Rounds
        /\ UNCHANGED <<checkpoint, executed>>
    BY DEF RunsInv, SlotsInv, RequestsOK, DecideCommit, Handles, RunsIdle
  <1>2. ClosedRuns' = ClosedRuns
    BY <1>1 DEF ClosedRuns
  <1>3. CASE StillPending(c)
    <2>1. PICK d \in Decisions :
              approvals' = [approvals EXCEPT ![request[c].inv][request[c].round] = d]
      BY <1>3 DEF DecideCommit, Inv
    <2>2. approvals[request[c].inv][request[c].round] = "pending"
      BY <1>3 DEF StillPending, Pending, Inv
    <2>3. Gate!Decide(request[c].inv, request[c].round)
      BY <1>1, <1>2, <2>1, <2>2 DEF Gate!Decide, ClosedRuns, Decisions
    <2> QED BY <1>1, <2>3 DEF Gate!Next
  <1>4. CASE ~ StillPending(c)
    <2>1. approvals' = approvals
      BY <1>4 DEF DecideCommit
    <2> QED BY <1>1, <1>2, <2>1, GateIdles
  <1> QED BY <1>3, <1>4

(* Every step of the service is a step of the gate, or outside it. *)
LEMMA GateStep ==
    RunsInv /\ [Next]_vars => [Gate!Next]_(Gate!vars)
  <1> SUFFICES ASSUME RunsInv, [Next]_vars
               PROVE  Gate!Next \/ UNCHANGED Gate!vars
    OBVIOUS
  <1>1. CASE Thread
    <2>1. CASE RunnerStep
      BY <2>1, JobIdles, CreationAsks, ActCarriesOut, SummaryCloses
    <2>2. CASE UNCHANGED runnerVars
      BY <2>2, GateIdles DEF runnerVars, ClosedRuns
    <2> QED BY <1>1, <2>1, <2>2 DEF Thread, ThreadStep
  <1>2. ASSUME NEW c \in Clients, Call(c) \/ Handle(c) \/ TxFails(c)
        PROVE  Gate!Next \/ UNCHANGED Gate!vars
    <2>1. /\ UNCHANGED <<checkpoint, executed>>
          /\ DecideCommit(c) \/ approvals' = approvals
      BY <1>2, HandlerEffect DEF RunsInv
    <2>2. CASE approvals' = approvals
      BY <2>1, <2>2, GateIdles DEF ClosedRuns
    <2> QED BY <2>1, <2>2, CommitAnswers
  <1>3. CASE ProcessDies \/ UNCHANGED vars
    <2>1. UNCHANGED <<checkpoint, approvals, executed>>
      BY <1>3 DEF ProcessDies, vars, runnerVars
    <2> QED BY <2>1, GateIdles DEF ClosedRuns
  <1> QED BY <1>1, <1>2, <1>3 DEF Next

(* No run has been asked about, acted or ended at first. *)
LEMMA GateInit ==
    Init => Gate!Init
  <1> SUFFICES ASSUME Init PROVE Gate!Init
    OBVIOUS
  <1>1. \A i \in Investigations : checkpoint[i].next = "none"
    BY DEF Init, RunnerInit, NoCheckpoint
  <1> QED BY <1>1 DEF Init, RunnerInit, Gate!Init

(* The service, with the jobs of its thread, the handlers that decide, crashes
   and retries, is a gate between proposals and actions. *)
THEOREM ServiceRefinement ==
    Spec => ImplementsDecisionGate
  <1>1. Spec => Gate!Spec
    BY GateInit, GateStep, RunsInvariance, PTL DEF Spec, Gate!Spec
  <1> QED BY <1>1 DEF ImplementsDecisionGate

------------------------------------------------------------------------------
(* What the gate promises holds of the service because it implements the gate. *)

(* The values of the gate's variables, and its promises, which are inductive. *)
GateTypeOK ==
    /\ approvals \in [Investigations -> [Rounds -> {"absent", "pending", "approved", "rejected"}]]
    /\ executed \in [Investigations -> SUBSET Rounds]

GateInv == GateTypeOK /\ Gate!Kept

(* The gate opens with nothing asked. *)
LEMMA GateInitKept ==
    Gate!Init => GateInv
  BY DEF Gate!Init, GateInv, GateTypeOK, Gate!Kept, Gate!OnlyOnApproval, Gate!OneAction,
         Gate!ClosedIsFinished

(* Asking: every other proposal was refused or not made. *)
LEMMA ProposeKept ==
    ASSUME GateInv, NEW i \in Investigations, NEW n \in Rounds, Gate!Propose(i, n)
    PROVE  GateInv'
  <1>1. /\ GateTypeOK /\ i \notin ClosedRuns /\ approvals[i][n] = "absent"
        /\ approvals' = [approvals EXCEPT ![i][n] = "pending"]
        /\ executed' = executed /\ ClosedRuns' = ClosedRuns
        /\ \A m \in Rounds \ {n} : approvals[i][m] \in {"absent", "rejected"}
    BY DEF GateInv, Gate!Propose, Gate!Alone, ClosedRuns
  <1>2. /\ approvals'[i][n] = "pending"
        /\ \A m \in Rounds : m # n => approvals'[i][m] = approvals[i][m]
        /\ \A k \in Investigations : k # i => approvals'[k] = approvals[k]
    BY <1>1 DEF GateTypeOK
  <1>3. GateTypeOK'
    BY <1>1 DEF GateTypeOK
  <1>4. Gate!OnlyOnApproval'
    BY <1>1, <1>2 DEF GateInv, Gate!Kept, Gate!OnlyOnApproval
  <1>5. Gate!OneAction'
    BY <1>1, <1>2 DEF GateInv, Gate!Kept, Gate!OneAction
  <1>6. Gate!ClosedIsFinished'
    BY <1>1, <1>2 DEF GateInv, Gate!Kept, Gate!ClosedIsFinished, Gate!Finished, ClosedRuns
  <1> QED BY <1>3, <1>4, <1>5, <1>6 DEF GateInv, Gate!Kept

(* Answering: a run that is over has nothing pending to answer. *)
LEMMA DecideKept ==
    ASSUME GateInv, NEW i \in Investigations, NEW n \in Rounds, Gate!Decide(i, n)
    PROVE  GateInv'
  <1>1. PICK d \in {"approved", "rejected"} : approvals' = [approvals EXCEPT ![i][n] = d]
    BY DEF Gate!Decide
  <1>2. /\ GateTypeOK /\ approvals[i][n] = "pending"
        /\ executed' = executed /\ ClosedRuns' = ClosedRuns
    BY DEF GateInv, Gate!Decide, ClosedRuns
  <1>3. /\ approvals'[i][n] = d
        /\ \A m \in Rounds : m # n => approvals'[i][m] = approvals[i][m]
        /\ \A k \in Investigations : k # i => approvals'[k] = approvals[k]
    BY <1>1, <1>2 DEF GateTypeOK
  <1>4. GateTypeOK'
    BY <1>1, <1>2 DEF GateTypeOK
  <1>5. Gate!OnlyOnApproval'
    BY <1>2, <1>3 DEF GateInv, Gate!Kept, Gate!OnlyOnApproval
  <1>6. Gate!OneAction'
    BY <1>2, <1>3 DEF GateInv, Gate!Kept, Gate!OneAction
  <1>7. Gate!ClosedIsFinished'
    BY <1>2, <1>3 DEF GateInv, Gate!Kept, Gate!ClosedIsFinished, Gate!Finished, ClosedRuns
  <1> QED BY <1>4, <1>5, <1>6, <1>7 DEF GateInv, Gate!Kept

(* Carrying out, and closing. *)
LEMMA OutcomeKept ==
    ASSUME GateInv, NEW i \in Investigations,
           Gate!Close(i) \/ \E n \in Rounds : Gate!CarryOut(i, n)
    PROVE  GateInv'
  <1>1. CASE Gate!Close(i)
    BY <1>1 DEF GateInv, GateTypeOK, Gate!Close, Gate!Kept, Gate!OnlyOnApproval, Gate!OneAction,
                Gate!ClosedIsFinished, Gate!Finished
  <1>2. ASSUME NEW n \in Rounds, Gate!CarryOut(i, n)
        PROVE  GateInv'
    <2>1. /\ GateTypeOK /\ approvals[i][n] = "approved"
          /\ approvals' = approvals /\ ClosedRuns' = ClosedRuns
          /\ executed' = [executed EXCEPT ![i] = @ \cup {n}]
      BY <1>2 DEF GateInv, Gate!CarryOut, ClosedRuns
    <2>2. /\ executed'[i] = executed[i] \cup {n}
          /\ \A k \in Investigations : k # i => executed'[k] = executed[k]
          /\ GateTypeOK'
      BY <2>1 DEF GateTypeOK
    <2>3. Gate!OnlyOnApproval' /\ Gate!OneAction'
      BY <2>1, <2>2 DEF GateInv, Gate!Kept, Gate!OnlyOnApproval, Gate!OneAction
    <2>4. Gate!ClosedIsFinished'
      BY <2>1, <2>2 DEF GateInv, Gate!Kept, Gate!ClosedIsFinished, Gate!Finished, ClosedRuns
    <2> QED BY <2>2, <2>3, <2>4 DEF GateInv, Gate!Kept
  <1> QED BY <1>1, <1>2

(* So the gate keeps its promises. *)
LEMMA GateKeeps ==
    Gate!Spec => []Gate!Kept
  <1>1. GateInv /\ [Gate!Next]_(Gate!vars) => GateInv'
    <2> SUFFICES ASSUME GateInv, [Gate!Next]_(Gate!vars) PROVE GateInv'
      OBVIOUS
    <2>1. CASE UNCHANGED Gate!vars
      BY <2>1 DEF Gate!vars, GateInv, GateTypeOK, Gate!Kept, Gate!OnlyOnApproval,
                  Gate!OneAction, Gate!ClosedIsFinished, Gate!Finished
    <2>2. CASE Gate!Next
      BY <2>2, ProposeKept, DecideKept, OutcomeKept DEF Gate!Next
    <2> QED BY <2>1, <2>2
  <1>2. GateInv => Gate!Kept
    BY DEF GateInv
  <1> QED BY <1>1, <1>2, GateInitKept, PTL DEF Gate!Spec

(* An investigation acts only on an approval, has at no time two proposals that
   wait or were approved, so that it acts at most once, and stays answered and
   done when its run is over: late decisions, resumes and retries included
   (nodes.py: await_approval, act; approvals.py:102). *)
THEOREM ServiceKeepsTheGate ==
    Spec => []Gate!Kept
  BY ServiceRefinement, GateKeeps, PTL DEF ImplementsDecisionGate
=============================================================================
