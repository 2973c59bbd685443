--------------------------- MODULE AgentLoopProofs ---------------------------
(***************************************************************************)
(* Proofs about AgentLoop for every set of services, every cap on the      *)
(* iterations, every number of retries and of deaths.                      *)
(*                                                                         *)
(* The argument: the way to `plan` is open only below the cap (CapOK), so  *)
(* each round of the loop uses up an iteration and every other node comes  *)
(* before a later one; and the records only grow, so that what was seen on *)
(* a service when an action on it was proposed stays seen (GateOK).  The   *)
(* attempts of a tool reach the records together, once they have come to   *)
(* their end (BatchOK, EndedOK), and their rows one by one, each being the *)
(* first that is missing (RowsOK).                                         *)
(***************************************************************************)
EXTENDS AgentLoop, FiniteSetTheorems, TLAPS

(* The iterations counted when each node is next. *)
CapOK ==
    /\ checkpoint.next \in {"intake", "retrieve", "plan"} =>
           checkpoint.iteration < MaxIterations
    /\ checkpoint.next \notin {"intake", "retrieve", "plan", "summarize", "end"} =>
           checkpoint.iteration >= 1

(* The job's locals fit the node it is running. *)
JobOK ==
    /\ job.pc = "created" => checkpoint.next = "await_approval"
    /\ job.pc = "insert" => job.row >= 1
    /\ Len(job.batch) <= MaxRetries
    /\ checkpoint.next = "execute_tool" => checkpoint.planned \in Services

(* An action on its way to a human names a service seen abnormal. *)
GateOK ==
    checkpoint.next \in {"await_approval", "act"} =>
        checkpoint.proposal \in Services /\ Abnormal(checkpoint.proposal)

Inv == TypeOK /\ CapOK /\ JobOK /\ GateOK /\ AskedOnEvidence

------------------------------------------------------------------------------
(* The records after a batch was added to them. *)
LEMMA BatchAdds ==
    ASSUME NEW calls \in Seq(Calls), NEW batch \in Seq(Calls)
    PROVE  /\ calls \o batch \in Seq(Calls)
           /\ \A n \in DOMAIN calls :
                  n \in DOMAIN (calls \o batch) /\ (calls \o batch)[n] = calls[n]
  OBVIOUS

(* The records only grow. *)
CallsKept ==
    \A n \in DOMAIN checkpoint.calls :
        /\ n \in DOMAIN checkpoint'.calls
        /\ checkpoint'.calls[n] = checkpoint.calls[n]

(* What was seen stays seen. *)
LEMMA AbnormalStays ==
    ASSUME CallsKept, NEW s, Abnormal(s)
    PROVE  Abnormal(s)'
  BY DEF Abnormal, CallsKept

(* While an action is on its way to a human, its approval id is an id. *)
LEMMA ApprovalIdType ==
    ASSUME TypeOK, CapOK, GateOK, checkpoint.next \in {"await_approval", "act"}
    PROVE  ApprovalId \in Ids /\ ApprovalId[2] = checkpoint.proposal
  <1>1. checkpoint.iteration \in 1 .. MaxIterations
    BY LoopAssumption DEF TypeOK, CapOK, Checkpoints
  <1>2. checkpoint.proposal \in Services
    BY DEF GateOK
  <1> QED BY <1>1, <1>2 DEF ApprovalId, Ids

Jobs == [pc : JobSteps, batch : Seq(Calls), row : Nat]

(* A job about to run a node, or to do another thing, without records. *)
LEMMA RunningType ==
    ASSUME NEW pc \in JobSteps
    PROVE  /\ [Running EXCEPT !.pc = pc] \in Jobs
           /\ [Running EXCEPT !.pc = pc].pc = pc
           /\ Len([Running EXCEPT !.pc = pc].batch) = 0
  <1>1. << >> \in Seq(Calls) /\ Len(<< >>) = 0
    OBVIOUS
  <1>2. [Running EXCEPT !.pc = pc] = [pc |-> pc, batch |-> << >>, row |-> 0]
    BY DEF Running
  <1>3. [pc |-> pc, batch |-> << >>, row |-> 0] \in Jobs
    BY <1>1 DEF Jobs
  <1>4. [pc |-> pc, batch |-> << >>, row |-> 0].batch = << >>
    OBVIOUS
  <1>5. [pc |-> pc, batch |-> << >>, row |-> 0].pc = pc
    OBVIOUS
  <1> QED BY <1>1, <1>2, <1>3, <1>4, <1>5, Zenon

(* The job that mirrors the calls starts with an empty batch. *)
LEMMA MirrorsType ==
    ASSUME Mirrors
    PROVE  job' \in Jobs /\ job'.pc = "count" /\ Len(job'.batch) = 0
  BY RunningType DEF Mirrors, JobSteps

(* A node that saves a well-formed checkpoint and asks nobody keeps the
   invariant. *)
LEMMA NodeSaves ==
    ASSUME Inv, Mirrors, UNCHANGED <<rows, approvals, deaths>>,
           returned' \in [Ids -> Nat], checkpoint' \in Checkpoints, CallsKept,
           CapOK', GateOK',
           checkpoint'.next = "execute_tool" => checkpoint'.planned \in Services
    PROVE  Inv'
  <1>1. job' \in Jobs /\ job'.pc = "count" /\ Len(job'.batch) = 0
    BY MirrorsType
  <1>2. TypeOK'
    BY <1>1 DEF Inv, TypeOK, Jobs
  <1>3. JobOK'
    BY <1>1, LoopAssumption DEF JobOK
  <1>4. AskedOnEvidence'
    BY AbnormalStays DEF Inv, AskedOnEvidence
  <1> QED BY <1>2, <1>3, <1>4 DEF Inv

(* A step inside the job leaves the checkpoint's part of the invariant alone. *)
LEMMA JobMoves ==
    ASSUME Inv, UNCHANGED <<checkpoint, approvals, returned>>, rows' \in Seq(Calls),
           deaths' \in 0 .. MaxDeaths, job' \in Jobs, JobOK'
    PROVE  Inv'
  <1>1. TypeOK'
    BY DEF Inv, TypeOK, Jobs
  <1>2. CapOK' /\ GateOK' /\ AskedOnEvidence'
    BY DEF Inv, CapOK, GateOK, AskedOnEvidence, Abnormal
  <1> QED BY <1>1, <1>2 DEF Inv

------------------------------------------------------------------------------
(* The initial state satisfies the invariant. *)
THEOREM InitInv == Init => Inv
  <1> SUFFICES ASSUME Init PROVE Inv
    OBVIOUS
  <1> USE LoopAssumption DEF Init
  <1>1. TypeOK
    <2>1. << >> \in Seq(Calls)
      OBVIOUS
    <2>2. checkpoint \in Checkpoints
      BY <2>1 DEF Checkpoints, Nodes
    <2>3. job \in [pc : JobSteps, batch : Seq(Calls), row : Nat]
      BY <2>1 DEF Running, JobSteps
    <2>4. returned \in [Ids -> Nat] /\ approvals \in [Ids -> {"absent", "pending", "approved", "rejected"}]
      OBVIOUS
    <2> QED BY <2>1, <2>2, <2>3, <2>4 DEF TypeOK
  <1>2. CapOK
    BY DEF CapOK
  <1>3. JobOK
    BY DEF JobOK, Running
  <1>4. GateOK
    BY DEF GateOK
  <1>5. AskedOnEvidence
    BY DEF AskedOnEvidence
  <1> QED BY <1>1, <1>2, <1>3, <1>4, <1>5 DEF Inv

(* Every step keeps the invariant. *)
THEOREM StepInv == Inv /\ [Next]_vars => Inv'
  <1> SUFFICES ASSUME Inv, [Next]_vars PROVE Inv'
    OBVIOUS
  <1>0. /\ checkpoint \in Checkpoints /\ job \in Jobs /\ rows \in Seq(Calls)
        /\ returned \in [Ids -> Nat] /\ deaths \in 0 .. MaxDeaths
        /\ checkpoint.calls \in Seq(Calls) /\ checkpoint.iteration \in Int
        /\ CapOK /\ JobOK /\ GateOK
    BY DEF Inv, TypeOK, Jobs, Checkpoints
  <1>1. CASE Intake
    <2>1. checkpoint' \in Checkpoints /\ CallsKept
      BY <1>0, <1>1 DEF Intake, RunsNode, Checkpoints, Nodes, CallsKept
    <2>2. CapOK' /\ GateOK' /\ checkpoint'.next = "retrieve"
      BY <1>0, <1>1 DEF Intake, RunsNode, Checkpoints, CapOK, GateOK
    <2> QED BY <1>0, <1>1, <2>1, <2>2, NodeSaves DEF Intake, Pure
  <1>2. CASE Retrieve
    <2>1. checkpoint' \in Checkpoints /\ CallsKept
      BY <1>0, <1>2 DEF Retrieve, RunsNode, Checkpoints, Nodes, CallsKept
    <2>2. CapOK' /\ GateOK' /\ checkpoint'.next \in {"plan", "reflect"}
      BY <1>0, <1>2 DEF Retrieve, RunsNode, Checkpoints, CapOK, GateOK
    <2> QED BY <1>0, <1>2, <2>1, <2>2, NodeSaves DEF Retrieve, Pure
  <1>3. CASE Plan
    <2>1. PICK s \in Services :
              checkpoint' = [checkpoint EXCEPT !.next = "execute_tool", !.planned = s,
                                               !.iteration = Counted]
      BY <1>3 DEF Plan
    <2>2. checkpoint.next = "plan" /\ Counted \in 1 .. MaxIterations
      BY <1>0, <1>3, LoopAssumption DEF Plan, RunsNode, CapOK, Counted, Checkpoints
    <2>3. checkpoint' \in Checkpoints /\ CallsKept
      <3>1. Counted \in 0 .. MaxIterations
        BY <2>2
      <3>2. checkpoint' \in Checkpoints
        BY <1>0, <2>1, <3>1 DEF Checkpoints, Nodes
      <3>3. checkpoint'.calls = checkpoint.calls
        BY <1>0, <2>1 DEF Checkpoints
      <3> QED BY <3>2, <3>3 DEF CallsKept
    <2>4. CapOK' /\ GateOK' /\ checkpoint'.planned \in Services
      BY <1>0, <2>1, <2>2 DEF Checkpoints, CapOK, GateOK
    <2> QED BY <1>0, <1>3, <2>3, <2>4, NodeSaves DEF Plan, Pure
  <1>4. CASE Attempt
    <2>1. PICK result \in Results :
              job' = [job EXCEPT !.batch =
                  Append(@, [service |-> checkpoint.planned,
                             attempt |-> Len(@) + 1, status |-> result])]
      BY <1>4 DEF Attempt
    <2> DEFINE call == [service |-> checkpoint.planned,
                        attempt |-> Len(job.batch) + 1, status |-> result]
    <2>2. job.batch \in Seq(Calls) /\ Len(job.batch) \in Nat /\ Len(job.batch) <= MaxRetries
      BY <1>0 DEF Jobs, JobOK
    <2>3. Len(job.batch) + 1 \in 1 .. MaxRetries
      <3>1. CASE job.batch = << >>
        BY <3>1, LoopAssumption
      <3>2. CASE job.batch # << >>
        BY <1>4, <2>2, <3>2, LoopAssumption DEF Attempt, BatchDone
      <3> QED BY <3>1, <3>2
    <2>4. call \in Calls
      BY <1>0, <1>4, <2>3 DEF Attempt, RunsNode, JobOK, Calls
    <2>5. Append(job.batch, call) \in Seq(Calls)
              /\ Len(Append(job.batch, call)) = Len(job.batch) + 1
      BY <2>2, <2>4
    <2>6. job' = [job EXCEPT !.batch = Append(job.batch, call)]
      BY <2>1
    <2> HIDE DEF call
    <2>7. job' \in Jobs /\ Len(job'.batch) <= MaxRetries /\ job'.pc = "node"
      <3>1. job \in Jobs /\ job.pc = "node"
        BY <1>0, <1>4 DEF Attempt, RunsNode
      <3>2. job' \in Jobs
        BY <2>5, <2>6, <3>1 DEF Jobs
      <3>3. job'.batch = Append(job.batch, call) /\ job'.pc = "node"
        BY <2>6, <3>1 DEF Jobs
      <3> QED BY <2>3, <2>5, <3>2, <3>3
    <2>8. JobOK'
      BY <1>0, <1>4, <2>7 DEF JobOK, Attempt
    <2> QED BY <1>0, <1>4, <2>7, <2>8, JobMoves DEF Attempt
  <1>5. CASE SaveCalls
    <2>1. job.batch \in Seq(Calls)
      BY <1>0 DEF Jobs
    <2>2. checkpoint' = [checkpoint EXCEPT !.next = "retrieve_again",
                                           !.calls = checkpoint.calls \o job.batch]
      BY <1>5 DEF SaveCalls
    <2>3. checkpoint'.calls = checkpoint.calls \o job.batch
              /\ checkpoint'.next = "retrieve_again"
              /\ checkpoint'.iteration = checkpoint.iteration
      BY <1>0, <2>2 DEF Checkpoints
    <2>4. checkpoint.calls \o job.batch \in Seq(Calls) /\ CallsKept
      <3>1. checkpoint.calls \in Seq(Calls)
        BY <1>0
      <3> QED BY <2>1, <2>3, <3>1, BatchAdds, Zenon DEF CallsKept
    <2>5. checkpoint' \in Checkpoints
      BY <1>0, <2>2, <2>4 DEF Checkpoints, Nodes
    <2>6. CapOK' /\ GateOK'
      BY <1>0, <1>5, <2>3 DEF SaveCalls, RunsNode, CapOK, GateOK
    <2> QED BY <1>0, <1>5, <2>3, <2>4, <2>5, <2>6, NodeSaves DEF SaveCalls, Pure
  <1>6. CASE Reflect
    <2>1. PICK again \in BOOLEAN :
              checkpoint' = [checkpoint EXCEPT !.again = again,
                                               !.next = RouteAfterReflect(again)]
      BY <1>6 DEF Reflect
    <2>2. RouteAfterReflect(again) \in {"plan", "propose"}
              /\ (RouteAfterReflect(again) = "plan" => checkpoint.iteration < MaxIterations)
      BY <1>0, LoopAssumption DEF RouteAfterReflect, Capped
    <2>3. checkpoint' \in Checkpoints /\ CallsKept
      BY <1>0, <2>1, <2>2 DEF Checkpoints, Nodes, CallsKept
    <2>4. CapOK' /\ GateOK' /\ checkpoint'.next \in {"plan", "propose"}
      BY <1>0, <1>6, <2>1, <2>2 DEF Reflect, RunsNode, Checkpoints, CapOK, GateOK
    <2> QED BY <1>0, <1>6, <2>3, <2>4, NodeSaves DEF Reflect, Pure
  <1>7. CASE Propose
    <2>1. PICK proposal \in Services \cup {None} :
              /\ proposal # None => Abnormal(proposal)
              /\ checkpoint' = [checkpoint EXCEPT
                     !.proposal = proposal,
                     !.next = IF proposal = None THEN "summarize" ELSE "await_approval"]
      BY <1>7, LoopAssumption DEF Propose, AfterRepair, Withheld
    <2>2. checkpoint' \in Checkpoints /\ CallsKept
      BY <1>0, <2>1 DEF Checkpoints, Nodes, CallsKept
    <2>3. CapOK' /\ checkpoint'.next \in {"summarize", "await_approval"}
      BY <1>0, <1>7, <2>1 DEF Propose, RunsNode, Checkpoints, CapOK
    <2>4. GateOK'
      BY <1>0, <2>1, <2>2, AbnormalStays DEF Checkpoints, GateOK
    <2> QED BY <1>0, <1>7, <2>2, <2>3, <2>4, NodeSaves DEF Propose, Pure
  <1>8. CASE CreateApproval
    <2>1. ApprovalId \in Ids /\ Abnormal(ApprovalId[2])
      BY <1>0, <1>8, ApprovalIdType DEF CreateApproval, RunsNode, Inv, GateOK
    <2>2. job' \in Jobs /\ job'.pc = "created" /\ job'.batch = job.batch
      BY <1>0, <1>8 DEF CreateApproval, Jobs, JobSteps
    <2>3. TypeOK'
      BY <1>8, <2>1, <2>2 DEF CreateApproval, Inv, TypeOK, Jobs
    <2>4. CapOK' /\ GateOK' /\ JobOK'
      BY <1>0, <1>8, <2>2 DEF CreateApproval, RunsNode, CapOK, GateOK, JobOK, Abnormal
    <2>5. \A id \in Ids : approvals'[id] # "absent" => approvals[id] # "absent" \/ id = ApprovalId
      BY <1>8, <2>1 DEF CreateApproval, Inv, TypeOK
    <2>6. AskedOnEvidence'
      BY <1>8, <2>1, <2>5 DEF CreateApproval, Inv, AskedOnEvidence, Abnormal
    <2> QED BY <2>3, <2>4, <2>6 DEF Inv
  <1>9. CASE SaveAwaiting
    <2>1. checkpoint.next = "await_approval"
      BY <1>0, <1>9 DEF SaveAwaiting, JobOK
    <2>2. checkpoint' \in Checkpoints /\ CallsKept
      BY <1>0, <1>9 DEF SaveAwaiting, Checkpoints, Nodes, CallsKept
    <2>3. CapOK' /\ checkpoint'.next = "act" /\ checkpoint'.proposal = checkpoint.proposal
      BY <1>0, <1>9, <2>1 DEF SaveAwaiting, Checkpoints, CapOK
    <2>4. GateOK'
      BY <1>0, <2>1, <2>2, <2>3, AbnormalStays DEF GateOK
    <2> QED BY <1>0, <1>9, <2>2, <2>3, <2>4, NodeSaves DEF SaveAwaiting, Pure
  <1>10. CASE ActRejected
    <2>1. ApprovalId \in Ids
      BY <1>0, <1>10, ApprovalIdType DEF ActRejected, RunsNode, Inv
    <2>2. returned' \in [Ids -> Nat]
      BY <1>0, <1>10, <2>1 DEF ActRejected
    <2>3. checkpoint' \in Checkpoints /\ CallsKept
      BY <1>0, <1>10 DEF ActRejected, Checkpoints, Nodes, CallsKept
    <2>4. CapOK' /\ GateOK' /\ checkpoint'.next \in {"plan", "summarize"}
      BY <1>0, <1>10 DEF ActRejected, CapAllowsPlan, Checkpoints, CapOK, GateOK
    <2> QED BY <1>0, <1>10, <2>2, <2>3, <2>4, NodeSaves DEF ActRejected
  <1>11. CASE ActApproved
    <2>1. checkpoint' \in Checkpoints /\ CallsKept
      BY <1>0, <1>11 DEF ActApproved, Checkpoints, Nodes, CallsKept
    <2>2. /\ CapOK' /\ checkpoint'.next \in {"summarize", "act"}
          /\ checkpoint'.proposal = checkpoint.proposal
      BY <1>0, <1>11 DEF ActApproved, RunsNode, Checkpoints, CapOK
    <2>3. GateOK'
      BY <1>0, <1>11, <2>1, <2>2, AbnormalStays DEF ActApproved, RunsNode, GateOK
    <2> QED BY <1>0, <1>11, <2>1, <2>2, <2>3, NodeSaves DEF ActApproved, Pure
  <1>12. CASE Summarize
    <2>1. checkpoint' \in Checkpoints /\ CallsKept
      BY <1>0, <1>12 DEF Summarize, Checkpoints, Nodes, CallsKept
    <2>2. CapOK' /\ GateOK' /\ checkpoint'.next = "end"
      BY <1>0, <1>12 DEF Summarize, RunsNode, Checkpoints, CapOK, GateOK
    <2> QED BY <1>0, <1>12, <2>1, <2>2, NodeSaves DEF Summarize, Pure
  <1>13. CASE Count
    <2>1. Len(rows) + 1 \in Nat /\ Len(rows) + 1 >= 1
      BY <1>0
    <2>2. job' \in Jobs /\ job'.pc = "insert" /\ job'.row >= 1 /\ job'.batch = job.batch
      BY <1>0, <1>13, <2>1 DEF Count, FirstMissing, Jobs, JobSteps
    <2>3. JobOK'
      BY <1>0, <1>13, <2>2 DEF Count, JobOK
    <2> QED BY <1>0, <1>13, <2>2, <2>3, JobMoves DEF Count
  <1>14. CASE Insert
    <2>1. job.row \in 1 .. Len(checkpoint.calls)
      BY <1>0, <1>14 DEF Insert, JobOK, Jobs
    <2>2. rows' \in Seq(Calls)
      BY <1>0, <1>14, <2>1 DEF Insert
    <2>3. job' \in Jobs /\ job'.pc = job.pc /\ job'.row >= 1 /\ job'.batch = job.batch
      <3>1. job \in Jobs /\ job.row + 1 \in Nat /\ job.row + 1 >= 1
        BY <1>0, <2>1
      <3>2. job' = [job EXCEPT !.row = job.row + 1]
        BY <1>14 DEF Insert
      <3> QED BY <3>1, <3>2 DEF Jobs
    <2>4. JobOK'
      BY <1>0, <1>14, <2>3 DEF Insert, JobOK
    <2> QED BY <1>0, <1>14, <2>2, <2>3, <2>4, JobMoves DEF Insert
  <1>15. CASE Mirrored
    <2>1. job' \in Jobs /\ job'.pc \in {"settled", "node"} /\ Len(job'.batch) = 0
      BY <1>15, RunningType DEF Mirrored, JobSteps
    <2>2. JobOK'
      BY <1>0, <1>15, <2>1, LoopAssumption DEF Mirrored, JobOK
    <2> QED BY <1>0, <1>15, <2>1, <2>2, JobMoves DEF Mirrored
  <1>16. CASE Die
    <2>1. job' \in Jobs /\ job'.pc = "dead" /\ Len(job'.batch) = 0
      BY <1>16, RunningType DEF Die, JobSteps
    <2>2. JobOK' /\ deaths' \in 0 .. MaxDeaths
      BY <1>0, <1>16, <2>1, LoopAssumption DEF Die, JobOK
    <2> QED BY <1>0, <1>16, <2>1, <2>2, JobMoves DEF Die
  <1>17. CASE Resume
    <2>1. job' \in Jobs /\ job'.pc = "node" /\ Len(job'.batch) = 0
      BY <1>17, RunningType DEF Resume, JobSteps, Running
    <2>2. JobOK'
      BY <1>0, <1>17, <2>1, LoopAssumption DEF Resume, JobOK
    <2> QED BY <1>0, <1>17, <2>1, <2>2, JobMoves DEF Resume
  <1>18. ASSUME NEW id \in Ids, Decide(id) PROVE Inv'
    <2>1. TypeOK'
      BY <1>18 DEF Decide, Inv, TypeOK
    <2>2. CapOK' /\ GateOK' /\ JobOK'
      BY <1>0, <1>18 DEF Decide, CapOK, GateOK, JobOK, Abnormal
    <2>3. \A k \in Ids : approvals'[k] # "absent" => approvals[k] # "absent"
      BY <1>18 DEF Decide, Inv, TypeOK
    <2>4. AskedOnEvidence'
      BY <1>18, <2>3 DEF Decide, Inv, AskedOnEvidence, Abnormal
    <2> QED BY <2>1, <2>2, <2>4 DEF Inv
  <1>19. CASE PersistAgain
    <2>1. job' \in Jobs /\ job'.pc = "count" /\ Len(job'.batch) = 0
      BY <1>19, MirrorsType DEF PersistAgain
    <2>2. JobOK'
      BY <1>0, <1>19, <2>1, LoopAssumption DEF PersistAgain, JobOK
    <2> QED BY <1>0, <1>19, <2>1, <2>2, JobMoves DEF PersistAgain, Pure
  <1>20. CASE UNCHANGED vars
    BY <1>20 DEF vars, Inv, TypeOK, CapOK, JobOK, GateOK, AskedOnEvidence, Abnormal
  <1> QED BY <1>1, <1>2, <1>3, <1>4, <1>5, <1>6, <1>7, <1>8, <1>9, <1>10, <1>11, <1>12,
             <1>13, <1>14, <1>15, <1>16, <1>17, <1>18, <1>19, <1>20 DEF Next, Work

(* What the invariant says of the loop: it is below the cap when it plans. *)
THEOREM Invariance == Spec => []Inv
  <1> QED BY InitInv, StepInv, PTL DEF Spec

(* The variables keep their types, the cap on the iterations among them. *)
THEOREM TypeCorrect == Spec => []TypeOK
  <1>1. Inv => TypeOK
    BY DEF Inv
  <1> QED BY Invariance, <1>1, PTL

(* No human is asked about an action on a service the investigation has seen
   nothing abnormal on. *)
THEOREM EvidenceGate == Spec => []AskedOnEvidence
  <1>1. Inv => AskedOnEvidence
    BY DEF Inv
  <1> QED BY Invariance, <1>1, PTL

------------------------------------------------------------------------------
(* Termination. *)

(* The ranks of two checkpoints compare by iterations, then by position. *)
LEMMA RankType ==
    ASSUME Inv
    PROVE  Rank \in Nat /\ checkpoint.iteration \in Int /\ MaxIterations \in Int
  <1>1. checkpoint.iteration \in 0 .. MaxIterations /\ checkpoint.next \in Nodes
    BY DEF Inv, TypeOK, Checkpoints
  <1>2. MaxIterations - checkpoint.iteration \in Nat
    BY <1>1, LoopAssumption
  <1>3. Position[checkpoint.next] \in Nat
    BY <1>1 DEF Nodes, Position
  <1> QED BY <1>1, <1>2, <1>3, LoopAssumption DEF Rank

(* A node that saves a later position with the same iteration is closer. *)
LEMMA SamePace ==
    ASSUME Inv, checkpoint'.iteration = checkpoint.iteration,
           Position[checkpoint'.next] < Position[checkpoint.next],
           Position[checkpoint'.next] \in Nat, Position[checkpoint.next] \in Nat
    PROVE  Rank' < Rank
  <1>1. /\ Rank = 9 * (MaxIterations - checkpoint.iteration) + Position[checkpoint.next]
        /\ Rank' = 9 * (MaxIterations - checkpoint.iteration) + Position[checkpoint'.next]
    BY DEF Rank, Position
  <1>2. checkpoint.iteration \in Int /\ MaxIterations \in Int
    BY RankType
  <1> DEFINE a == Position[checkpoint.next]
             b == Position[checkpoint'.next]
  <1>3. a \in Nat /\ b \in Nat /\ b < a
    OBVIOUS
  <1> HIDE DEF a, b
  <1> QED BY <1>1, <1>2, <1>3 DEF a, b

(* What a step does to the distance of the end. *)
Closer ==
    \/ Rank' \in Nat /\ Rank' < Rank
    \/ checkpoint'.next = checkpoint.next /\ checkpoint.next = "act"
    \/ UNCHANGED checkpoint

(* Every step brings the run closer to its end. *)
LEMMA StepCloser ==
    ASSUME Inv, Inv', [Next]_vars
    PROVE  Closer
  <1>0. /\ checkpoint \in Checkpoints /\ Rank' \in Nat
        /\ checkpoint.iteration \in Int /\ MaxIterations \in Int
    <2>1. checkpoint'.iteration \in 0 .. MaxIterations /\ checkpoint'.next \in Nodes
      BY DEF Inv, TypeOK, Checkpoints
    <2>2. MaxIterations - checkpoint'.iteration \in Nat
      BY <2>1, LoopAssumption
    <2>3. Position[checkpoint'.next] \in Nat
      BY <2>1 DEF Nodes, Position
    <2>4. Rank' = 9 * (MaxIterations - checkpoint'.iteration) + Position[checkpoint'.next]
      BY DEF Rank, Position
    <2>5. \A m, n \in Nat : 9 * m + n \in Nat
      OBVIOUS
    <2>6. Rank' \in Nat
      BY <2>2, <2>3, <2>4, <2>5, Zenon
    <2> QED BY <2>6, RankType DEF Inv, TypeOK
  <1>1. CASE Intake
    <2>1. /\ checkpoint.next = "intake" /\ checkpoint'.next = "retrieve"
          /\ checkpoint'.iteration = checkpoint.iteration
      BY <1>0, <1>1 DEF Intake, RunsNode, Checkpoints
    <2> QED BY <1>0, <2>1, SamePace DEF Closer, Position
  <1>2. CASE Retrieve
    <2>1. /\ \/ checkpoint.next = "retrieve" /\ checkpoint'.next = "plan"
             \/ checkpoint.next = "retrieve_again" /\ checkpoint'.next = "reflect"
          /\ checkpoint'.iteration = checkpoint.iteration
      BY <1>0, <1>2 DEF Retrieve, RunsNode, Checkpoints
    <2> QED BY <1>0, <2>1, SamePace DEF Closer, Position
  <1>3. CASE Plan
    <2>1. /\ checkpoint.next = "plan" /\ checkpoint'.next = "execute_tool"
          /\ checkpoint'.iteration = checkpoint.iteration + 1
      BY <1>0, <1>3 DEF Plan, RunsNode, Counted, Checkpoints
    <2>2. /\ Rank = 9 * (MaxIterations - checkpoint.iteration) + 1
          /\ Rank' = 9 * (MaxIterations - (checkpoint.iteration + 1)) + 9
      BY <2>1 DEF Rank, Position
    <2>3. Rank' < Rank
      BY <1>0, <2>2
    <2> QED BY <1>0, <2>3 DEF Closer
  <1>4. CASE SaveCalls
    <2>1. /\ checkpoint.next = "execute_tool" /\ checkpoint'.next = "retrieve_again"
          /\ checkpoint'.iteration = checkpoint.iteration
      BY <1>0, <1>4 DEF SaveCalls, RunsNode, Checkpoints
    <2> QED BY <1>0, <2>1, SamePace DEF Closer, Position
  <1>5. CASE Reflect
    <2>1. /\ checkpoint.next = "reflect" /\ checkpoint'.next \in {"plan", "propose"}
          /\ checkpoint'.iteration = checkpoint.iteration
      BY <1>0, <1>5 DEF Reflect, RunsNode, RouteAfterReflect, Checkpoints
    <2> QED BY <1>0, <2>1, SamePace DEF Closer, Position
  <1>6. CASE Propose
    <2>1. /\ checkpoint.next = "propose" /\ checkpoint'.next \in {"summarize", "await_approval"}
          /\ checkpoint'.iteration = checkpoint.iteration
      BY <1>0, <1>6 DEF Propose, RunsNode, Checkpoints
    <2> QED BY <1>0, <2>1, SamePace DEF Closer, Position
  <1>7. CASE SaveAwaiting
    <2>1. /\ checkpoint.next = "await_approval" /\ checkpoint'.next = "act"
          /\ checkpoint'.iteration = checkpoint.iteration
      BY <1>0, <1>7 DEF SaveAwaiting, Checkpoints, Inv, JobOK
    <2> QED BY <1>0, <2>1, SamePace DEF Closer, Position
  <1>8. CASE ActRejected
    <2>1. /\ checkpoint.next = "act" /\ checkpoint'.next \in {"plan", "summarize"}
          /\ checkpoint'.iteration = checkpoint.iteration
      BY <1>0, <1>8 DEF ActRejected, RunsNode, Checkpoints
    <2> QED BY <1>0, <2>1, SamePace DEF Closer, Position
  <1>9. CASE ActApproved
    <2>1. /\ checkpoint.next = "act" /\ checkpoint'.next \in {"act", "summarize"}
          /\ checkpoint'.iteration = checkpoint.iteration
      BY <1>0, <1>9 DEF ActApproved, RunsNode, Checkpoints
    <2> QED BY <1>0, <2>1, SamePace DEF Closer, Position
  <1>10. CASE Summarize
    <2>1. /\ checkpoint.next = "summarize" /\ checkpoint'.next = "end"
          /\ checkpoint'.iteration = checkpoint.iteration
      BY <1>0, <1>10 DEF Summarize, RunsNode, Checkpoints
    <2> QED BY <1>0, <2>1, SamePace DEF Closer, Position
  <1>11. CASE Attempt \/ CreateApproval \/ Count \/ Insert \/ Mirrored
    BY <1>11 DEF Attempt, CreateApproval, Count, Insert, Mirrored, Closer
  <1>12. CASE Die \/ Resume \/ PersistAgain \/ (\E id \in Ids : Decide(id)) \/ UNCHANGED vars
    BY <1>12 DEF Die, Resume, PersistAgain, Pure, Decide, vars, Closer
  <1> QED BY <1>1, <1>2, <1>3, <1>4, <1>5, <1>6, <1>7, <1>8, <1>9, <1>10, <1>11, <1>12
             DEF Next, Work

(* The graph ends: no node but a failed action leaves it as far from its end as
   it was, whatever the model answers, the tools do and the human decides. *)
THEOREM Termination == Spec => AlwaysCloser
  <1>1. Inv /\ Inv' /\ [Next]_vars
            => [\/ Rank' \in Nat /\ Rank' < Rank
                \/ checkpoint'.next = checkpoint.next /\ checkpoint.next = "act"
                \/ UNCHANGED checkpoint]_vars
    BY StepCloser DEF Closer
  <1> QED BY Invariance, <1>1, PTL DEF Spec, AlwaysCloser

------------------------------------------------------------------------------
(* A rejection sends the run back once. *)

(* A rejection that was taken back to planning is of an iteration that is over:
   the next proposal has another approval id. *)
ReturnedOK == \A id \in Ids :
    /\ returned[id] <= 1
    /\ returned[id] > 0 =>
           \/ id[1] < checkpoint.iteration
           \/ id[1] = checkpoint.iteration /\ checkpoint.next \in {"plan", "summarize", "end"}

(* A step that takes no rejection back, and goes to no place before a human is
   asked without planning, keeps it. *)
LEMMA ReturnedKept ==
    ASSUME Inv, ReturnedOK, UNCHANGED returned,
           \/ UNCHANGED checkpoint
           \/ /\ checkpoint'.iteration = checkpoint.iteration
              /\ \/ checkpoint.next \notin {"plan", "summarize", "end"}
                 \/ checkpoint'.next \in {"plan", "summarize", "end"}
           \/ checkpoint'.iteration = checkpoint.iteration + 1
    PROVE  ReturnedOK'
  <1>1. checkpoint.iteration \in Int
    BY DEF Inv, TypeOK, Checkpoints
  <1>2. \A id \in Ids : id[1] \in Int
    BY LoopAssumption DEF Ids
  <1> QED BY <1>1, <1>2 DEF ReturnedOK

(* Every step keeps it that a rejection sends the run back once. *)
LEMMA ReturnedStep ==
    ASSUME Inv, ReturnedOK, [Next]_vars
    PROVE  ReturnedOK'
  <1>0. checkpoint \in Checkpoints /\ returned \in [Ids -> Nat]
    BY DEF Inv, TypeOK
  <1>1. CASE Intake \/ Retrieve \/ SaveCalls \/ Reflect
    <2>1. /\ checkpoint'.iteration = checkpoint.iteration /\ UNCHANGED returned
          /\ checkpoint.next \notin {"plan", "summarize", "end"}
      BY <1>0, <1>1 DEF Intake, Retrieve, SaveCalls, Reflect, RunsNode, Pure, Checkpoints
    <2> QED BY <2>1, ReturnedKept
  <1>2. CASE Propose \/ ActApproved
    <2>1. /\ checkpoint'.iteration = checkpoint.iteration /\ UNCHANGED returned
          /\ checkpoint.next \notin {"plan", "summarize", "end"}
      BY <1>0, <1>2 DEF Propose, ActApproved, RunsNode, Pure, Checkpoints
    <2> QED BY <2>1, ReturnedKept
  <1>3. CASE SaveAwaiting
    <2>1. /\ checkpoint'.iteration = checkpoint.iteration /\ UNCHANGED returned
          /\ checkpoint.next = "await_approval"
      BY <1>0, <1>3 DEF SaveAwaiting, Pure, Checkpoints, Inv, JobOK
    <2> QED BY <2>1, ReturnedKept
  <1>4. CASE Plan
    <2>1. checkpoint'.iteration = checkpoint.iteration + 1 /\ UNCHANGED returned
      BY <1>0, <1>4 DEF Plan, Counted, Pure, Checkpoints
    <2> QED BY <2>1, ReturnedKept
  <1>5. CASE Summarize
    <2>1. /\ checkpoint'.iteration = checkpoint.iteration /\ UNCHANGED returned
          /\ checkpoint'.next = "end"
      BY <1>0, <1>5 DEF Summarize, Pure, Checkpoints
    <2> QED BY <2>1, ReturnedKept
  <1>6. CASE ActRejected
    <2>1. /\ checkpoint.next = "act" /\ checkpoint'.next \in {"plan", "summarize"}
          /\ checkpoint'.iteration = checkpoint.iteration /\ checkpoint.iteration \in Int
          /\ returned' = [returned EXCEPT ![ApprovalId] = @ + 1]
      BY <1>0, <1>6 DEF ActRejected, RunsNode, Checkpoints
    <2>2. ApprovalId \in Ids /\ ApprovalId[1] = checkpoint.iteration
      BY <2>1, ApprovalIdType DEF Inv, ApprovalId
    <2>3. returned[ApprovalId] = 0
      BY <1>0, <2>1, <2>2 DEF ReturnedOK
    <2>4. \A id \in Ids : returned'[id] = IF id = ApprovalId THEN 1 ELSE returned[id]
      BY <1>0, <2>1, <2>2, <2>3
    <2>5. \A id \in Ids : id[1] \in Int
      BY LoopAssumption DEF Ids
    <2> QED BY <2>1, <2>2, <2>4, <2>5 DEF ReturnedOK
  <1>7. CASE Attempt \/ CreateApproval \/ Count \/ Insert \/ Mirrored
    BY <1>7, ReturnedKept DEF Attempt, CreateApproval, Count, Insert, Mirrored
  <1>8. CASE Die \/ Resume \/ PersistAgain \/ (\E id \in Ids : Decide(id)) \/ UNCHANGED vars
    BY <1>8, ReturnedKept DEF Die, Resume, PersistAgain, Pure, Decide, vars
  <1> QED BY <1>1, <1>2, <1>3, <1>4, <1>5, <1>6, <1>7, <1>8 DEF Next, Work

(* No rejection is used twice: when the run comes back with an action that was
   rejected, a human is asked again. *)
THEOREM AskedAgain == Spec => []RejectedOnce
  <1>1. Init => ReturnedOK
    BY DEF Init, ReturnedOK
  <1>2. Inv /\ ReturnedOK /\ [Next]_vars => ReturnedOK'
    BY ReturnedStep
  <1>3. ReturnedOK => RejectedOnce
    BY DEF ReturnedOK, RejectedOnce
  <1> QED BY Invariance, <1>1, <1>2, <1>3, PTL DEF Spec

------------------------------------------------------------------------------
(* The records and their rows.  The attempts of the tool that is running follow
   one another as they should, and those of one that has run have come to their
   end; the next row to insert is the one after the last. *)
BatchOK ==
    /\ job.batch # << >> => checkpoint.next = "execute_tool"
    /\ \A n \in DOMAIN job.batch :
           /\ job.batch[n].attempt = n /\ job.batch[n].service = checkpoint.planned
           /\ n > 1 => job.batch[n-1].status = "failed"
EndedOK ==
    LET calls == checkpoint.calls IN
    calls # << >> =>
        calls[Len(calls)].status # "failed" \/ calls[Len(calls)].attempt = MaxRetries
RowsOK ==
    /\ RowsAreTheCalls
    /\ job.pc = "insert" => job.row = Len(rows) + 1

CallsInv == BatchOK /\ EndedOK /\ CallsAreDue /\ RowsOK

(* A job that runs on, or is run again, has the records of no tool. *)
LEMMA NoBatch ==
    ASSUME NEW pc, job' = [Running EXCEPT !.pc = pc]
    PROVE  job'.batch = << >> /\ job'.pc = pc
  BY DEF Running

(* The invariant of the calls holds at the start. *)
LEMMA InitCalls == Init => CallsInv
  <1> SUFFICES ASSUME Init PROVE CallsInv
    OBVIOUS
  <1>1. /\ checkpoint.calls = << >> /\ rows = << >> /\ checkpoint.iteration = 0
        /\ checkpoint.next = "intake" /\ job.batch = << >> /\ job.pc = "node"
    BY DEF Init, Running
  <1>2. FirstAttempts = {}
    BY <1>1 DEF FirstAttempts
  <1>3. EveryIterationCallsATool
    BY <1>1, <1>2, FS_EmptySet DEF EveryIterationCallsATool
  <1>4. RowsOK
    <2>1. SubSeq(<< >>, 1, Len(<< >>)) = << >> /\ Len(<< >>) = 0
      OBVIOUS
    <2> QED BY <1>1, <2>1 DEF RowsOK, RowsAreTheCalls
  <1> QED BY <1>1, <1>3, <1>4 DEF CallsInv, BatchOK, EndedOK, CallsAreDue, AttemptsAreDue

(* A node that saves no records: the iteration it counts is the tool's it plans. *)
LEMMA SavesNoCalls ==
    ASSUME Inv, CallsInv, UNCHANGED rows, checkpoint'.calls = checkpoint.calls,
           \/ /\ checkpoint'.iteration = checkpoint.iteration
              /\ checkpoint.next # "execute_tool" /\ checkpoint'.next # "execute_tool"
           \/ /\ checkpoint'.iteration = checkpoint.iteration + 1
              /\ checkpoint.next # "execute_tool" /\ checkpoint'.next = "execute_tool"
           \/ UNCHANGED checkpoint,
           job'.batch = << >>, job'.pc \notin {"insert", "settled"}
    PROVE  CallsInv'
  <1>1. checkpoint.iteration \in Nat
    BY DEF Inv, TypeOK, Checkpoints
  <1>2. FirstAttempts' = FirstAttempts
    BY DEF FirstAttempts
  <1>3. EveryIterationCallsATool'
    BY <1>1, <1>2 DEF CallsInv, CallsAreDue, EveryIterationCallsATool
  <1>4. BatchOK' /\ RowsOK'
    BY DEF CallsInv, BatchOK, RowsOK, RowsAreTheCalls
  <1> QED BY <1>3, <1>4 DEF CallsInv, EndedOK, CallsAreDue, AttemptsAreDue

(* The attempts of a tool that has run, behind those of the tools before it. *)
LEMMA SaveCallsKeeps ==
    ASSUME Inv, CallsInv, SaveCalls
    PROVE  CallsInv'
  <1> DEFINE calls == checkpoint.calls
             batch == job.batch
             all == calls \o batch
  <1>1. /\ calls \in Seq(Calls) /\ batch \in Seq(Calls) /\ checkpoint \in Checkpoints
        /\ checkpoint.iteration \in Nat /\ MaxRetries \in Nat
    BY LoopAssumption DEF Inv, TypeOK, Checkpoints
  <1>2. /\ batch # << >> /\ checkpoint.next = "execute_tool"
        /\ Len(batch) = MaxRetries \/ batch[Len(batch)].status # "failed"
    BY DEF SaveCalls, BatchDone, RunsNode, WorthRetrying
  <1>3. /\ checkpoint'.calls = all /\ checkpoint'.next = "retrieve_again"
        /\ checkpoint'.iteration = checkpoint.iteration
    BY <1>1 DEF SaveCalls, Checkpoints
  <1>4. job'.batch = << >> /\ job'.pc = "count" /\ UNCHANGED rows
    BY NoBatch DEF SaveCalls, Mirrors, Pure
  <1>5. /\ \A n \in DOMAIN batch : batch[n].attempt = n /\ batch[n].service = checkpoint.planned
        /\ \A n \in DOMAIN batch : n > 1 => batch[n-1].status = "failed"
    BY DEF CallsInv, BatchOK
  <1>6. calls # << >> =>
            calls[Len(calls)].status # "failed" \/ calls[Len(calls)].attempt = MaxRetries
    BY DEF CallsInv, EndedOK
  <1>7. AttemptsAreDue /\ EveryIterationCallsATool /\ RowsAreTheCalls
    BY DEF CallsInv, CallsAreDue, RowsOK
  <1>8. Len(batch) \in Nat \ {0} /\ Len(calls) \in Nat
    BY <1>1, <1>2
  <1> HIDE DEF calls, batch
  <1>9. /\ Len(all) = Len(calls) + Len(batch)
        /\ \A n \in 1 .. Len(calls) : all[n] = calls[n]
        /\ \A n \in 1 .. Len(batch) : all[Len(calls) + n] = batch[n]
        /\ DOMAIN all = 1 .. Len(calls) + Len(batch)
        /\ DOMAIN batch = 1 .. Len(batch) /\ DOMAIN calls = 1 .. Len(calls)
    BY <1>1
  <1> HIDE DEF all
  <1>10. \A n \in Len(calls) + 1 .. Len(all) :
             /\ all[n] = batch[n - Len(calls)] /\ n - Len(calls) \in DOMAIN batch
             /\ all[n].attempt = n - Len(calls) /\ all[n].service = checkpoint.planned
    <2> SUFFICES ASSUME NEW n \in Len(calls) + 1 .. Len(all)
                 PROVE  /\ all[n] = batch[n - Len(calls)] /\ n - Len(calls) \in DOMAIN batch
                        /\ all[n].attempt = n - Len(calls)
                        /\ all[n].service = checkpoint.planned
      OBVIOUS
    <2> DEFINE k == n - Len(calls)
    <2>1. k \in 1 .. Len(batch) /\ Len(calls) + k = n
      BY <1>8, <1>9
    <2> HIDE DEF k
    <2>2. all[n] = batch[k]
      BY <1>9, <2>1
    <2> QED BY <1>5, <1>9, <2>1, <2>2 DEF k
  <1>11. AttemptsAreDue'
    <2> SUFFICES ASSUME NEW n \in DOMAIN all, n > 1
                 PROVE  IF all[n].attempt = 1
                        THEN all[n-1].status # "failed" \/ all[n-1].attempt = MaxRetries
                        ELSE /\ all[n-1].status = "failed"
                             /\ all[n].attempt = all[n-1].attempt + 1
                             /\ all[n].service = all[n-1].service
      BY <1>3 DEF AttemptsAreDue
    <2>1. CASE n <= Len(calls)
      <3>1. all[n] = calls[n] /\ all[n-1] = calls[n-1] /\ n \in DOMAIN calls
        BY <1>8, <1>9, <2>1
      <3> QED BY <1>7, <3>1 DEF AttemptsAreDue, calls
    <2>2. CASE n = Len(calls) + 1
      <3>1. all[n].attempt = 1 /\ all[n-1] = calls[Len(calls)] /\ calls # << >>
        BY <1>1, <1>8, <1>9, <1>10, <2>2
      <3> QED BY <1>6, <3>1
    <2>3. CASE n > Len(calls) + 1
      <3> DEFINE k == n - Len(calls)
      <3>1. k \in DOMAIN batch /\ k > 1 /\ k - 1 = (n - 1) - Len(calls)
        BY <1>8, <1>9, <2>3
      <3>2. /\ all[n].attempt = k /\ all[n-1].attempt = k - 1
            /\ all[n].service = checkpoint.planned /\ all[n-1].service = checkpoint.planned
            /\ all[n-1] = batch[k-1]
        BY <1>8, <1>9, <1>10, <2>3
      <3>3. batch[k-1].status = "failed" /\ k \in Int
        BY <1>5, <1>8, <1>9, <3>1
      <3> HIDE DEF k
      <3> QED BY <3>1, <3>2, <3>3
    <2>4. n \in Int /\ Len(calls) \in Int
      BY <1>8, <1>9
    <2>5. n <= Len(calls) \/ n = Len(calls) + 1 \/ n > Len(calls) + 1
      BY <2>4
    <2> QED BY <2>1, <2>2, <2>3, <2>5
  <1>12. FirstAttempts' = FirstAttempts \cup {Len(calls) + 1}
    <2>1. \A n \in DOMAIN all : n > Len(calls) => (all[n].attempt = 1 <=> n = Len(calls) + 1)
      BY <1>8, <1>9, <1>10
    <2>2. \A n \in DOMAIN calls : n \in DOMAIN all /\ all[n] = calls[n]
      BY <1>8, <1>9
    <2>3. \A n \in DOMAIN all : n \notin DOMAIN calls => n > Len(calls)
      BY <1>8, <1>9
    <2>4. Len(calls) + 1 \in DOMAIN all /\ Len(calls) + 1 > Len(calls)
      BY <1>8, <1>9
    <2>5. FirstAttempts = {n \in DOMAIN calls : calls[n].attempt = 1}
      BY DEF FirstAttempts, calls
    <2>6. FirstAttempts' = {n \in DOMAIN all : all[n].attempt = 1}
      BY <1>3 DEF FirstAttempts
    <2>7. \A n \in FirstAttempts' : n \in FirstAttempts \/ n = Len(calls) + 1
      BY <2>1, <2>2, <2>3, <2>5, <2>6
    <2>8. \A n \in FirstAttempts : n \in FirstAttempts'
      BY <2>2, <2>5, <2>6
    <2>9. Len(calls) + 1 \in FirstAttempts'
      BY <2>1, <2>4, <2>6
    <2> QED BY <2>7, <2>8, <2>9
  <1>13. EveryIterationCallsATool'
    <2>1. FirstAttempts \subseteq 1 .. Len(calls)
      BY <1>9 DEF FirstAttempts, calls
    <2>2. IsFiniteSet(FirstAttempts) /\ Cardinality(FirstAttempts) \in Nat
      <3>1. IsFiniteSet(1 .. Len(calls))
        BY <1>8, FS_Interval
      <3> QED BY <2>1, <3>1, FS_Subset, FS_CardinalityType
    <2>3. Len(calls) + 1 \notin FirstAttempts
      BY <1>8, <2>1
    <2>4. Cardinality(FirstAttempts') = Cardinality(FirstAttempts) + 1
      BY <1>12, <2>2, <2>3, FS_AddElement
    <2> QED BY <1>1, <1>2, <1>3, <1>7, <2>2, <2>4 DEF EveryIterationCallsATool
  <1>14. EndedOK'
    <2>1. all[Len(all)] = batch[Len(batch)] /\ all[Len(all)].attempt = Len(batch)
      BY <1>8, <1>9, <1>10
    <2> QED BY <1>2, <1>3, <2>1 DEF EndedOK, batch
  <1>15. RowsOK'
    <2>1. /\ Len(rows) \in Nat /\ Len(rows) <= Len(calls)
          /\ rows = SubSeq(calls, 1, Len(rows))
      BY <1>7 DEF RowsAreTheCalls, Inv, TypeOK, calls
    <2>2. SubSeq(all, 1, Len(rows)) = SubSeq(calls, 1, Len(rows))
      BY <1>1, <1>8, <1>9, <2>1 DEF all
    <2> QED BY <1>3, <1>4, <1>8, <1>9, <2>1, <2>2 DEF RowsOK, RowsAreTheCalls
  <1> QED BY <1>4, <1>11, <1>13, <1>14, <1>15 DEF CallsInv, CallsAreDue, BatchOK

(* One more attempt, of the tool that was planned. *)
LEMMA AttemptKeeps ==
    ASSUME Inv, CallsInv, Attempt
    PROVE  CallsInv'
  <1>1. PICK result \in Results :
            job' = [job EXCEPT !.batch = Append(job.batch,
                       [service |-> checkpoint.planned, attempt |-> Len(job.batch) + 1,
                        status |-> result])]
    BY DEF Attempt
  <1> DEFINE record == [service |-> checkpoint.planned, attempt |-> Len(job.batch) + 1,
                        status |-> result]
  <1>2. /\ job.batch \in Seq(Calls) /\ job \in Jobs
        /\ job'.batch = Append(job.batch, record) /\ job'.pc = "node"
        /\ UNCHANGED <<checkpoint, rows>> /\ checkpoint.next = "execute_tool"
    BY <1>1 DEF Inv, TypeOK, Jobs, Attempt, RunsNode
  <1>3. job.batch # << >> => job.batch[Len(job.batch)].status = "failed"
    BY DEF Attempt, BatchDone, WorthRetrying
  <1>4. record.attempt = Len(job.batch) + 1 /\ record.service = checkpoint.planned
    OBVIOUS
  <1> HIDE DEF record
  <1>5. /\ DOMAIN job'.batch = 1 .. Len(job.batch) + 1
        /\ \A n \in 1 .. Len(job.batch) : job'.batch[n] = job.batch[n]
        /\ job'.batch[Len(job.batch) + 1] = record
        /\ DOMAIN job.batch = 1 .. Len(job.batch) /\ Len(job.batch) \in Nat
        /\ job.batch = << >> <=> Len(job.batch) = 0
    BY <1>2
  <1>6. BatchOK'
    <2> SUFFICES ASSUME NEW n \in DOMAIN job'.batch
                 PROVE  /\ job'.batch[n].attempt = n
                        /\ job'.batch[n].service = checkpoint.planned
                        /\ n > 1 => job'.batch[n-1].status = "failed"
      BY <1>2 DEF BatchOK
    <2>1. CASE n \in 1 .. Len(job.batch)
      <3>1. n > 1 => n - 1 \in 1 .. Len(job.batch)
        BY <1>5, <2>1
      <3> QED BY <1>5, <2>1, <3>1 DEF CallsInv, BatchOK
    <2>2. CASE n = Len(job.batch) + 1
      <3>1. n > 1 => n - 1 = Len(job.batch) /\ job.batch # << >>
        BY <1>5, <2>2
      <3> QED BY <1>3, <1>4, <1>5, <2>2, <3>1
    <2> QED BY <1>5, <2>1, <2>2
  <1> QED BY <1>2, <1>6
          DEF CallsInv, EndedOK, CallsAreDue, AttemptsAreDue, EveryIterationCallsATool,
              FirstAttempts, RowsOK, RowsAreTheCalls

(* The mirror: what is inserted is the first call that has no row. *)
LEMMA MirrorKeeps ==
    ASSUME Inv, CallsInv, Count \/ Insert \/ Mirrored
    PROVE  CallsInv'
  <1>1. /\ job \in Jobs /\ rows \in Seq(Calls) /\ Len(rows) \in Nat
        /\ checkpoint.calls \in Seq(Calls) /\ Len(checkpoint.calls) \in Nat
        /\ RowsAreTheCalls /\ UNCHANGED checkpoint
    BY DEF Inv, TypeOK, Jobs, Checkpoints, CallsInv, RowsOK, Count, Insert, Mirrored
  <1>2. job'.batch \in {job.batch, << >>}
    BY <1>1, NoBatch DEF Count, Insert, Mirrored, Jobs
  <1>3. BatchOK'
    BY <1>1, <1>2 DEF CallsInv, BatchOK
  <1>4. RowsOK'
    <2>1. CASE Count
      <3>1. job'.row = Len(rows) + 1 /\ UNCHANGED rows /\ job'.pc = "insert"
        BY <1>1, <2>1 DEF Count, FirstMissing, Jobs
      <3> QED BY <1>1, <3>1 DEF RowsOK, RowsAreTheCalls
    <2>2. CASE Insert
      <3>1. /\ job.row = Len(rows) + 1 /\ job.row <= Len(checkpoint.calls)
            /\ rows' = Append(rows, checkpoint.calls[job.row])
            /\ job'.row = job.row + 1 /\ job'.pc = "insert"
        BY <1>1, <2>2 DEF Insert, CallsInv, RowsOK, Jobs
      <3>2. Len(rows') = Len(rows) + 1 /\ Len(rows') <= Len(checkpoint.calls)
        BY <1>1, <3>1
      <3>3. rows' = SubSeq(checkpoint.calls, 1, Len(rows) + 1)
        <4>1. rows = SubSeq(checkpoint.calls, 1, Len(rows))
          BY <1>1 DEF RowsAreTheCalls
        <4> DEFINE calls == checkpoint.calls
                   k == Len(rows)
        <4>2. calls \in Seq(Calls) /\ k \in Nat /\ k + 1 <= Len(calls)
          BY <1>1, <3>1
        <4>3. rows' = Append(SubSeq(calls, 1, k), calls[k + 1])
          BY <3>1, <4>1
        <4> HIDE DEF calls, k
        <4>4. Append(SubSeq(calls, 1, k), calls[k + 1]) = SubSeq(calls, 1, k + 1)
          BY <4>2
        <4> QED BY <4>3, <4>4 DEF calls, k
      <3> QED BY <1>1, <3>1, <3>2, <3>3 DEF RowsOK, RowsAreTheCalls
    <2>3. CASE Mirrored
      <3>1. job.row = Len(rows) + 1 /\ job.row > Len(checkpoint.calls) /\ UNCHANGED rows
        BY <2>3 DEF Mirrored, CallsInv, RowsOK
      <3>2. job'.pc # "insert"
        BY <2>3, NoBatch DEF Mirrored
      <3> QED BY <1>1, <3>1, <3>2 DEF RowsOK, RowsAreTheCalls
    <2> QED BY <2>1, <2>2, <2>3
  <1> QED BY <1>1, <1>3, <1>4
          DEF CallsInv, EndedOK, CallsAreDue, AttemptsAreDue, EveryIterationCallsATool,
              FirstAttempts

(* Every step keeps the invariant of the calls. *)
LEMMA CallsStep ==
    ASSUME Inv, CallsInv, [Next]_vars
    PROVE  CallsInv'
  <1>0. checkpoint \in Checkpoints /\ job \in Jobs
    BY DEF Inv, TypeOK, Jobs
  <1>1. ASSUME Mirrors
        PROVE  job'.batch = << >> /\ job'.pc = "count"
    BY <1>1, NoBatch DEF Mirrors
  <1>2. CASE Intake \/ Retrieve \/ Reflect \/ Propose \/ SaveAwaiting \/ Summarize
    <2>1. /\ checkpoint'.iteration = checkpoint.iteration
          /\ checkpoint'.calls = checkpoint.calls
          /\ checkpoint.next # "execute_tool" /\ checkpoint'.next # "execute_tool"
          /\ Mirrors /\ UNCHANGED rows
      <3>1. CASE Intake \/ Retrieve
        BY <1>0, <3>1 DEF Intake, Retrieve, RunsNode, Pure, Checkpoints
      <3>2. CASE Reflect
        BY <1>0, <3>2 DEF Reflect, RouteAfterReflect, RunsNode, Pure, Checkpoints
      <3>3. CASE Propose
        BY <1>0, <3>3 DEF Propose, RunsNode, Pure, Checkpoints
      <3>4. CASE SaveAwaiting \/ Summarize
        BY <1>0, <3>4 DEF SaveAwaiting, Summarize, RunsNode, Pure, Checkpoints, Inv, JobOK
      <3> QED BY <1>2, <3>1, <3>2, <3>3, <3>4
    <2> QED BY <1>1, <2>1, SavesNoCalls
  <1>3. CASE ActRejected \/ ActApproved
    <2>1. /\ checkpoint'.iteration = checkpoint.iteration
          /\ checkpoint'.calls = checkpoint.calls
          /\ checkpoint.next # "execute_tool" /\ checkpoint'.next # "execute_tool"
          /\ Mirrors /\ UNCHANGED rows
      BY <1>0, <1>3 DEF ActRejected, ActApproved, RunsNode, Pure, Checkpoints
    <2> QED BY <1>1, <2>1, SavesNoCalls
  <1>4. CASE Plan
    <2>1. /\ checkpoint'.iteration = checkpoint.iteration + 1
          /\ checkpoint'.calls = checkpoint.calls
          /\ checkpoint.next # "execute_tool" /\ checkpoint'.next = "execute_tool"
          /\ Mirrors /\ UNCHANGED rows
      BY <1>0, <1>4 DEF Plan, Counted, RunsNode, Pure, Checkpoints
    <2> QED BY <1>1, <2>1, SavesNoCalls
  <1>5. CASE CreateApproval
    <2>1. /\ UNCHANGED <<checkpoint, rows>> /\ job'.pc = "created"
          /\ job'.batch = job.batch /\ checkpoint.next = "await_approval"
      BY <1>0, <1>5 DEF CreateApproval, RunsNode, Jobs
    <2>2. job.batch = << >>
      BY <2>1 DEF CallsInv, BatchOK
    <2> QED BY <2>1, <2>2, SavesNoCalls
  <1>6. CASE Die \/ Resume
    <2>1. UNCHANGED <<checkpoint, rows>>
      BY <1>6 DEF Die, Resume
    <2>2. job'.batch = << >> /\ job'.pc \in {"dead", "node"}
      BY <1>6, NoBatch DEF Die, Resume, Running
    <2> QED BY <2>1, <2>2, SavesNoCalls
  <1>7. CASE PersistAgain
    BY <1>1, <1>7, SavesNoCalls DEF PersistAgain, Pure
  <1>8. CASE (\E id \in Ids : Decide(id)) \/ UNCHANGED vars
    <2>1. UNCHANGED <<checkpoint, job, rows>>
      BY <1>8 DEF Decide, vars
    <2> QED BY <2>1
            DEF CallsInv, BatchOK, EndedOK, CallsAreDue, AttemptsAreDue,
                EveryIterationCallsATool, FirstAttempts, RowsOK, RowsAreTheCalls
  <1> QED BY <1>2, <1>3, <1>4, <1>5, <1>6, <1>7, <1>8, SaveCallsKeeps, AttemptKeeps,
             MirrorKeeps DEF Next, Work

(* The inductive invariant behind the two theorems on the calls and their rows. *)
THEOREM CallsInvariance == Spec => []CallsInv
  <1>1. Inv /\ CallsInv /\ [Next]_vars => CallsInv'
    BY CallsStep
  <1> QED BY InitCalls, <1>1, Invariance, PTL DEF Spec

(* execute_tool and the retry policy: the calls are those the iterations and the
   results call for, whatever died while a tool ran. *)
THEOREM CallsAsDue == Spec => []CallsAreDue
  <1>1. CallsInv => CallsAreDue
    BY DEF CallsInv
  <1> QED BY <1>1, CallsInvariance, PTL

(* _persist_tool_calls: the rows are the records, in their order, each once, and
   all of them once a job has ended by itself. *)
THEOREM RowsMirrorCalls == Spec => []RowsAreTheCalls
  <1>1. CallsInv => RowsAreTheCalls
    BY DEF CallsInv, RowsOK
  <1> QED BY <1>1, CallsInvariance, PTL

------------------------------------------------------------------------------
(* The nodes implement the gate. An approval that waits, or was given, is the  *)
(* one of the proposal the run is at; every other was refused, which is why it *)
(* is beside nothing open and closed with nothing left.                        *)

(* Who is asked, and where the run is then. *)
AskedOK == \A id \in Ids :
    /\ approvals[id] = "pending" =>
           id = ApprovalId /\ checkpoint.next \in {"await_approval", "act"}
    /\ approvals[id] = "approved" =>
           id = ApprovalId /\ checkpoint.next \in {"await_approval", "act", "summarize", "end"}

GateInv == Inv /\ AskedOK

(* A node that is not between the question and the end has nothing open. *)
NothingOpen == \A id \in Ids : approvals[id] \in {"absent", "rejected"}

(* The values an approval has. *)
LEMMA ApprovalValues ==
    ASSUME Inv, NEW id \in Ids
    PROVE  approvals[id] \in {"absent", "pending", "approved", "rejected"}
  BY DEF Inv, TypeOK

(* With nothing open there is nothing to get wrong. *)
LEMMA OpenNone ==
    ASSUME NothingOpen, UNCHANGED approvals
    PROVE  AskedOK'
  BY DEF NothingOpen, AskedOK

(* Where nothing can be open, and after a rejection. *)
LEMMA NoneOpen ==
    ASSUME GateInv,
           \/ checkpoint.next \notin {"await_approval", "act", "summarize", "end"}
           \/ /\ checkpoint.next \in {"await_approval", "act"}
              /\ approvals[ApprovalId] = "rejected"
    PROVE  NothingOpen
  BY ApprovalValues DEF GateInv, AskedOK, NothingOpen

(* A checkpoint further on with the proposal it has. *)
LEMMA AskedKept ==
    ASSUME GateInv, UNCHANGED approvals, ApprovalId' = ApprovalId,
           \/ checkpoint'.next = checkpoint.next
           \/ checkpoint.next \in {"await_approval", "act"} /\ checkpoint'.next = "act"
           \/ /\ checkpoint.next = "act" /\ checkpoint'.next = "summarize"
              /\ approvals[ApprovalId] # "pending"
           \/ checkpoint.next = "summarize" /\ checkpoint'.next = "end"
    PROVE  AskedOK'
  BY DEF GateInv, AskedOK

(* A question is put, or answered, about the proposal the run is at. *)
LEMMA AskedAbout ==
    ASSUME GateInv, UNCHANGED checkpoint, NEW id \in Ids, id = ApprovalId,
           checkpoint.next \in {"await_approval", "act"},
           NEW d \in {"pending", "approved", "rejected"},
           approvals' = [approvals EXCEPT ![id] = d]
    PROVE  AskedOK'
  <1>1. \A k \in Ids : k # id => approvals'[k] = approvals[k]
    BY DEF GateInv, Inv, TypeOK
  <1>2. ApprovalId' = ApprovalId
    BY DEF ApprovalId
  <1> QED BY <1>1, <1>2 DEF GateInv, AskedOK

(* Nothing happens at the gate. *)
LEMMA GateIdles ==
    ASSUME CarriedOut' = CarriedOut, UNCHANGED approvals,
           checkpoint'.next = "end" <=> checkpoint.next = "end"
    PROVE  UNCHANGED Gate!vars
  BY DEF Gate!vars

(* A node that starts with nothing open leaves the gate alone. *)
LEMMA QuietNode ==
    ASSUME GateInv, UNCHANGED approvals, NothingOpen,
           checkpoint.next # "end", checkpoint'.next # "end"
    PROVE  AskedOK' /\ UNCHANGED Gate!vars
  <1>1. CarriedOut' = CarriedOut
    BY DEF CarriedOut, NothingOpen
  <1> QED BY <1>1, OpenNone, GateIdles

(* Nobody is asked, nothing is open and the run does not end. *)
Quiet ==
    /\ UNCHANGED approvals
    /\ checkpoint.next # "end" /\ checkpoint'.next # "end"
    /\ \/ checkpoint.next \notin {"await_approval", "act", "summarize", "end"}
       \/ checkpoint.next = "act" /\ approvals[ApprovalId] = "rejected"

(* The nodes that gather evidence and propose, and a rejection. *)
QuietNodes ==
    Intake \/ Retrieve \/ Plan \/ SaveCalls \/ Reflect \/ Propose \/ ActRejected

(* They ask nobody. *)
LEMMA QuietPlaces ==
    ASSUME Inv, QuietNodes
    PROVE  Quiet
  <1>0. checkpoint \in Checkpoints
    BY DEF Inv, TypeOK
  <1>1. CASE Intake
    BY <1>0, <1>1 DEF Intake, RunsNode, Pure, Quiet, Checkpoints
  <1>2. CASE Retrieve
    BY <1>0, <1>2 DEF Retrieve, RunsNode, Pure, Quiet, Checkpoints
  <1>3. CASE Plan
    <2>1. PICK s \in Services :
              checkpoint' = [checkpoint EXCEPT !.next = "execute_tool", !.planned = s,
                                               !.iteration = Counted]
      BY <1>3, Zenon DEF Plan
    <2> QED BY <1>0, <1>3, <2>1 DEF Plan, RunsNode, Pure, Quiet, Checkpoints
  <1>4. CASE SaveCalls
    BY <1>0, <1>4 DEF SaveCalls, RunsNode, Pure, Quiet, Checkpoints
  <1>5. CASE Reflect
    <2>1. PICK again \in BOOLEAN :
              checkpoint' = [checkpoint EXCEPT !.again = again,
                                               !.next = RouteAfterReflect(again)]
      BY <1>5, Zenon DEF Reflect
    <2>2. checkpoint'.next \in {"plan", "propose"}
      BY <1>0, <2>1 DEF RouteAfterReflect, Checkpoints
    <2> QED BY <1>5, <2>2 DEF Reflect, RunsNode, Pure, Quiet
  <1>6. CASE Propose
    <2>1. PICK proposal :
              checkpoint' = [checkpoint EXCEPT
                  !.proposal = proposal,
                  !.next = IF proposal = None THEN "summarize" ELSE "await_approval"]
      BY <1>6, Zenon DEF Propose
    <2>2. checkpoint'.next \in {"summarize", "await_approval"}
      BY <1>0, <2>1 DEF Checkpoints
    <2> QED BY <1>6, <2>2 DEF Propose, RunsNode, Pure, Quiet
  <1>7. CASE ActRejected
    BY <1>0, <1>7 DEF ActRejected, RunsNode, Quiet, Checkpoints
  <1> QED BY <1>1, <1>2, <1>3, <1>4, <1>5, <1>6, <1>7 DEF QuietNodes

(* And leave the gate alone. *)
LEMMA NodesQuiet ==
    ASSUME GateInv, QuietNodes
    PROVE  AskedOK' /\ UNCHANGED Gate!vars
  <1>1. Quiet
    BY QuietPlaces DEF GateInv
  <1>2. NothingOpen
    BY <1>1, NoneOpen DEF Quiet
  <1> QED BY <1>1, <1>2, QuietNode DEF Quiet

(* A step inside the job asks nothing and goes nowhere. *)
LEMMA QuietSteps ==
    ASSUME GateInv, UNCHANGED <<checkpoint, approvals>>
    PROVE  AskedOK' /\ UNCHANGED Gate!vars
  <1>1. ApprovalId' = ApprovalId /\ CarriedOut' = CarriedOut
    BY DEF ApprovalId, CarriedOut
  <1> QED BY <1>1, AskedKept, GateIdles

(* await_approval asks about a proposal beside nothing open, or has asked. *)
LEMMA CreationAsks ==
    ASSUME GateInv, CreateApproval
    PROVE  AskedOK' /\ (Gate!Next \/ UNCHANGED Gate!vars)
  <1>0. /\ ApprovalId \in Ids /\ checkpoint.next = "await_approval" /\ UNCHANGED checkpoint
        /\ approvals \in [Ids -> {"absent", "pending", "approved", "rejected"}]
        /\ approvals' = [approvals EXCEPT ![ApprovalId] = IF @ = "absent" THEN "pending" ELSE @]
    BY ApprovalIdType DEF GateInv, Inv, TypeOK, CreateApproval, RunsNode
  <1>1. CASE approvals[ApprovalId] # "absent"
    <2>1. approvals' = approvals
      BY <1>0, <1>1
    <2> QED BY <1>0, <2>1, QuietSteps
  <1>2. CASE approvals[ApprovalId] = "absent"
    <2>1. approvals' = [approvals EXCEPT ![ApprovalId] = "pending"]
      BY <1>0, <1>2
    <2>2. AskedOK'
      BY <1>0, <2>1, AskedAbout
    <2>3. CarriedOut' = CarriedOut
      BY <1>0 DEF CarriedOut
    <2>4. \A id \in Ids \ {ApprovalId} : approvals[id] \in {"absent", "rejected"}
      BY ApprovalValues DEF GateInv, AskedOK
    <2>5. Gate!Alone("run", ApprovalId)
      BY <2>4 DEF Gate!Alone
    <2>6. [r \in {"run"} |-> approvals'] =
              [[r \in {"run"} |-> approvals] EXCEPT !["run"][ApprovalId] = "pending"]
      BY <2>1
    <2>7. Gate!Propose("run", ApprovalId)
      BY <1>0, <1>2, <2>3, <2>5, <2>6 DEF Gate!Propose
    <2> QED BY <1>0, <2>2, <2>7 DEF Gate!Next
  <1> QED BY <1>1, <1>2

(* The human answers what the run asks. *)
LEMMA DecisionAnswers ==
    ASSUME GateInv, NEW id \in Ids, Decide(id)
    PROVE  AskedOK' /\ Gate!Next
  <1>0. /\ approvals[id] = "pending" /\ id = ApprovalId /\ UNCHANGED checkpoint
        /\ checkpoint.next \in {"await_approval", "act"}
    BY DEF GateInv, AskedOK, Decide
  <1>1. PICK d \in {"approved", "rejected"} : approvals' = [approvals EXCEPT ![id] = d]
    BY DEF Decide
  <1>2. AskedOK'
    BY <1>0, <1>1, AskedAbout
  <1>3. CarriedOut' = CarriedOut
    BY <1>0 DEF CarriedOut
  <1>4. [r \in {"run"} |-> approvals'] =
            [[r \in {"run"} |-> approvals] EXCEPT !["run"][id] = d]
    BY <1>1
  <1>5. Gate!Decide("run", id)
    BY <1>0, <1>3, <1>4 DEF Gate!Decide
  <1> QED BY <1>2, <1>5 DEF Gate!Next

(* An approved action is carried out, or the run waits before `act`. *)
LEMMA ActCarriesOut ==
    ASSUME GateInv, ActApproved
    PROVE  AskedOK' /\ (Gate!Next \/ UNCHANGED Gate!vars)
  <1>0. /\ checkpoint \in Checkpoints /\ checkpoint.next = "act" /\ ApprovalId \in Ids
        /\ approvals[ApprovalId] = "approved" /\ UNCHANGED approvals
    BY ApprovalIdType DEF GateInv, Inv, TypeOK, ActApproved, RunsNode, Pure
  <1>1. ApprovalId' = ApprovalId /\ checkpoint'.next \in {"act", "summarize"}
    BY <1>0 DEF ActApproved, Checkpoints, ApprovalId
  <1>2. AskedOK'
    BY <1>0, <1>1, AskedKept
  <1>3. CASE checkpoint'.next = "act"
    <2>1. CarriedOut' = CarriedOut
      BY <1>0, <1>3 DEF CarriedOut
    <2> QED BY <1>0, <1>2, <1>3, <2>1, GateIdles
  <1>4. CASE checkpoint'.next = "summarize"
    <2>1. \A id \in Ids : approvals[id] = "approved" => id = ApprovalId
      BY DEF GateInv, AskedOK
    <2>2. CarriedOut = {}
      BY <1>0 DEF CarriedOut
    <2>3. CarriedOut' = {ApprovalId}
      BY <1>0, <1>4, <2>1 DEF CarriedOut
    <2>4. [r \in {"run"} |-> CarriedOut'] =
              [[r \in {"run"} |-> CarriedOut] EXCEPT !["run"] = @ \cup {ApprovalId}]
      BY <2>2, <2>3
    <2>5. Gate!CarryOut("run", ApprovalId)
      BY <1>0, <1>4, <2>2, <2>4 DEF Gate!CarryOut
    <2> QED BY <1>0, <1>2, <2>5 DEF Gate!Next
  <1> QED BY <1>1, <1>3, <1>4

(* summarize closes the run with its question answered. *)
LEMMA SummaryCloses ==
    ASSUME GateInv, Summarize
    PROVE  AskedOK' /\ Gate!Next
  <1>0. /\ checkpoint \in Checkpoints /\ checkpoint.next = "summarize" /\ UNCHANGED approvals
    BY DEF GateInv, Inv, TypeOK, Summarize, RunsNode, Pure
  <1>1. ApprovalId' = ApprovalId /\ checkpoint'.next = "end"
    BY <1>0 DEF Summarize, Checkpoints, ApprovalId
  <1>2. AskedOK'
    BY <1>0, <1>1, AskedKept
  <1>3. CarriedOut' = CarriedOut
    BY <1>0, <1>1 DEF CarriedOut
  <1>4. \A id \in Ids : Gate!Finished("run", id)
    BY <1>0 DEF Gate!Finished, GateInv, AskedOK, CarriedOut
  <1>5. Gate!Close("run")
    BY <1>0, <1>1, <1>3, <1>4 DEF Gate!Close
  <1> QED BY <1>2, <1>5 DEF Gate!Next

(* Every step of the graph is a step of the gate, or none of it. *)
LEMMA GateStep ==
    ASSUME GateInv, [Next]_vars
    PROVE  AskedOK' /\ (Gate!Next \/ UNCHANGED Gate!vars)
  <1>1. CASE QuietNodes
    BY <1>1, NodesQuiet
  <1>2. CASE CreateApproval
    BY <1>2, CreationAsks
  <1>3. CASE SaveAwaiting
    <2>1. /\ checkpoint \in Checkpoints /\ checkpoint.next = "await_approval"
          /\ UNCHANGED approvals
      BY <1>3 DEF GateInv, Inv, TypeOK, JobOK, SaveAwaiting, Pure
    <2>2. ApprovalId' = ApprovalId /\ checkpoint'.next = "act"
      BY <1>3, <2>1 DEF SaveAwaiting, Checkpoints, ApprovalId
    <2>3. CarriedOut' = CarriedOut
      BY <2>1, <2>2 DEF CarriedOut
    <2> QED BY <2>1, <2>2, <2>3, AskedKept, GateIdles
  <1>4. CASE ActApproved
    BY <1>4, ActCarriesOut
  <1>5. CASE Summarize
    BY <1>5, SummaryCloses
  <1>6. ASSUME NEW id \in Ids, Decide(id)
        PROVE  AskedOK' /\ (Gate!Next \/ UNCHANGED Gate!vars)
    BY <1>6, DecisionAnswers
  <1>7. CASE Attempt \/ Count \/ Insert \/ Mirrored \/ Die \/ Resume \/ PersistAgain
                \/ UNCHANGED vars
    BY <1>7, QuietSteps
    DEF Attempt, Count, Insert, Mirrored, Die, Resume, PersistAgain, Pure, vars
  <1> QED BY <1>1, <1>2, <1>3, <1>4, <1>5, <1>6, <1>7 DEF Next, Work, QuietNodes

(* Nothing is asked at first. *)
LEMMA GateInit == Init => AskedOK /\ Gate!Init
  <1> SUFFICES ASSUME Init PROVE AskedOK /\ Gate!Init
    OBVIOUS
  <1>1. checkpoint.next = "intake" /\ approvals = [id \in Ids |-> "absent"]
    BY DEF Init
  <1>2. CarriedOut = {}
    BY <1>1 DEF CarriedOut
  <1> QED BY <1>1, <1>2 DEF AskedOK, Gate!Init

(* One run of the graph, dying and run again as often as it may, is a gate
   between its proposals and its action (graph.py: route_after_act; nodes.py:
   await_approval, act). *)
THEOREM LoopRefinement == Spec => ImplementsDecisionGate
  <1>1. Inv /\ AskedOK /\ [Next]_vars => AskedOK' /\ [Gate!Next]_(Gate!vars)
    BY GateStep DEF GateInv
  <1>2. Spec => Gate!Spec
    BY <1>1, GateInit, Invariance, PTL DEF Spec, Gate!Spec
  <1> QED BY <1>2 DEF ImplementsDecisionGate

(* A run has at no time two proposals that wait or were approved, whatever it
   proposes after a rejection, so that it acts at most once, and it does not end
   over an open one (nodes.py: await_approval, act). *)
THEOREM OneActionPerRun == Spec => []Gate!Kept
  <1>1. Inv /\ AskedOK => Gate!Kept
    <2> SUFFICES ASSUME Inv, AskedOK PROVE Gate!Kept
      OBVIOUS
    <2>1. Gate!OnlyOnApproval
      BY DEF Gate!OnlyOnApproval, CarriedOut
    <2>2. Gate!OneAction
      BY DEF Gate!OneAction, AskedOK
    <2>3. Gate!ClosedIsFinished
      BY DEF Gate!ClosedIsFinished, Gate!Finished, AskedOK, CarriedOut
    <2> QED BY <2>1, <2>2, <2>3 DEF Gate!Kept
  <1>2. Inv /\ AskedOK /\ [Next]_vars => AskedOK'
    BY GateStep DEF GateInv
  <1> QED BY <1>1, <1>2, GateInit, Invariance, PTL DEF Spec
=============================================================================
