------------------------ MODULE ActionExecutionProofs ------------------------
(***************************************************************************)
(* Proofs about ActionExecution for every set of approvals, arguments,     *)
(* runners and requests, every number of attempts and every number of      *)
(* runs.                                                                   *)
(*                                                                         *)
(* The argument: an approval is decided once, so what it authorises never  *)
(* changes after that (AuthorisedIsStable); whatever a runner submits and  *)
(* whatever travels to the control plane is what its approval authorises;  *)
(* and the ledger takes a key only while the key is free.                  *)
(***************************************************************************)
EXTENDS ActionExecution, TLAPS

(* A decision says "modified" exactly when it carries edited arguments. *)
EditsOK == \A k \in Approvals :
    approval[k].modified # None <=> approval[k].decision = "modified"

(* A runner inside `act` works for an approval, and what it submits is what
   that approval authorises. *)
RunnersOK == \A r \in Runners :
    /\ act[r].pc # "idle" => act[r].key \in Approvals
    /\ act[r].pc \in {"post", "wait"} =>
           act[r].args \in Args /\ act[r].args = Authorised(act[r].key)
    /\ act[r].pc = "wait" => act[r].request \in Requests

(* A request that may still be applied carries what its key authorises. *)
WireOK == \A q \in Requests : wire[q].phase \in {"sent", "absent"} =>
    /\ wire[q].key \in Approvals
    /\ wire[q].params \in Args
    /\ wire[q].params = Authorised(wire[q].key)

(* What was applied is what was authorised, and it was applied once. *)
LedgerOK == \A k \in Approvals :
    /\ ledger[k] # None => ledger[k] = Authorised(k)
    /\ applied[k] = IF ledger[k] = None THEN 0 ELSE 1

Inv == TypeOK /\ EditsOK /\ RunnersOK /\ WireOK /\ LedgerOK

------------------------------------------------------------------------------
(* The effective arguments of an approved row are the authorised ones: what
   execute_action computes is what the human meant. *)
LEMMA EffectiveIsAuthorised ==
    ASSUME TypeOK, EditsOK, NEW k \in Approvals, Approved(k)
    PROVE  Effective(k) = Authorised(k) /\ Effective(k) \in Args
  BY ConstantsAssumption
     DEF TypeOK, EditsOK, Approved, ApprovedDecisions, Decisions, Effective, Authorised

(* A decision does not change what any decided approval authorises. *)
LEMMA AuthorisedIsStable ==
    ASSUME TypeOK, NEW d \in Approvals, NEW decision, NEW edited,
           Decide(d, decision, edited), NEW k \in Approvals, Authorised(k) # None
    PROVE  Authorised(k)' = Authorised(k)
  BY DEF TypeOK, Decide, Undecided, Authorised

(* What an approval authorises changes only with the approval. *)
LEMMA AuthorisedUnchanged ==
    ASSUME UNCHANGED approval, NEW k \in Approvals
    PROVE  Authorised(k)' = Authorised(k)
  BY DEF Authorised

(* Answering an exchange changes no other, and leaves nothing of this one that
   could be applied. *)
LEMMA AnswerSettles ==
    ASSUME TypeOK, NEW q \in Requests, NEW reply \in Replies, Answer(q, reply)
    PROVE  /\ wire' \in [Requests -> Exchanges]
           /\ wire'[q].phase \notin {"sent", "absent"}
           /\ \A p \in Requests \ {q} : wire'[p] = wire[p]
  <1> DEFINE settled == IF Awaited(q)
                        THEN [wire[q] EXCEPT !.phase = "answered", !.reply = reply]
                        ELSE NoExchange
  <1>1. wire[q] \in Exchanges /\ wire \in [Requests -> Exchanges]
    BY DEF TypeOK
  <1>2. settled \in Exchanges /\ settled.phase \notin {"sent", "absent"}
    BY <1>1 DEF Exchanges, NoExchange
  <1>3. wire' = [wire EXCEPT ![q] = settled]
    BY DEF Answer
  <1> HIDE DEF settled
  <1> QED BY <1>1, <1>2, <1>3

(* The initial states satisfy the invariant. *)
THEOREM InitInv == Init => Inv
  <1> SUFFICES ASSUME Init PROVE Inv
    OBVIOUS
  <1> USE ConstantsAssumption
  <1>1. TypeOK
    BY DEF Init, TypeOK, Decisions, Outcomes, Steps, NotRunning,
           NoExchange, Replies, Exchanges, Activities
  <1>2. EditsOK
    BY DEF Init, EditsOK
  <1>3. RunnersOK
    BY DEF Init, RunnersOK, NotRunning
  <1>4. WireOK
    BY DEF Init, WireOK, NoExchange
  <1>5. LedgerOK
    BY DEF Init, LedgerOK
  <1> QED BY <1>1, <1>2, <1>3, <1>4, <1>5 DEF Inv

(* The next attempt, or giving up, is a state of the runner. *)
LEMMA RetryType ==
    ASSUME TypeOK, NEW r \in Runners
    PROVE  /\ Retry(r) \in Activities
           /\ Retry(r).pc \in {"post", "record_failed"}
           /\ Retry(r).key = act[r].key
           /\ Retry(r).args = act[r].args
  <1>1. act[r] \in Activities
    BY DEF TypeOK
  <1>2. CASE act[r].attempt < MaxAttempts
    <2> DEFINE again == [act[r] EXCEPT !.pc = "post", !.attempt = @ + 1, !.request = None]
    <2>1. act[r].attempt + 1 \in Nat
      BY <1>1 DEF Activities
    <2>2. again \in Activities /\ again.pc = "post"
              /\ again.key = act[r].key /\ again.args = act[r].args
      BY <1>1, <2>1, Zenon DEF Activities, Steps
    <2>3. Retry(r) = again
      BY <1>2 DEF Retry
    <2> QED BY <2>2, <2>3
  <1>3. CASE ~ (act[r].attempt < MaxAttempts)
    BY <1>1, <1>3 DEF Retry, Activities, Steps
  <1> QED BY <1>2, <1>3

(* An audit event counts in the counter of its kind. *)
LEMMA LogType ==
    ASSUME TypeOK, NEW k \in Approvals, NEW e \in Events, Log(k, e)
    PROVE  audit' \in [Approvals -> [Events -> Nat]]
  <1>1. audit[k] \in [Events -> Nat] /\ audit[k][e] \in Nat
    BY DEF TypeOK
  <1>2. [audit[k] EXCEPT ![e] = audit[k][e] + 1] \in [Events -> Nat]
    BY <1>1
  <1>3. audit' = [audit EXCEPT ![k] = [audit[k] EXCEPT ![e] = audit[k][e] + 1]]
    BY DEF Log
  <1> QED BY <1>2, <1>3 DEF TypeOK

(* Every step preserves the types. *)
LEMMA TypeStep == Inv /\ [Next]_vars => TypeOK'
  <1> SUFFICES ASSUME Inv, [Next]_vars PROVE TypeOK'
    OBVIOUS
  <1> TypeOK /\ RunnersOK /\ WireOK
    BY DEF Inv
  <1>a. \A r \in Runners : act[r] \in Activities
    BY DEF TypeOK
  <1>b. NotRunning \in Activities /\ NoExchange \in Exchanges
    BY DEF NotRunning, Activities, Steps, NoExchange, Exchanges
  <1>c. ASSUME NEW r \in Runners, NEW pc \in Steps, Goto(r, pc)
        PROVE  act' \in [Runners -> Activities]
    BY <1>a, <1>c DEF Goto, TypeOK, Activities
  <1>1. ASSUME NEW k \in Approvals, NEW d \in Decisions, NEW e \in Args \cup {None},
               Decide(k, d, e)
        PROVE  TypeOK'
    BY <1>1 DEF Decide, TypeOK
  <1>2. ASSUME NEW r \in Runners, NEW k \in Approvals, BeginAct(r, k)
        PROVE  TypeOK'
    <2>1. [NotRunning EXCEPT !.key = k, !.pc = Branch(k)] \in Activities
      BY DEF NotRunning, Activities, Steps, Branch
    <2> QED BY <1>2, <2>1 DEF BeginAct, TypeOK
  <1>3. ASSUME NEW r \in Runners, AlreadyExecuted(r) \/ InvalidArguments(r) \/ RecordRaises(r)
        PROVE  TypeOK'
    <2>1. "log_already_executed" \in Steps /\ "log_failed" \in Steps
      BY DEF Steps
    <2> QED BY <1>3, <1>c, <2>1 DEF AlreadyExecuted, InvalidArguments, RecordRaises, TypeOK
  <1>4. ASSUME NEW r \in Runners, Submit(r)
        PROVE  TypeOK'
    <2>1. act[r].key \in Approvals /\ Approved(act[r].key)
      BY <1>4 DEF Submit, RunnersOK
    <2>2. Effective(act[r].key) \in Args
      BY <2>1, EffectiveIsAuthorised DEF Inv
    <2>3. [act[r] EXCEPT !.pc = "post", !.attempt = 1, !.args = Effective(act[r].key)]
              \in Activities
      BY <1>a, <2>2 DEF Activities, Steps
    <2>4. act' = [act EXCEPT ![r] =
             [act[r] EXCEPT !.pc = "post", !.attempt = 1, !.args = Effective(act[r].key)]]
      BY <1>4 DEF Submit, TypeOK
    <2> QED BY <1>4, <2>3, <2>4 DEF Submit, TypeOK
  <1>5. ASSUME NEW r \in Runners, NEW q \in Requests, Post(r, q)
        PROVE  TypeOK'
    <2>1. [NoExchange EXCEPT !.phase = "sent", !.key = act[r].key, !.params = act[r].args]
              \in Exchanges
      BY <1>a DEF NoExchange, Exchanges, Activities
    <2>2. wire' \in [Requests -> Exchanges]
      BY <1>5, <2>1 DEF Post, TypeOK
    <2>3. [act[r] EXCEPT !.pc = "wait", !.request = q] \in Activities
      BY <1>a DEF Activities, Steps
    <2>4. act' = [act EXCEPT ![r] = [act[r] EXCEPT !.pc = "wait", !.request = q]]
      BY <1>5 DEF Post, TypeOK
    <2>5. act[r].key \in Approvals
      BY <1>5 DEF Post, RunnersOK
    <2>6. sent' \in [Approvals -> Nat]
      BY <1>5, <2>5 DEF Post, TypeOK
    <2> QED BY <1>5, <2>2, <2>3, <2>4, <2>6 DEF Post, TypeOK
  <1>6. ASSUME NEW r \in Runners, Receive(r)
        PROVE  TypeOK'
    <2> DEFINE reply == wire[act[r].request].reply
               next == IF Success(reply)
                       THEN [act[r] EXCEPT !.pc = "record_executed", !.request = None]
                       ELSE IF Retryable(reply) THEN Retry(r)
                       ELSE [act[r] EXCEPT !.pc = "record_failed", !.request = None]
    <2>1. next \in Activities
      BY <1>a, RetryType DEF Activities, Steps
    <2>2. act' = [act EXCEPT ![r] = next]
      BY <1>6 DEF Receive
    <2>3. act' \in [Runners -> Activities]
      BY <2>1, <2>2 DEF TypeOK
    <2>4. wire' \in [Requests -> Exchanges]
      BY <1>6, <1>b DEF Receive, TypeOK
    <2> QED BY <1>6, <2>3, <2>4 DEF Receive, TypeOK
  <1>7. ASSUME NEW r \in Runners, TimeOut(r)
        PROVE  TypeOK'
    BY <1>7, RetryType DEF TimeOut, TypeOK
  <1>8. ASSUME NEW q \in Requests, Lose(q)
        PROVE  TypeOK'
    BY <1>8, <1>b DEF Lose, TypeOK
  <1>9. ASSUME NEW q \in Requests, Unavailable(q) \/ Look(q) \/ LostRace(q)
        PROVE  TypeOK'
    <2>1. Replay(wire[q].key, wire[q].params) \in Replies /\ "error" \in Replies
      BY DEF Replay, Replies
    <2>2. CASE wire' = [wire EXCEPT ![q].phase = "absent"]
      BY <1>9, <2>2 DEF Unavailable, Look, LostRace, TypeOK, Exchanges
    <2>3. CASE \E reply \in Replies : Answer(q, reply)
      <3>1. wire' \in [Requests -> Exchanges]
        BY <2>3, AnswerSettles
      <3> QED BY <1>9, <3>1 DEF Unavailable, Look, LostRace, TypeOK
    <2> QED BY <1>9, <2>1, <2>2, <2>3 DEF Unavailable, Look, LostRace
  <1>10. ASSUME NEW q \in Requests, Apply(q)
         PROVE  TypeOK'
    <2>1. PICK reply \in {"created", "error"} : Answer(q, reply)
      BY <1>10 DEF Apply
    <2>2. wire' \in [Requests -> Exchanges]
      BY <2>1, AnswerSettles DEF Replies
    <2>3. ledger' \in [Approvals -> Args \cup {None}]
      BY <1>10 DEF Apply, TypeOK, Exchanges
    <2>4. applied' \in [Approvals -> Nat]
      BY <1>10 DEF Apply, TypeOK, WireOK
    <2> QED BY <1>10, <2>2, <2>3, <2>4 DEF Apply, TypeOK
  <1>11. ASSUME NEW r \in Runners, RecordExecuted(r) \/ RecordFailed(r)
         PROVE  TypeOK'
    <2> DEFINE Rows == [outcome : {"none", "failed", "executed"}, attempts : Nat]
    <2>1. ASSUME NEW outcome \in {"failed", "executed"},
                 Recorded(act[r].key, outcome, act[r].attempt)
          PROVE  row' \in [Approvals -> Rows]
      <3>1. act[r].key \in Approvals /\ act[r].attempt \in Nat
        BY <1>11, <1>a DEF RecordExecuted, RecordFailed, RunnersOK, Activities
      <3>2. row \in [Approvals -> Rows] /\ row[act[r].key].attempts \in Nat
        BY <3>1 DEF TypeOK
      <3>3. [outcome |-> outcome,
             attempts |-> row[act[r].key].attempts + act[r].attempt] \in Rows
        BY <3>1, <3>2
      <3> QED BY <2>1, <3>2, <3>3 DEF Recorded
    <2>2. "log_executed" \in Steps /\ "log_failed" \in Steps
      BY DEF Steps
    <2> QED BY <1>11, <1>c, <2>1, <2>2 DEF RecordExecuted, RecordFailed, TypeOK
  <1>12. ASSUME NEW r \in Runners, LogOutcome(r)
         PROVE  TypeOK'
    <2>1. Ending[act[r].pc].save \in Steps /\ Ending[act[r].pc].event \in Events
      BY <1>12 DEF LogOutcome, Ending, Steps, Events
    <2>2. act[r].key \in Approvals
      BY <1>12 DEF LogOutcome, Ending, RunnersOK
    <2>3. Log(act[r].key, Ending[act[r].pc].event)
      BY <1>12 DEF LogOutcome
    <2>4. audit' \in [Approvals -> [Events -> Nat]]
      BY <2>1, <2>2, <2>3, LogType
    <2> QED BY <1>12, <1>c, <2>1, <2>4 DEF LogOutcome, TypeOK
  <1>13. ASSUME NEW r \in Runners, SaveCheckpoint(r)
         PROVE  TypeOK'
    <2>1. Saved[act[r].pc] \in Outcomes
      BY <1>13 DEF SaveCheckpoint, Saved, Outcomes
    <2> QED BY <1>13, <1>b, <2>1 DEF SaveCheckpoint, TypeOK
  <1>14. ASSUME NEW r \in Runners, Crash(r)
         PROVE  TypeOK'
    BY <1>14, <1>b DEF Crash, TypeOK
  <1>15. CASE UNCHANGED vars
    BY <1>15 DEF vars, TypeOK
  <1> QED
    BY <1>1, <1>2, <1>3, <1>4, <1>5, <1>6, <1>7, <1>8, <1>9, <1>10, <1>11, <1>12,
       <1>13, <1>14, <1>15
       DEF Next, Human, Runner, Service

------------------------------------------------------------------------------
(* What each variable the invariant speaks of can be changed by. *)

(* The approvals change by Decide and by no other step. *)
LEMMA OnlyDecideDecides ==
    ASSUME [Next]_vars
    PROVE  \/ UNCHANGED approval
           \/ /\ \E k \in Approvals, d \in Decisions \ {"pending"}, e \in Args \cup {None} :
                     Decide(k, d, e)
              /\ UNCHANGED <<ledger, wire, act, applied>>
  BY DEF Next, Human, Runner, Service, vars, Decide, BeginAct, AlreadyExecuted,
         InvalidArguments, Submit, Post, Receive, TimeOut, Lose, Unavailable, Look,
         Apply, LostRace, RecordExecuted, RecordFailed, RecordRaises, LogOutcome, SaveCheckpoint, Crash

(* The service applies by Apply and by no other step. *)
LEMMA OnlyApplyApplies ==
    ASSUME [Next]_vars
    PROVE  \/ UNCHANGED <<ledger, applied>>
           \/ \E q \in Requests : Apply(q)
  BY DEF Next, Human, Runner, Service, vars, Decide, BeginAct, AlreadyExecuted,
         InvalidArguments, Submit, Post, Receive, TimeOut, Lose, Unavailable, Look,
         LostRace, RecordExecuted, RecordFailed, RecordRaises, LogOutcome, SaveCheckpoint, Crash

(* Only a step of its own moves a runner. *)
LEMMA OnlyItselfMoves ==
    ASSUME TypeOK, [Next]_vars, NEW s \in Runners, act'[s] # act[s]
    PROVE  \/ \E k \in Approvals : BeginAct(s, k)
           \/ \E q \in Requests : Post(s, q)
           \/ AlreadyExecuted(s) \/ InvalidArguments(s) \/ Submit(s)
           \/ Receive(s) \/ TimeOut(s)
           \/ RecordExecuted(s) \/ RecordFailed(s) \/ RecordRaises(s)
           \/ LogOutcome(s) \/ SaveCheckpoint(s) \/ Crash(s)
  <1>1. act[s] \in Activities /\ act \in [Runners -> Activities]
    BY DEF TypeOK
  <1>2. ASSUME NEW r \in Runners, Runner(r) \/ Crash(r)
        PROVE  r = s
    BY <1>1, <1>2 DEF Runner, BeginAct, AlreadyExecuted, InvalidArguments, Submit,
           Post, Receive, TimeOut, RecordExecuted, RecordFailed, RecordRaises, LogOutcome,
           SaveCheckpoint, Crash, Goto
  <1>3. ~ Human /\ ~ (\E q \in Requests : Service(q)) /\ ~ UNCHANGED vars
    BY DEF Human, Decide, Service, Lose, Unavailable, Look, Apply, LostRace, vars
  <1> QED BY <1>2, <1>3 DEF Next, Runner

(* Whatever is authorised stays authorised, unchanged, in every step. *)
LEMMA AuthorisedStep ==
    ASSUME TypeOK, [Next]_vars, NEW k \in Approvals, Authorised(k) # None
    PROVE  Authorised(k)' = Authorised(k)
  <1>1. CASE UNCHANGED approval
    BY <1>1, AuthorisedUnchanged
  <1>2. CASE \E d \in Approvals, decision \in Decisions \ {"pending"},
                e \in Args \cup {None} : Decide(d, decision, e)
    BY <1>2, AuthorisedIsStable
  <1> QED BY <1>1, <1>2, OnlyDecideDecides

(* Every step keeps edited arguments to the decisions that say they were edited. *)
LEMMA EditsStep == Inv /\ [Next]_vars => EditsOK'
  <1> SUFFICES ASSUME Inv, [Next]_vars PROVE EditsOK'
    OBVIOUS
  <1>1. CASE UNCHANGED approval
    BY <1>1 DEF Inv, EditsOK
  <1>2. ASSUME NEW d \in Approvals, NEW decision \in Decisions, NEW e \in Args \cup {None},
               Decide(d, decision, e)
        PROVE  EditsOK'
    <2>1. approval' = [approval EXCEPT ![d] =
              [approval[d] EXCEPT !.decision = decision, !.modified = e]]
      BY <1>2 DEF Decide, Inv, TypeOK
    <2>2. decision = "modified" <=> e # None
      BY <1>2 DEF Decide
    <2> QED BY <2>1, <2>2 DEF Inv, EditsOK, TypeOK
  <1> QED BY <1>1, <1>2, OnlyDecideDecides

(* What a runner submits stays what its approval authorises. *)
LEMMA RunnersStep == Inv /\ [Next]_vars => RunnersOK'
  <1> SUFFICES ASSUME Inv, [Next]_vars, NEW s \in Runners
               PROVE  /\ act'[s].pc # "idle" => act'[s].key \in Approvals
                      /\ act'[s].pc \in {"post", "wait"} =>
                             act'[s].args \in Args /\ (act[s].args = Authorised(act[s].key))'
                      /\ act'[s].pc = "wait" => act'[s].request \in Requests
    BY DEF RunnersOK
  <1> USE DEF Inv
  <1>a. act[s] \in Activities /\ act \in [Runners -> Activities]
    BY DEF TypeOK
  <1>b. ASSUME NEW k, k = act'[s].key
        PROVE  Authorised(act[s].key)' = Authorised(k)'
    BY <1>b DEF Authorised
  <1>c. ASSUME act[s].pc \in {"post", "wait"}, act'[s].key = act[s].key,
               act'[s].args = act[s].args
        PROVE  act'[s].args \in Args /\ (act[s].args = Authorised(act[s].key))'
    <2>1. PICK k \in Approvals : k = act[s].key
      BY <1>c DEF RunnersOK
    <2>2. act[s].args \in Args /\ act[s].args = Authorised(k)
      BY <1>c, <2>1 DEF RunnersOK
    <2>3. Authorised(k)' = Authorised(k)
      BY <2>2, AuthorisedStep, ConstantsAssumption
    <2>4. Authorised(act[s].key)' = Authorised(k)'
      BY <1>c, <2>1, <1>b
    <2> QED BY <1>c, <2>2, <2>3, <2>4
  <1>1. CASE act'[s] = act[s]
    BY <1>1, <1>c DEF RunnersOK
  <1>2. ASSUME NEW k \in Approvals, BeginAct(s, k)
        PROVE  act'[s].pc \in {"execute", "log_rejected"} /\ act'[s].key = k
    BY <1>2, <1>a DEF BeginAct, Branch, NotRunning
  <1>3. ASSUME Submit(s)
        PROVE  /\ act'[s].pc = "post" /\ act'[s].key \in Approvals
               /\ act'[s].args \in Args
               /\ (act[s].args = Authorised(act[s].key))'
    <2>1. PICK k \in Approvals : k = act[s].key /\ Approved(k)
      BY <1>3 DEF Submit, RunnersOK
    <2>2. Effective(k) = Authorised(k) /\ Effective(k) \in Args
      BY <2>1, EffectiveIsAuthorised
    <2>3. act'[s] = [act[s] EXCEPT !.pc = "post", !.attempt = 1,
                                   !.args = Effective(act[s].key)]
      BY <1>3, <1>a DEF Submit
    <2>4. act'[s].pc = "post" /\ act'[s].key = act[s].key
              /\ act'[s].args = Effective(act[s].key)
      BY <2>3, <1>a DEF Activities
    <2>5. Authorised(k)' = Authorised(k)
      BY <1>3, AuthorisedUnchanged DEF Submit
    <2>6. Authorised(act[s].key)' = Authorised(k)'
      BY <2>1, <2>4, <1>b
    <2> QED BY <2>1, <2>2, <2>4, <2>5, <2>6
  <1>4. ASSUME NEW q \in Requests, Post(s, q)
        PROVE  /\ act'[s].pc = "wait" /\ act'[s].request = q
               /\ act'[s].key = act[s].key /\ act'[s].args = act[s].args
               /\ act[s].pc = "post"
    BY <1>4, <1>a DEF Post, Activities
  <1>5. ASSUME Receive(s) \/ TimeOut(s)
        PROVE  /\ act[s].pc = "wait"
               /\ act'[s].pc \in {"post", "record_executed", "record_failed"}
               /\ act'[s].key = act[s].key /\ act'[s].args = act[s].args
    <2>1. act'[s] = Retry(s) \/ act'[s] = [act[s] EXCEPT !.pc = "record_executed", !.request = None]
              \/ act'[s] = [act[s] EXCEPT !.pc = "record_failed", !.request = None]
      BY <1>5, <1>a DEF Receive, TimeOut
    <2>2. act[s].pc = "wait"
      BY <1>5 DEF Receive, TimeOut, GivesUp
    <2> QED BY <2>1, <2>2, <1>a, RetryType DEF Activities
  <1>6. ASSUME \/ AlreadyExecuted(s) \/ InvalidArguments(s) \/ RecordExecuted(s)
               \/ RecordFailed(s) \/ RecordRaises(s) \/ LogOutcome(s)
        PROVE  /\ act[s].pc # "idle"
               /\ act'[s].pc \notin {"post", "wait"} /\ act'[s].key = act[s].key
    BY <1>6, <1>a DEF AlreadyExecuted, InvalidArguments, RecordExecuted, RecordFailed,
                      RecordRaises, LogOutcome, Goto, Ending, Activities
  <1>7. ASSUME SaveCheckpoint(s) \/ Crash(s)
        PROVE  act'[s].pc = "idle"
    BY <1>7, <1>a DEF SaveCheckpoint, Crash, NotRunning
  <1> QED BY <1>1, <1>2, <1>3, <1>4, <1>5, <1>6, <1>7, <1>c, OnlyItselfMoves DEF RunnersOK

(* Whatever is on the wire stays what its key authorises: only Post puts a
   request there, and it posts what its runner holds. *)
LEMMA WireStep == Inv /\ [Next]_vars => WireOK'
  <1> SUFFICES ASSUME Inv, [Next]_vars, NEW p \in Requests,
                      wire'[p].phase \in {"sent", "absent"}
               PROVE  /\ wire'[p].key \in Approvals
                      /\ wire'[p].params \in Args
                      /\ (wire[p].params = Authorised(wire[p].key))'
    BY DEF WireOK
  <1> USE DEF Inv
  <1>a. wire[p] \in Exchanges /\ wire \in [Requests -> Exchanges]
    BY DEF TypeOK
  <1>b. ASSUME NEW k, k = wire'[p].key
        PROVE  Authorised(wire[p].key)' = Authorised(k)'
    BY <1>b DEF Authorised
  <1>c. ASSUME wire[p].phase \in {"sent", "absent"}, wire'[p].key = wire[p].key,
               wire'[p].params = wire[p].params
        PROVE  /\ wire'[p].key \in Approvals
               /\ wire'[p].params \in Args
               /\ (wire[p].params = Authorised(wire[p].key))'
    <2>1. PICK k \in Approvals : k = wire[p].key
      BY <1>c DEF WireOK
    <2>2. wire[p].params \in Args /\ wire[p].params = Authorised(k)
      BY <1>c, <2>1 DEF WireOK
    <2>3. Authorised(k)' = Authorised(k)
      BY <2>2, AuthorisedStep, ConstantsAssumption
    <2>4. Authorised(wire[p].key)' = Authorised(k)'
      BY <1>c, <2>1, <1>b
    <2> QED BY <1>c, <2>1, <2>2, <2>3, <2>4
  <1>1. CASE wire'[p] = wire[p]
    BY <1>1, <1>c
  <1>2. ASSUME NEW r \in Runners, Post(r, p)
        PROVE  /\ wire'[p].key \in Approvals
               /\ wire'[p].params \in Args
               /\ (wire[p].params = Authorised(wire[p].key))'
    <2>1. PICK k \in Approvals : k = act[r].key
      BY <1>2 DEF Post, RunnersOK
    <2>2. act[r].args \in Args /\ act[r].args = Authorised(k)
      BY <1>2, <2>1 DEF Post, RunnersOK
    <2>3. wire'[p].key = k /\ wire'[p].params = act[r].args
      BY <1>2, <1>a, <2>1 DEF Post, NoExchange
    <2>4. Authorised(wire[p].key)' = Authorised(k)' /\ Authorised(k)' = Authorised(k)
      BY <1>2, <2>3, <1>b, AuthorisedUnchanged DEF Post
    <2> QED BY <2>1, <2>2, <2>3, <2>4
  <1>3. CASE wire' = [wire EXCEPT ![p].phase = "absent"] /\ Look(p)
    <2>1. wire'[p].key = wire[p].key /\ wire'[p].params = wire[p].params
      BY <1>3, <1>a DEF Exchanges
    <2> QED BY <1>3, <2>1, <1>c DEF Look
  <1>4. ASSUME NEW q \in Requests, NEW reply \in Replies, Answer(q, reply)
        PROVE  wire'[p] = wire[p]
    BY <1>4, AnswerSettles
  <1>5. ASSUME NEW q \in Requests, Service(q), wire'[p] # wire[p]
        PROVE  wire' = [wire EXCEPT ![p].phase = "absent"] /\ Look(p)
    <2>1. ~ (\E reply \in Replies : Answer(q, reply))
      BY <1>4, <1>5
    <2>2. Replay(wire[q].key, wire[q].params) \in Replies /\ "error" \in Replies
              /\ "created" \in Replies
      BY DEF Replay, Replies
    <2>3. ~ Unavailable(q) /\ ~ Apply(q) /\ ~ LostRace(q)
      BY <2>1, <2>2 DEF Unavailable, Apply, LostRace
    <2>4. ~ Lose(q)
      BY <1>5, <1>a DEF Lose, NoExchange
    <2>5. Look(q) /\ wire' = [wire EXCEPT ![q].phase = "absent"]
      BY <1>5, <2>1, <2>2, <2>3, <2>4 DEF Service, Look
    <2> QED BY <1>5, <1>a, <2>5
  <1>6. ASSUME NEW r \in Runners, Runner(r) \/ Crash(r), wire'[p] # wire[p]
        PROVE  Post(r, p)
    <2>1. ~ Receive(r) /\ ~ Crash(r)
      BY <1>6, <1>a DEF Receive, Crash, NoExchange
    <2>2. \E q \in Requests : Post(r, q)
      BY <1>6, <2>1 DEF Runner, BeginAct, AlreadyExecuted, InvalidArguments, Submit,
             TimeOut, RecordExecuted, RecordFailed, RecordRaises, LogOutcome, SaveCheckpoint
    <2> QED BY <1>6, <1>a, <2>2 DEF Post
  <1>7. wire'[p] # wire[p] => ~ Human /\ ~ UNCHANGED vars
    BY DEF Human, Decide, vars
  <1> QED BY <1>1, <1>2, <1>3, <1>5, <1>6, <1>7 DEF Next

(* The ledger takes what its key authorises, and only while the key is free. *)
LEMMA LedgerStep == Inv /\ [Next]_vars => LedgerOK'
  <1> SUFFICES ASSUME Inv, [Next]_vars, NEW k \in Approvals
               PROVE  /\ ledger'[k] # None => ledger'[k] = Authorised(k)'
                      /\ applied'[k] = IF ledger'[k] = None THEN 0 ELSE 1
    BY DEF LedgerOK
  <1> USE DEF Inv
  <1>a. Authorised(k) # None => Authorised(k)' = Authorised(k)
    BY AuthorisedStep
  <1>1. CASE UNCHANGED <<ledger, applied>>
    BY <1>1, <1>a DEF LedgerOK
  <1>2. ASSUME NEW q \in Requests, Apply(q)
        PROVE  /\ ledger'[k] # None => ledger'[k] = Authorised(k)'
               /\ applied'[k] = IF ledger'[k] = None THEN 0 ELSE 1
    <2>1. /\ wire[q].key \in Approvals /\ wire[q].params \in Args
          /\ wire[q].params = Authorised(wire[q].key) /\ ledger[wire[q].key] = None
      BY <1>2 DEF Apply, Free, WireOK
    <2>2. CASE k = wire[q].key
      <3>1. ledger'[k] = wire[q].params /\ applied'[k] = applied[k] + 1
        BY <1>2, <2>1, <2>2 DEF Apply, TypeOK
      <3>2. applied[k] = 0 /\ wire[q].params = Authorised(k)
        BY <2>1, <2>2 DEF LedgerOK
      <3> QED BY <3>1, <3>2, <2>1, <1>a, ConstantsAssumption
    <2>3. CASE k # wire[q].key
      <3>1. ledger'[k] = ledger[k] /\ applied'[k] = applied[k]
        BY <1>2, <2>3 DEF Apply, TypeOK
      <3> QED BY <3>1, <1>a DEF LedgerOK
    <2> QED BY <2>2, <2>3
  <1> QED BY <1>1, <1>2, OnlyApplyApplies

------------------------------------------------------------------------------
(* Every reachable state satisfies the inductive invariant. *)
THEOREM Invariance == Spec => []Inv
  <1>1. Inv /\ [Next]_vars => Inv'
    BY TypeStep, EditsStep, RunnersStep, WireStep, LedgerStep DEF Inv
  <1> QED BY InitInv, <1>1, PTL DEF Spec

(* The variables of the model keep their types, for any constants. *)
THEOREM TypeCorrect == Spec => []TypeOK
  <1>1. Inv => TypeOK
    BY DEF Inv
  <1> QED BY <1>1, Invariance, PTL

(* An approval's action is applied at most once, whatever is retried, answered
   late, lost, or run again by any number of runners that may die anywhere. *)
THEOREM AtMostOnceExecution == Spec => []AppliedAtMostOnce
  <1>1. Inv => AppliedAtMostOnce
    BY DEF Inv, LedgerOK, AppliedAtMostOnce
  <1> QED BY <1>1, Invariance, PTL

(* What is applied, and every request that may still be, is what a human
   authorised under that approval. *)
THEOREM ApprovedExecution == Spec => []AppliedAsApproved
  <1>1. Inv => AppliedAsApproved
    BY DEF Inv, LedgerOK, WireOK, AppliedAsApproved
  <1> QED BY <1>1, Invariance, PTL

------------------------------------------------------------------------------
(* The refinement. *)

(* The initial states map to initial states. *)
LEMMA AbstractInit == Init => Abstract!Init
  BY ConstantsAssumption DEF Init, Abstract!Init, Granted, Authorised

(* A decision that approves is a Grant, one that rejects a stutter; the ledger
   insert is an Apply; everything else stutters. *)
LEMMA AbstractStep == Inv /\ Inv' /\ [Next]_vars => [Abstract!Next]_(Abstract!vars)
  <1> SUFFICES ASSUME Inv, Inv', [Next]_vars
               PROVE  Abstract!Next \/ UNCHANGED <<Granted, ledger, applied>>
    BY DEF Abstract!vars
  <1> USE DEF Inv
  <1>1. CASE UNCHANGED <<approval, ledger, applied>>
    BY <1>1 DEF Granted, Authorised
  <1>2. ASSUME NEW k \in Approvals, NEW d \in Decisions \ {"pending"},
               NEW e \in Args \cup {None}, Decide(k, d, e), UNCHANGED <<ledger, applied>>
        PROVE  Abstract!Next \/ UNCHANGED <<Granted, ledger, applied>>
    <2>1. approval' = [approval EXCEPT ![k] =
              [approval[k] EXCEPT !.decision = d, !.modified = e]]
      BY <1>2 DEF Decide, TypeOK
    <2>2. Granted[k] = None
      BY <1>2 DEF Decide, Undecided, Granted, Authorised
    <2>3. \A j \in Approvals \ {k} : Granted'[j] = Granted[j]
      BY <2>1 DEF Granted, Authorised, TypeOK
    <2>4. Granted'[k] \in Args \cup {None}
      BY DEF Granted, Authorised, TypeOK, EditsOK
    <2>5. Granted' = [Granted EXCEPT ![k] = Granted'[k]]
      BY <2>3 DEF Granted
    <2>6. CASE Granted'[k] = None
      BY <1>2, <2>2, <2>5, <2>6 DEF Granted
    <2>7. CASE Granted'[k] \in Args
      <3>1. Abstract!Grant(k, Granted'[k])
        BY <1>2, <2>2, <2>5 DEF Abstract!Grant
      <3> QED BY <3>1, <2>7 DEF Abstract!Next
    <2> QED BY <2>4, <2>6, <2>7
  <1>3. ASSUME NEW q \in Requests, Apply(q)
        PROVE  Abstract!Next
    <2>1. PICK k \in Approvals : k = wire[q].key
      BY <1>3 DEF Apply, WireOK
    <2>2. ledger[k] = None /\ wire[q].params = Authorised(k) /\ wire[q].params # None
      BY <1>3, <2>1, ConstantsAssumption DEF Apply, Free, WireOK
    <2>3. Granted[k] = wire[q].params /\ UNCHANGED Granted
      BY <1>3, <2>2 DEF Apply, Granted, Authorised
    <2>4. applied[k] = 0
      BY <2>2 DEF LedgerOK
    <2>5. Abstract!Apply(k)
      BY <1>3, <2>1, <2>2, <2>3, <2>4 DEF Apply, Abstract!Apply
    <2> QED BY <2>5 DEF Abstract!Next
  <1> QED BY <1>1, <1>2, <1>3, OnlyDecideDecides, OnlyApplyApplies

(* The execution of actions implements AtMostOnce. *)
THEOREM Refinement == Spec => ImplementsAtMostOnce
  <1> QED BY AbstractInit, AbstractStep, Invariance, PTL
          DEF Spec, ImplementsAtMostOnce, Abstract!Spec
------------------------------------------------------------------------------
(* What the records say: the actions row, the audit log and the graph's checkpoint,
   against the control plane's ledger.

   The argument: a runner waits on a request of its own (WaitingOK), an answer that
   says the operation exists is only given while the ledger has its key (RepliesOK),
   the ledger forgets nothing (AppliedStays), so a runner on its way to record an
   execution works for an applied approval (OutcomesOK). *)

(* A runner waits on an exchange that carries its key, and on one of its own. *)
WaitingOK == \A r \in Runners : act[r].pc = "wait" =>
    /\ wire[act[r].request].phase # "idle"
    /\ wire[act[r].request].key = act[r].key
    /\ \A s \in Runners \ {r} : act[s].pc = "wait" => act[s].request # act[r].request

(* No attempt is refused, and one that is answered with success is of an
   operation in the ledger. *)
RepliesOK == \A q \in Requests :
    /\ wire[q].reply # "refused"
    /\ Success(wire[q].reply) => wire[q].key \in Approvals /\ ledger[wire[q].key] # None

(* A runner that is going to say an action was executed knows that it was. *)
SaysExecuted == {"record_executed", "log_executed", "log_already_executed", "save_executed"}
OutcomesOK == \A r \in Runners :
    act[r].pc \in SaysExecuted => ledger[act[r].key] # None

(* A runner submits, and records, only what was approved, and goes the way of a
   rejection only on a rejection. *)
Executes == {"post", "wait", "record_executed", "record_failed"}
BranchesOK == \A r \in Runners :
    /\ act[r].pc \in Executes => Approved(act[r].key)
    /\ act[r].pc \in {"log_rejected", "save_rejected"} =>
           approval[act[r].key].decision = "rejected"

(* What is not approved has been neither posted nor recorded, and what is not
   rejected has not been logged or saved as rejected. *)
RejectionsOK == \A k \in Approvals :
    /\ ~ Approved(k) => sent[k] = 0 /\ row[k].outcome = "none"
    /\ approval[k].decision # "rejected" =>
           audit[k]["approval_rejected"] = 0 /\ checkpoint[k] # "rejected"

RecordsInv ==
    /\ WaitingOK /\ RepliesOK /\ OutcomesOK /\ BranchesOK
    /\ ExecutedMeansApplied /\ RejectionsOK

------------------------------------------------------------------------------
(* The initial states satisfy the invariant: nothing runs and nothing is
   recorded. *)
LEMMA InitRecords == Init => RecordsInv
  <1> SUFFICES ASSUME Init PROVE RecordsInv
    OBVIOUS
  <1> USE ConstantsAssumption
  <1>1. WaitingOK /\ OutcomesOK /\ BranchesOK
    BY DEF Init, NotRunning, WaitingOK, OutcomesOK, BranchesOK, SaysExecuted, Executes
  <1>2. RepliesOK
    BY DEF Init, NoExchange, RepliesOK, Success, Replies
  <1>3. ExecutedMeansApplied /\ RejectionsOK
    BY DEF Init, ExecutedMeansApplied, RejectionsOK, Events, Approved, ApprovedDecisions
  <1> QED BY <1>1, <1>2, <1>3 DEF RecordsInv

(* The ledger forgets nothing. *)
LEMMA AppliedStays ==
    ASSUME Inv, [Next]_vars, NEW k \in Approvals, ledger[k] # None
    PROVE  ledger'[k] = ledger[k]
  <1>1. ASSUME NEW q \in Requests, Apply(q)
        PROVE  ledger'[k] = ledger[k]
    <2>1. wire[q].key # k
      BY <1>1 DEF Apply, Free
    <2> QED BY <1>1, <2>1 DEF Apply, Inv, TypeOK
  <1> QED BY <1>1, OnlyApplyApplies

(* A decision that was made stays as it is. *)
LEMMA DecidedStays ==
    ASSUME Inv, [Next]_vars, NEW k \in Approvals, approval[k].decision # "pending"
    PROVE  approval'[k] = approval[k]
  <1>1. ASSUME NEW j \in Approvals, NEW d, NEW e, Decide(j, d, e)
        PROVE  approval'[k] = approval[k]
    BY <1>1 DEF Decide, Undecided, Inv, TypeOK
  <1> QED BY <1>1, OnlyDecideDecides

(* Answering q: nobody waits for it and the exchange is over, or its sender
   finds the reply there; no other exchange changes. *)
LEMMA AnswerEffect ==
    ASSUME TypeOK, NEW q \in Requests, NEW reply, Answer(q, reply)
    PROVE  /\ \A p \in Requests \ {q} : wire'[p] = wire[p]
           /\ ~ Awaited(q) => wire'[q] = NoExchange
           /\ Awaited(q) => /\ wire'[q].phase = "answered"
                            /\ wire'[q].key = wire[q].key
                            /\ wire'[q].reply = reply
  <1> DEFINE answered == [wire[q] EXCEPT !.phase = "answered", !.reply = reply]
             settled == IF Awaited(q) THEN answered ELSE NoExchange
  <1>1. wire[q] \in Exchanges /\ wire \in [Requests -> Exchanges]
    BY DEF TypeOK
  <1>2. answered.phase = "answered" /\ answered.key = wire[q].key /\ answered.reply = reply
    BY <1>1 DEF Exchanges
  <1>3. wire' = [wire EXCEPT ![q] = settled]
    BY DEF Answer
  <1> HIDE DEF answered
  <1> QED BY <1>1, <1>2, <1>3

(* What the service does to exchange p: nothing, an end nobody waits for, a
   step on its way, or an answer to the runner that waits; the answer is no
   refusal, and says success only of what the ledger then has. *)
Ended(p) == ~ Awaited(p) /\ wire'[p] = NoExchange
Looked(p) == /\ wire'[p].phase = "absent"
             /\ wire'[p].key = wire[p].key /\ wire'[p].reply = wire[p].reply
Answered(p) ==
    /\ Awaited(p)
    /\ wire'[p].phase = "answered" /\ wire'[p].key = wire[p].key
    /\ wire'[p].reply # "refused"
    /\ Success(wire'[p].reply) => wire[p].key \in Approvals /\ ledger'[wire[p].key] # None

(* What the service's step does to a request: nothing, or it ends, is looked at or
   answered. *)
LEMMA ServiceEffect ==
    ASSUME Inv, [Next]_vars, NEW q \in Requests, Service(q), NEW p \in Requests
    PROVE  wire'[p] = wire[p] \/ Ended(p) \/ Looked(p) \/ Answered(p)
  <1> USE DEF Inv
  <1>a. wire[p] \in Exchanges /\ wire \in [Requests -> Exchanges]
    BY DEF TypeOK
  <1>1. ASSUME NEW reply, Answer(q, reply), reply # "refused",
               Success(reply) => wire[q].key \in Approvals /\ ledger'[wire[q].key] # None
        PROVE  wire'[p] = wire[p] \/ Ended(p) \/ Answered(p)
    BY <1>1, AnswerEffect DEF Ended, Answered
  <1>2. CASE Lose(q)
    BY <1>2, <1>a DEF Lose, Ended
  <1>3. CASE Unavailable(q)
    BY <1>3, <1>1 DEF Unavailable, Success
  <1>4. CASE wire[q].phase \in {"sent", "absent"} /\ ledger[wire[q].key] # None
                /\ UNCHANGED ledger /\ Answer(q, Replay(wire[q].key, wire[q].params))
    <2>1. wire[q].key \in Approvals /\ wire[q].params = Authorised(wire[q].key)
      BY <1>4 DEF WireOK
    <2>2. ledger[wire[q].key] = wire[q].params
      BY <1>4, <2>1 DEF LedgerOK
    <2> QED BY <1>1, <1>4, <2>1, <2>2 DEF Replay
  <1>5. CASE Look(q)
    <2>1. CASE wire' = [wire EXCEPT ![q].phase = "absent"]
      <3>1. p # q => wire'[p] = wire[p]
        BY <2>1, <1>a
      <3>2. p = q => Looked(p)
        BY <2>1, <1>a DEF Looked, Exchanges
      <3> QED BY <3>1, <3>2
    <2> QED BY <1>4, <1>5, <2>1 DEF Look
  <1>6. CASE Apply(q)
    <2>1. wire[q].key \in Approvals /\ wire[q].params # None
      BY <1>6, ConstantsAssumption DEF Apply, WireOK
    <2>2. ledger'[wire[q].key] # None
      BY <1>6, <2>1 DEF Apply, TypeOK
    <2> QED BY <1>1, <1>6, <2>1, <2>2 DEF Apply
  <1>7. CASE LostRace(q)
    BY <1>4, <1>7 DEF LostRace, Free
  <1> QED BY <1>2, <1>3, <1>5, <1>6, <1>7 DEF Service

------------------------------------------------------------------------------
(* The steps of a runner, by where they lead: it begins, it ends, or it goes on
   with the same approval. *)
Path ==
    {<<"execute", "post">>, <<"execute", "log_already_executed">>, <<"execute", "log_failed">>,
     <<"post", "wait">>, <<"wait", "post">>,
     <<"wait", "record_executed">>, <<"wait", "record_failed">>,
     <<"record_executed", "log_executed">>, <<"record_executed", "log_failed">>,
     <<"record_failed", "log_failed">>,
     <<"log_executed", "save_executed">>, <<"log_already_executed", "save_executed">>,
     <<"log_failed", "save_failed">>, <<"log_rejected", "save_rejected">>}

Begins(r) == \E k \in Approvals : BeginAct(r, k) /\ act'[r].key = k /\ act'[r].pc = Branch(k)
GoesOn(r) == act'[r].key = act[r].key /\ <<act[r].pc, act'[r].pc>> \in Path

(* The client's answer, or its end of patience: another attempt, or an outcome. *)
LEMMA AnswerLeads ==
    ASSUME TypeOK, NEW r \in Runners, Receive(r) \/ TimeOut(r)
    PROVE  /\ act[r].pc = "wait"
           /\ act'[r].pc \in {"post", "record_executed", "record_failed"}
           /\ act'[r].key = act[r].key
  <1>1. act[r] \in Activities /\ act \in [Runners -> Activities]
    BY DEF TypeOK
  <1>2. \/ act'[r] = Retry(r)
        \/ act'[r] = [act[r] EXCEPT !.pc = "record_executed", !.request = None]
        \/ act'[r] = [act[r] EXCEPT !.pc = "record_failed", !.request = None]
    BY <1>1 DEF Receive, TimeOut
  <1>3. act[r].pc = "wait"
    BY DEF Receive, TimeOut, GivesUp
  <1> QED BY <1>1, <1>2, <1>3, RetryType DEF Activities

(* What any step does to a runner: nothing, or it begins, stops or goes on. *)
LEMMA RunnerEffect ==
    ASSUME Inv, [Next]_vars, NEW r \in Runners
    PROVE  act'[r] = act[r] \/ Begins(r) \/ act'[r] = NotRunning \/ GoesOn(r)
  <1> SUFFICES ASSUME act'[r] # act[r]
               PROVE  Begins(r) \/ act'[r] = NotRunning \/ GoesOn(r)
    OBVIOUS
  <1> USE DEF Inv
  <1>a. act[r] \in Activities /\ act \in [Runners -> Activities]
    BY DEF TypeOK
  <1>1. ASSUME NEW k \in Approvals, BeginAct(r, k)
        PROVE  Begins(r)
    BY <1>1, <1>a DEF BeginAct, Begins, NotRunning
  <1>2. ASSUME NEW q \in Requests, Post(r, q)
        PROVE  GoesOn(r)
    BY <1>2, <1>a DEF Post, GoesOn, Path, Activities
  <1>3. CASE AlreadyExecuted(r) \/ InvalidArguments(r) \/ Submit(r)
    BY <1>3, <1>a DEF AlreadyExecuted, InvalidArguments, Submit, Goto, GoesOn, Path, Activities
  <1>4. CASE Receive(r) \/ TimeOut(r)
    BY <1>4, AnswerLeads DEF GoesOn, Path
  <1>5. CASE RecordExecuted(r) \/ RecordFailed(r) \/ RecordRaises(r)
    BY <1>5, <1>a DEF RecordExecuted, RecordFailed, RecordRaises, Goto, GoesOn, Path, Activities
  <1>6. CASE LogOutcome(r)
    BY <1>6, <1>a DEF LogOutcome, Ending, Goto, GoesOn, Path, Activities
  <1>7. CASE SaveCheckpoint(r) \/ Crash(r)
    BY <1>7, <1>a DEF SaveCheckpoint, Crash
  <1> QED BY <1>1, <1>2, <1>3, <1>4, <1>5, <1>6, <1>7, OnlyItselfMoves

(* A runner that waits was waiting, or has just posted. *)
LEMMA WaitsForItsPost ==
    ASSUME Inv, [Next]_vars, NEW r \in Runners, act'[r].pc = "wait"
    PROVE  \/ act'[r] = act[r]
           \/ \E q \in Requests : Post(r, q) /\ act'[r].request = q /\ act'[r].key = act[r].key
  <1>a. act[r] \in Activities /\ act \in [Runners -> Activities]
    BY DEF Inv, TypeOK
  <1>1. ASSUME NEW q \in Requests, Post(r, q)
        PROVE  act'[r].request = q /\ act'[r].key = act[r].key
    BY <1>1, <1>a DEF Post, Activities
  <1>2. CASE act'[r] # act[r]
    <2>0. ~ Crash(r)
      BY <1>a DEF Crash, NotRunning
    <2>1. act[r].pc = "post" /\ act'[r].key = act[r].key
      BY <1>2, RunnerEffect DEF Begins, Branch, NotRunning, GoesOn, Path
    <2>2. \E q \in Requests : Post(r, q)
      BY <1>2, <2>0, <2>1, OnlyItselfMoves
         DEF Inv, BeginAct, AlreadyExecuted, InvalidArguments, Submit, Receive, TimeOut, GivesUp,
             RecordExecuted, RecordFailed, RecordRaises, LogOutcome, SaveCheckpoint, Ending, Saved
    <2> QED BY <1>1, <2>2
  <1> QED BY <1>2

(* A runner waits on a request of its own in every step: it posts on a free
   exchange, and only the answer it reads, or its own end, frees it. *)
LEMMA WaitingStep == Inv /\ RecordsInv /\ [Next]_vars => WaitingOK'
  <1> SUFFICES ASSUME Inv, RecordsInv, [Next]_vars, NEW r \in Runners, act'[r].pc = "wait"
               PROVE  /\ wire'[act'[r].request].phase # "idle"
                      /\ wire'[act'[r].request].key = act'[r].key
                      /\ \A s \in Runners \ {r} : act'[s].pc = "wait" =>
                             act'[s].request # act'[r].request
    BY DEF WaitingOK
  <1> USE DEF Inv, RecordsInv
  <1>a. wire \in [Requests -> Exchanges] /\ act \in [Runners -> Activities]
    BY DEF TypeOK
  <1>1. ASSUME act'[r] = act[r], NEW q, q = act[r].request
        PROVE  wire'[q].phase # "idle" /\ wire'[q].key = act[r].key
    <2>1. q \in Requests /\ wire[q].phase # "idle" /\ wire[q].key = act[r].key
          /\ Awaited(q)
      BY <1>1 DEF RunnersOK, WaitingOK, Awaited
    <2>2. CASE wire'[q] = wire[q]
      BY <2>1, <2>2
    <2>3. ASSUME NEW p \in Requests, Service(p)
          PROVE  wire'[q] = wire[q] \/ (wire'[q].phase # "idle" /\ wire'[q].key = wire[q].key)
      <3>1. wire'[q] = wire[q] \/ Ended(q) \/ Looked(q) \/ Answered(q)
        BY <2>1, <2>3, ServiceEffect
      <3> QED BY <2>1, <3>1 DEF Ended, Looked, Answered
    <2>4. ASSUME NEW s \in Runners, Runner(s) \/ Crash(s), wire'[q] # wire[q]
          PROVE  FALSE
      <3>1. ASSUME NEW p \in Requests, Post(s, p)
            PROVE  wire'[q] = wire[q]
        BY <2>1, <3>1, <1>a DEF Post
      <3>2. ASSUME Receive(s) \/ Crash(s)
            PROVE  wire'[q] = wire[q]
        <4>1. s # r
          <5>1. ~ Receive(r)
            BY <1>1, AnswerLeads
          <5>2. ~ Crash(r)
            BY <1>1, <1>a DEF Crash, NotRunning
          <5> QED BY <3>2, <5>1, <5>2
        <4>2. act[s].pc = "wait" => act[s].request # q
          BY <1>1, <4>1 DEF WaitingOK
        <4> QED BY <2>1, <3>2, <4>2, <1>a DEF Receive, Crash
      <3> QED BY <2>4, <3>1, <3>2
              DEF Runner, BeginAct, AlreadyExecuted, InvalidArguments, Submit, TimeOut,
                  RecordExecuted, RecordFailed, RecordRaises, LogOutcome, SaveCheckpoint
    <2>5. wire'[q] # wire[q] => ~ Human /\ ~ UNCHANGED vars
      BY DEF Human, Decide, vars
    <2> QED BY <2>1, <2>2, <2>3, <2>4, <2>5 DEF Next
  <1>2. ASSUME NEW q \in Requests, Post(r, q), act'[r].request = q, act'[r].key = act[r].key
        PROVE  wire'[q].phase # "idle" /\ wire'[q].key = act'[r].key
    BY <1>2, <1>a DEF Post, NoExchange
  <1>3. ASSUME NEW s \in Runners, NEW t \in Runners, s # t, act'[t].pc = "wait",
               act'[t] = act[t], NEW q \in Requests, Post(s, q)
        PROVE  act'[t].request # q
    BY <1>3 DEF Post, WaitingOK
  <1>4. ASSUME NEW s \in Runners \ {r}, act'[s].pc = "wait"
        PROVE  act'[s].request # act'[r].request
    <2>1. CASE act'[s] = act[s] /\ act'[r] = act[r]
      BY <2>1, <1>4 DEF WaitingOK
    <2>2. ASSUME NEW q \in Requests, Post(r, q)
          PROVE  act'[s] = act[s]
      BY <2>2, <1>a DEF Post
    <2>3. ASSUME NEW q \in Requests, Post(s, q)
          PROVE  act'[r] = act[r]
      BY <2>3, <1>a DEF Post
    <2> QED BY <1>3, <1>4, <2>1, <2>2, <2>3, WaitsForItsPost
  <1> QED BY <1>1, <1>2, <1>4, WaitsForItsPost

(* Only Post starts an exchange and only a runner that reads, or dies, drops an
   answer; neither makes one. *)
LEMMA RepliesStep == Inv /\ RecordsInv /\ [Next]_vars => RepliesOK'
  <1> SUFFICES ASSUME Inv, RecordsInv, [Next]_vars, NEW p \in Requests
               PROVE  /\ wire'[p].reply # "refused"
                      /\ Success(wire'[p].reply) =>
                             wire'[p].key \in Approvals /\ ledger'[wire'[p].key] # None
    BY DEF RepliesOK, Success
  <1> USE DEF Inv, RecordsInv
  <1>a. wire[p] \in Exchanges /\ wire \in [Requests -> Exchanges]
    BY DEF TypeOK
  <1>b. /\ wire[p].reply # "refused"
        /\ Success(wire[p].reply) => wire[p].key \in Approvals /\ ledger'[wire[p].key] # None
    BY AppliedStays DEF RepliesOK
  <1>c. None # "refused" /\ ~ Success(None)
    BY ConstantsAssumption DEF Replies, Success
  <1>1. CASE wire'[p].reply = None
    BY <1>1, <1>c
  <1>2. CASE wire'[p].reply = wire[p].reply /\ wire'[p].key = wire[p].key
    BY <1>2, <1>b
  <1>3. ASSUME NEW q \in Requests, Service(q)
        PROVE  \/ wire'[p].reply = None
               \/ wire'[p].reply = wire[p].reply /\ wire'[p].key = wire[p].key
               \/ Answered(p)
    BY <1>3, ServiceEffect DEF Ended, Looked, NoExchange
  <1>4. CASE Answered(p)
    BY <1>4 DEF Answered
  <1>5. ASSUME NEW r \in Runners, Runner(r) \/ Crash(r)
        PROVE  wire'[p].reply = None \/ wire'[p] = wire[p]
    <2>1. ASSUME NEW q \in Requests, Post(r, q)
          PROVE  wire'[p].reply = None \/ wire'[p] = wire[p]
      BY <2>1, <1>a DEF Post, NoExchange
    <2>2. CASE Receive(r) \/ Crash(r)
      BY <2>2, <1>a DEF Receive, Crash, NoExchange
    <2> QED BY <1>5, <2>1, <2>2
            DEF Runner, BeginAct, AlreadyExecuted, InvalidArguments, Submit, TimeOut,
                RecordExecuted, RecordFailed, RecordRaises, LogOutcome, SaveCheckpoint
  <1>6. Human \/ UNCHANGED vars => wire'[p] = wire[p]
    BY DEF Human, Decide, vars
  <1> QED BY <1>1, <1>2, <1>3, <1>4, <1>5, <1>6 DEF Next

(* A runner comes to say that an action was executed from an answer that says
   so, or from a record that does. *)
LEMMA OutcomesStep == Inv /\ RecordsInv /\ [Next]_vars => OutcomesOK'
  <1> SUFFICES ASSUME Inv, RecordsInv, [Next]_vars, NEW r \in Runners,
                      act'[r].pc \in SaysExecuted
               PROVE  ledger'[act'[r].key] # None
    BY DEF OutcomesOK
  <1> USE DEF Inv, RecordsInv
  <1>a. act[r] \in Activities /\ act \in [Runners -> Activities]
    BY DEF TypeOK
  <1>1. ASSUME act'[r].key = act[r].key, act[r].pc # "idle", ledger[act[r].key] # None
        PROVE  ledger'[act'[r].key] # None
    BY <1>1, AppliedStays DEF RunnersOK
  <1>2. CASE act'[r] = act[r]
    BY <1>1, <1>2 DEF OutcomesOK, SaysExecuted
  <1>3. ASSUME act'[r] # act[r]
        PROVE  ledger[act[r].key] # None /\ act'[r].key = act[r].key /\ act[r].pc # "idle"
    <2>1. /\ act'[r].key = act[r].key /\ act[r].pc # "idle"
          /\ \/ act[r].pc \in SaysExecuted
             \/ act[r].pc = "wait" /\ act'[r].pc = "record_executed"
             \/ act[r].pc = "execute" /\ act'[r].pc = "log_already_executed"
      BY <1>3, RunnerEffect DEF Begins, Branch, NotRunning, GoesOn, Path, SaysExecuted
    <2>2. CASE act[r].pc \in SaysExecuted
      BY <2>1, <2>2 DEF OutcomesOK
    <2>3. CASE act[r].pc = "wait" /\ act'[r].pc = "record_executed"
      <3>1. Receive(r) \/ TimeOut(r) \/ Crash(r)
        BY <1>3, <2>3, OnlyItselfMoves
           DEF BeginAct, AlreadyExecuted, InvalidArguments, Submit, Post, RecordExecuted,
               RecordFailed, RecordRaises, LogOutcome, SaveCheckpoint, Ending, Saved
      <3>2. ~ TimeOut(r) /\ ~ Crash(r)
        BY <2>3, <1>a, RetryType DEF TimeOut, Crash, NotRunning
      <3> DEFINE reply == wire[act[r].request].reply
      <3>3. Success(reply)
        <4>1. ASSUME ~ Success(reply)
              PROVE  \/ act'[r] = Retry(r)
                     \/ act'[r] = [act[r] EXCEPT !.pc = "record_failed", !.request = None]
          BY <3>1, <3>2, <4>1, <1>a DEF Receive
        <4>2. ASSUME act'[r] = [act[r] EXCEPT !.pc = "record_failed", !.request = None]
              PROVE  FALSE
          BY <2>3, <4>2, <1>a DEF Activities
        <4> QED BY <2>3, <4>1, <4>2, RetryType
      <3>4. act[r].request \in Requests /\ wire[act[r].request].key = act[r].key
        BY <2>3 DEF RunnersOK, WaitingOK
      <3> QED BY <2>1, <3>3, <3>4 DEF RepliesOK
    <2>4. CASE act[r].pc = "execute" /\ act'[r].pc = "log_already_executed"
      <3>1. AlreadyExecuted(r) \/ InvalidArguments(r) \/ Submit(r) \/ Crash(r)
        BY <1>3, <2>4, OnlyItselfMoves
           DEF BeginAct, Post, Receive, TimeOut, GivesUp, RecordExecuted,
               RecordFailed, RecordRaises, LogOutcome, SaveCheckpoint, Ending, Saved
      <3>2. ~ InvalidArguments(r) /\ ~ Submit(r) /\ ~ Crash(r)
        BY <2>4, <1>a DEF InvalidArguments, Submit, Crash, Goto, NotRunning, Activities
      <3>3. Done(act[r].key) /\ act[r].key \in Approvals
        BY <2>4, <3>1, <3>2 DEF AlreadyExecuted, RunnersOK
      <3> QED BY <2>1, <3>3 DEF Done, ExecutedMeansApplied
    <2> QED BY <2>1, <2>2, <2>3, <2>4
  <1> QED BY <1>1, <1>2, <1>3

(* A runner takes the branch of the decision it reads, which is final. *)
LEMMA BranchesStep == Inv /\ RecordsInv /\ [Next]_vars => BranchesOK'
  <1> SUFFICES ASSUME Inv, RecordsInv, [Next]_vars, NEW r \in Runners
               PROVE  /\ act'[r].pc \in Executes =>
                             approval'[act'[r].key].decision \in ApprovedDecisions
                      /\ act'[r].pc \in {"log_rejected", "save_rejected"} =>
                             approval'[act'[r].key].decision = "rejected"
    BY DEF BranchesOK, Approved
  <1> USE DEF Inv, RecordsInv
  <1>a. act[r] \in Activities /\ act \in [Runners -> Activities]
    BY DEF TypeOK
  <1>1. ASSUME act[r].pc # "idle", act'[r].key = act[r].key,
               approval[act[r].key].decision # "pending"
        PROVE  approval'[act'[r].key] = approval[act[r].key]
    BY <1>1, DecidedStays DEF RunnersOK
  <1>2. CASE act'[r] = act[r]
    BY <1>1, <1>2 DEF BranchesOK, Approved, ApprovedDecisions, Executes
  <1>3. CASE act'[r] = NotRunning
    BY <1>3 DEF NotRunning, Executes
  <1>4. ASSUME NEW k \in Approvals, BeginAct(r, k), act'[r].key = k, act'[r].pc = Branch(k)
        PROVE  act'[r].pc = "log_rejected" => approval'[act'[r].key].decision = "rejected"
    BY <1>4 DEF BeginAct, Branch
  <1>5. CASE Begins(r)
    BY <1>4, <1>5 DEF Begins, Branch, Executes
  <1>6. CASE GoesOn(r) /\ act'[r].pc = "post" /\ act[r].pc = "execute"
    <2>1. Submit(r)
      <3>1. AlreadyExecuted(r) \/ InvalidArguments(r) \/ Submit(r) \/ Crash(r)
        BY <1>6, OnlyItselfMoves
           DEF BeginAct, Post, Receive, TimeOut, GivesUp, RecordExecuted,
               RecordFailed, RecordRaises, LogOutcome, SaveCheckpoint, Ending, Saved
      <3>2. ~ AlreadyExecuted(r) /\ ~ InvalidArguments(r) /\ ~ Crash(r)
        BY <1>6, <1>a DEF AlreadyExecuted, InvalidArguments, Crash, Goto, NotRunning, Activities
      <3> QED BY <3>1, <3>2
    <2> QED BY <1>6, <2>1 DEF Submit, GoesOn, Approved, Executes
  <1>7. CASE GoesOn(r) /\ ~ (act'[r].pc = "post" /\ act[r].pc = "execute")
    <2>1. act'[r].pc \in Executes => act[r].pc \in Executes
      BY <1>7 DEF GoesOn, Path, Executes
    <2>2. act'[r].pc \in {"log_rejected", "save_rejected"} => act[r].pc = "log_rejected"
      BY <1>7 DEF GoesOn, Path
    <2> QED BY <1>1, <1>7, <2>1, <2>2
            DEF BranchesOK, Approved, ApprovedDecisions, Executes, GoesOn
  <1> QED BY <1>2, <1>3, <1>5, <1>6, <1>7, RunnerEffect

(* What can change the records: an outcome is recorded, logged and saved by the
   runner that has come to it, and a request is counted when it is posted. *)
LEMMA WhoRecords ==
    ASSUME [Next]_vars
    PROVE  /\ UNCHANGED row \/ \E r \in Runners : RecordExecuted(r) \/ RecordFailed(r)
           /\ UNCHANGED audit \/ \E r \in Runners : LogOutcome(r)
           /\ UNCHANGED checkpoint \/ \E r \in Runners : SaveCheckpoint(r)
           /\ UNCHANGED sent \/ \E r \in Runners, q \in Requests : Post(r, q)
           /\ UNCHANGED runs \/ \E r \in Runners, k \in Approvals : BeginAct(r, k)
  BY DEF Next, Human, Runner, Service, vars, Decide, BeginAct, AlreadyExecuted,
         InvalidArguments, Submit, Post, Receive, TimeOut, Lose, Unavailable, Look,
         Apply, LostRace, RecordExecuted, RecordFailed, RecordRaises, LogOutcome,
         SaveCheckpoint, Crash

(* An outcome is recorded for the runner's approval, its attempts added. *)
LEMMA RecordEffect ==
    ASSUME TypeOK, RunnersOK, NEW r \in Runners, RecordExecuted(r) \/ RecordFailed(r)
    PROVE  LET k == act[r].key IN
           /\ k \in Approvals /\ act[r].pc \in {"record_executed", "record_failed"}
           /\ row'[k].outcome = IF act[r].pc = "record_executed" THEN "executed" ELSE "failed"
           /\ row'[k].attempts = row[k].attempts + act[r].attempt
           /\ \A j \in Approvals \ {k} : row'[j] = row[j]
  BY DEF RecordExecuted, RecordFailed, Recorded, RunnersOK, TypeOK

(* An outcome is logged in the counter of its event, of the runner's approval. *)
LEMMA LogEffect ==
    ASSUME TypeOK, RunnersOK, NEW r \in Runners, LogOutcome(r)
    PROVE  LET k == act[r].key
               event == Ending[act[r].pc].event
           IN  /\ k \in Approvals /\ act[r].pc \in DOMAIN Ending /\ event \in Events
               /\ audit'[k][event] = audit[k][event] + 1
               /\ \A e \in Events \ {event} : audit'[k][e] = audit[k][e]
               /\ \A j \in Approvals \ {k} : audit'[j] = audit[j]
  <1> DEFINE k == act[r].key
             event == Ending[act[r].pc].event
  <1>1. act[r].pc \in DOMAIN Ending /\ event \in Events /\ k \in Approvals
    BY DEF LogOutcome, Ending, Events, RunnersOK
  <1>2. audit \in [Approvals -> [Events -> Nat]]
    BY DEF TypeOK
  <1>3. audit' = [audit EXCEPT ![k] = [audit[k] EXCEPT ![event] = audit[k][event] + 1]]
    BY DEF LogOutcome, Log
  <1> HIDE DEF k, event
  <1>4. /\ audit'[k][event] = audit[k][event] + 1
        /\ \A e \in Events \ {event} : audit'[k][e] = audit[k][e]
        /\ \A j \in Approvals \ {k} : audit'[j] = audit[j]
    BY <1>1, <1>2, <1>3
  <1> QED BY <1>1, <1>4 DEF k, event

(* The checkpoint is saved as the runner's ending says. *)
LEMMA SaveEffect ==
    ASSUME TypeOK, RunnersOK, NEW r \in Runners, SaveCheckpoint(r)
    PROVE  LET k == act[r].key IN
           /\ k \in Approvals /\ act[r].pc \in DOMAIN Saved
           /\ checkpoint'[k] = Saved[act[r].pc]
           /\ \A j \in Approvals \ {k} : checkpoint'[j] = checkpoint[j]
  BY DEF SaveCheckpoint, Saved, RunnersOK, TypeOK

(* Whatever says that an action was executed is written by a runner that knows
   it was, and the ledger keeps the proof. *)
LEMMA ExecutedStep == Inv /\ RecordsInv /\ [Next]_vars => ExecutedMeansApplied'
  <1> SUFFICES ASSUME Inv, RecordsInv, [Next]_vars, NEW k \in Approvals
               PROVE  /\ row'[k].outcome = "executed" => ledger'[k] # None
                      /\ audit'[k]["action_executed"] > 0 => ledger'[k] # None
                      /\ audit'[k]["action_already_executed"] > 0 => ledger'[k] # None
                      /\ checkpoint'[k] = "executed" => ledger'[k] # None
    BY DEF ExecutedMeansApplied
  <1> USE DEF Inv, RecordsInv
  <1>a. \A r \in Runners : act[r].pc \in SaysExecuted /\ act[r].key = k => ledger'[k] # None
    BY AppliedStays DEF OutcomesOK
  <1>1. row'[k].outcome = "executed" => ledger'[k] # None
    <2>1. CASE row'[k] = row[k]
      BY <2>1, AppliedStays DEF ExecutedMeansApplied
    <2>2. ASSUME NEW r \in Runners, RecordExecuted(r) \/ RecordFailed(r),
                 row'[k].outcome = "executed", act[r].key = k
          PROVE  act[r].pc \in SaysExecuted
      BY <2>2, RecordEffect DEF SaysExecuted
    <2> QED BY <1>a, <2>1, <2>2, RecordEffect, WhoRecords
  <1>2. ASSUME NEW e \in {"action_executed", "action_already_executed"}, audit'[k][e] > 0
        PROVE  ledger'[k] # None
    <2>1. CASE audit'[k][e] = audit[k][e]
      <3>1. ledger[k] # None
        BY <1>2, <2>1 DEF ExecutedMeansApplied
      <3> QED BY <3>1, AppliedStays
    <2>2. ASSUME NEW r \in Runners, LogOutcome(r), audit'[k][e] # audit[k][e]
          PROVE  act[r].pc \in SaysExecuted /\ act[r].key = k
      <3>1. act[r].key = k /\ Ending[act[r].pc].event = e
        BY <1>2, <2>2, LogEffect DEF Events
      <3>2. act[r].pc \in DOMAIN Ending
        BY <2>2 DEF LogOutcome
      <3> QED BY <1>2, <3>1, <3>2 DEF Ending, SaysExecuted
    <2> QED BY <1>a, <2>1, <2>2, WhoRecords
  <1>3. checkpoint'[k] = "executed" => ledger'[k] # None
    <2>1. CASE checkpoint'[k] = checkpoint[k]
      BY <2>1, AppliedStays DEF ExecutedMeansApplied
    <2>2. ASSUME NEW r \in Runners, SaveCheckpoint(r), checkpoint'[k] = "executed",
                 act[r].key = k
          PROVE  act[r].pc \in SaysExecuted
      BY <2>2, SaveEffect DEF Saved, SaysExecuted
    <2> QED BY <1>a, <2>1, <2>2, SaveEffect, WhoRecords
  <1> QED BY <1>1, <1>2, <1>3

(* Nothing is posted or recorded without an approval, and nothing is logged or
   saved as rejected without a rejection. *)
LEMMA RejectionsStep == Inv /\ RecordsInv /\ [Next]_vars => RejectionsOK'
  <1> SUFFICES ASSUME Inv, RecordsInv, [Next]_vars, NEW k \in Approvals
               PROVE  /\ ~ Approved(k)' => sent'[k] = 0 /\ row'[k].outcome = "none"
                      /\ approval'[k].decision # "rejected" =>
                             /\ audit'[k]["approval_rejected"] = 0
                             /\ checkpoint'[k] # "rejected"
    BY DEF RejectionsOK
  <1> USE DEF Inv, RecordsInv
  <1>a. \A r \in Runners : act[r].key = k /\ act[r].pc \in Executes =>
            Approved(k) /\ Approved(k)'
    BY DecidedStays DEF BranchesOK, Approved, ApprovedDecisions
  <1>b. \A r \in Runners : act[r].key = k /\ act[r].pc \in {"log_rejected", "save_rejected"} =>
            approval'[k].decision = "rejected"
    BY DecidedStays DEF BranchesOK
  <1>c. ~ Approved(k)' => ~ Approved(k)
    BY DecidedStays DEF Approved, ApprovedDecisions
  <1>d. approval'[k].decision # "rejected" => approval[k].decision # "rejected"
    BY DecidedStays
  <1>1. ASSUME ~ Approved(k)'
        PROVE  sent'[k] = 0
    <2>1. ASSUME NEW r \in Runners, NEW q \in Requests, Post(r, q)
          PROVE  sent'[k] = sent[k]
      <3>1. act[r].key # k
        BY <1>1, <1>a, <2>1 DEF Post, Executes
      <3> QED BY <2>1, <3>1 DEF Post, TypeOK
    <2> QED BY <1>1, <1>c, <2>1, WhoRecords DEF RejectionsOK
  <1>2. ASSUME ~ Approved(k)'
        PROVE  row'[k].outcome = "none"
    <2>1. ASSUME NEW r \in Runners, RecordExecuted(r) \/ RecordFailed(r)
          PROVE  row'[k] = row[k]
      BY <1>2, <1>a, <2>1, RecordEffect DEF Executes
    <2> QED BY <1>2, <1>c, <2>1, WhoRecords DEF RejectionsOK
  <1>3. ASSUME approval'[k].decision # "rejected"
        PROVE  audit'[k]["approval_rejected"] = 0
    <2>1. ASSUME NEW r \in Runners, LogOutcome(r)
          PROVE  audit'[k]["approval_rejected"] = audit[k]["approval_rejected"]
      <3>1. CASE act[r].key # k
        BY <2>1, <3>1, LogEffect
      <3>2. CASE act[r].key = k
        <4>1. act[r].pc \in DOMAIN Ending /\ act[r].pc # "log_rejected"
          BY <1>3, <1>b, <2>1, <3>2 DEF LogOutcome
        <4>2. Ending[act[r].pc].event # "approval_rejected"
          BY <4>1 DEF Ending
        <4> QED BY <2>1, <3>2, <4>2, LogEffect DEF Events
      <3> QED BY <3>1, <3>2
    <2> QED BY <1>3, <1>d, <2>1, WhoRecords DEF RejectionsOK
  <1>4. ASSUME approval'[k].decision # "rejected"
        PROVE  checkpoint'[k] # "rejected"
    <2>1. ASSUME NEW r \in Runners, SaveCheckpoint(r)
          PROVE  checkpoint'[k] = checkpoint[k] \/ checkpoint'[k] # "rejected"
      BY <1>4, <1>b, <2>1, SaveEffect DEF Saved
    <2> QED BY <1>4, <1>d, <2>1, WhoRecords DEF RejectionsOK
  <1> QED BY <1>1, <1>2, <1>3, <1>4

------------------------------------------------------------------------------
(* Every reachable state satisfies the invariant of the records. *)
THEOREM RecordsInvariance == Spec => []RecordsInv
  <1>1. Inv /\ RecordsInv /\ [Next]_vars => RecordsInv'
    BY WaitingStep, RepliesStep, OutcomesStep, BranchesStep, ExecutedStep, RejectionsStep
       DEF RecordsInv
  <1> QED BY InitRecords, Invariance, <1>1, PTL DEF Spec

(* With any number of runners that may die anywhere, nothing says that an action
   was executed unless the control plane applied it. *)
THEOREM RecordedExecution == Spec => []ExecutedMeansApplied
  <1>1. RecordsInv => ExecutedMeansApplied
    BY DEF RecordsInv
  <1> QED BY <1>1, RecordsInvariance, PTL

(* However often an attempt is repeated, and by whomever, none is ever refused
   for reusing its key with another body. *)
THEOREM NoKeyReused == Spec => []KeyNeverReused
  <1>1. RecordsInv => KeyNeverReused
    BY DEF RecordsInv, RepliesOK, KeyNeverReused
  <1> QED BY <1>1, RecordsInvariance, PTL

(* A rejected approval leaves no trace of an execution, and an approved one none
   of a rejection, with any number of runners. *)
THEOREM RejectionWithoutEffect == Spec => []RejectionHasNoEffect
  <1>1. RecordsInv => RejectionHasNoEffect
    BY DEF RecordsInv, RejectionsOK, RejectionHasNoEffect, Approved, ApprovedDecisions
  <1> QED BY <1>1, RecordsInvariance, PTL

------------------------------------------------------------------------------
(* With one runner. *)
OneRunner == \A r, s \in Runners : r = s

(* What is not recorded as executed has not been logged as executed; a runner
   that may still record an outcome works on such an action, and one that is
   about to log an execution logs the first. *)
LogsOK ==
    /\ \A k \in Approvals : ~ Done(k) => audit[k]["action_executed"] = 0
    /\ \A r \in Runners :
           /\ act[r].pc \in Executes => ~ Done(act[r].key)
           /\ act[r].pc = "log_executed" =>
                  Done(act[r].key) /\ audit[act[r].key]["action_executed"] = 0
           /\ act[r].pc = "log_already_executed" => Done(act[r].key)

(* The attempts a runner has posted and not recorded, and those it may still
   post in this run. *)
Unrecorded(r) ==
    CASE act[r].pc = "post" -> act[r].attempt - 1
      [] act[r].pc \in Executes \ {"post"} -> act[r].attempt
      [] OTHER -> 0
Left(r) ==
    CASE act[r].pc = "execute" -> MaxAttempts
      [] act[r].pc = "post" -> MaxAttempts - act[r].attempt + 1
      [] act[r].pc = "wait" -> MaxAttempts - act[r].attempt
      [] OTHER -> 0

AttemptsOK ==
    /\ \A r \in Runners : act[r].pc \in Executes => act[r].attempt \in 1..MaxAttempts
    /\ AttemptsAreReal
    /\ \A r \in Runners : act[r].pc # "idle" =>
           LET k == act[r].key IN
           /\ row[k].attempts + Unrecorded(r) <= sent[k]
           /\ sent[k] + Left(r) <= MaxAttempts * runs[k]

OneRunnerInv == LogsOK /\ OneExecutionEvent /\ AttemptsOK

(* Initially nothing is recorded, logged or posted. *)
LEMMA InitOneRunner == Init => OneRunnerInv
  <1> SUFFICES ASSUME Init PROVE OneRunnerInv
    OBVIOUS
  <1> USE ConstantsAssumption
  <1>1. LogsOK /\ OneExecutionEvent
    BY DEF Init, NotRunning, LogsOK, OneExecutionEvent, Events, Executes
  <1>2. AttemptsAreReal
    BY DEF Init, AttemptsAreReal
  <1>3. AttemptsOK
    BY <1>2 DEF Init, NotRunning, AttemptsOK, Executes
  <1> QED BY <1>1, <1>3 DEF OneRunnerInv

(* A runner on its way to post or record changes its step when it does either. *)
LEMMA OwnMoves ==
    ASSUME Inv, [Next]_vars, NEW r \in Runners
    PROVE  /\ RecordExecuted(r) => act[r].pc = "record_executed" /\ act'[r].pc = "log_executed"
           /\ RecordFailed(r) => act[r].pc = "record_failed" /\ act'[r].pc = "log_failed"
           /\ LogOutcome(r) => act[r].pc \in DOMAIN Ending /\ act'[r].pc = Ending[act[r].pc].save
           /\ \A q \in Requests : Post(r, q) => act[r].pc = "post" /\ act'[r].pc = "wait"
  <1> act[r] \in Activities /\ act \in [Runners -> Activities]
    BY DEF Inv, TypeOK
  <1> QED BY DEF RecordExecuted, RecordFailed, LogOutcome, Post, Goto, Activities

(* What is recorded as executed stays so, and is not posted again: the one
   runner that could do either looked at the record before. *)
LEMMA DoneStays ==
    ASSUME OneRunner, Inv, OneRunnerInv, [Next]_vars, NEW k \in Approvals, Done(k)
    PROVE  row'[k] = row[k] /\ sent'[k] = sent[k]
  <1> USE DEF Inv
  <1>a. \A r \in Runners : act[r].pc \in Executes => act[r].key # k
    BY DEF OneRunnerInv, LogsOK
  <1>1. ASSUME NEW r \in Runners, RecordExecuted(r) \/ RecordFailed(r)
        PROVE  row'[k] = row[k]
    BY <1>a, <1>1, RecordEffect DEF Executes
  <1>2. ASSUME NEW r \in Runners, NEW q \in Requests, Post(r, q)
        PROVE  sent'[k] = sent[k]
    BY <1>a, <1>2 DEF Post, Executes, TypeOK
  <1> QED BY <1>1, <1>2, WhoRecords

(* With one runner the log of executions follows the record. *)
LEMMA LogsStep ==
    ASSUME OneRunner, Inv, OneRunnerInv, [Next]_vars
    PROVE  LogsOK'
  <1> USE DEF Inv, OneRunnerInv
  <1>1. ASSUME NEW k \in Approvals, row'[k].outcome # "executed"
        PROVE  audit'[k]["action_executed"] = 0
    <2>1. audit[k]["action_executed"] = 0
      BY <1>1, DoneStays DEF LogsOK, Done
    <2>2. ASSUME NEW r \in Runners, LogOutcome(r), act[r].key = k,
                 Ending[act[r].pc].event = "action_executed"
          PROVE  FALSE
      <3>1. act[r].pc = "log_executed"
        BY <2>2 DEF LogOutcome, Ending
      <3> QED BY <1>1, <2>2, <3>1, DoneStays DEF LogsOK, Done
    <2>3. ASSUME NEW r \in Runners, LogOutcome(r)
          PROVE  audit'[k]["action_executed"] = audit[k]["action_executed"]
      BY <2>2, <2>3, LogEffect DEF Events
    <2> QED BY <2>1, <2>3, WhoRecords
  <1>2. ASSUME NEW r \in Runners, act'[r].pc \in Executes
        PROVE  row'[act'[r].key].outcome # "executed"
    <2>1. UNCHANGED row
      BY <1>2, OwnMoves, WhoRecords DEF OneRunner, Executes
    <2>2. act'[r] # act[r] =>
             act'[r].key = act[r].key /\ (act[r].pc \in Executes \/ act[r].pc = "execute")
      BY <1>2, RunnerEffect DEF Begins, Branch, NotRunning, GoesOn, Path, Executes
    <2>3. CASE act[r].pc \in Executes
      BY <2>1, <2>2, <2>3 DEF LogsOK, Done
    <2>4. CASE act[r].pc = "execute"
      <3>1. act'[r] # act[r]
        BY <1>2, <2>4 DEF Executes
      <3>2. act[r] \in Activities /\ act \in [Runners -> Activities]
        BY DEF TypeOK
      <3>3. ~ Crash(r) /\ ~ AlreadyExecuted(r)
        BY <1>2, <3>2 DEF Crash, AlreadyExecuted, Goto, NotRunning, Executes, Activities
      <3>4. Submit(r) \/ InvalidArguments(r)
        BY <2>4, <3>1, <3>3, OnlyItselfMoves
           DEF BeginAct, Post, Receive, TimeOut, GivesUp, RecordExecuted,
               RecordFailed, RecordRaises, LogOutcome, SaveCheckpoint, Ending, Saved
      <3>5. ~ Done(act[r].key)
        BY <3>4 DEF Submit, InvalidArguments
      <3> QED BY <2>1, <2>2, <3>1, <3>5 DEF Done
    <2> QED BY <1>2, <2>2, <2>3, <2>4
  <1>3. ASSUME NEW r \in Runners, act'[r].pc = "log_executed"
        PROVE  /\ row'[act'[r].key].outcome = "executed"
               /\ audit'[act'[r].key]["action_executed"] = 0
    <2>1. UNCHANGED audit
      <3>1. ~ LogOutcome(r)
        BY <1>3, OwnMoves DEF Ending
      <3> QED BY <3>1, WhoRecords DEF OneRunner
    <2>2. CASE act'[r] = act[r]
      <3>1. act[r].key \in Approvals /\ Done(act[r].key)
            /\ audit[act[r].key]["action_executed"] = 0
        BY <1>3, <2>2 DEF RunnersOK, LogsOK
      <3>2. row'[act[r].key] = row[act[r].key]
        BY <3>1, DoneStays
      <3> QED BY <2>1, <2>2, <3>1, <3>2 DEF Done
    <2>3. CASE act'[r] # act[r]
      <3>1. act[r].pc = "record_executed" /\ act'[r].key = act[r].key
        BY <1>3, <2>3, RunnerEffect DEF Begins, Branch, NotRunning, GoesOn, Path
      <3>2. act[r] \in Activities /\ act \in [Runners -> Activities]
        BY DEF TypeOK
      <3>3. ~ RecordRaises(r) /\ ~ Crash(r)
        BY <1>3, <3>2 DEF RecordRaises, Crash, Goto, NotRunning, Activities
      <3>4. RecordExecuted(r)
        BY <2>3, <3>1, <3>3, OnlyItselfMoves
           DEF BeginAct, AlreadyExecuted, InvalidArguments, Submit, Post, Receive, TimeOut,
               GivesUp, RecordFailed, LogOutcome, SaveCheckpoint, Ending, Saved
      <3>5. row'[act[r].key].outcome = "executed" /\ act[r].key \in Approvals
        BY <3>1, <3>4, RecordEffect
      <3>6. audit[act[r].key]["action_executed"] = 0
        BY <3>1, <3>5 DEF LogsOK, Executes
      <3> QED BY <2>1, <3>1, <3>5, <3>6
    <2> QED BY <2>2, <2>3
  <1>4. ASSUME NEW r \in Runners, act'[r].pc = "log_already_executed"
        PROVE  row'[act'[r].key].outcome = "executed"
    <2>1. CASE act'[r] = act[r]
      BY <1>4, <2>1, DoneStays DEF LogsOK, RunnersOK, Done
    <2>2. CASE act'[r] # act[r]
      <3>1. act[r].pc = "execute" /\ act'[r].key = act[r].key
        BY <1>4, <2>2, RunnerEffect DEF Begins, Branch, NotRunning, GoesOn, Path
      <3>2. act[r] \in Activities /\ act \in [Runners -> Activities]
        BY DEF TypeOK
      <3>3. ~ InvalidArguments(r) /\ ~ Submit(r) /\ ~ Crash(r)
        BY <1>4, <3>2 DEF InvalidArguments, Submit, Crash, Goto, NotRunning, Activities
      <3>4. AlreadyExecuted(r)
        BY <2>2, <3>1, <3>3, OnlyItselfMoves
           DEF BeginAct, Post, Receive, TimeOut, GivesUp, RecordExecuted,
               RecordFailed, RecordRaises, LogOutcome, SaveCheckpoint, Ending, Saved
      <3> QED BY <3>1, <3>4, DoneStays DEF AlreadyExecuted, RunnersOK, Done
    <2> QED BY <2>1, <2>2
  <1> QED BY <1>1, <1>2, <1>3, <1>4 DEF LogsOK, Done

(* With one runner an execution is logged once, and a repetition only of what is
   recorded as executed. *)
LEMMA EventsStep ==
    ASSUME OneRunner, Inv, OneRunnerInv, [Next]_vars
    PROVE  OneExecutionEvent'
  <1> SUFFICES ASSUME NEW k \in Approvals
               PROVE  /\ audit'[k]["action_executed"] <= 1
                      /\ audit'[k]["action_already_executed"] > 0 =>
                             row'[k].outcome = "executed"
    BY DEF OneExecutionEvent
  <1> USE DEF Inv, OneRunnerInv
  <1>1. audit'[k]["action_executed"] <= 1
    <2>1. CASE audit'[k]["action_executed"] = audit[k]["action_executed"]
      BY <2>1 DEF OneExecutionEvent
    <2>2. ASSUME NEW r \in Runners, LogOutcome(r),
                 audit'[k]["action_executed"] # audit[k]["action_executed"]
          PROVE  audit'[k]["action_executed"] = 1
      <3>1. act[r].key = k /\ Ending[act[r].pc].event = "action_executed"
        BY <2>2, LogEffect DEF Events
      <3>2. act[r].pc = "log_executed"
        BY <2>2, <3>1 DEF LogOutcome, Ending
      <3>3. audit[k]["action_executed"] = 0
        BY <3>1, <3>2 DEF LogsOK
      <3> QED BY <2>2, <3>1, <3>3, LogEffect
    <2> QED BY <2>1, <2>2, WhoRecords
  <1>2. ASSUME audit'[k]["action_already_executed"] > 0
        PROVE  Done(k)
    <2>1. CASE audit'[k]["action_already_executed"] = audit[k]["action_already_executed"]
      BY <1>2, <2>1 DEF OneExecutionEvent, Done
    <2>2. ASSUME NEW r \in Runners, LogOutcome(r),
                 audit'[k]["action_already_executed"] # audit[k]["action_already_executed"]
          PROVE  Done(k)
      <3>1. act[r].key = k /\ Ending[act[r].pc].event = "action_already_executed"
        BY <2>2, LogEffect DEF Events
      <3>2. act[r].pc = "log_already_executed"
        BY <2>2, <3>1 DEF LogOutcome, Ending
      <3> QED BY <3>1, <3>2 DEF LogsOK
    <2> QED BY <2>1, <2>2, WhoRecords
  <1> QED BY <1>1, <1>2, DoneStays DEF Done

(* Another attempt is the next one, within the maximum; giving up counts none. *)
LEMMA RetryCounts ==
    ASSUME TypeOK, NEW r \in Runners
    PROVE  IF Retry(r).pc = "post"
           THEN act[r].attempt < MaxAttempts /\ Retry(r).attempt = act[r].attempt + 1
           ELSE Retry(r).attempt = act[r].attempt
  <1>1. act[r] \in Activities
    BY DEF TypeOK
  <1>2. CASE act[r].attempt < MaxAttempts
    <2> DEFINE n == act[r].attempt + 1
    <2>1. Retry(r) = [act[r] EXCEPT !.pc = "post", !.attempt = n, !.request = None]
      BY <1>2 DEF Retry
    <2> HIDE DEF n
    <2>2. Retry(r).pc = "post" /\ Retry(r).attempt = n
      BY <1>1, <2>1 DEF Activities
    <2> QED BY <1>2, <2>2 DEF n
  <1>3. CASE ~ (act[r].attempt < MaxAttempts)
    BY <1>1, <1>3 DEF Retry, Activities
  <1> QED BY <1>2, <1>3

(* The attempts of a run are counted from 1 to the maximum. *)
LEMMA AttemptCount ==
    ASSUME Inv, OneRunnerInv, [Next]_vars, NEW r \in Runners, act'[r].pc \in Executes
    PROVE  act'[r].attempt \in 1..MaxAttempts
  <1> USE DEF Inv, OneRunnerInv
  <1>a. act[r] \in Activities /\ act \in [Runners -> Activities]
    BY DEF TypeOK
  <1>b. MaxAttempts \in Nat /\ MaxAttempts >= 1 /\ act[r].attempt \in Nat
    BY <1>a, ConstantsAssumption DEF Activities
  <1>1. CASE act'[r] = act[r]
    BY <1>1 DEF AttemptsOK
  <1>2. CASE act'[r] # act[r]
    <2>1. GoesOn(r) /\ (act[r].pc = "execute" \/ act[r].pc \in Executes)
      BY <1>2, RunnerEffect DEF Begins, Branch, NotRunning, GoesOn, Path, Executes
    <2>2. CASE act[r].pc = "execute"
      <3>1. ~ InvalidArguments(r) /\ ~ AlreadyExecuted(r) /\ ~ Crash(r)
        BY <1>a DEF InvalidArguments, AlreadyExecuted, Crash, Goto, NotRunning, Activities,
                    Executes
      <3>2. Submit(r)
        BY <1>2, <2>2, <3>1, OnlyItselfMoves
           DEF BeginAct, Post, Receive, TimeOut, GivesUp, RecordExecuted,
               RecordFailed, RecordRaises, LogOutcome, SaveCheckpoint, Ending, Saved
      <3>3. act'[r].attempt = 1
        BY <3>2, <1>a DEF Submit, Activities
      <3> QED BY <1>b, <3>3
    <2>3. ASSUME NEW q \in Requests, Post(r, q)
          PROVE  act'[r].attempt = act[r].attempt /\ act[r].pc \in Executes
      BY <2>3, <1>a DEF Post, Executes, Activities
    <2>4. CASE Receive(r) \/ TimeOut(r)
      <3>1. \/ act'[r] = Retry(r)
            \/ act'[r] = [act[r] EXCEPT !.pc = "record_executed", !.request = None]
            \/ act'[r] = [act[r] EXCEPT !.pc = "record_failed", !.request = None]
        BY <2>4, <1>a DEF Receive, TimeOut
      <3>2. act[r].attempt \in 1..MaxAttempts
        BY <2>4, AnswerLeads DEF AttemptsOK, Executes
      <3>3. act'[r].attempt =
                IF act'[r].pc = "post" THEN act[r].attempt + 1 ELSE act[r].attempt
        BY <3>1, <1>a, RetryCounts DEF Activities
      <3>4. act'[r].pc = "post" => act[r].attempt < MaxAttempts
        BY <3>1, <1>a, RetryCounts DEF Activities
      <3> QED BY <1>b, <3>2, <3>3, <3>4
    <2>5. CASE act[r].pc \in Executes
      <3>1. ~ RecordExecuted(r) /\ ~ RecordFailed(r)
        BY OwnMoves DEF Executes
      <3>2. ~ RecordRaises(r) /\ ~ Crash(r)
        BY <1>a DEF RecordRaises, Crash, Goto, NotRunning, Executes, Activities
      <3>3. Receive(r) \/ TimeOut(r) \/ \E q \in Requests : Post(r, q)
        BY <1>2, <2>5, <3>1, <3>2, OnlyItselfMoves
           DEF BeginAct, AlreadyExecuted, InvalidArguments, Submit, LogOutcome,
               SaveCheckpoint, Ending, Saved, Executes
      <3> QED BY <2>3, <2>4, <2>5, <3>3 DEF AttemptsOK
    <2> QED BY <2>1, <2>2, <2>5
  <1> QED BY <1>1, <1>2

(* The attempts still to record and still to make are counted by natural
   numbers. *)
LEMMA AccountType ==
    ASSUME Inv, OneRunnerInv, NEW r \in Runners
    PROVE  Unrecorded(r) \in Nat /\ Left(r) \in Nat
  <1>1. act[r].pc \in Executes => act[r].attempt \in 1..MaxAttempts
    BY DEF OneRunnerInv, AttemptsOK
  <1> QED BY <1>1, ConstantsAssumption DEF Unrecorded, Left, Executes

(* With one runner the attempts recorded and to be recorded are at most the
   requests posted, and those with the ones still to be posted at most what the
   runs of `act` allow. *)
LEMMA AttemptsStep ==
    ASSUME OneRunner, Inv, OneRunnerInv, [Next]_vars
    PROVE  AttemptsOK'
  <1> USE DEF Inv, OneRunnerInv
  <1> DEFINE Real(k) == row[k].attempts <= sent[k] /\ sent[k] <= MaxAttempts * runs[k]
             Account(r) == /\ row[act[r].key].attempts + Unrecorded(r) <= sent[act[r].key]
                           /\ sent[act[r].key] + Left(r) <= MaxAttempts * runs[act[r].key]
  <1> SUFFICES /\ \A k \in Approvals : Real(k)'
               /\ \A r \in Runners : act'[r].pc # "idle" => Account(r)'
    BY AttemptCount DEF AttemptsOK, AttemptsAreReal
  <1>a. act \in [Runners -> Activities] /\ \A r \in Runners : act[r] \in Activities
    BY DEF TypeOK
  <1>b. \A k \in Approvals : Real(k)
    BY DEF AttemptsOK, AttemptsAreReal
  <1>c. \A r \in Runners : act[r].pc # "idle" => act[r].key \in Approvals /\ Account(r)
    BY DEF AttemptsOK, RunnersOK
  <1>d. \A k \in Approvals : row[k].attempts \in Nat /\ sent[k] \in Nat /\ runs[k] \in Nat
                              /\ MaxAttempts * runs[k] \in Nat
    BY ConstantsAssumption DEF TypeOK
  <1>e. \A r \in Runners : act[r].pc \in Executes => act[r].attempt \in 1..MaxAttempts
    BY DEF AttemptsOK
  <1>1. CASE UNCHANGED <<act, row, sent, runs>>
    BY <1>1, <1>b, <1>c DEF Unrecorded, Left
  <1>2. ASSUME NEW r \in Runners, NEW k \in Approvals, BeginAct(r, k)
        PROVE  (\A j \in Approvals : Real(j)') /\ Account(r)'
    <2>1. /\ UNCHANGED <<row, sent>> /\ act'[r].key = k /\ act'[r].pc = Branch(k)
          /\ runs'[k] = runs[k] + 1 /\ \A j \in Approvals \ {k} : runs'[j] = runs[j]
      BY <1>2, <1>a DEF BeginAct, NotRunning, TypeOK
    <2>2. MaxAttempts * runs'[k] = MaxAttempts * runs[k] + MaxAttempts
      BY <1>d, <2>1, ConstantsAssumption
    <2>3. Unrecorded(r)' = 0 /\ Left(r)' \in {0, MaxAttempts}
      BY <2>1 DEF Unrecorded, Left, Branch, Executes
    <2>4. Account(r)'
      BY <1>b, <1>d, <2>1, <2>2, <2>3, ConstantsAssumption
    <2>5. ASSUME NEW j \in Approvals
          PROVE  Real(j)'
      BY <1>b, <1>d, <2>1, <2>2, ConstantsAssumption
    <2> QED BY <2>4, <2>5
  <1>3. ASSUME NEW r \in Runners, UNCHANGED <<row, sent, runs>>, act'[r].key = act[r].key,
               act[r].pc # "idle", Unrecorded(r)' \in 0..Unrecorded(r), Left(r)' \in 0..Left(r)
        PROVE  (\A j \in Approvals : Real(j)') /\ Account(r)'
    BY <1>3, <1>b, <1>c, <1>d, AccountType
  <1>4. ASSUME NEW r \in Runners, Submit(r)
        PROVE  (\A j \in Approvals : Real(j)') /\ Account(r)'
    <2>1. /\ act[r].pc = "execute" /\ act'[r].key = act[r].key
          /\ act'[r].pc = "post" /\ act'[r].attempt = 1
      BY <1>4, <1>a DEF Submit, Activities
    <2>2. Unrecorded(r)' = 0 /\ Left(r)' = MaxAttempts /\ Left(r) = MaxAttempts
      BY <2>1, ConstantsAssumption DEF Unrecorded, Left
    <2>3. Unrecorded(r)' \in 0..Unrecorded(r) /\ Left(r)' \in 0..Left(r)
      BY <2>2, AccountType, ConstantsAssumption
    <2>4. UNCHANGED <<row, sent, runs>>
      BY <1>4 DEF Submit
    <2> QED BY <1>3, <2>1, <2>3, <2>4
  <1>5. ASSUME NEW r \in Runners, NEW q \in Requests, Post(r, q)
        PROVE  (\A j \in Approvals : Real(j)') /\ Account(r)'
    <2> PICK k \in Approvals : k = act[r].key
      BY <1>5, <1>c DEF Post
    <2>1. /\ act[r].pc = "post" /\ act'[r].key = k /\ act'[r].pc = "wait"
          /\ act'[r].attempt = act[r].attempt
      BY <1>5, <1>a DEF Post, Activities
    <2>2. /\ UNCHANGED <<row, runs>>
          /\ sent'[k] = sent[k] + 1 /\ \A j \in Approvals \ {k} : sent'[j] = sent[j]
      BY <1>5, <2>1 DEF Post, TypeOK
    <2>3. /\ act[r].attempt \in 1..MaxAttempts
          /\ Unrecorded(r) = act[r].attempt - 1 /\ Unrecorded(r)' = act[r].attempt
          /\ Left(r) = MaxAttempts - act[r].attempt + 1
          /\ Left(r)' = MaxAttempts - act[r].attempt
      BY <1>e, <2>1 DEF Unrecorded, Left, Executes
    <2>4. Account(r)
      BY <1>c, <2>1
    <2>5. Account(r)' /\ Real(k)'
      BY <1>d, <2>1, <2>2, <2>3, <2>4, ConstantsAssumption
    <2>6. \A j \in Approvals \ {k} : Real(j)'
      BY <1>b, <2>2
    <2> QED BY <2>5, <2>6
  <1>6. ASSUME NEW r \in Runners, Receive(r) \/ TimeOut(r)
        PROVE  (\A j \in Approvals : Real(j)') /\ Account(r)'
    <2>1. /\ act[r].pc = "wait" /\ act'[r].key = act[r].key
          /\ act'[r].pc \in {"post", "record_executed", "record_failed"}
      BY <1>6, AnswerLeads
    <2>2. \/ act'[r] = Retry(r)
          \/ act'[r] = [act[r] EXCEPT !.pc = "record_executed", !.request = None]
          \/ act'[r] = [act[r] EXCEPT !.pc = "record_failed", !.request = None]
      BY <1>6, <1>a DEF Receive, TimeOut
    <2>3. act'[r].attempt = IF act'[r].pc = "post" THEN act[r].attempt + 1 ELSE act[r].attempt
      BY <1>a, <2>2, RetryCounts DEF Activities
    <2>4. act[r].attempt \in 1..MaxAttempts
      BY <1>e, <2>1 DEF Executes
    <2>5. Unrecorded(r) = act[r].attempt /\ Left(r) = MaxAttempts - act[r].attempt
      BY <2>1 DEF Unrecorded, Left, Executes
    <2>6. Unrecorded(r)' = act[r].attempt
            /\ Left(r)' \in {0, MaxAttempts - act[r].attempt}
      BY <2>1, <2>3, <2>4, ConstantsAssumption DEF Unrecorded, Left, Executes
    <2>7. UNCHANGED <<row, sent, runs>>
      BY <1>6 DEF Receive, TimeOut
    <2> QED BY <1>3, <2>1, <2>4, <2>5, <2>6, <2>7, ConstantsAssumption
  <1>7. ASSUME NEW r \in Runners, RecordExecuted(r) \/ RecordFailed(r)
        PROVE  (\A j \in Approvals : Real(j)') /\ Account(r)'
    <2> PICK k \in Approvals : k = act[r].key
      BY <1>7, RecordEffect
    <2>1. /\ act[r].pc \in {"record_executed", "record_failed"}
          /\ row'[k].attempts = row[k].attempts + act[r].attempt
          /\ \A j \in Approvals \ {k} : row'[j] = row[j]
      BY <1>7, RecordEffect
    <2>2. /\ act'[r].pc \in {"log_executed", "log_failed"} /\ act'[r].key = k
          /\ UNCHANGED <<sent, runs>>
      BY <1>7, <1>a DEF RecordExecuted, RecordFailed, Goto, Activities
    <2>3. /\ act[r].attempt \in 1..MaxAttempts
          /\ Unrecorded(r) = act[r].attempt /\ Unrecorded(r)' = 0
          /\ Left(r) = 0 /\ Left(r)' = 0
      BY <1>e, <2>1, <2>2 DEF Unrecorded, Left, Executes
    <2>4. Account(r)
      BY <1>c, <2>1
    <2>5. Account(r)' /\ Real(k)'
      BY <1>d, <2>1, <2>2, <2>3, <2>4, ConstantsAssumption
    <2>6. \A j \in Approvals \ {k} : Real(j)'
      BY <1>b, <2>1, <2>2
    <2> QED BY <2>5, <2>6
  <1>8. ASSUME NEW r \in Runners,
               \/ AlreadyExecuted(r) \/ InvalidArguments(r) \/ RecordRaises(r)
               \/ LogOutcome(r) \/ SaveCheckpoint(r) \/ Crash(r)
        PROVE  (\A j \in Approvals : Real(j)') /\ (act'[r].pc # "idle" => Account(r)')
    <2>1. UNCHANGED <<row, sent, runs>>
      BY <1>8 DEF AlreadyExecuted, InvalidArguments, RecordRaises, LogOutcome,
                  SaveCheckpoint, Crash
    <2>2. act[r].pc # "idle"
      BY <1>8 DEF AlreadyExecuted, InvalidArguments, RecordRaises, LogOutcome,
                  SaveCheckpoint, Crash, Ending, Saved
    <2>3. /\ act'[r].pc \notin Executes \cup {"execute"}
          /\ act'[r].pc # "idle" => act'[r].key = act[r].key
      BY <1>8, <1>a DEF AlreadyExecuted, InvalidArguments, RecordRaises, LogOutcome,
             SaveCheckpoint, Crash, Ending, Saved, Goto, NotRunning, Executes, Activities
    <2>4. Unrecorded(r)' = 0 /\ Left(r)' = 0
      BY <2>3 DEF Unrecorded, Left, Executes
    <2>5. CASE act'[r].pc # "idle"
      BY <1>3, <2>1, <2>2, <2>3, <2>4, <2>5, AccountType
    <2> QED BY <1>b, <2>1, <2>5
  <1>9. Human \/ (\E q \in Requests : Service(q)) \/ UNCHANGED vars
            => UNCHANGED <<act, row, sent, runs>>
    BY DEF Human, Decide, Service, Lose, Unavailable, Look, Apply, LostRace, vars
  <1> QED BY <1>1, <1>2, <1>4, <1>5, <1>6, <1>7, <1>8, <1>9 DEF Next, Runner, OneRunner

------------------------------------------------------------------------------
(* With one runner, every reachable state satisfies the invariant of the
   record. *)
THEOREM OneRunnerInvariance ==
    ASSUME OneRunner
    PROVE  Spec => []OneRunnerInv
  <1>1. Inv /\ OneRunnerInv /\ [Next]_vars => OneRunnerInv'
    BY LogsStep, EventsStep, AttemptsStep DEF OneRunnerInv
  <1> QED BY InitOneRunner, Invariance, <1>1, PTL DEF Spec

(* One runner that may die anywhere, over a control plane that may lose or delay
   any request or answer, logs an execution once, repeats only what is recorded
   as executed, and takes no rejection for an approval. *)
THEOREM RecordsAgreement ==
    ASSUME OneRunner
    PROVE  Spec => []RecordsAgree
  <1>1. OneRunnerInv /\ RejectionHasNoEffect => RecordsAgree
    BY DEF OneRunnerInv, RecordsAgree
  <1> QED BY <1>1, OneRunnerInvariance, RejectionWithoutEffect, PTL

(* And accounts for every request it posts: the recorded attempts were made, no
   run makes more than the configured maximum, and none is refused. *)
THEOREM PostsAccounted ==
    ASSUME OneRunner
    PROVE  Spec => []PostsAreAccountedFor
  <1>1. OneRunnerInv /\ KeyNeverReused => PostsAreAccountedFor
    BY DEF OneRunnerInv, AttemptsOK, PostsAreAccountedFor
  <1> QED BY <1>1, OneRunnerInvariance, NoKeyReused, PTL

(* And leaves an action recorded as executed alone: it is neither recorded
   again nor posted again, whatever happens afterwards. *)
THEOREM FinalExecution ==
    ASSUME OneRunner
    PROVE  Spec => ExecutedIsFinal
  <1>1. Inv /\ OneRunnerInv /\ [Next]_vars =>
            [\A k \in Approvals : row[k].outcome = "executed" =>
                 row'[k] = row[k] /\ sent'[k] = sent[k]]_vars
    BY DoneStays DEF Done
  <1> QED BY <1>1, OneRunnerInvariance, Invariance, PTL DEF Spec, ExecutedIsFinal
==============================================================================
