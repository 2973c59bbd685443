# Formal specification of IncidentIQ

IncidentIQ investigates an incident with a graph of agent nodes, proposes a
write action, stops until a human decides, and executes what was approved
against a control plane. The parts below keep the promises around that
decision: nothing runs without it, what was approved runs as approved and once,
a decision is never lost, and a crash anywhere leaves something that a resume
can finish. Around that core are programs run by hand on the same database, the
evaluation harness, the migrations, the indexer and the seeders, and pure code
that its figures and its gates rest on. These modules model both, check them with
TLC on small instances, and prove with TLAPS, for every instance, the safety of the
core and of the programs beside it, that the core implements an abstract
specification of what it promises the human it asks, and the facts about searches,
grading, figures, answers and evidence that the pure code is there for.

Paths below are relative to `src/`; `agent/`, `api/`, `tools/`, `controlplane/`
and `rag/` are under `api/incidentiq/`. `PROJECT.json` maps every definition to
the lines it stands for.

## 1. The system

| Component | State it keeps | Operations |
|---|---|---|
| Agent graph (`agent/graph.py`, `agent/nodes.py`) | LangGraph checkpoints in Postgres: the node to run next, the `InvestigationState` after the last one | nine nodes; `start`, `resume`, `resume_for_decision`, `reset`; `_advance`, `_settle`, `_persist` |
| Background worker (`api/worker.py`) | memory only: `_active`, `_follow_ups`, the queue of a one-thread pool | `try_reserve`, `release`, `submit*`, `resume_after_decision`, `_run`, `drain` |
| HTTP API (`api/investigations.py`, `api/approvals.py`) | tables `investigations`, `approvals`, `audit_log` | start, decide, resume, read, stream events |
| Approved actions (`tools/actions.py`, `agent/nodes.py` `act`) | tables `actions`, `audit_log` | `execute_action`, `_record` |
| Control plane client and service (`controlplane/`) | table `control_plane_operations` (the idempotency ledger); a fault plan | `submit` with retries; look up, insert, replay or refuse |
| Read-only tools (`tools/base.py`, `tools/diagnostics.py`) | none; failure injection is seeded | `execute_tool` |
| Retrieval (`rag/`) | table `chunks` with vectors and text search | chunk, embed, index, search, fuse, hydrate |
| Model providers (`llm/`) | none | `complete_json`, `extract_json` |
| Evaluation harness (`evals/`) | rows planted in the corpus and table `eval_fixture_rows`; an advisory lock; a progress file and its provenance; results files | plant, investigate, decide, clear, grade, report, resume, regrade, compare; measure and sweep retrieval |
| Seeds (`seeds/`) | the corpus: documents, logs, metrics; `live_situations.json` | `load`, with `--force` over what is there |
| Migrations (`scripts/migrate.py`) | table `schema_migrations` | `migrate`, `--reset`, `--status` |
| Live view (`api/investigations.py` events, `web/src/api/`) | the page's cache and connection | stream a status, end, fall back to polling |
| MCP server, telemetry, authentication, web interface | see PROJECT.json | see PROJECT.json |

How they interact:

- An endpoint claims a slot of the worker, commits its row, then submits a job;
  the three are separate steps, and the process can die between any two.
- The worker's one thread runs `InvestigationRunner`, which moves the graph from
  checkpoint to checkpoint and, after each, *mirrors* the status into
  `investigations`, which is all that the endpoints and the page read. The API
  writes the same column. Two writers of one column, without a transaction over
  the checkpoint, is where most of the difficult behaviour comes from.
- `await_approval` inserts the approval; the graph then stops at the interrupt
  before `act`. A decision (another thread, any time from the insert on) updates
  the row and asks the worker to resume, while the job that inserted it may
  still be on its way out.
- `act` calls the control plane over HTTP, with the approval id as the
  idempotency key, records the outcome, audits it, and returns; only then is its
  checkpoint written. A death in between runs `act` again.
- The harness drives the same runner in its own process, over a corpus into which
  it plants each scenario's evidence and from which it takes it out. The corpus is
  shared: seeders replace it, the indexer derives the chunks from it, a sweep
  re-indexes it, and every search reads it. What keeps them apart is an advisory
  lock, transactions and the locks of their statements.

What is hard here, and what correct means:

| Component | Hard behaviour | Correct means |
|---|---|---|
| Approved actions | a lost or late answer, a retry racing the request it repeats, death between effect, record, audit and checkpoint | applied at most once and as authorised; records never claim more than happened |
| Worker | a decision arriving at the very end of a job; a slot taken while the lock is released | one job per investigation; no follow-up lost |
| Runner | the interrupt reached with a decision already made; a failed action that must wait for a person | never acts undecided, never retries unasked, `complete` only when done |
| API | two approvers; a resume against a start, a decision or the end of a job | a decision is final and takes effect; a stuck investigation can be recovered |
| Agent loop | model answers of any shape, tool retries, re-run nodes, rejection going back to planning | the cap ends it; approval ids are fresh; only write tools with evidence reach approval |
| Evaluation harness | a kill between planting and clearing, in a purge, or in the middle of a line; code edited between two runs of a report | a scenario sees its own evidence only; the corpus is restored; a report is whole and of one code |
| Migrations | two at once, a kill, a reset under a running one, a file added late | the ledger is the schema's; the database gets to the checkout |
| Corpus | a reload while an indexer embeds, a re-indexing under a search, locks taken in other orders | the chunks are those of the documents; programs of different kinds never block each other for good |
| Chunking, retrieval, grading, reading of answers and evidence | boundaries, ties, overlapping spans, truncated results | the result agrees with a reference definition over all small inputs |
| Live view | a stream that ends on a status the job leaves again | the page ends up showing the final status |

PROJECT.json lists the individual hazards with the line where each bites and
the properties that cover it; the three without a property say why.

## 2. Plan

| | Module | Subject | State |
|---|---|---|---|
| 1 | `AtMostOnce` | what the execution of actions promises | done |
| 2 | `ActionExecution` (+`MC`, +`Proofs`) | `act`, `execute_action`, client, control plane; refines 1 | done, proved |
| 3 | `Worker` | reservations, queue, follow-ups | done, proved with 5 |
| 4 | `Runner` (extends 3) | the jobs over checkpoint, approvals and mirror | done, proved with 5 |
| 5 | `InvestigationService` (extends 4, +`MC`, +`Proofs`) | the endpoints over 4, process deaths | done, proved |
| 6 | `AgentLoop` (+`MC`, +`Proofs`) | the nine nodes, the cap, tool retries, the gate in `propose`, approval ids, the mirror of tool calls | done, proved |
| 7 | `EvalHarness` (+`MC`, +`Proofs`) | the lock, the purge, fixtures, the progress file, the report | done, proved |
| 8 | `Migrations` (+`MC`, +`Proofs`) | ledger and schema under concurrent runs | done, proved |
| 9 | `Corpus` (+`MC`, +`Proofs`) | documents and chunks under seeders, indexer, sweeps and searches | done, proved |
| 10 | `Lists`, `Chunking`, `Retrieval`, `Grading`, `Answers`, `Evidence`, `Reference` (+`MC`, +`Proofs`, `ChunkingProofs`) | pure code against references | done, proved |
| 11 | `DecisionGate` | what an investigation promises the human it asks; 5 and 6 refine it | done, both refinements proved |

The order is that of what depends on what: the promise around a decision first,
the programs beside it next, what their figures are made of last. `Runner` extends
`Worker`, `InvestigationService` extends `Runner`; the others stand alone, since
what they share with each other is a table in the database that one of them owns.

There are two abstract specifications: `AtMostOnce` is what the execution of an
action promises, `DecisionGate` what is promised around the decision, and it is
implemented twice, by the service, where the nodes are coarse and the threads fine,
and by the loop, where it is the other way round. Every safety property that the runs
of 2 to 9 check and that holds is a theorem (section 5), and four of the seven of 10.
No module uses a RECURSIVE operator.

## 3. The modules

### ActionExecution

A runner is a program counter inside `act` (`act[r]`) with the locals that
matter: the approval, the attempt, the exchange it waits for, the arguments.
Every SQL statement runs on an autocommit connection, so each is one action;
reads of a decided approval, which never changes, are merged with the step that
uses them.

| In the code | In the model |
|---|---|
| `POST /approvals/{id}/decision`, the conditional UPDATE | `Decide` |
| `act` reads the approval, branches | `BeginAct`, `Branch` |
| `execute_action`: already executed, arguments refused, submitted | `AlreadyExecuted`, `InvalidArguments`, `Submit` with `Effective` |
| `ControlPlaneClient.submit`: attempt, answer, timeout, give up | `Post`, `Receive`, `TimeOut`, `Retry` |
| `ControlPlane.submit`: fault, look up, insert, lost race, replay | `Unavailable`, `Look`, `Apply`, `LostRace`, `Replay` |
| the network | `Lose`, and the `error` answer of `Apply` for an answer lost after the insert |
| `_record`, or its failure | `RecordExecuted`, `RecordFailed`, `RecordRaises` |
| the audit event of each ending, then the node's checkpoint | `LogOutcome`, `SaveCheckpoint` |
| death of the process | `Crash` |

An exchange (`wire[q]`) outlives its sender: it can be served after the client
timed out and retried, or after the process died. The insert into the ledger is
separate from the look-up before it, so that two requests with one key meet at
`ON CONFLICT DO NOTHING`. `applied` and `sent` are history: they count effects and posts.

Some branches of the code are not actions because nothing reaches them.
`execute_action` refuses a missing row, an undecided or rejected one, another
tool or other arguments than the checkpoint's; `act` has a branch for a tool
that is not registered. A decided row never changes and the approval id hashes
tool and arguments, so the checkpoint and the row agree. An edit `{}` would fall
back to the proposal (`tools/actions.py:283`), but no tool's schema accepts it.

### AtMostOnce

Three functions: what was granted, what took effect, how often. A grant is made
once; what was granted may be applied, once, as granted. `ActionExecution`
maps `granted` to what the approval row authorises, `effect` to the ledger and
`times` to `applied`.

### DecisionGate

Three functions of an investigation: the decision of each proposal it may make, the
proposals that were carried out, and whether it is over. `Propose` asks about one
while nothing else is open, `Decide` answers, once, `CarryOut` needs the approval,
`Close` needs every proposal to be answered and what was approved to be done. From
these follow `OnlyOnApproval`, `OneAction` (two proposals of a run are never both
waiting or approved) and `ClosedIsFinished`, together `Kept`.

| In `DecisionGate` | In `InvestigationService` | In `AgentLoop` |
|---|---|---|
| a run, a proposal | an investigation, a round | the one run, an approval id |
| `decision` | `approvals`, the rows | `approvals`, the rows |
| `done` | `executed` | `CarriedOut`: what was approved, once the run has left `act` for the summary |
| `closed` | `checkpoint[i].next = "end"` | `checkpoint.next = "end"` |
| `Propose` | `CreateApproval` | `CreateApproval` |
| `Decide` | `DecideCommit` | `Decide` |
| `CarryOut` | `Act` | `ActApproved` |
| `Close` | `Summarize` | `Summarize` |

Everything else, jobs, handlers, slots, deaths, retries, tools, is a stutter of the
gate.

### Worker, Runner, InvestigationService

`Worker` gives one operator per critical section of the lock. The slot and the
queue are separate, as in the code: a request holds a slot before it has a job.
`EndJob` is the `finally` of `_run`: it frees the slot and takes the follow-up
out under the lock, and `SubmitFollowUp` submits it after the lock is released.

`Runner` is the one thread inside a job. `checkpoint[i]` is the next node, the
status in the checkpointed state, and the round of proposals; `status[i]` is the
mirror. A node's effect (`CreateApproval`, `Act`), its checkpoint
(`SaveAwaiting`, `SaveAct`) and the mirror (`Mirror`) are separate steps, and so
are `Settle` (the read) and `SettlePersist` (the write). `JobRaises` is an
exception anywhere in the job, `MarkFailed` the worker's handling of it, which
can fail as well. The evidence loop from `intake` to `propose` is one step with
two results, an action that needs approval or none; `MaxRounds` stands for the
iteration cap, since each rejection consumes at least one iteration. The cap counts
iterations and not rounds, so that a rejection may end the run in any round. `act` is
one step that executes, fails, or finds a rejection: its inside is
`ActionExecution`, whose `executed` is final, so an action recorded as executed
is not executed again here either.

`InvestigationService` handles each request in the steps of the code: reserve,
insert, submit for a start; read, commit, notify, submit for a decision; read,
check, reserve, commit, submit for a resume. `ProcessDies` forgets everything
`Worker` and `request` hold and keeps database and checkpoints.

### AgentLoop

`AgentLoop` is the inside of `investigate`, and the rest of the graph around it,
for one investigation. `checkpoint` is the next node and the part of the
checkpointed state that control depends on; `job` is where the process is:
before a node, half-way through `await_approval`, counting rows, inserting them.
What `job` holds is lost when the job dies, and everything else is kept.

| In the code | In the model |
|---|---|
| the nodes and edges of `build_graph` | `checkpoint.next`; one action per node |
| `intake`, `retrieve`, `retrieve_again` | `Intake`, `Retrieve`: they go on whether or not they found something |
| `plan`, with its fallback | `Plan`, `Counted` |
| `execute_tool_node`: an attempt, the retry policy, the records | `Attempt`, `WorthRetrying`, `BatchDone`, `SaveCalls` |
| `reflect`, `route_after_reflect` | `Reflect`, `Capped`, `RouteAfterReflect` |
| `propose`, `_settle_arguments`, `faults` | `Propose`, `Withheld`, `AfterRepair`, `Abnormal` |
| `await_approval`: the insert, then the checkpoint | `CreateApproval`, `SaveAwaiting`, `ApprovalId` |
| the decision endpoint | `Decide` |
| `act`, `route_after_act`, `summarize` | `ActRejected`, `ActApproved`, `CapAllowsPlan`, `Summarize` |
| the mirror of `tool_calls` in `_persist` | `Count`, `Insert`, `Mirrored` |
| `resume`, `_settle`, a resume that only mirrors | `Resume`, `PersistAgain` |
| death of the process, or an exception | `Die` |

The model's answers are any answers: a service, none, a repair that names
another service, "keep going" for ever. A service outside `Services` could not
have been seen abnormal and is the same as none. A tool's result is `ok`,
`abnormal` (a success, or a partial one, that shows errors or a moved metric),
`failed` (a timeout included) or `malformed`. Left out: the documents retrieved
and cited, which change no control, and two branches of `execute_tool_node`
("nothing planned", "no such tool") that nothing reaches, because `plan` always
leaves a registered read-only tool. An approved and an edited decision are one
here; the difference is in `ActionExecution`.

LangGraph is external: it is modelled as writing a node's checkpoint before the
next node starts, and its input before the first.

### EvalHarness

Processes that are started by hand and evaluate one after another. `proc[h]` is
what a process remembers; the corpus, the files and the code are what it leaves.

| In the code | In the model |
|---|---|
| `exclusive`, the advisory lock of a session | `Start`, `Exclusive`, `holder` |
| `purge_orphans`, statement by statement | `PurgeReadings`, `PurgeRows`, `PurgeTracking` |
| `--resume`, `resumable`, `load_progress`; a file that is in the way | `Open`, `Resumable`, `LoadProgress` |
| the old file removed, the new stamp written | `Unlink`, `WriteStamp` |
| `fixtures.apply`, in a transaction with its tracking rows | `Apply`, `Planted`, `Tracks` |
| the investigation and its grade | `Investigate`, `ApplyFails` (a harness error is a result) |
| `fixtures.clear`, or `CleanupFailed` | `Clear`, `ClearFails` |
| `append_progress` | `AppendProgress`, `Appended`, `KillInAppend` |
| the report, and the files it makes unnecessary | `Report`, `UnlinkSpent`, `UnlinkStamp` |
| a working tree that is edited and committed | `Edit`, `Commit`, `Label` |

All scenarios are about one service and scale one reading, the worst case for
what one leaves another. `CommitsInDoubt` says whether the connection may break on
the COMMIT of `apply`; the run leaves it FALSE. With TRUE `OwnEvidenceOnly` fails:
`apply` has raised, so `run_scenario` has no state to clear, and what the server
committed stays until the next process purges it. `Restorable` fails too: the next
scenario of the same process scales the reading that was left, and tracks it as the
original. The theorems about both assume FALSE, and cannot do without. The code does
not mention that case, and no comment or test promises anything about it.

### Migrations

A process reads the ledger once and runs each file it did not find in a
transaction of its own. A file is its place in the order and the version of its
content; running it adds it to `schema`, and fails where its tables are there or
what it needs is not, which is what the files of `db/migrations/` do (no
`IF NOT EXISTS`). What is not committed is only in `migrator[m].ran`, and others
wait for it as Postgres' catalogue makes them.

### Corpus

Each program is a sequence of statements with the lock each asks for, kept until
its transaction ends: `load` of the seeder (the count, a TRUNCATE of several
tables one by one, the rows, the manifest file, the commit of `main`), the
indexer (count, build, TRUNCATE, commit), a sweep (the same for each setting, and
measurements in between that read in the transaction of the next one), and the
statements of a search, which keep nothing. A circle of waiting processes is
broken by the server, which ends one. Documents are the version of the generator
that made them.

### Lists, Chunking, Retrieval, Grading, Answers, Evidence, Reference

Pure functions, one operator per function of the code, over data cut down to what
it tells apart:

- `Chunking`: a text is words with their lengths and what follows each. Checked
  against: nothing lost or moved, bounded sizes, the overlap carried.
- `Lists`: a list arranged in an order of its members, and some members of a list in
  their order. What is sorted or filtered in the code is one of these two, defined by
  how many members come before each, so that it can be reasoned about by counting;
  `sorted` is stable, so the orders have no ties.
- `Retrieval`: a ranking is a sequence of ids; a score is an exact fraction.
  `Fuse` and `SortedBy` are `_fuse`, `Union` is the merge in the node `retrieve`,
  `Score` and `RunConfig` are the evaluation's figures, `Chosen` the sweep's choice.
- `Grading`: a conclusion is segments, each of a clause and made of pieces with the
  words they say and the services they name. `Clause`, `Asserts` are `mechanism.clauses`;
  `Owners`, `SmallestMatches`, `Bound` are `_bound`; then `_grade`, `_identify`,
  `_verdict`, `regrade`, `aggregate`, `failure_analysis`, the judge's score, kappa
  and the comparison of two runs. The regular expressions that find words, services
  and denials in a text are left out: what they find is the input.
- `Answers`: `extract_json` over tokens: braces, braces inside a string, fences,
  prose.
- `Evidence`: the sorting of metrics by how far they moved, the cut of a partial
  result, and what `faults` sees in what is left. A reading is a whole number of units,
  `Grain` of which make one of the last place it is shown to (`Shown`, the
  `round(x, 4)` of `_versus_yesterday`): changes are taken of what was measured,
  whether it was zero is asked of what is shown.

`Reference` makes every case, an input that one of these parts can be given, an
initial state, and states what is asked of the parts. Its constants are the sets of
cases, and its assumptions say what every case has by the code that makes it.
`MCReference` gives them all cases of a small size, so that TLC evaluates each
property on all of them; `ReferenceProofs` and
`ChunkingProofs` leave them as they are.

## 4. The runs

| Run | Question | Bounds | States |
|---|---|---|---|
| `ActionOneRunner` | with one worker thread, do record, audit and checkpoint tell what happened, was it what was authorised, and does `act` end? | 1 approval, 2 arguments, 2 exchanges, 2 attempts, `act` entered 3 times | 71,230 |
| `ActionTwoRunners` | which of it survives two API processes? | the same, 2 runners, 3 exchanges | 141,594 |
| `ServiceSafety` | is a decision final, does the run act only on one, is `complete` true, is anything retried unasked, has an investigation one job, and is it all a gate? | 1 investigation, 2 starts, 2 deciders, 1 resume, 2 rounds, 4 failing actions, 2 raises, 1 failed transaction, 1 death | 841,434 |
| `ServiceRecovery` | is a decision ever forgotten, does it take effect, and does an operator who resumes bring a stuck investigation to rest? | 2 deciders, 1 resume, 2 rounds, 1 failure, 1 raise, 1 death at any step | 148,108 |
| `AgentLoop` | does the loop end, ask on evidence only, ask again after a rejection, are records and rows right after deaths, and is it a gate? | 1 investigation, 2 services, 3 iterations, 2 attempts, 2 deaths | 662,063 |
| `EvalHarness` | does a scenario see its own evidence, is the corpus restored, is a report whole? | 2 places, 3 scenarios (1 quiet), 2 selections, 2 edits, 1 kill, 1 failure | 259,292 |
| `Migrations` | is the ledger the schema's, and does the database get to the checkout? | 2 processes, 4 files (2 at first), 2 releases, 2 resets, 1 kill | 34,682 |
| `Corpus` | are the chunks those of the documents, who can block whom, what does an overtaken search find? | 2 seeders, 1 indexer, 2 sweeps, 1 search, 3 at a time, 2 versions, 2 settings, 1 kill | 114,100 |
| `Reference` | do the pure functions agree with their references? | texts of 4 words, rankings of 4 ids, or of 6 for 4 candidates, conclusions of 2 clauses, runs of 41 results, answers of 5 tokens, 3 metrics, 4 log lines | 191,074 |
| `FollowUpStranded` | finding 1 | as `ServiceSafety`, smaller | violated |
| `StaleMirror` | finding 2 | as `ServiceSafety`, smaller | violated |
| `TornLine` | finding 3 | as `EvalHarness` | violated |

What the properties say:

- `AppliedAtMostOnce`, `AppliedAsApproved`: the effect, for requests in flight
  too. `ImplementsAtMostOnce` is the refinement.
- `ExecutedMeansApplied`: no row, audit event or checkpoint says executed unless
  the control plane applied it. The converse is false and must be: an action
  whose last answer was lost is recorded as failed, and a resume turns that into
  executed by a replay. `PostsAreAccountedFor`: no attempt gets the ledger's 422,
  and the attempts recorded are ones that were posted, within their bound.
- `ExecutedIsFinal`, `RecordsAgree`: the record and the audit log under one
  runner. With two processes both may record; `docs/DESIGN.md` limits the
  worker's guarantees to one process, so `ActionTwoRunners` does not check
  them. After a death between the row and the event the audit log holds
  `action_already_executed` without `action_executed`;
  `tests/test_approval_api.py:426` expects that.
- `ActsOnlyWhenDecided`: `act` has a branch that closes the investigation
  without its action when it finds no decision. No resume, follow-up or settle
  loop gets there.
- `DecisionIsFinal`, `CompleteMeansDone`, `NoUnaskedRetry`,
  `OneJobPerInvestigation`: see their comments.
- `ImplementsDecisionGate`, in both runs: the steps of the code, many to one, are
  steps of `DecisionGate`. An action carried out on any decision, or an approval row
  made anew over a decided one, is a step the gate does not have.
- `NothingForgotten`, `DecisionTakesEffect`: at the end of a job a decision is
  either seen by `_settle` or kept as a follow-up, or submitted by its handler,
  in every interleaving of the steps of the three. The resume that is dropped
  because another caller took the slot is harmless: that caller's job takes the
  decision. The run has no duplicate starts and no failing transactions, which
  finding 1 and a resume that fails at its look for checkpoints (section 6) would
  break, and both properties speak of processes that have not died,
  which the need for an operator would break; with `MaxRaises` = 1 a failure is
  always recorded (two database failures in a row, one to fail the job and one to
  fail the record of it, leave `running` until a resume).
- `AlwaysCloser`: every checkpoint is closer to the end of the graph than the one
  before, by a rank in the naturals: iterations left first, then the position of
  the node. The one exception is a failed action, which keeps its place until
  somebody resumes it. So the graph ends for any model, tools and decisions.
  It says it without fairness, as a property of steps.
- `CallsAreDue`: what a job that died in the middle
  of a tool leaves in the records once the node has run again. `AskedOnEvidence`
  is about the approval row, which outlives the checkpoint it came from.
  `RejectedOnce` would fail if the id of an approval did not depend on the
  iteration: the old rejection would answer for the new proposal.
- `RowsAreTheCalls`: the mirror counts and then inserts, without a transaction.
  An investigation that closed in a job that was killed while mirroring may lack
  rows until it is resumed, so that none is missing is claimed where a job has
  ended by itself.
- `InvestigationSettles`: from `queued` or `running`, whatever died.
- `OwnEvidenceOnly`, `Restorable`, `CorpusIsRestored`: the three layers of the
  harness's cleanup. The last is what a purge at start is for; the middle one is why
  it works, also when it is cut off itself: nothing is planted that is not tracked,
  and the tracked originals are those of the seeds.
- `ReportIsWhole`: of a report that may have been continued through several
  processes while code and choice changed. `LossIsBounded`: what finding 3 leaves of
  the promise about an interruption.
- `LedgerMatchesSchema` is the invariant of `migrate.py:82`; `GetsUpToDate` says
  that losing a race, being killed or being reset under only costs another run.
- `CorpusIsConsistent`: chunks, documents and manifest are of one version. The
  manifest is a file, so a seeder that is killed between writing it and its commit
  leaves it ahead; the property allows exactly that.
- `DeadlocksAreAmongAKind`: `load` truncates `services` before `chunks`, the indexer
  reads before it truncates `chunks`, a sweep holds what it measured: two seeders, or
  two sweeps, can still block each other, and the server ends one.
- `SearchSurvivesReindexing`: a search ranks by chunk id, and fetches by id later.
  `RESTART IDENTITY` and the fixed order of `build_chunks` make the same ids the same
  chunks after a re-indexing with the same parameters.
- `ChunksCoverTheText`: no word of a document is lost or moved by the cuts, the sizes
  are bounded, and each chunk repeats the end of the one before.
- `SearchKeepsTheBest` has three parts. `AgreementStands`: fusion is a sum of votes,
  sorted and cut; of two chunks, one that both rankers put before the other (a list it
  is not in counting as its end) is before it in the fusion, and among the results if
  the other is, although each ranker's list was cut before it was fused.
  `RecallIsOfDocuments`: the recall divides by what could be found and counts a document
  once, however many of its chunks were found; the reciprocal rank is that of the first.
  `BestOfBoth`: the second merge starts from the first one's cut list, and still the
  agent holds, of each chunk that either search found, a copy at least as good, or
  `MaxHeld` others that are.
- `ConclusionsAreRead`: of any answer, its braces paired or not, the reference says
  which object is read, if any (`FirstObjectIsRead`); and whom a failure is blamed on.
- `RegradeIsGrading`: the result a regrade leaves is compared, in all its fields, with
  what the second grader gives the run. Where the run failed before its conclusion was
  graded, with what was saved: they are equal unless a victim's note had replaced the
  one that said so (section 6), and then the failure stays and the note is the verdict's.
- `FiguresAreOfTheResults`, `DifferencesAddUp`: see their comments.
- `NothingSeenIsLost`: what an injected truncation can do to the gate on actions.
  Metrics are sorted by how far they moved, so that a half keeps the one that moved
  most, and with it whatever moved by 30% or from zero. It can withhold an action in two
  cases, both stated: a log asked for at a level below ERROR, and a metric that is
  abnormal only because yesterday's value rounds to zero (`OnlyByRounding`; section 6).

The type invariants, `TypeOK` of each module, are theorems (section 5), with the
bounds that the code keeps in them; the runs spend their time on the others.

**Bounds.** `MaxAttempts` 2 gives one attempt that is retried and one after
which the client gives up. `MaxRuns` 3 lets
`act` die twice and finish. Exchanges are reused once nobody can answer
them, so 2 of them allow a late request to race its retry, and 3 let two
runners and one abandoned request meet. Two arguments tell an edit from the
proposal. In the service, starts and decisions are requests made at most once
each, two of each so that they can race; a resume that was refused may be made
again, one that was accepted counts in `resumed` up to `MaxResumes`. `MaxFailures`,
`MaxRaises`, `MaxTxFailures` and `MaxDeaths` count faults; each is at least 1 in
the run whose property that fault could break. `MaxRounds` 2 lets a rejection
lead to a second proposal and the cap refuse a third. Both service runs have one
investigation: all state is kept by investigation but for the order of the queue,
so another one only delays, and a delay is a step that is not taken yet. In `AgentLoop`,
`MaxIterations` 3 lets a run be rejected twice and be stopped by the cap,
`MaxRetries` 2 separates an attempt that is retried from the last one, and
`MaxDeaths` 2 lets the repetition of a broken-off step break off again. `ProcessDies` happens only
while a resume is left, so that running out of resumes is not mistaken for an
investigation nobody can recover. `CHECK_DEADLOCK FALSE`: with requests
and runs exhausted the system rests.

In `EvalHarness`, three scenarios let a run be cut after one, resumed and cut again
in its second line; two edits let it be resumed by other code, committed or not;
one kill and one failure can each leave a corpus the next process has to restore,
and be followed by the other. In `Migrations`, files 1 and 3 are there at first, so
that a release can be late, and files 2 and 4 need the tables of file 1. In `Corpus`, three
processes at a time are two in a circle and one beside them; a search counts for
two, which keeps it to one other program. The lengths in `Reference` are the ones at
which the boundaries lie: a word longer than a chunk, two chunks shorter than an
overlap, a reading shown as zero that is none, a ranking longer than the candidates
taken of it, three spans of which two overlap, 20 and 40 results for the 95th percentile. Texts end in
a space, since what follows the last word does not count.

**Symmetry** permutes sets whose members the modules never tell apart; the runs
with liveness do without it.

**Fairness.** `ActionExecution`: a runner's thread keeps going, and a request
nobody waits for is served or lost; the control plane owes no answer to one that
is waited for, so `ActEnds` rests on the client's timeout. The service: the
thread and each handler keep going (`FairSpec`). Nobody has to call anything,
nothing has to fail. `OperatorSpec` adds a person who resumes an investigation
that reads `queued` or `running` with nothing happening, again if refused: the
documented recovery, and the assumption that `InvestigationSettles` names. The
harness and the migrations: a process that runs goes on, and somebody evaluates, and
migrates, again, which CI does on every change; nobody has to kill, fail, edit or
reset. `Corpus` needs no fairness.

**Mutants.** For every property, PROJECT.json names a `Bug_...` operator next to
the definition it replaces: a dropped guard, an edit discarded, a follow-up read
too early. TLC finds the property violated in each.

## 5. What is proved

Every theorem holds for every value of the constants that the named assumption of
its module allows. The assumptions say that `None` is none of the values, that bounds
are numbers, that sets of processes or requests of different kinds are disjoint, and
that there is at least one attempt, iteration, round or scenario. Each proof has the
same plan: an inductive invariant, a conjunction of named parts, holds in `Init` and is
kept by each action, one step of the proof per action; the property follows from it.
What follows says what the properties lack to be inductive, and what supplies it.

### Actions: `ActionExecutionProofs`

For all sets of approvals, arguments, runners and requests (`ConstantsAssumption`):

| Theorem | States |
|---|---|
| `TypeCorrect`, `Invariance` | `[]TypeOK`, `[]Inv` |
| `AtMostOnceExecution`, `ApprovedExecution` | `[]AppliedAtMostOnce`, `[]AppliedAsApproved` |
| `Refinement` | `ImplementsAtMostOnce` |
| `RecordsInvariance`, `RecordedExecution` | `[]RecordsInv`, `[]ExecutedMeansApplied` |
| `NoKeyReused`, `RejectionWithoutEffect` | `[]KeyNeverReused`, `[]RejectionHasNoEffect`: two parts of the properties below that need no `OneRunner` |
| `OneRunnerInvariance`, `RecordsAgreement`, `PostsAccounted`, `FinalExecution` | with one runner: `[]OneRunnerInv`, `[]RecordsAgree`, `[]PostsAreAccountedFor`, `ExecutedIsFinal` |

`AppliedAtMostOnce` is not inductive: that a key's counter does not exceed 1
follows from its ledger entry, so `LedgerOK` ties the two together.
`AppliedAsApproved` needs what a runner holds (`RunnersOK`: what it is about to
submit is what its approval authorises) and what is in flight (`WireOK`, which
outlives the runner), and both need that a decision carries an edit exactly when
it says so (`EditsOK`), which makes `Effective`, computed by the code, equal to
`Authorised`, meant by the human (`EffectiveIsAuthorised`). The invariant
survives `Decide` because what a decided approval authorises never changes
(`AuthorisedIsStable`). The refinement uses the same invariant: `Decide` is a
grant or a stutter, `Apply` is the abstract `Apply`, and all other steps leave
the three mapped values alone.

`ExecutedMeansApplied` is about what is written long after the effect. A runner comes
to write "executed" from an answer, so it must wait on an exchange that is its own and
carries its key (`WaitingOK`), an answer that says the operation exists must be given
only while the ledger has it (`RepliesOK`), and what the runner concludes must stay
true until it has written it (`OutcomesOK`; `AppliedStays`: the ledger forgets nothing).
The properties of one runner are false for two, as section 4 says; `OneRunner` states
the hypothesis, and what it buys is that a runner that looked at the record is the
only one to write it (`LogsOK`). `PostsAreAccountedFor` counts: what a runner has
posted and not recorded (`Unrecorded`), and what it may still post (`Left`).

### The agent loop: `AgentLoopProofs`

For all sets of services and any number of iterations, retries and deaths
(`LoopAssumption`):

| Theorem | States |
|---|---|
| `TypeCorrect`, `Invariance` | `[]TypeOK`, with the cap on the iterations in the type; `[]Inv` |
| `EvidenceGate`, `AskedAgain` | `[]AskedOnEvidence`, `[]RejectedOnce` |
| `Termination` | `AlwaysCloser` |
| `CallsInvariance`, `CallsAsDue`, `RowsMirrorCalls` | `[]CallsInv`, `[]CallsAreDue`, `[]RowsAreTheCalls` |
| `LoopRefinement`, `OneActionPerRun` | `ImplementsDecisionGate`, `[]Gate!Kept` |

That the iterations stay within the cap is not inductive: `plan` increments
without looking. `CapOK` says what the two routes guarantee, that `plan` is next
only below the cap. `AskedOnEvidence` needs `GateOK`, that an action on its way
from `propose` to `act` names a service seen abnormal, and that the records only
grow (`AbnormalStays`). `Termination` compares ranks: a node that keeps the
iteration moves to a lower position (`SamePace`), and `plan`, the one that moves
to a higher one, uses up an iteration, which `CapOK` allows. `AskedAgain` adds
`ReturnedOK` to the invariant: a rejection taken back is of an earlier
iteration, or of this one and no human is asked before the next `plan`.

The attempts of a tool reach the records together, and their rows the database one
by one, and a death can come between any two of these. `BatchOK` says what an unsaved
batch may look like, `EndedOK` that the last saved attempt ended its tool, so that the
next one starts at 1, and `RowsOK` that a mirror that has counted is the only one
writing, and writes the first row that is missing.

The gate asks about one proposal at a time, and the loop has no variable that says
which. `AskedOK` does: an approval that waits, or was given, is the one of the proposal
in the checkpoint, which is on its way to `act`, or past it. So where the loop makes a
new row all others are refused, and where it ends nothing waits.

### The service: `InvestigationServiceProofs`

For any number of investigations and requests, any number of rounds and any
bounds on failures, deaths and resumes (`ServiceAssumption`, `RunnerAssumption`):

| Theorem | States |
|---|---|
| `SlotsInvariance`, `ServiceTypeCorrect`, `OneJob` | `[]SlotsInv`, `[]TypeOK`, `[]OneJobPerInvestigation` |
| `RunsInvariance`, `OnlyWhenDecided`, `CompleteIsDone`, `FinalDecision` | `[]RunsInv`, `[]ActsOnlyWhenDecided`, `[]CompleteMeansDone`, `DecisionIsFinal` |
| `AccountInvariance`, `OnlyAskedRetries` | `[]AccountInv`, `[]NoUnaskedRetry` |
| `ForgetInvariance`, `NothingLost` | `[]ForgetInv`, `[]NothingForgotten`, under the two hypotheses below |
| `ServiceRefinement`, `ServiceKeepsTheGate` | `ImplementsDecisionGate`, `[]Gate!Kept` |

That an investigation has one job says nothing of the requests that are about to
submit another. The invariant is about the *slot*: a reservation has one holder, a
request, a queued job or the running one, and a handler that goes on after the lock was
released still holds what it assumes it holds. Even `TypeOK` needs it: without the slot
two resumes could both be accepted and leave the bound on them behind.

`RunOK` says how far the decisions and the mirror are at each checkpoint: earlier
rounds rejected, later ones without a row, the current row as far as the checkpoint.
Between a node's effect and its checkpoint the two disagree, and `LocalsOK` says what
the job knows there: a job at `act` knows that there is a decision, because the
interrupt, the look at the row in `resume`, or the one in `_settle` came before.

`NoUnaskedRetry` is an account. A failure that may still come is due (`Due`), and
every failure is paid for by the decision, by a resume that was accepted since, or by
the death or exception that lost an outcome. Two jobs of one investigation would spend
the same entry twice, so the account rests on the slots.

`NothingForgotten` needs that each investigation is `Settled`, where a person expects
it, or `Tended`, by a slot that is taken or a handler on its way to the worker.
The difficult place is the end of a job: when `_settle` has looked for a decision and
found none, one that is made after it must be `Coming` (`EndsOK`): its handler has yet
to tell the worker, or it is a follow-up, which it becomes exactly because the slot is
still the job's. Two hypotheses are part of the statement. `NoneGivenBack`: no request
gives its reservation back, since that is how `FollowUpStranded` strands a follow-up,
so that without it the theorem would be false. `Recorded`: when a job raises, its
failure is recorded. The bounds of `ServiceRecovery` (one start per investigation, no
failing transaction, one exception) imply both, so that the run checks the property
where the theorem states it.

The refinement needs no new invariant: `RunOK` already says that the rounds before the
current one were rejected and those after it have no row, which is what `Propose` asks,
that an action is executed on an approval, and that a run that goes to the summary has
executed what was approved, which is what `Close` asks. Every other step leaves the
three mapped values alone. `Gate!Kept` is an invariant of `DecisionGate` and
is proved of it; the service has it because it implements it.

### The harness: `EvalHarnessProofs`

For any number of harnesses, any suite, selections, edits, kills and failures
(`HarnessAssumption`):

| Theorem | States |
|---|---|
| `TypesInvariance`, `TypeCorrect` | `[]Types`, `[]TypeOK` |
| `OwnEvidenceAlone`, `AlwaysRestorable` | under `NoDoubt`: `[]OwnEvidenceOnly`, `[]Restorable` |
| `WholeReports`, `BoundedLoss` | `[]ReportIsWhole`, `[]LossIsBounded` |

The lock leaves one process (`LockOK`), so that the corpus is what that process's
step says it is (`CorpusOK`): untouched between two scenarios, the scenario's evidence
and what undoes it under one, and restorable throughout a purge, of which each
statement can be the last. `NoDoubt` is `CommitsInDoubt = FALSE`, the choice of
the run; section 3 says what happens otherwise. A report is whole because the complete
lines of a file with a clean stamp were made by the code the stamp names (`FileOK`) and
a process goes on from them only if it is of that code (`RunOK`). `LossIsBounded`
counts the results that were finished against those that can still be read: each
difference is a line that a kill cut short (`LossOK`).

### Migrations: `MigrationsProofs`

For every set of files, whatever they need of each other, and any number of processes,
releases, resets and kills (`MigrationsAssumption`): `Invariance`, `TypeCorrect`, and
`LedgerNeverLies`, `[]LedgerMatchesSchema`. The tables and the ledger's row change in
one commit, so what matters is that the row names the content that was run. It does
because the checkout does not change under a process: what it has to do is in the
checkout (`TodoOK`) and what it has run is what the checkout holds (`RanOK`).

### The corpus: `CorpusProofs`

For any number of processes of each kind, any versions and settings
(`CorpusAssumption`):

| Theorem | States |
|---|---|
| `TypeCorrect` | `[]TypeOK` |
| `CorpusInvariance`, `OneVersion` | `[]CorpusInv`, `[]CorpusIsConsistent` |
| `SearchInvariance`, `SearchSurvives` | `[]SearchInv`, `SearchSurvivesReindexing` |
| `OnlyAmongAKind` | `[]DeadlocksAreAmongAKind` |

The programs know nothing of each other, so the argument is about locks: `Has` gives
the locks a process has at each statement, `Only` says that it has no others, and no
two conflicting locks are held (`Compatible`). From `Has`, an indexer at its commit
still keeps every reload out, so the chunks it made are those of the documents
(`ContentInv`). A search keeps no lock; until the chunks become others, what is under
the ids it ranked is what it ranked (`SearchOK`), because a table replaced with the same
chunks is the same table. From `Only`, in a circle of waits nobody has the documents or
waits to read them or the chunks, which leaves circles of seeders, and circles of
sweeps. That circles of one kind do exist is the run's to show.

### The pure parts: `ReferenceProofs`, `ChunkingProofs`

For cases of any number and size, such as rankings of any length, runs of any results:

| Theorem | States | Assuming |
|---|---|---|
| `Agreement`, `Recall` | `[]AgreementStands`, `[]RecallIsOfDocuments` | `SearchAssumption` |
| `HoldsTheBest` | `[]BestOfBoth` | `HeldAssumption` |
| `BestIsKept` | `[]SearchKeepsTheBest`, from these three | |
| `GradingAgain` | `[]RegradeIsGrading` | `RegradeAssumption` |
| `Comparing` | `[]DifferencesAddUp` | `CompareAssumption` |
| `PartialEvidence` | `[]NothingSeenIsLost` | `EvidenceAssumption` |
| `Figures` | `[]FiguresAreOfTheResults` | `ReportAssumption`, `SheetAssumption`, `ConfigAssumption` |
| `AnswersAreRead` | `[]ObjectIsRead` | `AnswerAssumption` |
| `BindsTheFailure` | `[]FailureIsBound` | `GradeAssumption`, `PhrasingsAssumption` |
| `ReadsConclusions` | `[]ConclusionsAreRead`, from these two | |
| `CoversTheText` | `[]ChunksCoverTheText` | `TextAssumption` |

The assumptions are what the code makes of every case: a ranker's SQL returns one row
per chunk, a search is asked for at least one result,
what a merge holds has a score, the fields of a saved result that are yes or no are
one, each scenario of a run has one result and its kind is the scenario's, a reading is
a number or missing and is shown to some place, at least one log line is asked for and shown, a run that is
reported has a result, a failed result has its reason (`GradingAgain` shows that grading
gives one), the clauses of a conclusion come one after the other, and a phrasing has a
word to look for: with one that has none, a segment whose text was denied would match
in the reference and is not looked at in the code. Of a document: its words are
numbered in their order, have a length and are each followed by one separator, a chunk
has room for a character, and something is carried from one to the next, since with
`--overlap-tokens 0` sizes are not bounded (section 6).

Nothing ever happens to a case, so each theorem is one fact about operators. Two kinds
of them are about lists of any length, for which the library's induction cannot be used
(its theorems have an operator as a parameter):

- What is sorted or filtered is arranged, and the place of a member is a cardinality,
  the number of those that are not after it (`Rank`). Ranks are different and within
  the length, so that they are all the places there are (`RankIsAPlace` and the lemmas
  after it), an arranged list has each member once and in the order (`Arranged...`,
  `Picked...`), and a cut is of those with the fewest before them.
- What is summed or folded is a recursive function in the community modules, a CHOICE
  of what satisfies its equation. That there is such a function has to be shown before
  anything follows from the equation: of k members for each k (`FoldExists`), one more
  member at a time (`FoldOneMore`). The step from k - 1 to k leads to n by the least
  number that is not reached (`Climbing`), which stands in for the induction, and what
  a fold returns is then an invariant of its steps (`FoldStays`, `SummedStepwise`,
  `ScanStepwise`, `FoundStepwise`). The owners of segments, a recursive function of
  `Grading` itself, are found the same way (`OwnersAre`).

- *Agreement.* Votes add and a better rank is a larger vote (`VotesAdd`), so the fused
  score keeps the agreement, strictly; sorting keeps it (`Reordered`), and so does
  cutting the rankings first, since a chunk that is before another in a ranking is
  within the cut whenever the other is (`CandidatesAgree`).
- *Recall.* The documents of a search are taken where they are first, which makes the
  places of those that are relevant and the relevant documents among them equally many
  (`CountingFound`); the first place exists because places are numbers (`Earliest`).
- *Holding the best.* Of the copies of a chunk there is a best one, the first of an
  order on them (`BestOfTheCopies`), and where the merge has dropped a chunk there are
  `MaxHeld` before it (`CutOrKept`). For two merges: if the first one dropped it, those
  before it are `MaxHeld` chunks with scores as good, the second merge keeps a copy at
  least as good of each or is full (`FullStaysFull`, an injection from the chunks held
  into the places), so that it too is full of what is as good.
- *Evidence.* What is cut off a list that is sorted by how far its members moved moved
  no further than what is left; and how far one moved says whether it is abnormal,
  except by rounding (`MovedShows`).
- *Regrading.* A result is what the reading makes of it (`Judging`), whatever it was
  before, and a note is of the verdict unless it was given with the result, when only a
  victim's replaces it (`NotesOfVerdicts`).
- *Comparing.* What is not reported as changed came out the same in both runs, so
  that the difference of two cardinalities is made by the reported ones alone.
- *Figures.* p95 is at the place of a rank, and those not above it are the places up to
  it (`NinetyFive`). Kinds and notes divide the results, and the sizes of the parts add
  up to the whole (`Counting`). The agreement expected of two sets of verdicts is the
  number of pairs of claims that they label alike, which is all of them only where one
  label is given (`ExpectedIsAlike`, `FullAgreement`, `OneVerdict`). The sum of the
  recalls is compared with how many are not zero, step by step (`SumOfParts`).
- *Answers.* After k tokens the scan has found the pairs of braces that end there, in
  their order, and its depth is that of the k-th token (`KnowsUntil`). That needs no
  assumption on the braces: with some closed too many the depth is below zero, and an
  object begins where it is zero again.
- *Blame.* After k spans, shortest first, those found are the asserting ones among
  them with no asserting one inside (`MinimalAreFound`). Between two segments of a
  clause that assert something, the code's list has just those that do
  (`StatedBetween`), so that its spans say the same as stretches of the conclusion and
  lie inside each other just as these do (`SpanSays`, `InsideThere`), and in each
  stretch that asserts the failure there is one of the listed (`StretchHasASpan`).
- *Chunks.* The parts of a text are slices of it (`Slice`), each starting with the word
  after the last one of the part before (`SplitDivides`), and what they hold within is
  free of the separators they were cut at (`Clean`), so that a part at the last depth is
  one word. After k parts, what was recombined covers the text up to the end of the
  k-th, without a break and within the size (`GatherReaches`), if what a long part was
  split into covers it. So the cuts of a word do (`HardCutCovers`), and what is done at
  spaces, lines, sentences and paragraphs, one resting on the other (`SplitCovers`).
  Lengths are folds, and add up where texts are joined (`LengthsAdd`). What a chunk is
  given is no longer than the overlap (`CarriedIs`) and has the end of the one before
  (`CarriedRepeats`); the chunks after k pieces are as they should be, for each k
  (`OneMoreOverlapped`).

### What is only model-checked

- Liveness, `ActEnds`, `DecisionTakesEffect`, `InvestigationSettles`,
  `CorpusIsRestored`, `GetsUpToDate`: fairness and ENABLED are outside the prover.
- The properties of section 6, which do not hold.

Every other invariant, action property and refinement of the runs is a theorem.

## 6. Findings

1. **A follow-up can be left without a job** (`FollowUpStranded`,
   `api/worker.py:61`). A `POST /investigations` for an existing id first claims
   the slot of the idle investigation. A decision made then finds it active and
   is kept as a follow-up. The start finds the row, answers 409 and `release`s:
   the slot is free, the follow-up stays, no job will end and run it. The
   investigation stays `queued` until someone resumes it, and `drain` waits for
   the follow-up. The module's comment says the resume "runs when that job ends".
2. **A decided investigation can read `awaiting_approval` again**
   (`StaleMirror`, `agent/graph.py:270`). The decision is made after the approval row is
   inserted and before the job mirrors the checkpoint, which then writes
   `awaiting_approval` over the API's `queued`. The job goes on in `_settle`, so
   it is passing unless the process dies there, but a client that reads the status
   in between stops watching, which `api/approvals.py:121` is there to prevent.
3. **A line cut short takes the next result with it** (`TornLine`,
   `evals/run.py:441`). A process killed while it appends leaves a line without a
   newline. `load_progress` skips it, but the next `--resume` appends to that line,
   and a result that was written, flushed and synced does not parse either. The help
   text says that an interruption loses at most the scenario in flight.

Met while modelling, without a run of their own, none of them a violation of a
property here:

- `rag/chunking.py:9` says that any span up to the overlap appears whole in some
  chunk. The carried tail is joined by a space whatever separated the texts, and
  `--overlap-tokens 0` carries the whole previous chunk (`prev[-0:]`).
- `extract_json` reads "the first complete object" (`llm/base.py:133`) only while none
  is closed too many: after one closing brace too many an object is passed over, and
  one directly inside it is taken (`} {"a": {}}` gives `{}`).
- A partial result of `get_service_logs` at a level below ERROR may lose the error
  lines, which come in order of time.
- `get_metrics` ranks a metric by its change as measured, and `faults` tests
  yesterday's value for zero as shown, to four places (`tools/diagnostics.py:211`,
  `agent/evidence.py:38`). One that went from 0.000045 to 0.000055 is shown as 0.0 and
  0.0001 and counts as "from zero", though it moved by 22%: it stands behind a metric
  that moved by 28%, and the half kept shows nothing where the whole does. The seeded metrics
  have no values that small.
- A resume looks for checkpoints after its commit, outside the `try` that gives the
  reservation back (`api/investigations.py:172`). If that read fails, the slot stays
  taken, the investigation reads `queued`, and every further resume is refused with 409
  until the process restarts. `TxFails` has the step; `ServiceRecovery` has no failing
  transactions.
- `evals/run.py` (`aggregate`) takes its provenance when it reports, so code that is
  committed during a run labels it; a resume compares the stamp taken at its start.
- A result that failed before its conclusion was graded is left as it was by a regrade,
  says `evals/run.py:328`. For an action that failed that is not so: the note "blamed
  the victim service" (or "acted on") replaces the one that says so, a regrade takes it
  for a verdict, clears it and, where it no longer applies, says "did not reach a
  conclusion". The result is a failure before and after.
- `compare.py` prints no warning for two runs of the same `-dirty` revision, whose
  uncommitted changes may differ; `resumable` refuses such a pair.
- `run_sweep` prints that the chunk table is restored at the end; it re-indexes at
  the setting it chose, and a sweep that is killed leaves the one it was at.
- `retrieval_eval.py:175` takes the 95th percentile by rounding down, `run.py` by
  rounding up.
- `seeds/generate.py` writes the manifest before the commit of the rows it
  describes.

## 7. Not modelled

The live view: the stream repeats the mirrored status, and when the page asks again
is the choice of its query library, which is not in the repository. The worker's
creation under a double-checked lock (`api/deps.py:30`), where a model could only
restate the second look. `generate_scenarios.py` and `replay_plan`, which run before
an evaluation and keep nothing. Left out for
good: what a model answers (any answer), prompts and
schemas (text), embeddings, text search and the SQL of the diagnostic tools (data
access: a ranker's order is any order), the regular expressions of the grader,
authentication (a table read at start), the MCP server (one stateless call),
telemetry (no control depends on it), what the seeds contain, and rendering. `reset` is called by
the evaluation harness and the tests, never by the API. `drain` and `shutdown` wait for the queue and change nothing else.
