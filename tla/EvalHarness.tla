----------------------------- MODULE EvalHarness -----------------------------
(***************************************************************************)
(* The evaluation harness (evals/run.py, evals/fixtures.py): processes     *)
(* started by hand, one at a time by an advisory lock, that plant each     *)
(* scenario's evidence in the shared corpus, investigate, take it out      *)
(* again, and append the result to a progress file a later process may     *)
(* resume from.  A process is killed between any two of its statements,    *)
(* and while it writes a line.                                             *)
(*                                                                         *)
(* The corpus is one metric reading, 0 as seeded and one more each time it *)
(* is scaled (every scenario is about the same service, the worst case),   *)
(* and the rows planted beside it.  Scenarios are numbered in file order.  *)
(***************************************************************************)
EXTENDS Integers, Sequences, FiniteSets, FiniteSetsExt, SequencesExt

CONSTANTS
    Harnesses,      \* places a harness is started from; one process each
    NScenarios,     \* the scenario suite is 1..NScenarios
    Quiet,          \* the abstention scenarios: nothing is planted for them
    Selections,     \* what --kind, --limit and --sample may choose
    MaxEdits,       \* bound: edits and commits of the code
    MaxKills,       \* bound: processes killed
    MaxFailures,    \* bound: failing applies and cleanups
    CommitsInDoubt, \* whether the connection may break on apply's COMMIT
    None

Scenarios == 1..NScenarios

Torn == [scenario |-> 0, code |-> 0]        \* a line that does not parse
Results == [scenario : Scenarios, code : 1..MaxEdits + 1]
Labels == [commit : 1..MaxEdits + 1, dirty : BOOLEAN]
Stamps == [label : Labels, chosen : Selections]

ASSUME HarnessAssumption ==
    /\ NScenarios \in Nat \ {0}
    /\ Quiet \subseteq Scenarios
    /\ Selections \subseteq (SUBSET Scenarios) \ {{}}
    /\ {MaxEdits, MaxKills, MaxFailures} \subseteq Nat
    /\ CommitsInDoubt \in BOOLEAN
    /\ None \notin Harnesses \cup Stamps \cup Seq(Results \cup {Torn})

VARIABLES
    reading,    \* the metric reading the scenarios scale
    planted,    \* evidence rows: <<run, scenario>>
    tracking,   \* eval_fixture_rows: [run, scenario, original], original -1 of a row
    holder,     \* who holds the advisory lock
    code,       \* the working tree: [content, commit]
    lines,      \* the progress file: its lines, or None
    cut,        \* whether its last line has no newline
    stamp,      \* the provenance file beside it, or None
    proc,       \* per harness: its process
    kills, failures,
    report,     \* history: the last report written, or None
    saved,      \* history: scenarios whose append to the present file returned
    tears       \* history: appends cut short since the present file was begun

corpus == <<reading, planted, tracking>>
files == <<lines, cut, stamp>>
history == <<report, saved, tears>>
bounds == <<kills, failures>>
vars == <<corpus, holder, code, files, proc, bounds, history>>

Off == [pc |-> "off", run |-> 0, resume |-> FALSE, chosen |-> {}, code |-> 0,
        stamp |-> None, todo |-> {}, results |-> {}, result |-> None, seeded |-> None]

Init ==
    /\ reading = 0 /\ planted = {} /\ tracking = {}
    /\ holder = None
    /\ code = [content |-> 1, commit |-> 1]
    /\ lines = None /\ cut = FALSE /\ stamp = None
    /\ proc = [h \in Harnesses |-> Off]
    /\ kills = 0 /\ failures = 0
    /\ report = None /\ saved = {} /\ tears = 0

At(h, pc) == proc[h].pc = pc
Goto(h, pc) == proc' = [proc EXCEPT ![h].pc = pc]

(* The process ends, and its session with the lock. *)
Exits(h) ==
    /\ proc' = [proc EXCEPT ![h] = Off]
    /\ holder' = IF holder = h THEN None ELSE holder

------------------------------------------------------------------------------
(* Taking the database. *)

(* RUN_ID, the second the process was started in, names its rows: an id no row
   and no other process has.  (The ids of runs that left nothing are used again,
   which keeps the model finite.) *)
UsedRuns ==
    {proc[h].run : h \in Harnesses} \cup {t.run : t \in tracking} \cup {e[1] : e \in planted}
FreshRun == Min(1..Cardinality(UsedRuns) + 1 \ UsedRuns)

(* A process takes the advisory lock before it touches anything, and is refused
   at once, and ends, while another holds the database: the try is one statement
   and a refused process leaves no trace, so starting and taking the lock are one
   step here. *)
Bug_Exclusive(h) == TRUE                    \* the lock is not looked at
Exclusive(h) == holder = None

Start(h, resume, chosen) ==
    /\ At(h, "off")
    /\ Exclusive(h)
    /\ holder' = h
    /\ proc' = [proc EXCEPT ![h] = [Off EXCEPT !.pc = "restore", !.run = FreshRun,
                                               !.resume = resume, !.chosen = chosen]]
    /\ UNCHANGED <<corpus, code, files, bounds, history>>

Bug_Orphaned(h, t) == t.run = proc[h].run   \* the purge takes its own rows only
Orphaned(h, t) == t.run # proc[h].run

(* The purge's statements commit one by one: the scaled readings, the planted
   rows, and the tracking rows last, from which the others can be repeated. *)
Bug_PurgeReadings(h) ==                     \* the tracking rows go first
    /\ At(h, "restore")
    /\ tracking' = {t \in tracking : ~ Orphaned(h, t)}
    /\ LET originals == {t.original : t \in {u \in tracking : Orphaned(h, u) /\ u.original >= 0}}
       IN IF originals = {} THEN UNCHANGED reading ELSE \E v \in originals : reading' = v
    /\ Goto(h, "rows")
    /\ UNCHANGED <<planted, holder, code, files, bounds, history>>
PurgeReadings(h) ==
    /\ At(h, "restore")
    /\ LET originals == {t.original : t \in {u \in tracking : Orphaned(h, u) /\ u.original >= 0}}
       IN IF originals = {} THEN UNCHANGED reading ELSE \E v \in originals : reading' = v
    /\ Goto(h, "rows")
    /\ UNCHANGED <<planted, tracking, holder, code, files, bounds, history>>

PurgeRows(h) ==
    /\ At(h, "rows")
    /\ planted' = planted \ {<<t.run, t.scenario>> :
                                t \in {u \in tracking : Orphaned(h, u) /\ u.original < 0}}
    /\ Goto(h, "tracking")
    /\ UNCHANGED <<reading, tracking, holder, code, files, bounds, history>>

PurgeTracking(h) ==
    /\ At(h, "tracking")
    /\ tracking' = {t \in tracking : ~ Orphaned(h, t)}
    /\ Goto(h, "progress")
    /\ UNCHANGED <<reading, planted, holder, code, files, bounds, history>>

------------------------------------------------------------------------------
(* The progress file. *)

Label == [commit |-> code.commit, dirty |-> code.content # code.commit]
ProgressStamp(h) == [label |-> Label, chosen |-> proc[h].chosen]

(* What a file holds: the last whole line of each scenario.  A line that does
   not parse is skipped. *)
Bug_LoadStops ==                            \* nothing after it is read
    IF lines = None THEN {}
    ELSE {lines[i] : i \in {j \in DOMAIN lines : \A k \in 1..j : lines[k] # Torn}}
LoadProgress ==
    IF lines = None THEN {}
    ELSE {lines[i] : i \in {j \in DOMAIN lines :
              /\ lines[j] # Torn
              /\ \A k \in j + 1..Len(lines) : lines[k].scenario # lines[j].scenario}}

Bug_Resumable(current) == stamp = current   \* uncommitted changes are taken for the same
Resumable(current) ==
    /\ stamp # None
    /\ stamp = current
    /\ ~ current.label.dirty

(* The code and the scenario files are read as their provenance is. *)
Open(h) ==
    LET current == ProgressStamp(h)
        completed == IF proc[h].resume THEN LoadProgress ELSE {}
        refused == IF proc[h].resume THEN completed # {} /\ ~ Resumable(current)
                                     ELSE lines # None
    IN /\ At(h, "progress")
       /\ \/ /\ refused
             /\ Exits(h)
          \/ /\ ~ refused
             /\ proc' = [proc EXCEPT ![h] =
                    [@ EXCEPT !.pc = IF completed = {} THEN "unlink" ELSE "next",
                              !.code = code.content, !.stamp = current,
                              !.results = completed,
                              !.todo = {s \in proc[h].chosen :
                                            \A r \in completed : r.scenario # s}]]
             /\ UNCHANGED holder
       /\ UNCHANGED <<corpus, code, files, bounds, history>>

Unlink(h) ==
    /\ At(h, "unlink")
    /\ lines' = None /\ cut' = FALSE /\ saved' = {} /\ tears' = 0
    /\ Goto(h, "stamp")
    /\ UNCHANGED <<corpus, holder, code, stamp, bounds, report>>

WriteStamp(h) ==
    /\ At(h, "stamp")
    /\ stamp' = proc[h].stamp
    /\ Goto(h, "next")
    /\ UNCHANGED <<corpus, holder, code, lines, cut, bounds, history>>

(* What a file holds once `line` is appended: after a line without a newline
   the two are one line, which does not parse. *)
Appended(line) ==
    IF lines = None THEN <<line>>
    ELSE IF cut THEN Append(Front(lines), Torn) ELSE Append(lines, line)

AppendProgress(h) ==
    /\ At(h, "append")
    /\ lines' = Appended(proc[h].result) /\ cut' = FALSE
    /\ saved' = saved \cup {proc[h].result.scenario}
    /\ proc' = [proc EXCEPT ![h].pc = "next", ![h].results = @ \cup {proc[h].result}]
    /\ UNCHANGED <<corpus, holder, code, stamp, bounds, report, tears>>

(* The process is killed with part of the line in the file, or all but its
   newline. *)
KillInAppend(h) ==
    /\ At(h, "append") /\ kills < MaxKills
    /\ \E line \in {Torn, proc[h].result} : lines' = Appended(line)
    /\ cut' = TRUE /\ tears' = tears + 1 /\ kills' = kills + 1
    /\ Exits(h)
    /\ UNCHANGED <<corpus, code, stamp, failures, report, saved>>

------------------------------------------------------------------------------
(* Running a scenario. *)

Scenario(h) == Min(proc[h].todo)
Left(h) == proc[h].todo \ {Scenario(h)}

(* What is written for scenario s, and recorded, in one transaction. *)
Tracks(h, s) == {[run |-> proc[h].run, scenario |-> s, original |-> v] : v \in {-1, reading}}

Planted(h, s) ==
    IF s \in Quiet THEN UNCHANGED corpus
    ELSE /\ reading' = reading + 1
         /\ planted' = planted \cup {<<proc[h].run, s>>}
         /\ tracking' = tracking \cup Tracks(h, s)

Apply(h) ==
    /\ At(h, "next") /\ proc[h].todo # {}
    /\ Planted(h, Scenario(h))
    /\ proc' = [proc EXCEPT ![h] = [@ EXCEPT !.pc = "investigate", !.seeded = reading]]
    /\ UNCHANGED <<holder, code, files, bounds, history>>

Result(h, s) == [scenario |-> s, code |-> proc[h].code]

(* A scenario that raises is recorded as a harness error, like any result.  If
   the apply raised, the process takes it for rolled back and clears nothing;
   where the connection broke on its COMMIT the server may have committed. *)
ApplyFails(h) ==
    /\ At(h, "next") /\ proc[h].todo # {} /\ failures < MaxFailures
    /\ failures' = failures + 1
    /\ \E committed \in {FALSE, CommitsInDoubt} :
           IF committed THEN Planted(h, Scenario(h)) ELSE UNCHANGED corpus
    /\ proc' = [proc EXCEPT ![h] = [@ EXCEPT !.pc = "append", !.todo = Left(h),
                                             !.result = Result(h, Scenario(h))]]
    /\ UNCHANGED <<holder, code, files, kills, history>>

Investigate(h) ==
    /\ At(h, "investigate")
    /\ proc' = [proc EXCEPT ![h] = [@ EXCEPT !.pc = "clear", !.todo = Left(h),
                                             !.result = Result(h, Scenario(h))]]
    /\ UNCHANGED <<corpus, holder, code, files, bounds, history>>

(* The transaction that takes out what apply wrote, by the ids and originals the
   process remembers. *)
Cleared(h) ==
    LET s == proc[h].result.scenario IN
    IF s \in Quiet THEN UNCHANGED corpus
    ELSE /\ reading' = proc[h].seeded
         /\ planted' = planted \ {<<proc[h].run, s>>}
         /\ tracking' = {t \in tracking : t.run # proc[h].run \/ t.scenario # s}

Clear(h) ==
    /\ At(h, "clear")
    /\ Cleared(h)
    /\ proc' = [proc EXCEPT ![h] = [@ EXCEPT !.pc = "append", !.seeded = None]]
    /\ UNCHANGED <<holder, code, files, bounds, history>>

(* A cleanup that raises ends the run, its result unrecorded; the transaction
   may have been committed all the same, with only the answer lost. *)
ClearFails(h) ==
    /\ At(h, "clear") /\ failures < MaxFailures
    /\ failures' = failures + 1
    /\ Cleared(h) \/ UNCHANGED corpus
    /\ Exits(h)
    /\ UNCHANGED <<code, files, kills, history>>

(* The report, and the two files it makes unnecessary. *)
Report(h) ==
    /\ At(h, "next") /\ proc[h].todo = {}
    /\ report' = [chosen |-> proc[h].chosen, results |-> proc[h].results]
    /\ IF Cardinality(proc[h].results) = Cardinality(proc[h].chosen)
       THEN Goto(h, "spent") /\ UNCHANGED holder
       ELSE Exits(h)
    /\ UNCHANGED <<corpus, code, files, bounds, saved, tears>>

UnlinkSpent(h) ==
    /\ At(h, "spent")
    /\ lines' = None /\ cut' = FALSE /\ saved' = {} /\ tears' = 0
    /\ Goto(h, "unstamp")
    /\ UNCHANGED <<corpus, holder, code, stamp, bounds, report>>

UnlinkStamp(h) ==
    /\ At(h, "unstamp")
    /\ stamp' = None
    /\ Exits(h)
    /\ UNCHANGED <<corpus, code, lines, cut, bounds, history>>

------------------------------------------------------------------------------
(* The people and the machine around it. *)

(* Killed between two statements: a transaction under way is rolled back, and
   the lock ends with the session. *)
Kill(h) ==
    /\ ~ At(h, "off") /\ kills < MaxKills
    /\ kills' = kills + 1
    /\ Exits(h)
    /\ UNCHANGED <<corpus, code, files, failures, history>>

(* The code is edited, or what was edited is committed. *)
Edit ==
    /\ code.content <= MaxEdits
    /\ code' = [code EXCEPT !.content = @ + 1]
    /\ UNCHANGED <<corpus, holder, files, proc, bounds, history>>
Commit ==
    /\ code.commit # code.content
    /\ code' = [code EXCEPT !.commit = code.content]
    /\ UNCHANGED <<corpus, holder, files, proc, bounds, history>>

(* "delete it to start over": the progress file, not the stamp beside it. *)
DeleteProgress ==
    /\ holder = None /\ lines # None
    /\ lines' = None /\ cut' = FALSE /\ saved' = {} /\ tears' = 0
    /\ UNCHANGED <<corpus, holder, code, stamp, proc, bounds, report>>

Runs(h) ==
    \/ PurgeReadings(h) \/ PurgeRows(h) \/ PurgeTracking(h)
    \/ Open(h) \/ Unlink(h) \/ WriteStamp(h) \/ AppendProgress(h)
    \/ Apply(h) \/ Investigate(h) \/ Clear(h) \/ Report(h)
    \/ UnlinkSpent(h) \/ UnlinkStamp(h)

Next ==
    \/ \E h \in Harnesses :
           \/ \E resume \in BOOLEAN, chosen \in Selections : Start(h, resume, chosen)
           \/ Runs(h)
           \/ ApplyFails(h) \/ ClearFails(h)
           \/ Kill(h) \/ KillInAppend(h)
    \/ Edit \/ Commit \/ DeleteProgress

(* A process that runs keeps running, and someone always evaluates again; nobody has
   to be killed, and nothing has to fail. *)
Spec == Init /\ [][Next]_vars
FairSpec ==
    /\ Spec
    /\ \A h \in Harnesses : WF_vars(Runs(h) \/ ApplyFails(h) \/ ClearFails(h))
    /\ WF_vars(\E h \in Harnesses, resume \in BOOLEAN, chosen \in Selections :
                    Start(h, resume, chosen))

------------------------------------------------------------------------------
(* What must hold. *)

TypeOK ==
    /\ reading \in Nat
    /\ planted \subseteq Nat \X Scenarios
    /\ tracking \subseteq [run : Nat, scenario : Scenarios, original : Nat \cup {-1}]
    /\ holder \in Harnesses \cup {None}
    /\ lines = None \/ lines \in Seq(Results \cup {Torn})
    /\ stamp = None \/ stamp \in Stamps
    /\ \A h \in Harnesses : proc[h].results \subseteq Results /\ proc[h].todo \subseteq Scenarios
    /\ cut => lines # None /\ lines # <<>>

(* Mutual exclusion of the evaluations, as the corpus sees it, and what it is
   for: while a scenario is investigated the corpus holds its own evidence and
   no other's, whoever was killed before, wherever a purge or a cleanup was cut
   off, and whoever else tried to start (fixtures.exclusive, purge_orphans,
   apply, clear; run.py main). *)
OwnEvidence(h) ==
    LET quiet == Scenario(h) \in Quiet IN
    /\ planted = IF quiet THEN {} ELSE {<<proc[h].run, Scenario(h)>>}
    /\ reading = IF quiet THEN 0 ELSE 1
OwnEvidenceOnly == \A h \in Harnesses : At(h, "investigate") => OwnEvidence(h)

(* The corpus can always be restored from the database alone: what is planted or
   scaled is tracked, and what is tracked as the original is the corpus as it
   was seeded, never another scenario's anomaly. *)
Restorable ==
    /\ \A e \in planted : \E t \in tracking : <<t.run, t.scenario>> = e /\ t.original = -1
    /\ reading # 0 => \E t \in tracking : t.original >= 0
    /\ \A t \in tracking : t.original \in {-1, 0}

(* A report has each scenario of the run that writes it exactly once, and all
   its results were made by the same code, however many processes the run was
   continued through and whatever was edited, committed or chosen in between
   (run.py resumable, load_progress). *)
ReportIsWhole ==
    report # None =>
        /\ {r.scenario : r \in report.results} = report.chosen
        /\ Cardinality(report.results) = Cardinality(report.chosen)
        /\ Cardinality({r.code : r \in report.results}) = 1

(* What an interruption costs beyond the scenario in flight: a line cut short
   takes at most one finished result with it, and no other result is lost while
   its file exists (run.py append_progress, load_progress). *)
Kept == {r.scenario : r \in LoadProgress}
LossIsBounded == Cardinality(saved \ Kept) <= tears

(* Whatever a killed process or a failed cleanup left is taken out again, as
   long as someone evaluates again. *)
Clean == reading = 0 /\ planted = {}
CorpusIsRestored == ~ Clean ~> Clean

------------------------------------------------------------------------------
(* What the help text says and the code does not keep; the run that checks it
   expects a counterexample. *)

(* "Results are appended as each scenario finishes, so an interrupted run loses
   at most the one in flight" (run.py:874): a result whose append returned is
   found again by the next --resume.  After a line cut short the next append
   continues that line, and the finished result in it is lost. *)
OnlyInFlightIsLost == saved \subseteq Kept
==============================================================================
