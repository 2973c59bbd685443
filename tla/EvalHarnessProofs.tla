------------------------- MODULE EvalHarnessProofs --------------------------
(***************************************************************************)
(* Proofs about EvalHarness for any number of harnesses, every suite and   *)
(* selection of scenarios and any number of edits, kills and failures.     *)
(*                                                                         *)
(* The argument has three parts, each an invariant of its own:             *)
(*   - the advisory lock leaves at most one process (LockOK), so that what *)
(*     a step may disturb is what the invariants say of that process;      *)
(*   - the corpus holds what that process's step says it holds, and is     *)
(*     restorable in between (CorpusOK);                                   *)
(*   - the whole lines of a progress file whose stamp is clean were made   *)
(*     by the code the stamp names (FileOK), so that a process that goes   *)
(*     on from them reports results of one code (RunOK).                   *)
(***************************************************************************)
EXTENDS EvalHarness, FiniteSetTheorems, TLAPS

Versions == 1..MaxEdits + 1
Lines == Results \cup {Torn}
Purging == {"restore", "rows", "tracking"}
Opened == {"unlink", "stamp", "next", "investigate", "append", "clear", "spent", "unstamp"}
Pcs == {"off", "progress"} \cup Purging \cup Opened
Processes ==
    [pc : Pcs, run : Nat, resume : BOOLEAN, chosen : SUBSET Scenarios, code : Nat,
     stamp : Stamps \cup {None}, todo : SUBSET Scenarios, results : SUBSET Results,
     result : Results \cup {None}, seeded : Nat \cup {None}]

(* What a process has by the time it is at a statement. *)
ProcessOK(p) ==
    /\ p \in Processes
    /\ p.pc # "off" => p.chosen \in Selections
    /\ p.pc \in Opened => p.code \in Versions /\ p.stamp \in Stamps
    /\ p.pc \in {"append", "clear"} => p.result \in Results
    /\ p.pc \in {"investigate", "clear"} => p.seeded \in Nat
    /\ p.pc = "investigate" => p.todo # {}

ProcsOK ==
    /\ proc \in [Harnesses -> Processes]
    /\ \A h \in Harnesses : ProcessOK(proc[h])
LockOK ==
    /\ holder \in Harnesses \cup {None}
    /\ \A h \in Harnesses : IF holder = h THEN ~ At(h, "off") ELSE proc[h] = Off
CodeOK == code \in [content : Versions, commit : Versions]
FilesOK ==
    /\ lines = None \/ lines \in Seq(Lines)
    /\ stamp \in Stamps \cup {None}
    /\ cut \in BOOLEAN
    /\ cut => lines # None /\ lines # <<>>
CorpusTyped ==
    /\ reading \in Nat
    /\ planted \subseteq Nat \X Scenarios /\ IsFiniteSet(planted)
    /\ tracking \subseteq [run : Nat, scenario : Scenarios, original : Nat \cup {-1}]
    /\ IsFiniteSet(tracking)

Types == ProcsOK /\ LockOK /\ CodeOK /\ FilesOK /\ CorpusTyped

------------------------------------------------------------------------------
(* A set of numbers that is not empty has a smallest, and Min is one of its
   members: the scenario a process is at is one it has to do. *)
LEMMA HasLeast ==
    ASSUME NEW S, S \subseteq Nat, S # {}
    PROVE  \E x \in S : \A y \in S : x <= y
  <1>1. IsWellFoundedOn(OpToRel(<, Nat), Nat)
    BY NatLessThanWellFounded, Zenon
  <1>2. \E x \in S : \A y \in S : ~ (<<y, x>> \in OpToRel(<, Nat))
    BY <1>1, WFMin, Zenon
  <1>3. \E x \in S : \A y \in S : ~ (y < x)
    BY <1>2 DEF OpToRel
  <1> QED BY <1>3

(* The least of a set of stamps is one of them. *)
LEMMA MinIsAMember ==
    ASSUME NEW S, S \subseteq Nat, S # {}
    PROVE  Min(S) \in S
  BY HasLeast DEF Min

(* The scenario a harness is at is one it has still to do. *)
LEMMA CurrentScenario ==
    ASSUME Types, NEW h \in Harnesses, proc[h].todo # {}
    PROVE  Scenario(h) \in proc[h].todo /\ Scenario(h) \in Scenarios
  <1>1. proc[h].todo \subseteq Scenarios
    BY DEF Types, ProcsOK, Processes
  <1>2. Scenarios \subseteq Nat
    BY HarnessAssumption DEF Scenarios
  <1>3. Min(proc[h].todo) \in proc[h].todo
    BY <1>1, <1>2, MinIsAMember
  <1> QED BY <1>1, <1>3 DEF Scenario

(* The id of a new process is one no row and no process has: among one number more
   than there are ids in use, one is free. *)
LEMMA FreshRunIsFresh ==
    ASSUME Types, holder = None
    PROVE  FreshRun \in Nat \ {0} /\ FreshRun \notin UsedRuns
  <1> DEFINE P == {proc[h].run : h \in Harnesses}
             T == {t.run : t \in tracking}
             E == {e[1] : e \in planted}
             Ids == 1..Cardinality(UsedRuns) + 1
  <1>1. IsFiniteSet(P)
    <2>1. P \subseteq {0}
      BY HarnessAssumption DEF Types, LockOK, Off
    <2> HIDE DEF P
    <2> QED BY <2>1, FS_Singleton, FS_Subset
  <1>2. IsFiniteSet(T)
    <2> DEFINE f == [t \in tracking |-> t.run]
    <2>1. f \in Surjection(tracking, T)
      BY DEF Surjection
    <2>2. IsFiniteSet(tracking)
      BY DEF Types, CorpusTyped
    <2> HIDE DEF f, T
    <2> QED BY <2>1, <2>2, FS_Surjection
  <1>3. IsFiniteSet(E)
    <2> DEFINE f == [e \in planted |-> e[1]]
    <2>1. f \in Surjection(planted, E)
      BY DEF Surjection
    <2>2. IsFiniteSet(planted)
      BY DEF Types, CorpusTyped
    <2> HIDE DEF f, E
    <2> QED BY <2>1, <2>2, FS_Surjection
  <1>4. UsedRuns = P \cup T \cup E
    BY DEF UsedRuns
  <1> HIDE DEF P, T, E
  <1>5. IsFiniteSet(UsedRuns)
    BY <1>1, <1>2, <1>3, <1>4, FS_Union
  <1>6. Cardinality(UsedRuns) \in Nat
    BY <1>5, FS_CardinalityType
  <1>7. IsFiniteSet(Ids) /\ Cardinality(Ids) = Cardinality(UsedRuns) + 1
    BY <1>6, FS_Interval
  <1>8. ~ (Ids \subseteq UsedRuns)
    <2> HIDE DEF Ids
    <2> QED BY <1>5, <1>6, <1>7, FS_Subset
  <1>9. Ids \ UsedRuns # {} /\ Ids \ UsedRuns \subseteq Nat
    BY <1>6, <1>8
  <1>10. Min(Ids \ UsedRuns) \in Ids \ UsedRuns
    <2> HIDE DEF Ids
    <2> QED BY <1>9, MinIsAMember
  <1> QED BY <1>6, <1>10 DEF FreshRun

(* A line whole or cut short is not the absence of a file. *)
LEMMA LinesAreAFile == \A s \in Seq(Lines) : s # None
  BY HarnessAssumption DEF Lines

(* The lines that have their newline.  What is appended comes after them: a line
   without one is continued, and the two do not parse. *)
Ended == IF lines = None THEN <<>> ELSE IF cut THEN Front(lines) ELSE lines

(* The complete lines of the progress file are lines. *)
LEMMA EndedLines ==
    ASSUME FilesOK
    PROVE  Ended \in Seq(Lines)
  <1>1. CASE lines # None /\ cut
    <2>1. lines \in Seq(Lines) /\ Len(lines) \in Nat /\ Len(lines) # 0
      BY <1>1 DEF FilesOK
    <2> QED BY <1>1, <2>1 DEF Ended, Front
  <1>2. CASE ~ (lines # None /\ cut)
    BY <1>2 DEF FilesOK, Ended
  <1> QED BY <1>1, <1>2

(* They are where the file has them. *)
LEMMA EndedIsWhatIsThere ==
    ASSUME FilesOK, NEW i \in DOMAIN Ended
    PROVE  lines # None /\ i \in DOMAIN lines /\ Ended[i] = lines[i]
  <1>1. CASE lines # None /\ cut
    <2>1. lines \in Seq(Lines) /\ Len(lines) \in Nat /\ Len(lines) # 0
      BY <1>1 DEF FilesOK
    <2>2. Ended = SubSeq(lines, 1, Len(lines) - 1)
      BY <1>1 DEF Ended, Front
    <2> QED BY <1>1, <2>1, <2>2
  <1>2. CASE ~ (lines # None /\ cut)
    BY <1>2 DEF Ended
  <1> QED BY <1>1, <1>2

(* A line appended to a file leaves a file that is not empty. *)
LEMMA AppendedFile ==
    ASSUME FilesOK, NEW line \in Lines
    PROVE  /\ Appended(line) = Append(Ended, IF cut THEN Torn ELSE line)
           /\ Appended(line) \in Seq(Lines)
           /\ Appended(line) # <<>>
           /\ Appended(line) # None
  <1>1. Appended(line) = Append(Ended, IF cut THEN Torn ELSE line)
    <2>1. CASE lines = None
      <3>1. <<line>> = Append(<<>>, line)
        OBVIOUS
      <3> QED BY <2>1, <3>1 DEF Appended, Ended, FilesOK
    <2>2. CASE lines # None
      BY <2>2 DEF Appended, Ended
    <2> QED BY <2>1, <2>2
  <1>2. (IF cut THEN Torn ELSE line) \in Lines
    BY DEF Lines
  <1> QED BY <1>1, <1>2, EndedLines, LinesAreAFile

(* What a process takes over are results. *)
LEMMA LoadedResults ==
    ASSUME FilesOK
    PROVE  LoadProgress \subseteq Results
  <1>1. ASSUME lines # None, NEW i \in DOMAIN lines, lines[i] # Torn
        PROVE  lines[i] \in Results
    BY <1>1 DEF FilesOK, Lines
  <1> QED BY <1>1 DEF LoadProgress

(* The types and the lock, at the start. *)
LEMMA InitTypes == Init => Types
  <1> SUFFICES ASSUME Init PROVE Types
    OBVIOUS
  <1>1. ProcessOK(Off)
    BY DEF ProcessOK, Off, Processes, Pcs, Opened
  <1>2. ProcsOK
    BY <1>1 DEF Init, ProcsOK, ProcessOK
  <1>3. LockOK
    BY HarnessAssumption DEF Init, LockOK, At, Off
  <1>4. CodeOK
    BY HarnessAssumption DEF Init, CodeOK, Versions
  <1>5. CorpusTyped
    BY FS_EmptySet DEF Init, CorpusTyped
  <1> QED BY <1>2, <1>3, <1>4, <1>5 DEF Init, Types, FilesOK

(* A step takes the process that holds the lock on, or ends it, or it is the
   start of one, or no process's. *)
LEMMA OneProceeds ==
    ASSUME Types, NEW h \in Harnesses, holder = h, UNCHANGED holder,
           NEW next, ProcessOK(next), next.pc # "off",
           proc' = [proc EXCEPT ![h] = next]
    PROVE  ProcsOK' /\ LockOK' /\ proc'[h] = next
  BY DEF Types, ProcsOK, LockOK, ProcessOK, At

(* A harness that exits gives the lock back, and no other is running. *)
LEMMA OneExits ==
    ASSUME Types, NEW h \in Harnesses, holder = h, Exits(h)
    PROVE  /\ ProcsOK' /\ LockOK'
           /\ holder' = None /\ \A g \in Harnesses : proc'[g] = Off
  <1>1. ProcessOK(Off)
    BY DEF ProcessOK, Off, Processes, Pcs, Opened
  <1> QED BY <1>1, HarnessAssumption DEF Types, ProcsOK, LockOK, ProcessOK, Exits

(* Every step of a process that runs is the lock holder's. *)
LEMMA OnlyTheHolderActs ==
    ASSUME Types, NEW h \in Harnesses,
           Runs(h) \/ ApplyFails(h) \/ ClearFails(h) \/ Kill(h) \/ KillInAppend(h)
    PROVE  holder = h
  <1>1. ~ At(h, "off")
    BY DEF Runs, PurgeReadings, PurgeRows, PurgeTracking, Open, Unlink, WriteStamp,
           AppendProgress, Apply, Investigate, Clear, Report, UnlinkSpent, UnlinkStamp,
           ApplyFails, ClearFails, Kill, KillInAppend, At
  <1> QED BY <1>1 DEF Types, LockOK, At, Off

(* The stamp and the label a process computes name the code as it is. *)
LEMMA CurrentStamp ==
    ASSUME Types, NEW h \in Harnesses, ~ At(h, "off")
    PROVE  ProgressStamp(h) \in Stamps
  BY DEF Types, ProcsOK, ProcessOK, CodeOK, ProgressStamp, Label, Stamps, Labels, Versions, At

(* A step that only moves the process on, to a statement that asks no more of it. *)
LEMMA GoesOn ==
    ASSUME Types, NEW h \in Harnesses, NEW pc, holder = h, UNCHANGED holder, Goto(h, pc),
           \/ pc \in Purging \cup {"progress"}
           \/ pc \in {"stamp", "next", "spent", "unstamp"} /\ proc[h].pc \in Opened
    PROVE  ProcsOK' /\ LockOK' /\ proc'[h] = [proc[h] EXCEPT !.pc = pc]
  <1> DEFINE next == [proc[h] EXCEPT !.pc = pc]
  <1>1. ProcessOK(proc[h]) /\ proc[h].pc # "off"
    BY DEF Types, ProcsOK, LockOK, At
  <1>2. ProcessOK(next) /\ next.pc # "off"
    BY <1>1 DEF ProcessOK, Processes, Pcs, Opened, Purging
  <1>3. proc' = [proc EXCEPT ![h] = next]
    BY DEF Goto
  <1> HIDE DEF next
  <1>4. ProcsOK' /\ LockOK' /\ proc'[h] = next
    BY <1>2, <1>3, OneProceeds
  <1> QED BY <1>4 DEF next

(* Every step keeps the processes' types and the lock. *)
LEMMA ProcsStep ==
    ASSUME Types, [Next]_vars
    PROVE  ProcsOK' /\ LockOK'
  <1>0. CASE UNCHANGED <<proc, holder>>
    BY <1>0 DEF Types, ProcsOK, ProcessOK, LockOK, At
  <1>1. ASSUME NEW h \in Harnesses, NEW resume \in BOOLEAN, NEW chosen \in Selections,
               Start(h, resume, chosen)
        PROVE  ProcsOK' /\ LockOK'
    <2> DEFINE next == [Off EXCEPT !.pc = "restore", !.run = FreshRun,
                                   !.resume = resume, !.chosen = chosen]
    <2>1. holder = None /\ holder' = h /\ proc' = [proc EXCEPT ![h] = next]
      BY <1>1 DEF Start, Exclusive
    <2>2. FreshRun \in Nat
      BY <2>1, FreshRunIsFresh
    <2>3. chosen \in SUBSET Scenarios
      BY HarnessAssumption
    <2>4. ProcessOK(next) /\ next.pc # "off"
      BY <2>2, <2>3 DEF ProcessOK, Off, Processes, Pcs, Opened, Purging
    <2> HIDE DEF next
    <2> QED BY <2>1, <2>4, HarnessAssumption DEF Types, ProcsOK, LockOK, ProcessOK, At
  <1> SUFFICES ASSUME NEW h \in Harnesses,
                      Runs(h) \/ ApplyFails(h) \/ ClearFails(h) \/ Kill(h) \/ KillInAppend(h)
               PROVE  ProcsOK' /\ LockOK'
    BY <1>0, <1>1 DEF Next, Edit, Commit, DeleteProgress, vars
  <1> holder = h
    BY OnlyTheHolderActs
  <1>2. CASE Exits(h)
    BY <1>2, OneExits
  <1>3. CASE PurgeReadings(h) \/ PurgeRows(h) \/ PurgeTracking(h)
    BY <1>3, GoesOn DEF PurgeReadings, PurgeRows, PurgeTracking, Purging
  <1>4. CASE Unlink(h) \/ WriteStamp(h) \/ UnlinkSpent(h)
    BY <1>4, GoesOn DEF Unlink, WriteStamp, UnlinkSpent, Opened, At
  <1>5. CASE Report(h) /\ ~ Exits(h)
    BY <1>5, GoesOn DEF Report, Opened, At
  <1>a. ProcessOK(proc[h]) /\ proc[h] \in Processes
    BY DEF Types, ProcsOK, ProcessOK
  <1>6. CASE Open(h) /\ ~ Exits(h)
    <2> DEFINE completed == IF proc[h].resume THEN LoadProgress ELSE {}
               todo == {s \in proc[h].chosen : \A r \in completed : r.scenario # s}
               pc == IF completed = {} THEN "unlink" ELSE "next"
               next == [proc[h] EXCEPT !.pc = pc, !.code = code.content,
                            !.stamp = ProgressStamp(h), !.results = completed, !.todo = todo]
    <2>1. proc' = [proc EXCEPT ![h] = next] /\ At(h, "progress") /\ UNCHANGED holder
      BY <1>6 DEF Open
    <2>2. completed \in SUBSET Results
      BY LoadedResults DEF Types
    <2>3. todo \in SUBSET Scenarios
      BY <1>a DEF Processes
    <2>4. code.content \in Versions /\ code.content \in Nat
      BY HarnessAssumption DEF Types, CodeOK, Versions
    <2>5. ProgressStamp(h) \in Stamps
      BY <2>1, CurrentStamp DEF At
    <2>6. pc \in {"unlink", "next"}
      OBVIOUS
    <2> HIDE DEF completed, todo, pc
    <2>7. ProcessOK(next) /\ next.pc # "off"
      BY <1>a, <2>1, <2>2, <2>3, <2>4, <2>5, <2>6
         DEF ProcessOK, Processes, Pcs, Opened, Purging, At
    <2> HIDE DEF next
    <2> QED BY <2>1, <2>7, OneProceeds
  <1>7. CASE AppendProgress(h)
    <2> DEFINE results == proc[h].results \cup {proc[h].result}
               next == [proc[h] EXCEPT !.pc = "next", !.results = results]
    <2>1. proc' = [proc EXCEPT ![h] = next] /\ At(h, "append") /\ UNCHANGED holder
      BY <1>7 DEF AppendProgress
    <2>2. results \in SUBSET Results
      BY <1>a, <2>1 DEF ProcessOK, Processes, At
    <2> HIDE DEF results
    <2>3. ProcessOK(next) /\ next.pc # "off"
      BY <1>a, <2>1, <2>2 DEF ProcessOK, Processes, Pcs, Opened, Purging, At
    <2> HIDE DEF next
    <2> QED BY <2>1, <2>3, OneProceeds
  <1>8. CASE Apply(h)
    <2> DEFINE next == [proc[h] EXCEPT !.pc = "investigate", !.seeded = reading]
    <2>1. /\ proc' = [proc EXCEPT ![h] = next] /\ UNCHANGED holder
          /\ At(h, "next") /\ proc[h].todo # {}
      BY <1>8 DEF Apply
    <2>2. reading \in Nat
      BY DEF Types, CorpusTyped
    <2>3. ProcessOK(next) /\ next.pc # "off"
      BY <1>a, <2>1, <2>2 DEF ProcessOK, Processes, Pcs, Opened, Purging, At
    <2> HIDE DEF next
    <2> QED BY <2>1, <2>3, OneProceeds
  <1>9. ASSUME proc[h].pc \in {"next", "investigate"}, proc[h].todo # {}
        PROVE  Result(h, Scenario(h)) \in Results /\ Left(h) \in SUBSET Scenarios
    BY <1>9, <1>a, CurrentScenario
       DEF ProcessOK, Processes, Opened, Result, Results, Versions, Left
  <1>10. CASE ApplyFails(h)
    <2> DEFINE next == [proc[h] EXCEPT !.pc = "append", !.todo = Left(h),
                                       !.result = Result(h, Scenario(h))]
    <2>1. /\ proc' = [proc EXCEPT ![h] = next] /\ UNCHANGED holder
          /\ At(h, "next") /\ proc[h].todo # {}
      BY <1>10 DEF ApplyFails
    <2>2. Result(h, Scenario(h)) \in Results /\ Left(h) \in SUBSET Scenarios
      BY <2>1, <1>9 DEF At
    <2>3. ProcessOK(next) /\ next.pc # "off"
      BY <1>a, <2>1, <2>2 DEF ProcessOK, Processes, Pcs, Opened, Purging, At
    <2> HIDE DEF next
    <2> QED BY <2>1, <2>3, OneProceeds
  <1>11. CASE Investigate(h)
    <2> DEFINE next == [proc[h] EXCEPT !.pc = "clear", !.todo = Left(h),
                                       !.result = Result(h, Scenario(h))]
    <2>1. /\ proc' = [proc EXCEPT ![h] = next] /\ UNCHANGED holder
          /\ At(h, "investigate")
      BY <1>11 DEF Investigate
    <2>2. Result(h, Scenario(h)) \in Results /\ Left(h) \in SUBSET Scenarios
      BY <2>1, <1>9, <1>a DEF At, ProcessOK
    <2>3. ProcessOK(next) /\ next.pc # "off"
      BY <1>a, <2>1, <2>2 DEF ProcessOK, Processes, Pcs, Opened, Purging, At
    <2> HIDE DEF next
    <2> QED BY <2>1, <2>3, OneProceeds
  <1>12. CASE Clear(h)
    <2> DEFINE next == [proc[h] EXCEPT !.pc = "append", !.seeded = None]
    <2>1. proc' = [proc EXCEPT ![h] = next] /\ At(h, "clear") /\ UNCHANGED holder
      BY <1>12 DEF Clear
    <2>2. ProcessOK(next) /\ next.pc # "off"
      BY <1>a, <2>1 DEF ProcessOK, Processes, Pcs, Opened, Purging, At
    <2> HIDE DEF next
    <2> QED BY <2>1, <2>2, OneProceeds
  <1>13. UnlinkStamp(h) \/ ClearFails(h) \/ Kill(h) \/ KillInAppend(h) => Exits(h)
    BY DEF UnlinkStamp, ClearFails, Kill, KillInAppend
  <1> QED BY <1>2, <1>3, <1>4, <1>5, <1>6, <1>7, <1>8, <1>10, <1>11, <1>12, <1>13
       DEF Runs

(* The code and the files keep their types: a line that is appended is a result
   or the remains of one. *)
LEMMA FilesStep ==
    ASSUME Types, [Next]_vars
    PROVE  CodeOK' /\ FilesOK'
  <1> USE DEF Types
  <1>1. CodeOK'
    <2>1. CASE UNCHANGED code
      BY <2>1 DEF CodeOK
    <2>2. CASE Edit
      BY <2>2, HarnessAssumption DEF Edit, CodeOK, Versions
    <2>3. CASE Commit
      BY <2>3 DEF Commit, CodeOK
    <2>4. UNCHANGED code \/ Edit \/ Commit
      BY DEF Next, Runs, Start, PurgeReadings, PurgeRows, PurgeTracking, Open, Unlink,
             WriteStamp, AppendProgress, Apply, Investigate, Clear, Report, UnlinkSpent,
             UnlinkStamp, ApplyFails, ClearFails, Kill, KillInAppend, DeleteProgress, vars
    <2> QED BY <2>1, <2>2, <2>3, <2>4
  <1>2. FilesOK'
    <2>1. CASE UNCHANGED files
      BY <2>1 DEF FilesOK, files
    <2>2. CASE lines' = None /\ cut' = FALSE /\ UNCHANGED stamp
      BY <2>2 DEF FilesOK
    <2>3. ASSUME NEW h \in Harnesses, WriteStamp(h)
          PROVE  FilesOK'
      BY <2>3 DEF WriteStamp, FilesOK, ProcsOK, ProcessOK, Opened, At
    <2>4. ASSUME NEW h \in Harnesses, UnlinkStamp(h)
          PROVE  FilesOK'
      BY <2>4 DEF UnlinkStamp, FilesOK
    <2>5. ASSUME NEW line \in Lines, lines' = Appended(line), cut' \in BOOLEAN, UNCHANGED stamp
          PROVE  FilesOK'
      BY <2>5, AppendedFile DEF FilesOK
    <2>6. ASSUME NEW h \in Harnesses, AppendProgress(h) \/ KillInAppend(h)
          PROVE  FilesOK'
      <3>1. proc[h].result \in Lines /\ Torn \in Lines
        BY <2>6 DEF AppendProgress, KillInAppend, ProcsOK, ProcessOK, Lines, At
      <3>2. \E line \in Lines : lines' = Appended(line)
        BY <2>6, <3>1 DEF AppendProgress, KillInAppend
      <3>3. cut' \in BOOLEAN /\ UNCHANGED stamp
        BY <2>6 DEF AppendProgress, KillInAppend
      <3> QED BY <3>2, <3>3, <2>5
    <2>7. \/ UNCHANGED files
          \/ lines' = None /\ cut' = FALSE /\ UNCHANGED stamp
          \/ \E h \in Harnesses : \/ WriteStamp(h) \/ UnlinkStamp(h)
                                  \/ AppendProgress(h) \/ KillInAppend(h)
      BY DEF Next, Runs, Start, PurgeReadings, PurgeRows, PurgeTracking, Open, Unlink,
             Apply, Investigate, Clear, Report, UnlinkSpent, ApplyFails, ClearFails, Kill,
             Edit, Commit, DeleteProgress, vars, files
    <2> QED BY <2>1, <2>2, <2>3, <2>4, <2>6, <2>7
  <1> QED BY <1>1, <1>2

(* The corpus keeps its types, and finitely many rows. *)
LEMMA PlantedTyped ==
    ASSUME Types, NEW h \in Harnesses, NEW s \in Scenarios, Planted(h, s)
    PROVE  CorpusTyped'
  <1>0. CorpusTyped /\ proc[h].run \in Nat
    BY DEF Types, ProcsOK, Processes
  <1>1. CASE UNCHANGED corpus
    BY <1>0, <1>1 DEF CorpusTyped, corpus
  <1>2. CASE s \notin Quiet
    <2> DEFINE row == [run |-> proc[h].run, scenario |-> s, original |-> -1]
               scaled == [run |-> proc[h].run, scenario |-> s, original |-> reading]
    <2>1. /\ reading' = reading + 1
          /\ planted' = planted \cup {<<proc[h].run, s>>}
          /\ tracking' = tracking \cup {row} \cup {scaled}
      BY <1>2 DEF Planted, Tracks
    <2>2. {row, scaled} \subseteq [run : Nat, scenario : Scenarios, original : Nat \cup {-1}]
      BY <1>0 DEF CorpusTyped
    <2> HIDE DEF row, scaled
    <2>3. IsFiniteSet(planted') /\ IsFiniteSet(tracking')
      BY <1>0, <2>1, FS_AddElement DEF CorpusTyped
    <2> QED BY <1>0, <2>1, <2>2, <2>3 DEF CorpusTyped
  <1> QED BY <1>1, <1>2 DEF Planted

(* Clearing a corpus leaves one of the right type. *)
LEMMA ClearedTyped ==
    ASSUME Types, NEW h \in Harnesses, At(h, "clear"), Cleared(h)
    PROVE  CorpusTyped'
  <1>0. CorpusTyped /\ proc[h].seeded \in Nat
    BY DEF Types, ProcsOK, ProcessOK, At
  <1>1. CASE UNCHANGED corpus
    BY <1>0, <1>1 DEF CorpusTyped, corpus
  <1>2. CASE ~ UNCHANGED corpus
    <2>1. reading' = proc[h].seeded /\ planted' \subseteq planted /\ tracking' \subseteq tracking
      BY <1>2 DEF Cleared
    <2>2. IsFiniteSet(planted') /\ IsFiniteSet(tracking')
      BY <1>0, <2>1, FS_Subset DEF CorpusTyped
    <2> QED BY <1>0, <2>1, <2>2 DEF CorpusTyped
  <1> QED BY <1>1, <1>2

(* Every step keeps the corpus's types. *)
LEMMA CorpusTypesStep ==
    ASSUME Types, [Next]_vars
    PROVE  CorpusTyped'
  <1>0. CorpusTyped
    BY DEF Types
  <1>1. CASE UNCHANGED corpus
    BY <1>0, <1>1 DEF CorpusTyped, corpus
  <1>2. ASSUME NEW h \in Harnesses, PurgeReadings(h)
        PROVE  CorpusTyped'
    <2>1. UNCHANGED <<planted, tracking>>
      BY <1>2 DEF PurgeReadings
    <2>2. \A t \in tracking : t.original >= 0 => t.original \in Nat
      BY <1>0 DEF CorpusTyped
    <2>3. reading' \in Nat
      BY <1>0, <1>2, <2>2 DEF PurgeReadings, CorpusTyped
    <2> QED BY <1>0, <2>1, <2>3 DEF CorpusTyped
  <1>3. ASSUME NEW h \in Harnesses, PurgeRows(h) \/ PurgeTracking(h)
        PROVE  CorpusTyped'
    <2>1. UNCHANGED reading /\ planted' \subseteq planted /\ tracking' \subseteq tracking
      BY <1>3 DEF PurgeRows, PurgeTracking
    <2>2. IsFiniteSet(planted') /\ IsFiniteSet(tracking')
      BY <1>0, <2>1, FS_Subset DEF CorpusTyped
    <2> QED BY <1>0, <2>1, <2>2 DEF CorpusTyped
  <1>4. ASSUME NEW h \in Harnesses, Apply(h) \/ ApplyFails(h), ~ UNCHANGED corpus
        PROVE  CorpusTyped'
    <2>1. proc[h].todo # {} /\ Planted(h, Scenario(h))
      BY <1>4 DEF Apply, ApplyFails
    <2> QED BY <2>1, CurrentScenario, PlantedTyped
  <1>5. ASSUME NEW h \in Harnesses, Clear(h) \/ ClearFails(h), ~ UNCHANGED corpus
        PROVE  CorpusTyped'
    BY <1>5, ClearedTyped DEF Clear, ClearFails
  <1>6. \/ UNCHANGED corpus
        \/ \E h \in Harnesses : \/ PurgeReadings(h) \/ PurgeRows(h) \/ PurgeTracking(h)
                                \/ Apply(h) \/ ApplyFails(h) \/ Clear(h) \/ ClearFails(h)
    BY DEF Next, Runs, Start, Open, Unlink, WriteStamp, AppendProgress, Investigate, Report,
           UnlinkSpent, UnlinkStamp, Kill, KillInAppend, Edit, Commit, DeleteProgress,
           vars, corpus
  <1> QED BY <1>1, <1>2, <1>3, <1>4, <1>5, <1>6

(* Every step keeps the types and the lock. *)
LEMMA TypesStep == Types /\ [Next]_vars => Types'
  BY ProcsStep, FilesStep, CorpusTypesStep DEF Types

------------------------------------------------------------------------------
(* The corpus.  Between two scenarios it is as it was seeded; under one it holds
   that scenario's evidence and what is needed to take it out; and while a new
   process purges, what an earlier one left can still be restored. *)
Settled == {"progress", "unlink", "stamp", "next", "append", "spent", "unstamp"}
Untouched == reading = 0 /\ planted = {} /\ tracking = {}
Evidence(h, s) ==
    IF s \in Quiet THEN Untouched
    ELSE /\ reading = 1
         /\ planted = {<<proc[h].run, s>>}
         /\ tracking = {[run |-> proc[h].run, scenario |-> s, original |-> -1]}
                           \cup {[run |-> proc[h].run, scenario |-> s, original |-> 0]}

Stands(h) ==
    /\ proc[h].pc \in Purging => \A t \in tracking : Orphaned(h, t)
    /\ proc[h].pc \in {"rows", "tracking"} => reading = 0
    /\ proc[h].pc = "tracking" => planted = {}
    /\ proc[h].pc \in Settled => Untouched
    /\ proc[h].pc = "investigate" => Evidence(h, Scenario(h)) /\ proc[h].seeded = 0
    /\ proc[h].pc = "clear" => Evidence(h, proc[h].result.scenario) /\ proc[h].seeded = 0

CorpusOK == Restorable /\ \A h \in Harnesses : Stands(h)

(* The COMMIT of an apply is answered, or the transaction is rolled back. *)
NoDoubt == CommitsInDoubt = FALSE

(* The corpus at the start is restorable. *)
LEMMA InitCorpus == Init => CorpusOK
  BY DEF Init, CorpusOK, Restorable, Stands, Off, Purging, Settled

(* Of what is left, a process that starts has written nothing. *)
LEMMA StartStands ==
    ASSUME Types, CorpusOK, NEW h \in Harnesses, NEW resume, NEW chosen,
           Start(h, resume, chosen)
    PROVE  Restorable' /\ Stands(h)'
  <1>1. holder = None /\ UNCHANGED <<reading, planted, tracking>>
    BY DEF Start, Exclusive, corpus
  <1>2. proc'[h].pc = "restore" /\ proc'[h].run = FreshRun
    BY DEF Start, Types, ProcsOK, Off
  <1>3. \A t \in tracking : t.run # FreshRun
    BY <1>1, FreshRunIsFresh DEF UsedRuns
  <1> QED BY <1>1, <1>2, <1>3 DEF CorpusOK, Restorable, Stands, Orphaned, Purging, Settled

(* Purging what an earlier run left keeps the corpus restorable. *)
LEMMA PurgeStands ==
    ASSUME Types, CorpusOK, NEW h \in Harnesses,
           PurgeReadings(h) \/ PurgeRows(h) \/ PurgeTracking(h)
    PROVE  Restorable' /\ Stands(h)'
  <1>0. /\ Restorable /\ Stands(h) /\ \A t \in tracking : t.original \in {-1, 0}
        /\ proc[h] \in Processes
    BY DEF CorpusOK, Restorable, Types, ProcsOK
  <1>1. /\ proc'[h].run = proc[h].run
        /\ \A t : Orphaned(h, t)' <=> Orphaned(h, t)
    BY <1>0 DEF PurgeReadings, PurgeRows, PurgeTracking, Goto, Types, ProcsOK, Orphaned,
                Processes
  <1>2. CASE PurgeReadings(h)
    <2> DEFINE originals ==
            {t.original : t \in {u \in tracking : Orphaned(h, u) /\ u.original >= 0}}
    <2>1. /\ At(h, "restore") /\ UNCHANGED <<planted, tracking>> /\ proc'[h].pc = "rows"
          /\ IF originals = {} THEN UNCHANGED reading ELSE \E v \in originals : reading' = v
      BY <1>2 DEF PurgeReadings, Goto, Types, ProcsOK, Processes
    <2>2. \A t \in tracking : Orphaned(h, t)
      BY <1>0, <2>1 DEF Stands, Purging, At
    <2>3. CASE originals = {}
      <3>1. \A t \in tracking : ~ (t.original >= 0)
        BY <2>2, <2>3
      <3>2. reading = 0
        BY <1>0, <3>1 DEF Restorable
      <3> QED BY <1>0, <1>1, <2>1, <2>2, <2>3, <3>2 DEF Restorable, Stands, Settled
    <2>4. CASE originals # {}
      <3>1. \A v \in originals : v = 0
        BY <1>0
      <3>2. reading' = 0
        BY <2>1, <2>4, <3>1
      <3> QED BY <1>0, <1>1, <2>1, <2>2, <3>2 DEF Restorable, Stands, Settled
    <2> QED BY <2>3, <2>4
  <1>3. CASE PurgeRows(h)
    <2>1. /\ At(h, "rows") /\ UNCHANGED <<reading, tracking>> /\ proc'[h].pc = "tracking"
          /\ planted' = planted \ {<<t.run, t.scenario>> :
                             t \in {u \in tracking : Orphaned(h, u) /\ u.original < 0}}
      BY <1>3 DEF PurgeRows, Goto, Types, ProcsOK, Processes
    <2>2. (\A t \in tracking : Orphaned(h, t)) /\ reading = 0
      BY <1>0, <2>1 DEF Stands, Purging, At
    <2>3. planted' = {}
      BY <1>0, <2>1, <2>2 DEF Restorable
    <2> QED BY <1>0, <1>1, <2>1, <2>2, <2>3 DEF Restorable, Stands, Settled
  <1>4. CASE PurgeTracking(h)
    <2>1. /\ At(h, "tracking") /\ UNCHANGED <<reading, planted>>
          /\ proc'[h].pc = "progress"
          /\ tracking' = {t \in tracking : ~ Orphaned(h, t)}
      BY <1>4 DEF PurgeTracking, Goto, Types, ProcsOK, Processes
    <2>2. (\A t \in tracking : Orphaned(h, t)) /\ reading = 0 /\ planted = {}
      BY <1>0, <2>1 DEF Stands, Purging, At
    <2>3. tracking' = {}
      BY <2>1, <2>2
    <2> QED BY <2>1, <2>2, <2>3 DEF Restorable, Stands, Purging, Settled, Untouched
  <1> QED BY <1>2, <1>3, <1>4

(* The steps between two scenarios leave the corpus alone. *)
LEMMA SettledStands ==
    ASSUME Types, CorpusOK, NoDoubt, NEW h \in Harnesses,
           \/ Open(h) \/ Unlink(h) \/ WriteStamp(h) \/ AppendProgress(h) \/ Report(h)
           \/ UnlinkSpent(h) \/ ApplyFails(h)
    PROVE  Restorable' /\ Stands(h)'
  <1>1. proc[h].pc \in Settled
    BY DEF Open, Unlink, WriteStamp, AppendProgress, Report, UnlinkSpent, ApplyFails, Settled, At
  <1>2. UNCHANGED <<reading, planted, tracking>>
    BY DEF Open, Unlink, WriteStamp, AppendProgress, Report, UnlinkSpent, ApplyFails,
           NoDoubt, corpus
  <1>3. proc'[h].pc \in Settled \cup {"off"}
    <2>0. proc \in [Harnesses -> Processes] /\ proc[h] \in Processes
      BY DEF Types, ProcsOK
    <2>1. CASE Exits(h)
      BY <2>0, <2>1 DEF Exits, Off
    <2>2. CASE Unlink(h) \/ WriteStamp(h) \/ UnlinkSpent(h) \/ Report(h)
      BY <2>0, <2>1, <2>2
         DEF Unlink, WriteStamp, UnlinkSpent, Report, Goto, Processes, Settled
    <2>3. CASE AppendProgress(h) \/ ApplyFails(h)
      BY <2>0, <2>3 DEF AppendProgress, ApplyFails, Processes, Settled
    <2>4. CASE Open(h) /\ ~ Exits(h)
      <3> DEFINE completed == IF proc[h].resume THEN LoadProgress ELSE {}
                 pc == IF completed = {} THEN "unlink" ELSE "next"
      <3> DEFINE todo == {s \in proc[h].chosen : \A r \in completed : r.scenario # s}
      <3>1. proc' = [proc EXCEPT ![h] =
                [proc[h] EXCEPT !.pc = pc, !.code = code.content, !.stamp = ProgressStamp(h),
                                !.results = completed, !.todo = todo]]
        BY <2>4 DEF Open
      <3>2. pc \in Settled
        BY DEF Settled
      <3> HIDE DEF completed, pc, todo
      <3> QED BY <2>0, <3>1, <3>2 DEF Processes
    <2> QED BY <2>1, <2>2, <2>3, <2>4
  <1> QED BY <1>1, <1>2, <1>3
          DEF CorpusOK, Stands, Settled, Untouched, Restorable, Purging

(* Applying a scenario keeps the corpus restorable. *)
LEMMA ApplyStands ==
    ASSUME Types, CorpusOK, NEW h \in Harnesses, Apply(h)
    PROVE  Restorable' /\ Stands(h)'
  <1>0. proc \in [Harnesses -> Processes] /\ proc[h] \in Processes
    BY DEF Types, ProcsOK
  <1>1. Untouched
    BY DEF Apply, At, CorpusOK, Stands, Settled
  <1>2. /\ proc'[h].pc = "investigate" /\ proc'[h].seeded = 0
        /\ proc'[h].run = proc[h].run /\ proc'[h].todo = proc[h].todo
    BY <1>0, <1>1 DEF Apply, Processes, Untouched
  <1>3. Scenario(h)' = Scenario(h)
    BY <1>2 DEF Scenario
  <1>4. Evidence(h, Scenario(h))'
    <2>1. CASE Scenario(h) \in Quiet
      BY <1>1, <1>3, <2>1 DEF Apply, Planted, corpus, Evidence, Untouched
    <2>2. CASE Scenario(h) \notin Quiet
      <3> DEFINE row(v) == [run |-> proc[h].run, scenario |-> Scenario(h), original |-> v]
      <3>1. /\ reading' = reading + 1
            /\ planted' = planted \cup {<<proc[h].run, Scenario(h)>>}
            /\ tracking' = tracking \cup {row(v) : v \in {-1, reading}}
        BY <2>2 DEF Apply, Planted, Tracks
      <3> HIDE DEF row
      <3>2. /\ reading' = 1 /\ planted' = {<<proc[h].run, Scenario(h)>>}
            /\ tracking' = {row(-1)} \cup {row(0)}
        BY <1>1, <3>1 DEF Untouched
      <3> QED BY <1>2, <1>3, <2>2, <3>2 DEF Evidence, row
    <2> QED BY <2>1, <2>2
  <1>5. Restorable'
    <2>1. ASSUME NEW k, NEW s, Evidence(k, s)' PROVE Restorable'
      <3>1. CASE Untouched'
        BY <3>1 DEF Untouched, Restorable
      <3>2. CASE ~ Untouched'
        <4> DEFINE row == [run |-> proc'[k].run, scenario |-> s, original |-> -1]
                   scaled == [run |-> proc'[k].run, scenario |-> s, original |-> 0]
        <4>1. planted' = {<<proc'[k].run, s>>} /\ tracking' = {row} \cup {scaled}
          BY <2>1, <3>2 DEF Evidence
        <4>2. /\ row.run = proc'[k].run /\ row.scenario = s /\ row.original = -1
              /\ scaled.original = 0
          OBVIOUS
        <4> HIDE DEF row, scaled
        <4> QED BY <4>1, <4>2 DEF Restorable
      <3> QED BY <3>1, <3>2
    <2> QED BY <1>4, <2>1, <1>3
  <1> QED BY <1>2, <1>4, <1>5 DEF Stands, Purging, Settled

(* So does investigating it. *)
LEMMA InvestigateStands ==
    ASSUME Types, CorpusOK, NEW h \in Harnesses, Investigate(h)
    PROVE  Restorable' /\ Stands(h)'
  <1>0. proc \in [Harnesses -> Processes] /\ proc[h] \in Processes
    BY DEF Types, ProcsOK
  <1>1. Evidence(h, Scenario(h)) /\ proc[h].seeded = 0 /\ Restorable
    BY DEF Investigate, At, CorpusOK, Stands
  <1>2. /\ proc'[h].pc = "clear" /\ proc'[h].seeded = proc[h].seeded
        /\ proc'[h].run = proc[h].run /\ proc'[h].result = Result(h, Scenario(h))
    BY <1>0 DEF Investigate, Processes
  <1>3. proc'[h].result.scenario = Scenario(h)
    BY <1>2 DEF Result
  <1>4. UNCHANGED <<reading, planted, tracking>>
    BY DEF Investigate, corpus
  <1> QED BY <1>1, <1>2, <1>3, <1>4
          DEF Stands, Evidence, Untouched, Restorable, Purging, Settled

(* Clearing takes out what the apply wrote, and nothing is left. *)
LEMMA ClearedIsUntouched ==
    ASSUME CorpusOK, NEW h \in Harnesses, At(h, "clear"), Cleared(h)
    PROVE  Untouched'
  <1> DEFINE s == proc[h].result.scenario
             row(v) == [run |-> proc[h].run, scenario |-> s, original |-> v]
  <1>1. Evidence(h, s) /\ proc[h].seeded = 0
    BY DEF At, CorpusOK, Stands
  <1>2. CASE s \in Quiet
    BY <1>1, <1>2 DEF Evidence, Cleared, Untouched, corpus
  <1>3. CASE s \notin Quiet
    <2>1. planted = {<<proc[h].run, s>>} /\ tracking = {row(-1)} \cup {row(0)}
      BY <1>1, <1>3 DEF Evidence
    <2>2. \A v : row(v).run = proc[h].run /\ row(v).scenario = s
      OBVIOUS
    <2> HIDE DEF row
    <2>3. /\ reading' = proc[h].seeded
          /\ planted' = planted \ {<<proc[h].run, s>>}
          /\ tracking' = {t \in tracking : t.run # proc[h].run \/ t.scenario # s}
      BY <1>3 DEF Cleared
    <2>4. reading' = 0 /\ planted' = {}
      BY <1>1, <2>1, <2>3
    <2>5. tracking' = {}
      BY <2>1, <2>2, <2>3
    <2> QED BY <2>4, <2>5 DEF Untouched
  <1> QED BY <1>2, <1>3

(* And clearing it, which may fail. *)
LEMMA ClearStands ==
    ASSUME Types, CorpusOK, NEW h \in Harnesses, Clear(h)
    PROVE  Restorable' /\ Stands(h)'
  <1>1. Untouched'
    BY ClearedIsUntouched DEF Clear
  <1>2. proc'[h].pc = "append"
    BY DEF Clear, Types, ProcsOK, Processes
  <1> QED BY <1>1, <1>2 DEF Stands, Untouched, Restorable, Purging, Settled

(* A process that ends leaves a corpus that can be restored. *)
LEMMA ExitLeavesRestorable ==
    ASSUME Types, CorpusOK, NEW h \in Harnesses,
           UnlinkStamp(h) \/ ClearFails(h) \/ Kill(h) \/ KillInAppend(h)
    PROVE  Restorable'
  <1>1. CASE UNCHANGED corpus
    BY <1>1 DEF corpus, CorpusOK, Restorable
  <1>2. CASE ~ UNCHANGED corpus
    <2>1. At(h, "clear") /\ Cleared(h)
      BY <1>2 DEF UnlinkStamp, ClearFails, Kill, KillInAppend
    <2> QED BY <2>1, ClearedIsUntouched DEF Untouched, Restorable
  <1> QED BY <1>1, <1>2

(* Every step keeps the corpus restorable, when a commit's outcome is known. *)
LEMMA CorpusStep ==
    ASSUME Types, Types', CorpusOK, NoDoubt, [Next]_vars
    PROVE  CorpusOK'
  <1>1. CASE UNCHANGED <<corpus, proc>>
    BY <1>1 DEF CorpusOK, Restorable, Stands, Evidence, Untouched, Scenario, Orphaned, corpus
  <1>2. ASSUME NEW h \in Harnesses, holder' = h, Restorable', Stands(h)'
        PROVE  CorpusOK'
    <2>1. \A g \in Harnesses \ {h} : proc'[g] = Off
      BY <1>2 DEF Types, LockOK
    <2>2. \A g \in Harnesses : Stands(g)'
      BY <1>2, <2>1 DEF Stands, Off, Purging, Settled
    <2> QED BY <1>2, <2>2 DEF CorpusOK
  <1>3. ASSUME NEW h \in Harnesses, holder = h, Exits(h), Restorable'
        PROVE  CorpusOK'
    <2>1. \A g \in Harnesses : proc'[g] = Off
      BY <1>3, OneExits
    <2>2. \A g \in Harnesses : Stands(g)'
      BY <2>1 DEF Stands, Off, Purging, Settled
    <2> QED BY <1>3, <2>2 DEF CorpusOK
  <1>4. ASSUME NEW h \in Harnesses, NEW resume \in BOOLEAN, NEW chosen \in Selections,
               Start(h, resume, chosen)
        PROVE  CorpusOK'
    <2>1. holder' = h
      BY <1>4 DEF Start
    <2> QED BY <1>2, <1>4, <2>1, StartStands
  <1>5. ASSUME NEW h \in Harnesses,
               Runs(h) \/ ApplyFails(h) \/ ClearFails(h) \/ Kill(h) \/ KillInAppend(h)
        PROVE  CorpusOK'
    <2>1. holder = h
      BY <1>5, OnlyTheHolderActs
    <2>2. Restorable' /\ (Stands(h)' \/ Exits(h))
      BY <1>5, PurgeStands, SettledStands, ApplyStands, InvestigateStands, ClearStands,
         ExitLeavesRestorable
         DEF Runs, UnlinkStamp, ClearFails, Kill, KillInAppend
    <2>3. UNCHANGED holder \/ Exits(h)
      BY <1>5 DEF Runs, PurgeReadings, PurgeRows, PurgeTracking, Open, Unlink, WriteStamp,
                  AppendProgress, Apply, Investigate, Clear, Report, UnlinkSpent,
                  UnlinkStamp, ApplyFails, ClearFails, Kill, KillInAppend
    <2> QED BY <1>2, <1>3, <2>1, <2>2, <2>3
  <1>6. Edit \/ Commit \/ DeleteProgress \/ UNCHANGED vars => UNCHANGED <<corpus, proc>>
    BY DEF Edit, Commit, DeleteProgress, vars, corpus
  <1> QED BY <1>1, <1>4, <1>5, <1>6 DEF Next

------------------------------------------------------------------------------
(* The progress file and the report.  The whole lines of a file with a clean stamp
   were made by the code the stamp names, for scenarios it chose. *)
FileOK ==
    lines # None /\ stamp # None /\ ~ stamp.label.dirty =>
        \A i \in DOMAIN lines : lines[i] # Torn =>
            lines[i].code = stamp.label.commit /\ lines[i].scenario \in stamp.chosen

(* The results a process has are of the code it read and of scenarios it was to
   run; with those it has left, they are all of them. *)
Ran(h) == {r.scenario : r \in proc[h].results}
RunOK(h) ==
    /\ proc[h].pc \in {"stamp", "unstamp"} => lines = None
    /\ proc[h].pc \in {"next", "investigate", "clear", "append", "spent"} =>
           stamp = proc[h].stamp
    /\ proc[h].pc \in Opened =>
           /\ \A r \in proc[h].results : r.code = proc[h].code
           /\ proc[h].stamp.chosen = proc[h].chosen
           /\ ~ proc[h].stamp.label.dirty => proc[h].code = proc[h].stamp.label.commit
    /\ proc[h].pc \in {"unlink", "stamp", "next", "investigate"} =>
           proc[h].chosen = Ran(h) \cup proc[h].todo
    /\ proc[h].pc \in {"clear", "append"} =>
           /\ proc[h].chosen = Ran(h) \cup proc[h].todo \cup {proc[h].result.scenario}
           /\ proc[h].result.code = proc[h].code

ResultsOK == FileOK /\ ReportIsWhole /\ \A h \in Harnesses : RunOK(h)

(* The files and the results at the start agree. *)
LEMMA InitResults == Init => ResultsOK
  BY DEF Init, ResultsOK, FileOK, ReportIsWhole, RunOK, Off, Opened

(* What a process goes on from was made by the code it has read itself, and is of
   the scenarios it was asked for. *)
LEMMA ResumedResults ==
    ASSUME Types, ResultsOK, NEW h \in Harnesses, Resumable(ProgressStamp(h))
    PROVE  /\ stamp = ProgressStamp(h) /\ code.content = code.commit
           /\ \A r \in LoadProgress : r.code = code.content /\ r.scenario \in proc[h].chosen
  <1>1. /\ stamp # None /\ stamp = ProgressStamp(h) /\ ~ stamp.label.dirty
        /\ stamp.label.commit = code.commit /\ stamp.chosen = proc[h].chosen
        /\ code.content = code.commit
    BY DEF Resumable, ProgressStamp, Label
  <1>2. ASSUME lines # None, NEW i \in DOMAIN lines, lines[i] # Torn
        PROVE  lines[i].code = code.content /\ lines[i].scenario \in proc[h].chosen
    BY <1>1, <1>2 DEF ResultsOK, FileOK
  <1> QED BY <1>1, <1>2 DEF LoadProgress

(* A harness that has opened its progress has from the file what the file has. *)
LEMMA OpenRuns ==
    ASSUME Types, ResultsOK, NEW h \in Harnesses, Open(h), ~ Exits(h)
    PROVE  RunOK(h)'
  <1> DEFINE completed == IF proc[h].resume THEN LoadProgress ELSE {}
             todo == {s \in proc[h].chosen : \A r \in completed : r.scenario # s}
             pc == IF completed = {} THEN "unlink" ELSE "next"
             next == [proc[h] EXCEPT !.pc = pc, !.code = code.content,
                          !.stamp = ProgressStamp(h), !.results = completed, !.todo = todo]
  <1>1. proc' = [proc EXCEPT ![h] = next] /\ At(h, "progress") /\ UNCHANGED <<lines, stamp>>
    BY DEF Open, files
  <1>2. completed # {} => Resumable(ProgressStamp(h)) /\ completed = LoadProgress
    BY DEF Open
  <1> HIDE DEF completed
  <1>3. (pc = "unlink" /\ completed = {}) \/ (pc = "next" /\ completed # {})
    OBVIOUS
  <1>4. todo = {s \in proc[h].chosen : \A r \in completed : r.scenario # s}
    OBVIOUS
  <1> HIDE DEF todo, pc
  <1>5. /\ proc'[h].pc = pc /\ proc'[h].code = code.content
        /\ proc'[h].stamp = ProgressStamp(h) /\ proc'[h].results = completed
        /\ proc'[h].todo = todo /\ proc'[h].chosen = proc[h].chosen
    BY <1>1 DEF Types, ProcsOK, Processes
  <1>6. \A r \in completed : r.code = code.content /\ r.scenario \in proc[h].chosen
    BY <1>2, ResumedResults
  <1>7. proc[h].chosen = {r.scenario : r \in completed} \cup todo
    BY <1>4, <1>6
  <1>8. /\ ProgressStamp(h).chosen = proc[h].chosen
        /\ ~ ProgressStamp(h).label.dirty =>
               code.content = ProgressStamp(h).label.commit
    BY DEF ProgressStamp, Label
  <1>9. completed # {} => stamp = ProgressStamp(h)
    BY <1>2, ResumedResults
  <1> QED BY <1>1, <1>3, <1>5, <1>6, <1>7, <1>8, <1>9 DEF RunOK, Ran, Opened

(* A step of the file's own statements, with the process as it was but for its
   place: it finds the file gone where it expects it gone. *)
LEMMA MovesRun ==
    ASSUME Types, ResultsOK, NEW h \in Harnesses,
           Unlink(h) \/ WriteStamp(h) \/ UnlinkSpent(h) \/ (Report(h) /\ ~ Exits(h))
           \/ PurgeReadings(h) \/ PurgeRows(h) \/ PurgeTracking(h)
    PROVE  RunOK(h)'
  <1> PICK pc : Goto(h, pc) /\ pc \notin {"off", "investigate", "clear", "append", "unlink"}
    BY DEF Unlink, WriteStamp, UnlinkSpent, Report, PurgeReadings, PurgeRows, PurgeTracking
  <1>1. proc[h] \in Processes /\ RunOK(h)
    BY DEF Types, ProcsOK, ResultsOK
  <1>2. /\ proc'[h].pc = pc /\ proc'[h].chosen = proc[h].chosen
        /\ proc'[h].results = proc[h].results /\ proc'[h].todo = proc[h].todo
        /\ proc'[h].code = proc[h].code /\ proc'[h].stamp = proc[h].stamp
    BY DEF Goto, Types, ProcsOK, Processes
  <1>3. Ran(h)' = Ran(h)
    BY <1>2 DEF Ran
  <1>4. CASE Unlink(h)
    <2>1. At(h, "unlink") /\ pc = "stamp" /\ lines' = None
      BY <1>4, <1>1, <1>2 DEF Unlink, Goto, Types, ProcsOK, Processes
    <2> QED BY <1>1, <1>2, <1>3, <2>1 DEF RunOK, Opened, At
  <1>5. CASE WriteStamp(h)
    <2>1. At(h, "stamp") /\ pc = "next" /\ stamp' = proc[h].stamp
      BY <1>5, <1>1, <1>2 DEF WriteStamp, Goto, Types, ProcsOK, Processes
    <2> QED BY <1>1, <1>2, <1>3, <2>1 DEF RunOK, Opened, At
  <1>6. CASE UnlinkSpent(h)
    <2>1. At(h, "spent") /\ pc = "unstamp" /\ lines' = None
      BY <1>6, <1>1, <1>2 DEF UnlinkSpent, Goto, Types, ProcsOK, Processes
    <2> QED BY <1>1, <1>2, <1>3, <2>1 DEF RunOK, Opened, At
  <1>7. CASE Report(h) /\ ~ Exits(h)
    <2>1. At(h, "next") /\ pc = "spent" /\ UNCHANGED stamp
      BY <1>7, <1>1, <1>2 DEF Report, Goto, Types, ProcsOK, Processes, files
    <2> QED BY <1>1, <1>2, <1>3, <2>1 DEF RunOK, Opened, At
  <1>8. CASE PurgeReadings(h) \/ PurgeRows(h) \/ PurgeTracking(h)
    <2>1. pc \in {"rows", "tracking", "progress"}
      BY <1>8, <1>1, <1>2
         DEF PurgeReadings, PurgeRows, PurgeTracking, Goto, Types, ProcsOK, Processes
    <2> QED BY <1>2, <2>1 DEF RunOK, Opened
  <1> QED BY <1>4, <1>5, <1>6, <1>7, <1>8

(* The steps of a scenario keep the account: what is left to run, what is in
   hand, and what has a result. *)
LEMMA ScenarioRuns ==
    ASSUME Types, ResultsOK, NEW h \in Harnesses,
           Apply(h) \/ ApplyFails(h) \/ Investigate(h) \/ Clear(h) \/ AppendProgress(h)
    PROVE  RunOK(h)'
  <1>0. /\ proc \in [Harnesses -> Processes] /\ proc[h] \in Processes /\ RunOK(h)
        /\ ProcessOK(proc[h])
    BY DEF Types, ProcsOK, ResultsOK
  <1>1. UNCHANGED stamp
    BY DEF Apply, ApplyFails, Investigate, Clear, AppendProgress, files
  <1>2. CASE Apply(h)
    <2>1. /\ proc[h].pc = "next" /\ proc'[h].pc = "investigate"
          /\ proc'[h].chosen = proc[h].chosen /\ proc'[h].results = proc[h].results
          /\ proc'[h].todo = proc[h].todo /\ proc'[h].code = proc[h].code
          /\ proc'[h].stamp = proc[h].stamp
      BY <1>0, <1>2 DEF Apply, Processes, At
    <2> QED BY <1>0, <1>1, <2>1 DEF RunOK, Opened, Ran
  <1>3. CASE ApplyFails(h) \/ Investigate(h)
    <2>1. /\ proc[h].pc \in {"next", "investigate"} /\ proc'[h].pc \in {"append", "clear"}
          /\ proc'[h].chosen = proc[h].chosen /\ proc'[h].results = proc[h].results
          /\ proc'[h].todo = Left(h) /\ proc'[h].code = proc[h].code
          /\ proc'[h].stamp = proc[h].stamp /\ proc'[h].result = Result(h, Scenario(h))
          /\ proc[h].todo # {}
      <3>1. CASE ApplyFails(h)
        BY <1>0, <3>1 DEF ApplyFails, Processes, At
      <3>2. CASE Investigate(h)
        BY <1>0, <3>2 DEF Investigate, Processes, ProcessOK, At
      <3> QED BY <1>3, <3>1, <3>2
    <2>2. proc'[h].result.scenario = Scenario(h) /\ proc'[h].result.code = proc[h].code
      BY <2>1 DEF Result
    <2>3. proc[h].todo = Left(h) \cup {Scenario(h)}
      BY <2>1, CurrentScenario DEF Left
    <2> QED BY <1>0, <1>1, <2>1, <2>2, <2>3 DEF RunOK, Opened, Ran
  <1>4. CASE Clear(h)
    <2>1. /\ proc[h].pc = "clear" /\ proc'[h].pc = "append"
          /\ proc'[h].chosen = proc[h].chosen /\ proc'[h].results = proc[h].results
          /\ proc'[h].todo = proc[h].todo /\ proc'[h].code = proc[h].code
          /\ proc'[h].stamp = proc[h].stamp /\ proc'[h].result = proc[h].result
      BY <1>0, <1>4 DEF Clear, Processes, At
    <2> QED BY <1>0, <1>1, <2>1 DEF RunOK, Opened, Ran
  <1>5. CASE AppendProgress(h)
    <2>1. /\ proc[h].pc = "append" /\ proc'[h].pc = "next"
          /\ proc'[h].chosen = proc[h].chosen
          /\ proc'[h].results = proc[h].results \cup {proc[h].result}
          /\ proc'[h].todo = proc[h].todo /\ proc'[h].code = proc[h].code
          /\ proc'[h].stamp = proc[h].stamp
      BY <1>0, <1>5 DEF AppendProgress, Processes, At
    <2>2. Ran(h)' = Ran(h) \cup {proc[h].result.scenario}
      BY <2>1 DEF Ran
    <2> QED BY <1>0, <1>1, <2>1, <2>2 DEF RunOK, Opened
  <1> QED BY <1>2, <1>3, <1>4, <1>5

(* The file, as appends and their interruptions leave it. *)
LEMMA FileStep ==
    ASSUME Types, ResultsOK, [Next]_vars
    PROVE  FileOK'
  <1>0. FileOK
    BY DEF ResultsOK
  <1>1. CASE UNCHANGED files
    BY <1>0, <1>1 DEF FileOK, files
  <1>2. CASE lines' = None
    BY <1>2 DEF FileOK
  <1>3. ASSUME NEW h \in Harnesses, WriteStamp(h)
        PROVE  FileOK'
    <2>1. lines = None /\ UNCHANGED lines
      BY <1>3 DEF WriteStamp, At, ResultsOK, RunOK
    <2> QED BY <2>1 DEF FileOK
  <1>4. ASSUME NEW h \in Harnesses, UnlinkStamp(h)
        PROVE  FileOK'
    BY <1>4 DEF UnlinkStamp, FileOK
  <1>5. ASSUME NEW h \in Harnesses, AppendProgress(h) \/ KillInAppend(h)
        PROVE  FileOK'
    <2>1. /\ UNCHANGED stamp /\ proc[h].pc = "append"
          /\ \E line \in {Torn, proc[h].result} : lines' = Appended(line)
      BY <1>5 DEF AppendProgress, KillInAppend, At
    <2>2. /\ stamp = proc[h].stamp /\ proc[h].result \in Results
          /\ ~ stamp.label.dirty => proc[h].result.code = stamp.label.commit
          /\ proc[h].result.scenario \in stamp.chosen
      BY <2>1 DEF ResultsOK, RunOK, Opened, Types, ProcsOK, ProcessOK
    <2> PICK line \in {Torn, proc[h].result} : lines' = Appended(line)
      BY <2>1
    <2>3. line \in Lines
      BY <2>2 DEF Lines
    <2>4. lines' = Append(Ended, IF cut THEN Torn ELSE line) /\ Ended \in Seq(Lines)
      BY <2>3, AppendedFile, EndedLines DEF Types
    <2>5. ASSUME NEW i \in DOMAIN lines', lines'[i] # Torn
          PROVE  \/ lines'[i] = proc[h].result
                 \/ lines # None /\ i \in DOMAIN lines /\ lines'[i] = lines[i]
      <3>1. CASE i \in DOMAIN Ended
        <4>1. lines'[i] = Ended[i]
          BY <2>4, <3>1
        <4> QED BY <3>1, <4>1, EndedIsWhatIsThere DEF Types
      <3>2. CASE i \notin DOMAIN Ended
        <4>1. lines'[i] = IF cut THEN Torn ELSE line
          BY <2>4, <2>5, <3>2
        <4> QED BY <2>5, <4>1
      <3> QED BY <3>1, <3>2
    <2> QED BY <1>0, <2>1, <2>2, <2>5 DEF FileOK
  <1>6. \/ UNCHANGED files \/ lines' = None
        \/ \E h \in Harnesses : \/ WriteStamp(h) \/ UnlinkStamp(h)
                                \/ AppendProgress(h) \/ KillInAppend(h)
    BY DEF Next, Runs, Start, PurgeReadings, PurgeRows, PurgeTracking, Open, Unlink,
           Apply, Investigate, Clear, Report, UnlinkSpent, ApplyFails, ClearFails, Kill,
           Edit, Commit, DeleteProgress, vars, files
  <1> QED BY <1>1, <1>2, <1>3, <1>4, <1>5, <1>6

(* Results of one code are as many as their scenarios. *)
LEMMA ReportStep ==
    ASSUME Types, ResultsOK, [Next]_vars
    PROVE  ReportIsWhole'
  <1>1. CASE UNCHANGED report
    BY <1>1 DEF ResultsOK, ReportIsWhole
  <1>2. ASSUME NEW h \in Harnesses, Report(h)
        PROVE  ReportIsWhole'
    <2> DEFINE R == proc[h].results
               C == proc[h].chosen
               c == proc[h].code
    <2>1. report' = [chosen |-> C, results |-> R] /\ proc[h].pc = "next" /\ proc[h].todo = {}
      BY <1>2 DEF Report, At
    <2>2. /\ {r.scenario : r \in R} = C /\ \A r \in R : r.code = c
          /\ R \subseteq Results /\ C \in Selections
      BY <2>1 DEF ResultsOK, RunOK, Ran, Opened, Types, ProcsOK, ProcessOK, Processes
    <2>3. C # {} /\ C \subseteq Scenarios
      <3>1. Selections \subseteq (SUBSET Scenarios) \ {{}}
        BY HarnessAssumption
      <3> QED BY <2>2, <3>1
    <2> HIDE DEF R, C, c
    <2>4. IsFiniteSet(C)
      <3>1. IsFiniteSet(Scenarios)
        BY HarnessAssumption, FS_Interval DEF Scenarios
      <3> QED BY <2>3, <3>1, FS_Subset
    <2> DEFINE f == [s \in C |-> [scenario |-> s, code |-> c]]
    <2>5. \A r \in R : r = [scenario |-> r.scenario, code |-> c]
      BY <2>2 DEF Results
    <2>6. f \in [C -> R]
      <3>1. ASSUME NEW s \in C PROVE [scenario |-> s, code |-> c] \in R
        BY <2>2, <2>5
      <3> QED BY <3>1
    <2>7. f \in Bijection(C, R)
      <3>1. \A s, t \in C : f[s] = f[t] => s = t
        <4>1. \A s \in C : f[s].scenario = s
          OBVIOUS
        <4> QED BY <4>1
      <3>2. \A r \in R : \E s \in C : f[s] = r
        BY <2>2, <2>5
      <3> HIDE DEF f
      <3> QED BY <2>6, <3>1, <3>2 DEF Bijection, Injection, Surjection, IsInjective
    <2>8. Cardinality(R) = Cardinality(C)
      <3> HIDE DEF f
      <3> QED BY <2>4, <2>7, FS_Bijection DEF ExistsBijection
    <2>9. {r.code : r \in R} = {c}
      BY <2>2, <2>3
    <2>10. Cardinality({r.code : r \in R}) = 1
      BY <2>9, FS_Singleton
    <2>11. report'.results = R /\ report'.chosen = C
      BY <2>1
    <2> QED BY <2>2, <2>8, <2>10, <2>11 DEF ReportIsWhole
  <1>3. UNCHANGED report \/ \E h \in Harnesses : Report(h)
    BY DEF Next, Runs, Start, PurgeReadings, PurgeRows, PurgeTracking, Open, Unlink,
           WriteStamp, AppendProgress, Apply, Investigate, Clear, UnlinkSpent, UnlinkStamp,
           ApplyFails, ClearFails, Kill, KillInAppend, Edit, Commit, DeleteProgress, vars,
           history
  <1> QED BY <1>1, <1>2, <1>3

(* Every step keeps the results to what the progress file has of them. *)
LEMMA ResultsStep ==
    ASSUME Types, Types', ResultsOK, [Next]_vars
    PROVE  ResultsOK'
  <1>0. FileOK' /\ ReportIsWhole'
    BY FileStep, ReportStep
  <1>1. ASSUME NEW h \in Harnesses, holder' = h, RunOK(h)'
        PROVE  ResultsOK'
    <2>1. \A g \in Harnesses \ {h} : proc'[g] = Off
      BY <1>1 DEF Types, LockOK
    <2>2. \A g \in Harnesses : RunOK(g)'
      BY <1>1, <2>1 DEF RunOK, Off, Opened
    <2> QED BY <1>0, <2>2 DEF ResultsOK
  <1>2. ASSUME \A g \in Harnesses : proc'[g] = Off
        PROVE  ResultsOK'
    <2>1. \A g \in Harnesses : RunOK(g)'
      BY <1>2 DEF RunOK, Off, Opened
    <2> QED BY <1>0, <2>1 DEF ResultsOK
  <1>3. ASSUME NEW h \in Harnesses, NEW resume \in BOOLEAN, NEW chosen \in Selections,
               Start(h, resume, chosen)
        PROVE  ResultsOK'
    <2>1. holder' = h /\ proc'[h].pc = "restore"
      BY <1>3 DEF Start, Types, ProcsOK, Off
    <2>2. RunOK(h)'
      BY <2>1 DEF RunOK, Opened
    <2> QED BY <1>1, <2>1, <2>2
  <1>4. ASSUME NEW h \in Harnesses,
               Runs(h) \/ ApplyFails(h) \/ ClearFails(h) \/ Kill(h) \/ KillInAppend(h)
        PROVE  ResultsOK'
    <2>1. holder = h
      BY <1>4, OnlyTheHolderActs
    <2>2. CASE Exits(h)
      BY <1>2, <2>1, <2>2, OneExits
    <2>3. CASE ~ Exits(h)
      <3>1. UNCHANGED holder
        BY <1>4, <2>3 DEF Runs, PurgeReadings, PurgeRows, PurgeTracking, Open, Unlink,
                  WriteStamp, AppendProgress, Apply, Investigate, Clear, Report, UnlinkSpent,
                  UnlinkStamp, ApplyFails, ClearFails, Kill, KillInAppend
      <3>2. RunOK(h)'
        BY <1>4, <2>3, OpenRuns, MovesRun, ScenarioRuns
           DEF Runs, UnlinkStamp, ClearFails, Kill, KillInAppend
      <3> QED BY <1>1, <2>1, <3>1, <3>2
    <2> QED BY <2>2, <2>3
  <1>5. CASE UNCHANGED <<proc, stamp>> /\ (UNCHANGED lines \/ lines' = None)
    <2>1. \A g \in Harnesses : RunOK(g)'
      BY <1>5 DEF ResultsOK, RunOK, Ran
    <2> QED BY <1>0, <2>1 DEF ResultsOK
  <1>6. Edit \/ Commit \/ DeleteProgress \/ UNCHANGED vars =>
            UNCHANGED <<proc, stamp>> /\ (UNCHANGED lines \/ lines' = None)
    BY DEF Edit, Commit, DeleteProgress, vars, files
  <1> QED BY <1>3, <1>4, <1>5, <1>6 DEF Next

------------------------------------------------------------------------------
(* What an interruption loses.  A finished result is lost only with the line it
   continues, and every such line was cut short by a kill of its own. *)
KeptEnded == {Ended[i].scenario : i \in {j \in DOMAIN Ended : Ended[j] # Torn}}
LossOK ==
    /\ saved \subseteq Scenarios /\ tears \in Nat
    /\ Cardinality(saved \ KeptEnded) + (IF cut THEN 1 ELSE 0) <= tears

(* A set of scenarios has a size. *)
LEMMA SavedIsFinite ==
    ASSUME NEW S, S \subseteq Scenarios
    PROVE  IsFiniteSet(S) /\ Cardinality(S) \in Nat
  <1>1. IsFiniteSet(Scenarios)
    BY HarnessAssumption, FS_Interval DEF Scenarios
  <1> QED BY <1>1, FS_Subset, FS_CardinalityType

(* The last line of a scenario, or a later one of it, is the one that counts; so
   a scenario that has a whole line is kept. *)
LEMMA WholeLineIsKept ==
    ASSUME FilesOK, lines # None, NEW i \in DOMAIN lines, lines[i] # Torn
    PROVE  lines[i].scenario \in Kept
  <1>1. lines \in Seq(Lines) /\ Len(lines) \in Nat /\ DOMAIN lines = 1..Len(lines)
    BY DEF FilesOK
  <1> DEFINE s == lines[i].scenario
             J == {j \in DOMAIN lines : lines[j].scenario = s}
             D == {Len(lines) - j : j \in J}
  <1>2. s \in Scenarios /\ s # Torn.scenario
    <2>1. lines[i] \in Results
      BY <1>1 DEF Lines
    <2> QED BY <2>1, HarnessAssumption DEF Results, Scenarios, Torn
  <1>3. D \subseteq Nat /\ D # {}
    BY <1>1
  <1> HIDE DEF D
  <1>4. PICK d \in D : \A e \in D : d <= e
    BY <1>3, HasLeast
  <1> USE DEF D
  <1>5. PICK j \in J : d = Len(lines) - j
    BY <1>4
  <1>6. \A k \in j + 1..Len(lines) : lines[k].scenario # s
    <2> SUFFICES ASSUME NEW k \in j + 1..Len(lines), lines[k].scenario = s PROVE FALSE
      OBVIOUS
    <2>1. k \in J
      BY <1>1, <1>5
    <2>2. Len(lines) - j <= Len(lines) - k
      BY <1>4, <1>5, <2>1
    <2> QED BY <1>1, <1>5, <2>2
  <1>7. lines[j] # Torn
    BY <1>2, <1>5
  <1>8. lines[j] \in LoadProgress
    BY <1>5, <1>6, <1>7 DEF LoadProgress
  <1> QED BY <1>5, <1>8 DEF Kept

(* The loss invariant gives the bound. *)
LEMMA LossIsWithinBounds == Types /\ LossOK => LossIsBounded
  <1> SUFFICES ASSUME Types, LossOK PROVE LossIsBounded
    OBVIOUS
  <1>1. KeptEnded \subseteq Kept
    <2> SUFFICES ASSUME NEW i \in DOMAIN Ended, Ended[i] # Torn PROVE Ended[i].scenario \in Kept
      BY DEF KeptEnded
    <2>1. lines # None /\ i \in DOMAIN lines /\ Ended[i] = lines[i]
      BY EndedIsWhatIsThere DEF Types
    <2> QED BY <2>1, WholeLineIsKept DEF Types
  <1>2. saved \ Kept \subseteq saved \ KeptEnded /\ saved \ KeptEnded \subseteq Scenarios
    BY <1>1 DEF LossOK
  <1>3. Cardinality(saved \ Kept) <= Cardinality(saved \ KeptEnded)
    BY <1>2, SavedIsFinite, FS_Subset
  <1>4. Cardinality(saved \ Kept) \in Nat /\ Cardinality(saved \ KeptEnded) \in Nat
    BY <1>2, SavedIsFinite
  <1> QED BY <1>3, <1>4 DEF LossOK, LossIsBounded

(* Nothing is lost at the start. *)
LEMMA InitLoss == Init => LossOK
  <1> SUFFICES ASSUME Init PROVE LossOK
    OBVIOUS
  <1>1. saved \ KeptEnded = {}
    BY DEF Init
  <1> QED BY <1>1, FS_EmptySet DEF Init, LossOK

(* A file that is begun anew has lost nothing. *)
LEMMA NothingToLose == saved' = {} /\ tears' = 0 /\ cut' = FALSE => LossOK'
  <1> SUFFICES ASSUME saved' = {}, tears' = 0, cut' = FALSE PROVE LossOK'
    OBVIOUS
  <1>1. (saved \ KeptEnded)' = {}
    OBVIOUS
  <1> QED BY <1>1, FS_EmptySet DEF LossOK

(* A line that is appended loses no more than the torn one before it. *)
LEMMA AppendLoses ==
    ASSUME Types, LossOK, NEW h \in Harnesses, AppendProgress(h)
    PROVE  LossOK'
  <1> DEFINE line == proc[h].result
             s == line.scenario
  <1>1. /\ line \in Results /\ line \in Lines /\ s \in Scenarios /\ line # Torn
    BY HarnessAssumption
       DEF AppendProgress, Types, ProcsOK, ProcessOK, At, Lines, Results, Scenarios, Torn
  <1>2. lines' = Appended(line) /\ cut' = FALSE /\ saved' = saved \cup {s} /\ tears' = tears
    BY DEF AppendProgress
  <1> HIDE DEF line, s
  <1>3. lines' = Append(Ended, IF cut THEN Torn ELSE line) /\ lines' # None
    BY <1>1, <1>2, AppendedFile DEF Types
  <1>4. Ended' = lines'
    BY <1>2, <1>3 DEF Ended
  <1>5. Ended \in Seq(Lines)
    BY EndedLines DEF Types
  <1>6. saved \subseteq Scenarios /\ tears \in Nat
    BY DEF LossOK
  <1>7. Cardinality(saved \ KeptEnded) \in Nat /\ IsFiniteSet(saved \ KeptEnded)
    BY <1>6, SavedIsFinite
  <1>8. CASE cut
    <2>1. KeptEnded \subseteq KeptEnded'
      <3> SUFFICES ASSUME NEW i \in DOMAIN Ended, Ended[i] # Torn
                   PROVE  i \in DOMAIN Ended' /\ Ended'[i] = Ended[i]
        BY DEF KeptEnded
      <3> QED BY <1>3, <1>4, <1>5
    <2>2. (saved \ KeptEnded)' \subseteq (saved \ KeptEnded) \cup {s}
      BY <1>2, <2>1
    <2>3. /\ IsFiniteSet((saved \ KeptEnded) \cup {s})
          /\ Cardinality((saved \ KeptEnded) \cup {s}) <= Cardinality(saved \ KeptEnded) + 1
      BY <1>7, FS_AddElement
    <2>4. Cardinality((saved \ KeptEnded)') <= Cardinality((saved \ KeptEnded) \cup {s})
      BY <2>2, <2>3, FS_Subset
    <2>5. (saved \ KeptEnded)' \subseteq Scenarios
      BY <1>1, <1>2, <1>6
    <2>6. /\ Cardinality((saved \ KeptEnded)') \in Nat
          /\ Cardinality((saved \ KeptEnded) \cup {s}) \in Nat
      BY <2>3, <2>5, SavedIsFinite, FS_CardinalityType
    <2> QED BY <1>1, <1>2, <1>6, <1>7, <1>8, <2>3, <2>4, <2>6 DEF LossOK
  <1>9. CASE ~ cut
    <2>1. Ended' = Append(Ended, line)
      BY <1>3, <1>4, <1>9
    <2>2. KeptEnded \subseteq KeptEnded'
      <3> SUFFICES ASSUME NEW i \in DOMAIN Ended, Ended[i] # Torn
                   PROVE  i \in DOMAIN Ended' /\ Ended'[i] = Ended[i]
        BY DEF KeptEnded
      <3> QED BY <2>1, <1>5
    <2>3. s \in KeptEnded'
      <3>1. Len(Ended) + 1 \in DOMAIN Ended' /\ Ended'[Len(Ended) + 1] = line
        BY <2>1, <1>5
      <3> QED BY <1>1, <3>1 DEF KeptEnded, s
    <2>4. (saved \ KeptEnded)' \subseteq saved \ KeptEnded
      BY <1>2, <2>2, <2>3
    <2>5. Cardinality((saved \ KeptEnded)') <= Cardinality(saved \ KeptEnded)
      BY <1>7, <2>4, FS_Subset
    <2>6. Cardinality((saved \ KeptEnded)') \in Nat
      BY <1>6, <2>4, SavedIsFinite
    <2> QED BY <1>1, <1>2, <1>6, <1>7, <1>9, <2>5, <2>6 DEF LossOK
  <1> QED BY <1>8, <1>9 DEF Types, FilesOK

(* A line cut short adds nothing that ends, and takes nothing away that did. *)
LEMMA TornAppendLoses ==
    ASSUME Types, LossOK, NEW h \in Harnesses, KillInAppend(h)
    PROVE  LossOK'
  <1>1. proc[h].result \in Lines /\ Torn \in Lines
    BY DEF KillInAppend, Types, ProcsOK, ProcessOK, At, Lines
  <1>2. PICK line \in Lines : lines' = Appended(line)
    BY <1>1 DEF KillInAppend
  <1>3. cut' = TRUE /\ tears' = tears + 1 /\ saved' = saved
    BY DEF KillInAppend
  <1>4. /\ lines' = Append(Ended, IF cut THEN Torn ELSE line) /\ lines' # None
        /\ Ended \in Seq(Lines)
    BY <1>2, AppendedFile, EndedLines DEF Types
  <1>5. Ended' = SubSeq(lines', 1, Len(lines') - 1)
    BY <1>3, <1>4 DEF Ended, Front
  <1>6. Ended' = Ended
    <2> DEFINE last == IF cut THEN Torn ELSE line
    <2>1. last \in Lines
      BY <1>1
    <2> HIDE DEF last
    <2>2. SubSeq(Append(Ended, last), 1, Len(Append(Ended, last)) - 1) = Ended
      BY <1>4, <2>1
    <2> QED BY <1>4, <1>5, <2>2 DEF last
  <1>7. (saved \ KeptEnded)' = saved \ KeptEnded
    BY <1>3, <1>6 DEF KeptEnded
  <1>8. Cardinality(saved \ KeptEnded) \in Nat
    BY SavedIsFinite DEF LossOK
  <1> QED BY <1>3, <1>7, <1>8 DEF LossOK

(* Every step keeps the loss within its account. *)
LEMMA LossStep ==
    ASSUME Types, LossOK, [Next]_vars
    PROVE  LossOK'
  <1>1. CASE UNCHANGED <<lines, cut, saved, tears>>
    BY <1>1 DEF LossOK, KeptEnded, Ended
  <1>2. CASE saved' = {} /\ tears' = 0 /\ cut' = FALSE
    BY <1>2, NothingToLose
  <1>3. CASE Edit \/ Commit \/ DeleteProgress \/ UNCHANGED vars
    BY <1>1, <1>2, <1>3 DEF Edit, Commit, DeleteProgress, vars, files, history
  <1>4. ASSUME NEW h \in Harnesses, NEW resume, NEW chosen, Start(h, resume, chosen)
        PROVE  LossOK'
    BY <1>1, <1>4 DEF Start, files, history
  <1>5. ASSUME NEW h \in Harnesses, Unlink(h) \/ UnlinkSpent(h)
        PROVE  LossOK'
    BY <1>2, <1>5 DEF Unlink, UnlinkSpent
  <1>6. ASSUME NEW h \in Harnesses,
               \/ PurgeReadings(h) \/ PurgeRows(h) \/ PurgeTracking(h) \/ Open(h) \/ WriteStamp(h)
               \/ Apply(h) \/ Investigate(h) \/ Clear(h) \/ Report(h) \/ UnlinkStamp(h)
               \/ ApplyFails(h) \/ ClearFails(h) \/ Kill(h)
        PROVE  LossOK'
    BY <1>1, <1>6
       DEF PurgeReadings, PurgeRows, PurgeTracking, Open, WriteStamp, Apply, Investigate,
           Clear, Report, UnlinkStamp, ApplyFails, ClearFails, Kill, files, history
  <1> QED BY <1>3, <1>4, <1>5, <1>6, AppendLoses, TornAppendLoses DEF Next, Runs

------------------------------------------------------------------------------
(* The theorems. *)

(* The lock is held by the one process there is, and everything keeps its type. *)
THEOREM TypesInvariance == Spec => []Types
  BY InitTypes, TypesStep, PTL DEF Spec

(* The types of the harness's state (evals/run.py). *)
THEOREM TypeCorrect == Spec => []TypeOK
  <1>1. Types => TypeOK
    <2> SUFFICES ASSUME Types PROVE TypeOK
      OBVIOUS
    <2> QED BY DEF Types, ProcsOK, LockOK, FilesOK, CorpusTyped, Processes, Lines, TypeOK
  <1> QED BY <1>1, TypesInvariance, PTL

(* fixtures.exclusive, purge_orphans, apply and clear; run.py main: with the commits
   of an apply answered, a scenario is investigated over its own evidence alone,
   wherever earlier processes were killed and whoever else tried to start. *)
THEOREM OwnEvidenceAlone ==
    ASSUME NoDoubt
    PROVE  Spec => []OwnEvidenceOnly
  <1>1. Types /\ CorpusOK /\ [Next]_vars => CorpusOK'
    BY TypesStep, CorpusStep, NoDoubt
  <1>2. CorpusOK => OwnEvidenceOnly
    BY DEF CorpusOK, Stands, Evidence, Untouched, OwnEvidenceOnly, OwnEvidence, At
  <1> QED BY InitCorpus, <1>1, <1>2, TypesInvariance, PTL DEF Spec

(* And the corpus can be restored from the database alone in every state. *)
THEOREM AlwaysRestorable ==
    ASSUME NoDoubt
    PROVE  Spec => []Restorable
  <1>1. Types /\ CorpusOK /\ [Next]_vars => CorpusOK'
    BY TypesStep, CorpusStep, NoDoubt
  <1>2. CorpusOK => Restorable
    BY DEF CorpusOK
  <1> QED BY InitCorpus, <1>1, <1>2, TypesInvariance, PTL DEF Spec

(* run.py resumable, load_progress: a report has each scenario exactly once and
   only results of one code, however it was put together. *)
THEOREM WholeReports == Spec => []ReportIsWhole
  <1>1. Types /\ ResultsOK /\ [Next]_vars => ResultsOK'
    BY TypesStep, ResultsStep
  <1>2. ResultsOK => ReportIsWhole
    BY DEF ResultsOK
  <1> QED BY InitResults, <1>1, <1>2, TypesInvariance, PTL DEF Spec

(* run.py append_progress, load_progress: at most one finished result is lost for
   each line cut short. *)
THEOREM BoundedLoss == Spec => []LossIsBounded
  <1>1. Types /\ LossOK /\ [Next]_vars => LossOK'
    BY LossStep
  <1> QED BY InitLoss, <1>1, LossIsWithinBounds, TypesInvariance, PTL DEF Spec
==============================================================================
