--------------------------- MODULE MigrationsProofs ---------------------------
(***************************************************************************)
(* Proofs about Migrations for every set of migration files, whatever they *)
(* need of each other, and any number of processes, releases, resets and   *)
(* kills.                                                                  *)
(*                                                                         *)
(* The argument: the tables and the ledger's rows change together or not   *)
(* at all, and a process that has run a file records the content it ran,   *)
(* since the checkout does not change under a process (RanOK).             *)
(***************************************************************************)
EXTENDS Migrations, WellFoundedInduction, TLAPS

Steps == {"off", "reset", "ledger", "read", "files", "record"}
Processes == [pc : Steps, todo : SUBSET Files, ran : 0..MaxReleases + 1]

MigratorsOK == migrator \in [Migrators -> Processes]

(* The checkout has a version of a file for each release that touched it. *)
ContentOK ==
    /\ releases \in 0..MaxReleases
    /\ content \in [Files -> Nat]
    /\ \A f \in Files : content[f] <= releases + 1

(* What is left to do is in the checkout, and what was run is what it holds. *)
TodoOK == \A m \in Migrators : \A f \in migrator[m].todo : content[f] # 0
RanOK == \A m \in Migrators : At(m, "record") =>
    /\ migrator[m].todo # {}
    /\ migrator[m].ran = content[Min(migrator[m].todo)]

(* The tables there are were made by versions of the checkout's files. *)
SchemaOK == \E S \in SUBSET Files : schema \in [S -> Versions]

Inv == MigratorsOK /\ ContentOK /\ TodoOK /\ RanOK /\ SchemaOK /\ LedgerMatchesSchema

------------------------------------------------------------------------------
(* A set of numbers that is not empty has a smallest: the file a process is at
   is one it has left to do. *)
LEMMA MinIsAMember ==
    ASSUME NEW S, S \subseteq Nat, S # {}
    PROVE  Min(S) \in S
  <1>1. IsWellFoundedOn(OpToRel(<, Nat), Nat)
    BY NatLessThanWellFounded, Zenon
  <1>2. \E x \in S : \A y \in S : ~ (<<y, x>> \in OpToRel(<, Nat))
    BY <1>1, WFMin, Zenon
  <1>3. \E x \in S : \A y \in S : ~ (y < x)
    BY <1>2 DEF OpToRel
  <1>4. \E x \in S : \A y \in S : x <= y
    BY <1>3
  <1> QED BY <1>4 DEF Min

(* The file a migrator is at is the least of those it has to do. *)
LEMMA CurrentFile ==
    ASSUME Inv, NEW m \in Migrators, migrator[m].todo # {}
    PROVE  Min(migrator[m].todo) \in migrator[m].todo /\ Min(migrator[m].todo) \in Files
  <1>1. migrator[m].todo \subseteq Files
    BY DEF Inv, MigratorsOK, Processes
  <1>2. Files \subseteq Nat
    BY MigrationsAssumption DEF Files
  <1>3. Min(migrator[m].todo) \in migrator[m].todo
    BY <1>1, <1>2, MinIsAMember
  <1> QED BY <1>1, <1>3

(* The version a process may run is one of the bounded ones. *)
LEMMA ContentVersion ==
    ASSUME Inv, NEW f \in Files, content[f] # 0
    PROVE  content[f] \in Versions
  BY MigrationsAssumption DEF Inv, ContentOK, Versions

(* The initial states satisfy the invariant. *)
LEMMA InitInv == Init => Inv
  <1> SUFFICES ASSUME Init PROVE Inv
    OBVIOUS
  <1>1. MigratorsOK /\ TodoOK /\ RanOK
    BY MigrationsAssumption
       DEF Init, Off, MigratorsOK, Processes, Steps, TodoOK, RanOK, At
  <1>2. ContentOK
    BY MigrationsAssumption DEF Init, ContentOK
  <1>3. SchemaOK /\ LedgerMatchesSchema
    <2>1. Nothing \in [{} -> Versions]
      BY DEF Nothing
    <2> QED BY <2>1 DEF Init, SchemaOK, LedgerMatchesSchema
  <1> QED BY <1>1, <1>2, <1>3 DEF Inv

------------------------------------------------------------------------------
(* What a step does to the processes: each stays as it is, ends, goes to a step
   in which it has run nothing, or runs the file it is at. *)
Passive == Steps \ {"record"}
Reached(m) ==
    \/ migrator'[m] = migrator[m]
    \/ /\ migrator'[m].pc \in Passive
       /\ migrator'[m].todo \subseteq migrator[m].todo \/ migrator'[m].todo = Pending
       /\ migrator'[m].ran \in {0, migrator[m].ran}
    \/ /\ migrator'[m].pc = "record" /\ migrator[m].todo # {}
       /\ migrator'[m].todo = migrator[m].todo
       /\ migrator'[m].ran = content[Min(migrator[m].todo)]

(* A migrator that goes on alone keeps the types and reaches what it reads. *)
LEMMA OnePasses ==
    ASSUME Inv, NEW m \in Migrators, NEW next, migrator' = [migrator EXCEPT ![m] = next],
           \/ /\ next.pc \in Passive
              /\ next.todo \subseteq migrator[m].todo \/ next.todo = Pending
              /\ next.ran \in {0, migrator[m].ran}
           \/ /\ next.pc = "record" /\ migrator[m].todo # {}
              /\ next.todo = migrator[m].todo
              /\ next.ran = content[Min(migrator[m].todo)],
           \E pc, todo, ran : next = [pc |-> pc, todo |-> todo, ran |-> ran]
    PROVE  MigratorsOK' /\ \A n \in Migrators : Reached(n)
  <1>1. migrator \in [Migrators -> Processes] /\ migrator[m] \in Processes
    BY DEF Inv, MigratorsOK
  <1>2. next \in Processes
    <2>1. Pending \subseteq Files
      BY DEF Pending
    <2>2. next.todo \subseteq Files /\ next.pc \in Steps
      BY <1>1, <2>1 DEF Processes, Passive, Steps
    <2>3. migrator[m].todo # {} => content[Min(migrator[m].todo)] \in Versions
      <3>1. SUFFICES ASSUME migrator[m].todo # {}
                     PROVE  content[Min(migrator[m].todo)] \in Versions
        OBVIOUS
      <3>2. Min(migrator[m].todo) \in Files /\ content[Min(migrator[m].todo)] # 0
        BY <3>1, CurrentFile DEF Inv, TodoOK
      <3> QED BY <3>2, ContentVersion
    <2>4. Versions \subseteq 0..MaxReleases + 1 /\ 0 \in 0..MaxReleases + 1
      BY MigrationsAssumption DEF Versions
    <2>5. next.ran \in 0..MaxReleases + 1
      BY <1>1, <2>3, <2>4 DEF Processes
    <2> QED BY <2>2, <2>5 DEF Processes
  <1>3. \A n \in Migrators \ {m} : migrator'[n] = migrator[n]
    BY <1>1
  <1>4. migrator'[m] = next
    BY <1>1
  <1> QED BY <1>1, <1>2, <1>3, <1>4 DEF MigratorsOK, Reached

(* Every step takes one process on, or none. *)
LEMMA ProcessStep == Inv /\ [Next]_vars => MigratorsOK' /\ \A m \in Migrators : Reached(m)
  <1> SUFFICES ASSUME Inv, [Next]_vars
               PROVE  MigratorsOK' /\ \A m \in Migrators : Reached(m)
    OBVIOUS
  <1>a. migrator \in [Migrators -> Processes] /\ \A m \in Migrators : migrator[m] \in Processes
    BY DEF Inv, MigratorsOK
  <1>1. CASE UNCHANGED migrator
    BY <1>1 DEF Inv, MigratorsOK, Reached
  <1>2. ASSUME NEW m \in Migrators, Exits(m)
        PROVE  MigratorsOK' /\ \A n \in Migrators : Reached(n)
    <2>1. Off.pc \in Passive /\ Off.todo \subseteq migrator[m].todo /\ Off.ran = 0
      BY DEF Off, Passive, Steps
    <2>2. \E pc, todo, ran : Off = [pc |-> pc, todo |-> todo, ran |-> ran]
      BY DEF Off
    <2> QED BY <1>2, <2>1, <2>2, OnePasses DEF Exits
  <1>3. ASSUME NEW m \in Migrators, NEW pc \in Passive, Goto(m, pc)
        PROVE  MigratorsOK' /\ \A n \in Migrators : Reached(n)
    <2> DEFINE next == [migrator[m] EXCEPT !.pc = pc]
    <2>1. next = [pc |-> pc, todo |-> migrator[m].todo, ran |-> migrator[m].ran]
      BY <1>a DEF Processes
    <2>2. migrator' = [migrator EXCEPT ![m] = next]
      BY <1>3 DEF Goto
    <2> HIDE DEF next
    <2> QED BY <2>1, <2>2, OnePasses
  <1>4. ASSUME NEW m \in Migrators, ReadLedger(m), ~ Exits(m)
        PROVE  MigratorsOK' /\ \A n \in Migrators : Reached(n)
    <2> DEFINE moved == [migrator[m] EXCEPT !.pc = "files"]
               next == [moved EXCEPT !.todo = Pending]
    <2>1. moved = [pc |-> "files", todo |-> migrator[m].todo, ran |-> migrator[m].ran]
      BY <1>a DEF Processes
    <2>2. migrator' = [migrator EXCEPT ![m] = next]
      BY <1>4 DEF ReadLedger
    <2>3. "files" \in Passive
      BY DEF Passive, Steps
    <2> HIDE DEF moved
    <2>4. next = [pc |-> "files", todo |-> Pending, ran |-> migrator[m].ran]
      BY <2>1
    <2> HIDE DEF next
    <2> QED BY <2>2, <2>3, <2>4, OnePasses
  <1>5. ASSUME NEW m \in Migrators, Exec(m), ~ Exits(m)
        PROVE  MigratorsOK' /\ \A n \in Migrators : Reached(n)
    <2> DEFINE v == content[Min(migrator[m].todo)]
               moved == [migrator[m] EXCEPT !.pc = "record"]
               next == [moved EXCEPT !.ran = v]
    <2>1. moved = [pc |-> "record", todo |-> migrator[m].todo, ran |-> migrator[m].ran]
      BY <1>a DEF Processes
    <2>2. migrator' = [migrator EXCEPT ![m] = next] /\ migrator[m].todo # {}
      BY <1>5 DEF Exec
    <2> HIDE DEF moved, v
    <2>3. next = [pc |-> "record", todo |-> migrator[m].todo, ran |-> v]
      BY <2>1
    <2> HIDE DEF next
    <2> QED BY <2>2, <2>3, OnePasses DEF v
  <1>6. ASSUME NEW m \in Migrators, Record(m), ~ Exits(m)
        PROVE  MigratorsOK' /\ \A n \in Migrators : Reached(n)
    <2> DEFINE rest == migrator[m].todo \ {Min(migrator[m].todo)}
               moved == [migrator[m] EXCEPT !.pc = "files"]
               left == [moved EXCEPT !.todo = rest]
               next == [left EXCEPT !.ran = 0]
    <2>1. moved = [pc |-> "files", todo |-> migrator[m].todo, ran |-> migrator[m].ran]
      BY <1>a DEF Processes
    <2>2. migrator' = [migrator EXCEPT ![m] = next]
      BY <1>6 DEF Record
    <2>3. "files" \in Passive /\ rest \subseteq migrator[m].todo
      BY DEF Passive, Steps
    <2> HIDE DEF moved, rest
    <2>4. left = [pc |-> "files", todo |-> rest, ran |-> migrator[m].ran]
      BY <2>1
    <2> HIDE DEF left
    <2>5. next = [pc |-> "files", todo |-> rest, ran |-> 0]
      BY <2>4
    <2> HIDE DEF next
    <2> QED BY <2>2, <2>3, <2>5, OnePasses
  <1>7. ASSUME NEW m \in Migrators, (\E reset \in BOOLEAN : Launch(m, reset)) \/ Reset(m)
                                      \/ CreateLedger(m)
        PROVE  Exits(m) \/ \E pc \in Passive : Goto(m, pc)
    BY <1>7 DEF Launch, Reset, CreateLedger, Passive, Steps
  <1>8. ASSUME NEW m \in Migrators, Finish(m) \/ Kill(m)
        PROVE  Exits(m)
    BY <1>8 DEF Finish, Kill
  <1>9. (\E f \in Files : Release(f)) \/ UNCHANGED vars => UNCHANGED migrator
    BY DEF Release, vars
  <1> QED BY <1>1, <1>2, <1>3, <1>4, <1>5, <1>6, <1>7, <1>8, <1>9 DEF Next, Migrates

(* Only a release changes the checkout, and only under no process. *)
LEMMA ContentStep ==
    ASSUME Inv, [Next]_vars
    PROVE  /\ ContentOK'
           /\ \A f \in Files : content[f] # 0 => content'[f] # 0
           /\ \/ UNCHANGED content
              \/ UNCHANGED migrator /\ \A m \in Migrators : ~ At(m, "record")
  <1> USE MigrationsAssumption
  <1>0. ContentOK
    BY DEF Inv
  <1>1. ASSUME NEW f \in Files, Release(f)
        PROVE  /\ ContentOK'
               /\ \A g \in Files : content[g] # 0 => content'[g] # 0
               /\ UNCHANGED migrator /\ \A m \in Migrators : ~ At(m, "record")
    <2>1. content \in [Files -> Nat] /\ releases \in Nat
          /\ \A g \in Files : content[g] <= releases + 1
      BY DEF Inv, ContentOK
    <2>2. /\ content'[f] = content[f] + 1 /\ \A g \in Files \ {f} : content'[g] = content[g]
          /\ content' \in [Files -> Nat]
      BY <1>1, <2>1 DEF Release
    <2>3. releases < MaxReleases /\ releases' = releases + 1
      BY <1>1 DEF Release
    <2>4. \A g \in Files : content'[g] <= releases' + 1 /\ (content[g] # 0 => content'[g] # 0)
      BY <2>1, <2>2, <2>3
    <2>5. releases' \in 0..MaxReleases
      BY <2>1, <2>3
    <2>6. UNCHANGED migrator /\ \A m \in Migrators : ~ At(m, "record")
      BY <1>1 DEF Release, At
    <2> QED BY <2>2, <2>4, <2>5, <2>6 DEF ContentOK
  <1>2. CASE UNCHANGED <<content, releases>>
    BY <1>2, <1>0 DEF ContentOK
  <1>3. UNCHANGED <<content, releases>> \/ \E f \in Files : Release(f)
    BY DEF Next, Migrates, Launch, Reset, CreateLedger, ReadLedger, Exec, Record, Finish,
           Kill, vars, bounds
  <1> QED BY <1>1, <1>2, <1>3

(* What a migrator has to do stays in the checkout it reads. *)
LEMMA TodoStep == Inv /\ [Next]_vars => TodoOK'
  <1> SUFFICES ASSUME Inv, [Next]_vars, NEW m \in Migrators, NEW f \in migrator'[m].todo
               PROVE  content'[f] # 0
    BY DEF TodoOK
  <1>1. migrator[m].todo \subseteq Files
    BY DEF Inv, MigratorsOK, Processes
  <1>2. f \in migrator[m].todo \/ f \in Pending
    BY ProcessStep DEF Reached
  <1>3. f \in Files /\ content[f] # 0
    BY <1>1, <1>2 DEF Inv, TodoOK, Pending
  <1> QED BY <1>3, ContentStep

(* What it has run is what the file holds. *)
LEMMA RanStep == Inv /\ [Next]_vars => RanOK'
  <1> SUFFICES ASSUME Inv, [Next]_vars, NEW m \in Migrators, migrator'[m].pc = "record"
               PROVE  /\ migrator'[m].todo # {}
                      /\ migrator'[m].ran = content'[Min(migrator'[m].todo)]
    BY DEF RanOK, At
  <1>1. /\ migrator'[m].todo # {}
        /\ migrator'[m].ran = content[Min(migrator'[m].todo)]
    BY ProcessStep DEF Reached, Passive, Inv, RanOK, At
  <1>2. UNCHANGED content
    <2>1. ASSUME UNCHANGED migrator
          PROVE  At(m, "record")
      BY <2>1 DEF At
    <2> QED BY <2>1, ContentStep
  <1> QED BY <1>1, <1>2

(* The tables and the ledger change in one commit, a reset drops both, and the
   ledger's own table comes to an empty schema. *)
LEMMA LedgerStep == Inv /\ [Next]_vars => LedgerMatchesSchema' /\ SchemaOK'
  <1> SUFFICES ASSUME Inv, [Next]_vars PROVE LedgerMatchesSchema' /\ SchemaOK'
    OBVIOUS
  <1> USE DEF Inv
  <1>1. CASE UNCHANGED <<schema, ledger>>
    BY <1>1 DEF LedgerMatchesSchema, SchemaOK
  <1>2. ASSUME NEW m \in Migrators, Reset(m)
        PROVE  LedgerMatchesSchema' /\ SchemaOK'
    BY <1>2 DEF Reset, LedgerMatchesSchema, SchemaOK, Nothing
  <1>3. ASSUME NEW m \in Migrators, CreateLedger(m)
        PROVE  LedgerMatchesSchema' /\ SchemaOK'
    BY <1>3 DEF CreateLedger, LedgerMatchesSchema, SchemaOK
  <1>4. ASSUME NEW m \in Migrators, Record(m), ~ UNCHANGED <<schema, ledger>>
        PROVE  LedgerMatchesSchema' /\ SchemaOK'
    <2> DEFINE f == Min(migrator[m].todo)
    <2>1. /\ ledger # None
          /\ schema' = With(schema, f, migrator[m].ran)
          /\ ledger' = With(ledger, f, content[f])
      BY <1>4 DEF Record
    <2>2. migrator[m].ran = content[f] /\ migrator[m].todo # {}
      BY <1>4 DEF Record, RanOK
    <2>3. f \in Files /\ content[f] \in Versions
      BY <2>2, CurrentFile, ContentVersion DEF TodoOK
    <2>4. schema' = ledger'
      BY <2>1, <2>2 DEF LedgerMatchesSchema
    <2> HIDE DEF f
    <2>5. SchemaOK'
      BY <2>1, <2>2, <2>3 DEF SchemaOK, With
    <2>6. ledger' # None
      BY <2>4, <2>5, MigrationsAssumption DEF SchemaOK, Versions
    <2> QED BY <2>4, <2>5, <2>6 DEF LedgerMatchesSchema
  <1>5. \/ UNCHANGED <<schema, ledger>>
        \/ \E m \in Migrators : Reset(m) \/ CreateLedger(m) \/ Record(m)
    BY DEF Next, Migrates, Launch, ReadLedger, Exec, Finish, Kill, Release, vars
  <1> QED BY <1>1, <1>2, <1>3, <1>4, <1>5

------------------------------------------------------------------------------
(* The invariant holds in every state of every behaviour. *)
THEOREM Invariance == Spec => []Inv
  <1>1. Inv /\ [Next]_vars => Inv'
    BY ProcessStep, ContentStep, TodoStep, RanStep, LedgerStep DEF Inv
  <1> QED BY InitInv, <1>1, PTL DEF Spec

(* The checkout, the tables, the ledger and the processes keep their types. *)
THEOREM TypeCorrect == Spec => []TypeOK
  <1>1. Inv => TypeOK
    <2> SUFFICES ASSUME Inv PROVE TypeOK
      OBVIOUS
    <2>1. DOMAIN schema \subseteq Files /\ Range(schema) \subseteq Versions
      BY DEF Inv, SchemaOK, Range
    <2>2. ledger = None \/ ledger = schema
      BY DEF Inv, LedgerMatchesSchema
    <2> QED BY <2>1, <2>2 DEF Inv, MigratorsOK, Processes, ContentOK, TypeOK
  <1> QED BY <1>1, Invariance, PTL

(* migrate.py:82 for every set of files and any number of processes: kills, lost
   races and resets included, the ledger names exactly the files whose tables are
   there, with the content they were made from. *)
THEOREM LedgerNeverLies == Spec => []LedgerMatchesSchema
  <1>1. Inv => LedgerMatchesSchema
    BY DEF Inv
  <1> QED BY <1>1, Invariance, PTL
==============================================================================
