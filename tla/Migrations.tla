----------------------------- MODULE Migrations -----------------------------
(***************************************************************************)
(* The schema migrations (scripts/migrate.py): processes started by hand   *)
(* and by CI, several at once if it so happens, that bring the database to *)
(* the migration files of the checkout.  A process reads the ledger once,  *)
(* then runs each file it did not find there in a transaction of its own,  *)
(* which also writes the file into the ledger; --reset drops the schema,   *)
(* the ledger with it, first.  A process is killed between any two of its  *)
(* statements.                                                             *)
(*                                                                         *)
(* A file is a number, its place in the order of the names, and a version  *)
(* of its content, 0 while the checkout does not have it.                  *)
(***************************************************************************)
EXTENDS Integers, FiniteSets, FiniteSetsExt, Functions

CONSTANTS
    Migrators,      \* places a migration is started from; one process each
    NFiles,         \* the migration files are 1..NFiles
    FirstFiles,     \* those the first checkout has
    Needs,          \* the files whose tables a file alters or refers to
    MaxReleases,    \* bound: files added to the checkout or edited in it
    MaxResets,      \* bound: runs with --reset
    MaxKills,       \* bound: processes killed
    None

Files == 1..NFiles

ASSUME MigrationsAssumption ==
    /\ NFiles \in Nat
    /\ FirstFiles \subseteq Files
    /\ Needs \in [Files -> SUBSET Files]
    /\ {MaxReleases, MaxResets, MaxKills} \subseteq Nat
    /\ \A S \in SUBSET Files : None \notin [S -> Nat]

VARIABLES
    content,    \* the checkout: per file the version of its content, or 0
    schema,     \* per file that was run: the version that was
    ledger,     \* schema_migrations: per file its checksum; None without the table
    migrator,   \* per place: its process
    releases, resets, kills

bounds == <<releases, resets, kills>>
vars == <<content, schema, ledger, migrator, bounds>>

Nothing == [f \in {} |-> 0]
Off == [pc |-> "off", todo |-> {}, ran |-> 0]
Versions == 1..MaxReleases + 1

Init ==
    /\ content = [f \in Files |-> IF f \in FirstFiles THEN 1 ELSE 0]
    /\ schema = Nothing /\ ledger = None
    /\ migrator = [m \in Migrators |-> Off]
    /\ releases = 0 /\ resets = 0 /\ kills = 0

At(m, pc) == migrator[m].pc = pc
Goto(m, pc) == migrator' = [migrator EXCEPT ![m].pc = pc]
Exits(m) == migrator' = [migrator EXCEPT ![m] = Off]

(* m has run `f` in a transaction it has not committed: ran is its version. *)
Uncommitted(m, f) == At(m, "record") /\ f = Min(migrator[m].todo)
InTransaction(m) == At(m, "record")

------------------------------------------------------------------------------
Launch(m, reset) ==
    /\ At(m, "off")
    /\ reset => resets < MaxResets
    /\ resets' = IF reset THEN resets + 1 ELSE resets
    /\ Goto(m, IF reset THEN "reset" ELSE "ledger")
    /\ UNCHANGED <<content, schema, ledger, releases, kills>>

(* Dropping the schema waits for the transactions that create tables in it. *)
Reset(m) ==
    /\ At(m, "reset")
    /\ \A n \in Migrators : ~ InTransaction(n)
    /\ schema' = Nothing /\ ledger' = None
    /\ Goto(m, "ledger")
    /\ UNCHANGED <<content, bounds>>

(* CREATE TABLE IF NOT EXISTS looks before it creates: of two at the same time
   the later fails on the catalogue's unique index. *)
CreateLedger(m) ==
    /\ At(m, "ledger")
    /\ ledger' = IF ledger = None THEN Nothing ELSE ledger
    /\ \/ Goto(m, "read")
       \/ /\ ledger # None
          /\ \E n \in Migrators \ {m} : At(n, "read")
          /\ Exits(m)
    /\ UNCHANGED <<content, schema, bounds>>

Bug_Pending == {f \in Files : content[f] # 0}   \* `if path.name in applied` is gone
Pending == {f \in Files : content[f] # 0 /\ f \notin DOMAIN ledger}

ReadLedger(m) ==
    /\ At(m, "read")
    /\ IF ledger = None THEN Exits(m)
       ELSE migrator' = [migrator EXCEPT ![m] = [@ EXCEPT !.pc = "files", !.todo = Pending]]
    /\ UNCHANGED <<content, schema, ledger, bounds>>

(* The file's statements, which fail over tables that are there already or are
   missing.  Those of another process that runs the same file, or a file this
   one needs, are waited for. *)
Runs(f) == f \notin DOMAIN schema /\ Needs[f] \subseteq DOMAIN schema

Bug_Exec(m) ==                              \* autocommit: each statement for itself
    /\ At(m, "files") /\ migrator[m].todo # {}
    /\ LET f == Min(migrator[m].todo) IN
           /\ \A n \in Migrators, g \in {f} \cup Needs[f] : ~ Uncommitted(n, g)
           /\ IF Runs(f)
              THEN /\ migrator' = [migrator EXCEPT ![m] =
                                      [@ EXCEPT !.pc = "record", !.ran = content[f]]]
                   /\ schema' = [g \in DOMAIN schema \cup {f} |-> content[g]]
              ELSE Exits(m) /\ UNCHANGED schema
    /\ UNCHANGED <<content, ledger, bounds>>
Exec(m) ==
    /\ At(m, "files") /\ migrator[m].todo # {}
    /\ LET f == Min(migrator[m].todo) IN
           /\ \A n \in Migrators, g \in {f} \cup Needs[f] : ~ Uncommitted(n, g)
           /\ IF Runs(f)
              THEN migrator' = [migrator EXCEPT ![m] =
                                   [@ EXCEPT !.pc = "record", !.ran = content[f]]]
              ELSE Exits(m)
    /\ UNCHANGED <<content, schema, ledger, bounds>>

(* The ledger's row, and the commit of both.  The name is the ledger's key. *)
With(fn, f, v) == [g \in DOMAIN fn \cup {f} |-> IF g = f THEN v ELSE fn[g]]

Record(m) ==
    /\ At(m, "record")
    /\ LET f == Min(migrator[m].todo) IN
           IF ledger = None \/ f \in DOMAIN ledger
           THEN Exits(m) /\ UNCHANGED <<schema, ledger>>
           ELSE /\ schema' = With(schema, f, migrator[m].ran)
                /\ ledger' = With(ledger, f, content[f])
                /\ migrator' = [migrator EXCEPT ![m] =
                                   [@ EXCEPT !.pc = "files", !.todo = migrator[m].todo \ {f},
                                             !.ran = 0]]
    /\ UNCHANGED <<content, bounds>>

Finish(m) ==
    /\ At(m, "files") /\ migrator[m].todo = {}
    /\ Exits(m)
    /\ UNCHANGED <<content, schema, ledger, bounds>>

(* Killed: what it has not committed is rolled back. *)
Kill(m) ==
    /\ ~ At(m, "off") /\ kills < MaxKills
    /\ kills' = kills + 1
    /\ Exits(m)
    /\ UNCHANGED <<content, schema, ledger, releases, resets>>

(* A file is added, under whatever number, or edited; not under a process that
   has listed the files. *)
Release(f) ==
    /\ \A m \in Migrators : At(m, "off")
    /\ releases < MaxReleases /\ releases' = releases + 1
    /\ content' = [content EXCEPT ![f] = @ + 1]
    /\ UNCHANGED <<schema, ledger, migrator, resets, kills>>

Migrates(m) ==
    \/ Reset(m) \/ CreateLedger(m) \/ ReadLedger(m)
    \/ Exec(m) \/ Record(m) \/ Finish(m)

Next ==
    \/ \E m \in Migrators :
           \/ \E reset \in BOOLEAN : Launch(m, reset)
           \/ Migrates(m)
           \/ Kill(m)
    \/ \E f \in Files : Release(f)

Spec == Init /\ [][Next]_vars

(* A process goes on, and someone migrates again (CI does, on every change);
   nobody has to reset, and nobody has to be killed. *)
FairSpec ==
    /\ Spec
    /\ \A m \in Migrators : WF_vars(Migrates(m))
    /\ WF_vars(\E m \in Migrators : Launch(m, FALSE))

------------------------------------------------------------------------------
(* What must hold. *)

TypeOK ==
    /\ content \in [Files -> Nat]
    /\ DOMAIN schema \subseteq Files /\ Range(schema) \subseteq Versions
    /\ \/ ledger = None
       \/ DOMAIN ledger \subseteq Files /\ Range(ledger) \subseteq Versions
    /\ \A m \in Migrators :
           migrator[m].todo \subseteq Files /\ migrator[m].ran \in 0..MaxReleases + 1

(* "A failure half-way through leaves the ledger and the schema consistent with
   each other" (migrate.py:82), and so do a kill, a second process that read the
   ledger before the first one wrote it, and a reset under a process that
   believes the files before it are applied: the ledger names exactly the files
   whose tables are there, with the content they were made from, so that what
   --status calls modified was modified. *)
LedgerMatchesSchema ==
    IF ledger = None THEN schema = Nothing ELSE schema = ledger

(* The database gets to the checkout, however many processes were killed or lost
   a race over a file, and whichever number a late file has. *)
UpToDate == ledger # None /\ {f \in Files : content[f] # 0} \subseteq DOMAIN ledger
GetsUpToDate == []<>UpToDate
==============================================================================
