---------------------------- MODULE CorpusProofs ----------------------------
(***************************************************************************)
(* Proofs about Corpus, for any number of processes of each kind, any      *)
(* versions of the documents and any chunk settings.                       *)
(*                                                                         *)
(* The programs say nothing of each other; what keeps the chunk table that *)
(* of the documents is the locks their open transactions keep, and that    *)
(* locks that conflict are never held together (Compatible). Has and Only  *)
(* say which locks each process holds at each statement: at least those    *)
(* that keep another from writing what it has read, and no more than those *)
(* that keep processes of two kinds from waiting for each other.           *)
(***************************************************************************)
EXTENDS Corpus, FiniteSetTheorems, TLAPS

ChunkValues == Versions \X Settings \X Nat
Tables == {"services", "log_entries", "documents", "chunks"}
Modes == {"read", "write", "own"}

Steps == Tables \cup
    {"off", "count", "insert", "manifest", "commit", "build", "truncate", "measure", "score",
     "vector", "keyword", "fetch", "hydrate"}

Processes ==
    [pc : Steps, version : Versions \cup {None}, force : BOOLEAN, left : Seq(Settings),
     chosen : BOOLEAN, ids : SUBSET Nat, ranked : SUBSET ChunkValues,
     found : SUBSET ChunkValues, moved : BOOLEAN]

Types ==
    /\ documents \in Versions \cup {None} /\ manifest \in Versions \cup {None}
    /\ proc \in [Procs -> Processes]
    /\ orphaned \in BOOLEAN
    /\ locks \subseteq Procs \X Tables \X Modes

(* The table is a sequence of rows, identified by their place. *)
ContentTypes ==
    \A id \in DOMAIN chunks : id \in Nat \ {0} /\ chunks[id] \in ChunkValues

Held(p, table, mode) == <<p, table, mode>> \in locks

(* Where a process of each kind can be, and what it knows there. *)
Kind(p) ==
    /\ p \in Seeders =>
           /\ proc[p].pc \in Tables \cup {"off", "count", "insert", "manifest", "commit"}
           /\ proc[p].pc # "off" => proc[p].version \in Versions
           /\ proc[p].pc \in Tables => proc[p].force
    /\ p \in Indexers =>
           /\ proc[p].pc \in {"off", "count", "build", "truncate", "commit"}
           /\ proc[p].pc # "off" => proc[p].left # << >> /\ proc[p].chosen
    /\ p \in Sweepers =>
           /\ proc[p].pc \in {"off", "build", "truncate", "commit", "measure", "score"}
           /\ proc[p].pc # "off" => proc[p].left # << >>
    /\ p \in Searchers => proc[p].pc \in {"off", "vector", "keyword", "fetch", "hydrate"}

(* The seeder has its rows written, to be committed. *)
Writing(p) == p \in Seeders /\ proc[p].pc \in {"manifest", "commit"}

(* The locks a process has when it is at a statement. *)
Has(p) ==
    /\ p \in Seeders =>
           /\ proc[p].pc \in {"log_entries", "documents", "chunks"} => Held(p, "services", "own")
           /\ proc[p].pc \in {"documents", "chunks"} => Held(p, "log_entries", "own")
           /\ proc[p].pc = "chunks" => Held(p, "documents", "own")
           /\ proc[p].force /\ proc[p].pc \in {"insert", "manifest", "commit"} =>
                  \A t \in Tables : Held(p, t, "own")
           /\ Writing(p) => Held(p, "services", "write")
    /\ p \in Indexers \cup Sweepers /\ proc[p].pc \in {"truncate", "commit"} =>
           Held(p, "documents", "read")
    /\ p \in Sweepers /\ (proc[p].pc = "score" \/ Held(p, "chunks", "read")) =>
           Held(p, "log_entries", "read")

(* The statements a process is past when it has a lock. *)
Only(p) ==
    \A t \in Tables, m \in Modes : Held(p, t, m) =>
        /\ proc[p].pc # "off" /\ p \notin Searchers
        /\ p \in Seeders =>
               /\ t = "log_entries" =>
                      proc[p].pc \in {"documents", "chunks", "insert", "manifest", "commit"}
               /\ t = "documents" => proc[p].pc \in {"chunks", "insert", "manifest", "commit"}
               /\ t = "chunks" => proc[p].pc \in {"insert", "manifest", "commit"}
               /\ t # "services" => proc[p].force
        /\ p \in Indexers =>
               \/ /\ t = "documents" /\ m = "read"
                  /\ proc[p].pc \in {"build", "truncate", "commit"}
               \/ t = "chunks" /\ m = "own" /\ proc[p].pc = "commit"
        /\ p \in Sweepers =>
               \/ t = "documents" /\ m = "read" /\ proc[p].pc \in {"truncate", "commit"}
               \/ /\ t = "log_entries" /\ m = "read"
                  /\ proc[p].pc \in {"score", "build", "truncate", "commit"}
               \/ t = "chunks" /\ m = "read" /\ proc[p].pc \in {"build", "truncate", "commit"}
               \/ t = "chunks" /\ m = "own" /\ proc[p].pc = "commit"

Each(p) == Kind(p) /\ Has(p) /\ Only(p)

(* No two processes hold locks that conflict. *)
Compatible ==
    \A p, q \in Procs, t \in Tables, m, o \in Modes :
        p # q /\ Held(p, t, m) /\ Held(q, t, o) => ~ Conflict(m, o)

LocksInv == Types /\ (\A p \in Procs : Each(p)) /\ Compatible

------------------------------------------------------------------------------
(* Lemmas about the statements and their locks. *)

(* The tables of the seeder's TRUNCATE, in their order. *)
LEMMA TruncatedIs ==
    /\ DOMAIN Truncated = 1 .. 4 /\ Len(Truncated) = 4
    /\ Truncated[1] = "services" /\ Truncated[2] = "log_entries"
    /\ Truncated[3] = "documents" /\ Truncated[4] = "chunks"
    /\ Head(Truncated) = "services"
  BY DEF Truncated

(* A seeder is at a table of the TRUNCATE when its place is the table's name. *)
LEMMA AtTable ==
    ASSUME NEW p
    PROVE  (\E i \in DOMAIN Truncated : At(p, Truncated[i])) <=> proc[p].pc \in Tables
  BY TruncatedIs DEF At, Tables

(* The lock each statement asks for. *)
LEMMA SeederRequest ==
    ASSUME NEW p \in Seeders
    PROVE  /\ proc[p].pc = "count" => Request(p) = {<<"services", "read">>}
           /\ proc[p].pc \in Tables => Request(p) = {<<proc[p].pc, "own">>}
           /\ proc[p].pc = "insert" => Request(p) = {<<"services", "write">>}
           /\ proc[p].pc \in {"off", "manifest", "commit"} => Request(p) = {}
  BY AtTable DEF Request, At, Tables

(* An indexer and a sweep ask for these. *)
LEMMA IndexRequest ==
    ASSUME NEW p \in Indexers \cup Sweepers
    PROVE  /\ proc[p].pc \in {"count", "build"} => Request(p) = {<<"documents", "read">>}
           /\ proc[p].pc = "truncate" => Request(p) = {<<"chunks", "own">>}
           /\ proc[p].pc = "measure" => Request(p) = {<<"log_entries", "read">>}
           /\ proc[p].pc = "score" => Request(p) = {<<"chunks", "read">>}
           /\ proc[p].pc \in {"off", "commit"} => Request(p) = {}
  BY AtTable, CorpusAssumption DEF Request, At, Tables

(* Conflicts are mutual. *)
LEMMA ConflictSym ==
    ASSUME NEW m, NEW o
    PROVE  Conflict(m, o) <=> Conflict(o, m)
  BY DEF Conflict

(* What others hold of what a granted statement asks for does not conflict. *)
LEMMA GrantedIs ==
    ASSUME NEW p \in Procs, Granted(p), NEW r \in Request(p), NEW q \in Procs, q # p,
           NEW o, Held(q, r[1], o)
    PROVE  ~ Conflict(r[2], o)
  <1> DEFINE l == <<q, r[1], o>>
  <1>1. l \in locks /\ l[1] = q /\ l[2] = r[1] /\ l[3] = o
    BY DEF Held
  <1> QED BY <1>1 DEF Granted, Blocks

(* A search asks for these. *)
LEMMA SearcherRequest ==
    ASSUME NEW a \in Searchers
    PROVE  /\ proc[a].pc \in {"vector", "keyword", "fetch"} => Request(a) = {<<"chunks", "read">>}
           /\ proc[a].pc = "hydrate" => Request(a) = {<<"documents", "read">>}
           /\ proc[a].pc = "off" => Request(a) = {}
  BY AtTable, CorpusAssumption DEF Request, At, Tables

(* Every lock asked for is a table's, in a mode. *)
LEMMA RequestType ==
    ASSUME NEW p \in Procs, Kind(p)
    PROVE  Request(p) \subseteq Tables \X Modes
  <1>1. CASE p \in Seeders
    BY <1>1, SeederRequest DEF Kind, Tables, Modes
  <1>2. CASE p \in Indexers \cup Sweepers
    BY <1>2, IndexRequest DEF Kind, Tables, Modes
  <1>3. CASE p \in Searchers
    BY <1>3, SearcherRequest DEF Kind, Tables, Modes
  <1> QED BY <1>1, <1>2, <1>3 DEF Procs

(* A step of p alone: the others keep their places, their tasks and their locks. *)
Alone(p) ==
    \A q \in Procs \ {p} :
        /\ proc'[q].pc = proc[q].pc /\ proc'[q].version = proc[q].version
        /\ proc'[q].force = proc[q].force /\ proc'[q].left = proc[q].left
        /\ proc'[q].chosen = proc[q].chosen
        /\ \A t \in Tables, m \in Modes : <<q, t, m>> \in locks' <=> <<q, t, m>> \in locks

(* They stay where they can be, with the locks they need and no others. *)
LEMMA OthersKept ==
    ASSUME NEW p \in Procs, \A q \in Procs : Each(q), Alone(p)
    PROVE  \A q \in Procs \ {p} : Each(q)'
  <1> SUFFICES ASSUME NEW q \in Procs \ {p} PROVE Each(q)'
    OBVIOUS
  <1> USE DEF Alone
  <1>0. {"services", "log_entries", "documents", "chunks"} = Tables
        /\ {"read", "write", "own"} = Modes
    BY DEF Tables, Modes
  <1>1. Kind(q)'
    BY DEF Each, Kind
  <1>2. \A t \in Tables, m \in Modes : Held(q, t, m)' <=> Held(q, t, m)
    BY DEF Held
  <1>3. Has(q)'
    BY <1>0, <1>2 DEF Each, Has, Writing
  <1>4. Only(q)'
    BY <1>2 DEF Each, Only
  <1> QED BY <1>1, <1>3, <1>4 DEF Each

(* A statement that keeps the lock it was granted: it has what it had and what it
   asked for, and no two processes come to hold locks that conflict. *)
LEMMA Takes ==
    ASSUME NEW p \in Procs, LocksInv, Granted(p), Keeps(p)
    PROVE  /\ Compatible'
           /\ locks' \subseteq Procs \X Tables \X Modes
           /\ \A t \in Tables, m \in Modes :
                  Held(p, t, m)' <=> Held(p, t, m) \/ <<t, m>> \in Request(p)
           /\ \A q \in Procs \ {p}, t \in Tables, m \in Modes :
                  <<q, t, m>> \in locks' <=> <<q, t, m>> \in locks
  <1> Request(p) \subseteq Tables \X Modes
    BY RequestType DEF LocksInv, Each
  <1>1. \A q, t, m : <<q, t, m>> \in locks' <=>
            <<q, t, m>> \in locks \/ (q = p /\ \E r \in Request(p) : r[1] = t /\ r[2] = m)
    BY DEF Keeps, Taken
  <1>2. locks' \subseteq Procs \X Tables \X Modes
    BY DEF Keeps, Taken, LocksInv, Types
  <1>3. \A t \in Tables, m \in Modes :
            (\E r \in Request(p) : r[1] = t /\ r[2] = m) <=> <<t, m>> \in Request(p)
    OBVIOUS
  <1>4. ASSUME NEW q \in Procs, NEW s \in Procs, NEW t \in Tables, NEW m \in Modes,
               NEW o \in Modes, q # s, Held(q, t, m)', Held(s, t, o)'
        PROVE  ~ Conflict(m, o)
    <2>1. CASE Held(q, t, m) /\ Held(s, t, o)
      BY <2>1, <1>4 DEF LocksInv, Compatible
    <2>2. CASE ~ Held(q, t, m)
      <3>1. q = p /\ \E r \in Request(p) : r[1] = t /\ r[2] = m
        BY <2>2, <1>1, <1>4 DEF Held
      <3> QED BY <3>1, <1>1, <1>4, GrantedIs DEF Held
    <2>3. CASE ~ Held(s, t, o)
      <3>1. s = p /\ \E r \in Request(p) : r[1] = t /\ r[2] = o
        BY <2>3, <1>1, <1>4 DEF Held
      <3> QED BY <3>1, <1>1, <1>4, GrantedIs, ConflictSym DEF Held
    <2> QED BY <2>1, <2>2, <2>3
  <1> QED BY <1>1, <1>2, <1>3, <1>4 DEF Compatible, Held

(* A transaction that ends: its locks are gone, the others' are not. *)
LEMMA Releases ==
    ASSUME NEW p \in Procs, LocksInv, locks' = Released(p)
    PROVE  /\ Compatible'
           /\ locks' \subseteq Procs \X Tables \X Modes
           /\ \A t \in Tables, m \in Modes : ~ Held(p, t, m)'
           /\ \A q \in Procs \ {p}, t \in Tables, m \in Modes :
                  <<q, t, m>> \in locks' <=> <<q, t, m>> \in locks
  <1>1. \A q, t, m : <<q, t, m>> \in locks' <=> <<q, t, m>> \in locks /\ q # p
    BY DEF Released
  <1>2. locks' \subseteq Procs \X Tables \X Modes
    BY DEF Released, LocksInv, Types
  <1> QED BY <1>1, <1>2 DEF Compatible, Held, LocksInv

(* A process goes to another statement, and nothing else of it changes. *)
LEMMA GoesTo ==
    ASSUME NEW p \in Procs, Types, NEW pc \in Steps, Goto(p, pc)
    PROVE  /\ proc' \in [Procs -> Processes]
           /\ proc'[p].pc = pc /\ proc'[p].version = proc[p].version
           /\ proc'[p].force = proc[p].force /\ proc'[p].left = proc[p].left
           /\ proc'[p].chosen = proc[p].chosen
           /\ \A q \in Procs \ {p} : proc'[q] = proc[q]
  BY DEF Goto, Types, Processes

(* A program that is not running. *)
LEMMA OffIs ==
    /\ Off \in Processes /\ Off.pc = "off" /\ Off.force = FALSE
  BY DEF Off, Processes, Steps

(* Together: a step of one process that leaves it with what it must have. *)
LEMMA StepAlone ==
    ASSUME NEW p \in Procs, LocksInv, Types', Compatible', Alone(p), Each(p)'
    PROVE  LocksInv'
  <1>1. \A q \in Procs \ {p} : Each(q)'
    BY OthersKept DEF LocksInv
  <1>2. \A q \in Procs : Each(q)'
    BY <1>1
  <1> QED BY <1>2 DEF LocksInv

(* A process that ends, by itself, by the server or by a crash. *)
LEMMA ExitAlone ==
    ASSUME NEW p \in Procs, LocksInv, locks' = Released(p), proc'[p] = Off,
           proc' \in [Procs -> Processes],
           \A q \in Procs \ {p} :
               /\ proc'[q].pc = proc[q].pc /\ proc'[q].version = proc[q].version
               /\ proc'[q].force = proc[q].force /\ proc'[q].left = proc[q].left
               /\ proc'[q].chosen = proc[q].chosen,
           documents' \in Versions \cup {None}, manifest' \in Versions \cup {None},
           orphaned' \in BOOLEAN
    PROVE  LocksInv'
  <1>1. Types' /\ Compatible' /\ Alone(p)
    BY Releases DEF Types, Alone
  <1>2. \A t \in Tables, m \in Modes : ~ Held(p, t, m)'
    BY Releases
  <1>3. Kind(p)' /\ Only(p)'
    BY <1>2, OffIs DEF Kind, Only, Tables
  <1>4. Has(p)'
    BY <1>2, OffIs DEF Has, Writing, Tables, Modes
  <1> QED BY <1>1, <1>3, <1>4, StepAlone DEF Each

(* The searches under way learn that the chunks become others, no more. *)
LEMMA OthersMoved ==
    ASSUME NEW p \in Procs, Types, NEW new, NEW r \in Processes,
           proc' = [q \in Procs |-> IF q = p THEN r
                                    ELSE IF q \in Searchers THEN Moved(new)[q] ELSE proc[q]]
    PROVE  /\ proc' \in [Procs -> Processes] /\ proc'[p] = r
           /\ \A q \in Procs \ {p} :
                  /\ proc'[q].pc = proc[q].pc /\ proc'[q].version = proc[q].version
                  /\ proc'[q].force = proc[q].force /\ proc'[q].left = proc[q].left
                  /\ proc'[q].chosen = proc[q].chosen
  <1>1. ASSUME NEW q \in Searchers
        PROVE  /\ Moved(new)[q] \in Processes
               /\ Moved(new)[q].pc = proc[q].pc /\ Moved(new)[q].version = proc[q].version
               /\ Moved(new)[q].force = proc[q].force /\ Moved(new)[q].left = proc[q].left
               /\ Moved(new)[q].chosen = proc[q].chosen
    BY DEF Moved, Types, Processes, Procs
  <1> QED BY <1>1 DEF Types

(* A process that is launched: it has no locks yet. *)
LEMMA StartAlone ==
    ASSUME NEW p \in Procs, LocksInv, At(p, "off"), NEW r \in Processes,
           proc' = [proc EXCEPT ![p] = r], r.pc \in {"count", "build", "vector"},
           UNCHANGED <<documents, manifest, locks, orphaned>>, Kind(p)'
    PROVE  LocksInv'
  <1>1. proc'[p] = r /\ \A q \in Procs \ {p} : proc'[q] = proc[q]
    BY DEF LocksInv, Types
  <1>2. Types' /\ Compatible' /\ Alone(p)
    BY <1>1 DEF LocksInv, Types, Compatible, Held, Alone
  <1>3. \A t \in Tables, m \in Modes : ~ Held(p, t, m)'
    BY DEF LocksInv, Each, Only, Held, At
  <1>4. Has(p)'
    BY <1>1, <1>3 DEF Has, Writing, Tables, Modes
  <1>5. Only(p)'
    BY <1>3 DEF Only
  <1> QED BY <1>2, <1>4, <1>5, StepAlone DEF Each

(* A statement that keeps the lock it was granted and goes on to the next. *)
LEMMA KeepAlone ==
    ASSUME NEW p \in Procs, LocksInv, Granted(p), Keeps(p), proc' \in [Procs -> Processes],
           \A q \in Procs \ {p} : proc'[q] = proc[q],
           UNCHANGED <<documents, manifest, orphaned>>, Each(p)'
    PROVE  LocksInv'
  <1>1. Types' /\ Compatible' /\ Alone(p)
    BY Takes DEF LocksInv, Types, Alone
  <1> QED BY <1>1, StepAlone

(* The seeders' steps. *)
LEMMA SeedersLocks ==
    ASSUME NEW p \in Seeders, LocksInv,
           \/ \E v \in Versions, force \in BOOLEAN : Seed(p, v, force)
           \/ CountServices(p) \/ \E i \in DOMAIN Truncated : TruncateNext(p, i)
           \/ Insert(p) \/ WriteManifest(p) \/ CommitSeeds(p)
    PROVE  LocksInv'
  <1> p \in Procs /\ p \notin Indexers \cup Sweepers \cup Searchers
    BY CorpusAssumption DEF Procs
  <1> Types /\ Each(p)
    BY DEF LocksInv
  <1>1. ASSUME NEW v \in Versions, NEW force \in BOOLEAN, Seed(p, v, force)
        PROVE  LocksInv'
    <2> DEFINE r == [Off EXCEPT !.pc = "count", !.version = v, !.force = force]
    <2>1. r \in Processes /\ r.pc = "count" /\ r.version = v
      BY OffIs DEF Processes, Steps
    <2>2. proc'[p] = r
      BY <1>1 DEF Seed, Types
    <2> HIDE DEF r
    <2>3. Kind(p)'
      BY <2>1, <2>2 DEF Kind, Tables
    <2>4. At(p, "off") /\ proc' = [proc EXCEPT ![p] = r]
      BY <1>1 DEF Seed, Launchable, r
    <2>5. UNCHANGED <<documents, manifest, locks, orphaned>>
      BY <1>1 DEF Seed
    <2> QED BY <2>1, <2>3, <2>4, <2>5, StartAlone
  <1>2. CASE CountServices(p)
    <2>1. CASE documents # None /\ ~ proc[p].force
      BY <1>2, <2>1, ExitAlone, OffIs DEF CountServices, Exits, Types
    <2>2. CASE ~ (documents # None /\ ~ proc[p].force)
      <3> DEFINE pc == IF proc[p].force THEN "services" ELSE "insert"
      <3>1. Granted(p) /\ Keeps(p) /\ Goto(p, pc) /\ pc \in Steps
            /\ UNCHANGED <<documents, manifest, orphaned>>
            /\ Request(p) = {<<"services", "read">>} /\ proc[p].pc = "count"
        BY <1>2, <2>2, SeederRequest, TruncatedIs DEF CountServices, At, Steps, Tables
      <3> HIDE DEF pc
      <3>2. proc'[p].pc = pc /\ proc'[p].force = proc[p].force
            /\ proc'[p].version = proc[p].version
        BY <3>1, GoesTo
      <3>3. Kind(p)'
        BY <3>1, <3>2 DEF Kind, Each, Tables, pc
      <3>4. Has(p)'
        BY <3>1, <3>2 DEF Has, Writing, pc
      <3>5. Only(p)'
        BY <3>1, <3>2, Takes DEF Only, Each, Tables, pc
      <3> QED BY <3>1, <3>3, <3>4, <3>5, GoesTo, KeepAlone DEF Each
    <2> QED BY <2>1, <2>2
  <1>3. ASSUME NEW i \in DOMAIN Truncated, TruncateNext(p, i)
        PROVE  LocksInv'
    <2> DEFINE pc == IF i = 4 THEN "insert" ELSE Truncated[i + 1]
    <2>1. i \in 1 .. 4
      BY TruncatedIs
    <2>2. Granted(p) /\ Keeps(p) /\ Goto(p, pc) /\ proc[p].pc = Truncated[i]
          /\ UNCHANGED <<documents, manifest, orphaned>>
      BY <1>3, TruncatedIs DEF TruncateNext, At
    <2>3. /\ i = 1 => proc[p].pc = "services" /\ pc = "log_entries"
          /\ i = 2 => proc[p].pc = "log_entries" /\ pc = "documents"
          /\ i = 3 => proc[p].pc = "documents" /\ pc = "chunks"
          /\ i = 4 => proc[p].pc = "chunks" /\ pc = "insert"
      BY <2>1, <2>2, TruncatedIs
    <2> HIDE DEF pc
    <2>4. pc \in Steps /\ proc[p].pc \in Tables
      BY <2>1, <2>3 DEF Steps, Tables
    <2>5. proc'[p].pc = pc /\ proc'[p].force = proc[p].force
          /\ proc'[p].version = proc[p].version
      BY <2>2, <2>4, GoesTo
    <2>6. Request(p) = {<<proc[p].pc, "own">>}
      BY <2>4, SeederRequest
    <2>7. Kind(p)'
      BY <2>1, <2>3, <2>4, <2>5 DEF Kind, Each, Tables
    <2>8. \A t \in Tables : Held(p, t, "own")' <=> Held(p, t, "own") \/ t = proc[p].pc
      BY <2>2, <2>6, Takes DEF Modes
    <2>9. Has(p)'
      BY <2>1, <2>3, <2>5, <2>8 DEF Has, Each, Tables, Writing
    <2>10. Only(p)'
      <3> SUFFICES ASSUME NEW t \in Tables, NEW m \in Modes, Held(p, t, m)'
                   PROVE  /\ t = "log_entries" =>
                                pc \in {"documents", "chunks", "insert", "manifest", "commit"}
                          /\ t = "documents" => pc \in {"chunks", "insert", "manifest", "commit"}
                          /\ t = "chunks" => pc \in {"insert", "manifest", "commit"}
                          /\ proc[p].force
        BY <2>1, <2>3, <2>4, <2>5 DEF Only, Each, Kind
      <3>1. proc[p].force
        BY <2>4 DEF Each, Kind
      <3>2. Held(p, t, m) \/ t = proc[p].pc
        BY <2>2, <2>6, Takes
      <3>3. CASE Held(p, t, m)
        BY <2>1, <2>3, <3>1, <3>3 DEF Each, Only
      <3>4. CASE t = proc[p].pc
        BY <2>1, <2>3, <3>1, <3>4
      <3> QED BY <3>2, <3>3, <3>4
    <2> QED BY <2>2, <2>4, <2>7, <2>9, <2>10, GoesTo, KeepAlone DEF Each
  <1>4. CASE Insert(p)
    <2>1. CASE documents # None /\ ~ proc[p].force
      BY <1>4, <2>1, ExitAlone, OffIs DEF Insert, Exits, Types
    <2>2. CASE ~ (documents # None /\ ~ proc[p].force)
      <3>1. Granted(p) /\ Keeps(p) /\ Goto(p, "manifest") /\ "manifest" \in Steps
            /\ UNCHANGED <<documents, manifest, orphaned>>
            /\ Request(p) = {<<"services", "write">>} /\ proc[p].pc = "insert"
        BY <1>4, <2>2, SeederRequest DEF Insert, At, Steps
      <3>2. proc'[p].pc = "manifest" /\ proc'[p].force = proc[p].force
            /\ proc'[p].version = proc[p].version
        BY <3>1, GoesTo
      <3>3. Kind(p)'
        BY <3>1, <3>2 DEF Kind, Each, Tables
      <3>4. Has(p)'
        BY <3>1, <3>2, Takes DEF Has, Each, Writing, Tables, Modes
      <3>5. Only(p)'
        BY <3>1, <3>2, Takes DEF Only, Each, Tables
      <3> QED BY <3>1, <3>3, <3>4, <3>5, GoesTo, KeepAlone DEF Each
    <2> QED BY <2>1, <2>2
  <1>5. CASE WriteManifest(p)
    <2>1. Goto(p, "commit") /\ "commit" \in Steps /\ proc[p].pc = "manifest"
          /\ UNCHANGED <<documents, locks, orphaned>> /\ manifest' = proc[p].version
      BY <1>5 DEF WriteManifest, At, Steps
    <2>2. /\ proc' \in [Procs -> Processes]
          /\ proc'[p].pc = "commit" /\ proc'[p].force = proc[p].force
          /\ proc'[p].version = proc[p].version
          /\ \A q \in Procs \ {p} : proc'[q] = proc[q]
      BY <2>1, GoesTo
    <2>3. Types' /\ Compatible' /\ Alone(p)
      BY <2>1, <2>2 DEF LocksInv, Types, Compatible, Held, Alone, Processes
    <2>4. Kind(p)' /\ Has(p)' /\ Only(p)'
      BY <2>1, <2>2 DEF Kind, Has, Only, Each, Held, Writing, Tables
    <2> QED BY <2>3, <2>4, StepAlone DEF Each
  <1>6. CASE CommitSeeds(p)
    <2>1. /\ locks' = Released(p) /\ UNCHANGED <<manifest, orphaned>>
          /\ documents' \in Versions
          /\ \E new : proc' = [q \in Procs |-> IF q = p THEN Off
                                 ELSE IF q \in Searchers THEN Moved(new)[q] ELSE proc[q]]
      BY <1>6 DEF CommitSeeds, ExitsWith, At, Each, Kind
    <2>2. /\ proc' \in [Procs -> Processes] /\ proc'[p] = Off
          /\ \A q \in Procs \ {p} :
                  /\ proc'[q].pc = proc[q].pc /\ proc'[q].version = proc[q].version
                  /\ proc'[q].force = proc[q].force /\ proc'[q].left = proc[q].left
                  /\ proc'[q].chosen = proc[q].chosen
      BY <2>1, OthersMoved, OffIs
    <2> QED BY <2>1, <2>2, ExitAlone DEF Types
  <1> QED BY <1>1, <1>2, <1>3, <1>4, <1>5, <1>6

(* The indexer's and the sweep's own steps, and those they share. *)
LEMMA IndexersLocks ==
    ASSUME NEW x \in Indexers, LocksInv,
           CountDocuments(x) \/ \E s \in Settings : IndexMain(x, s)
    PROVE  LocksInv'
  <1> x \in Procs /\ x \notin Seeders \cup Sweepers \cup Searchers
    BY CorpusAssumption DEF Procs
  <1> Types /\ Each(x)
    BY DEF LocksInv
  <1>1. ASSUME NEW s \in Settings, IndexMain(x, s)
        PROVE  LocksInv'
    <2> DEFINE r == [Off EXCEPT !.pc = "count", !.left = <<s>>, !.chosen = TRUE]
    <2>0. <<s>> \in Seq(Settings) /\ "count" \in Steps
      BY DEF Steps
    <2>1. r \in Processes /\ r.pc = "count" /\ r.left = <<s>> /\ r.chosen
      BY <2>0, OffIs DEF Processes
    <2>2. proc'[x] = r
      BY <1>1 DEF IndexMain, Types
    <2> HIDE DEF r
    <2>3. Kind(x)'
      BY <2>1, <2>2 DEF Kind, Tables
    <2>4. At(x, "off") /\ proc' = [proc EXCEPT ![x] = r]
      BY <1>1 DEF IndexMain, Launchable, r
    <2>5. UNCHANGED <<documents, manifest, locks, orphaned>>
      BY <1>1 DEF IndexMain
    <2> QED BY <2>1, <2>3, <2>4, <2>5, StartAlone
  <1>2. CASE CountDocuments(x)
    <2>1. CASE documents = None
      BY <1>2, <2>1, ExitAlone, OffIs DEF CountDocuments, Exits, Types
    <2>2. CASE documents # None
      <3>1. Granted(x) /\ Keeps(x) /\ Goto(x, "build") /\ "build" \in Steps
            /\ UNCHANGED <<documents, manifest, orphaned>>
            /\ Request(x) = {<<"documents", "read">>} /\ proc[x].pc = "count"
        BY <1>2, <2>2, IndexRequest DEF CountDocuments, At, Steps
      <3>2. proc'[x].pc = "build" /\ proc'[x].left = proc[x].left
            /\ proc'[x].chosen = proc[x].chosen
        BY <3>1, GoesTo
      <3>3. Kind(x)'
        BY <3>1, <3>2 DEF Kind, Each, Tables
      <3>4. Has(x)'
        BY <3>1, <3>2 DEF Has, Writing
      <3>5. Only(x)'
        BY <3>1, <3>2, Takes DEF Only, Each
      <3> QED BY <3>1, <3>3, <3>4, <3>5, GoesTo, KeepAlone DEF Each
    <2> QED BY <2>1, <2>2
  <1> QED BY <1>1, <1>2

(* Building, TRUNCATE and COPY, and the commit. *)
LEMMA IndexingLocks ==
    ASSUME NEW x \in Indexers \cup Sweepers, LocksInv,
           BuildChunks(x) \/ TruncateAndCopy(x) \/ CommitIndex(x)
    PROVE  LocksInv'
  <1> x \in Procs /\ x \notin Seeders \cup Searchers /\ (x \in Indexers => x \notin Sweepers)
    BY CorpusAssumption DEF Procs
  <1> Types /\ Each(x)
    BY DEF LocksInv
  <1>1. CASE BuildChunks(x)
    <2>1. Granted(x) /\ Keeps(x) /\ UNCHANGED <<documents, manifest, orphaned>>
          /\ Request(x) = {<<"documents", "read">>} /\ proc[x].pc = "build"
      BY <1>1, IndexRequest DEF BuildChunks, At
    <2>2. /\ proc' \in [Procs -> Processes]
          /\ proc'[x].pc = "truncate" /\ proc'[x].left = proc[x].left
          /\ proc'[x].chosen = proc[x].chosen
          /\ \A q \in Procs \ {x} : proc'[q] = proc[q]
      <3> DEFINE r == [proc[x] EXCEPT !.pc = "truncate", !.version = documents]
      <3>1. r \in Processes /\ r.pc = "truncate" /\ r.left = proc[x].left
            /\ r.chosen = proc[x].chosen
        BY DEF Types, Processes, Steps
      <3>2. proc' = [proc EXCEPT ![x] = r]
        BY <1>1 DEF BuildChunks
      <3> HIDE DEF r
      <3> QED BY <3>1, <3>2 DEF Types
    <2>3. Kind(x)'
      BY <2>1, <2>2 DEF Kind, Each
    <2>4. Has(x)'
      BY <2>1, <2>2, Takes DEF Has, Each, Writing, Tables, Modes
    <2>5. Only(x)'
      BY <2>1, <2>2, Takes DEF Only, Each
    <2> QED BY <2>1, <2>2, <2>3, <2>4, <2>5, KeepAlone DEF Each
  <1>2. CASE TruncateAndCopy(x)
    <2>1. Granted(x) /\ Keeps(x) /\ UNCHANGED <<documents, manifest, orphaned>>
          /\ Goto(x, "commit") /\ "commit" \in Steps
          /\ Request(x) = {<<"chunks", "own">>} /\ proc[x].pc = "truncate"
      BY <1>2, IndexRequest DEF TruncateAndCopy, At, Steps
    <2>2. proc'[x].pc = "commit" /\ proc'[x].left = proc[x].left
          /\ proc'[x].chosen = proc[x].chosen
      BY <2>1, GoesTo
    <2>3. Kind(x)'
      BY <2>1, <2>2 DEF Kind, Each
    <2>4. Has(x)'
      BY <2>1, <2>2, Takes DEF Has, Each, Writing, Tables, Modes
    <2>5. Only(x)'
      BY <2>1, <2>2, Takes DEF Only, Each
    <2> QED BY <2>1, <2>3, <2>4, <2>5, GoesTo, KeepAlone DEF Each
  <1>3. CASE CommitIndex(x)
    <2>1. locks' = Released(x) /\ UNCHANGED <<documents, manifest, orphaned>>
      BY <1>3 DEF CommitIndex, ExitsWith
    <2>2. CASE proc[x].chosen
      <3>1. \E new : proc' = [q \in Procs |-> IF q = x THEN Off
                                  ELSE IF q \in Searchers THEN Moved(new)[q] ELSE proc[q]]
        BY <1>3, <2>2 DEF CommitIndex, ExitsWith
      <3>2. /\ proc' \in [Procs -> Processes] /\ proc'[x] = Off
            /\ \A q \in Procs \ {x} :
                   /\ proc'[q].pc = proc[q].pc /\ proc'[q].version = proc[q].version
                   /\ proc'[q].force = proc[q].force /\ proc'[q].left = proc[q].left
                   /\ proc'[q].chosen = proc[q].chosen
        BY <3>1, OthersMoved, OffIs
      <3> QED BY <2>1, <3>2, ExitAlone DEF Types
    <2>3. CASE ~ proc[x].chosen
      <3> DEFINE r == [proc[x] EXCEPT !.pc = "measure"]
      <3>1. r \in Processes /\ r.pc = "measure" /\ r.left = proc[x].left
            /\ r.chosen = proc[x].chosen
        BY DEF Types, Processes, Steps
      <3>2. \E new : proc' = [q \in Procs |-> IF q = x THEN r
                                  ELSE IF q \in Searchers THEN Moved(new)[q] ELSE proc[q]]
        BY <1>3, <2>3 DEF CommitIndex
      <3> HIDE DEF r
      <3>3. /\ proc' \in [Procs -> Processes] /\ proc'[x] = r
            /\ \A q \in Procs \ {x} :
                   /\ proc'[q].pc = proc[q].pc /\ proc'[q].version = proc[q].version
                   /\ proc'[q].force = proc[q].force /\ proc'[q].left = proc[q].left
                   /\ proc'[q].chosen = proc[q].chosen
        BY <3>1, <3>2, OthersMoved
      <3>4. Types' /\ Compatible' /\ Alone(x)
        BY <2>1, <3>3, Releases DEF Types, Alone
      <3>5. \A t \in Tables, m \in Modes : ~ Held(x, t, m)'
        BY <2>1, Releases
      <3>6. proc[x].pc = "commit" /\ x \in Sweepers /\ proc[x].left # << >>
        BY <1>3, <2>3 DEF CommitIndex, At, Each, Kind
      <3>7. Kind(x)'
        BY <3>1, <3>3, <3>6 DEF Kind
      <3>8. Has(x)'
        BY <3>1, <3>3, <3>5, <3>6 DEF Has, Writing, Tables, Modes
      <3>9. Only(x)'
        BY <3>5 DEF Only
      <3> QED BY <3>4, <3>7, <3>8, <3>9, StepAlone DEF Each
    <2> QED BY <2>2, <2>3
  <1> QED BY <1>1, <1>2, <1>3

(* A sweep's start, and its measurements. *)
LEMMA SweepersLocks ==
    ASSUME NEW w \in Sweepers, LocksInv, Sweep(w) \/ Measure(w) \/ Score(w)
    PROVE  LocksInv'
  <1> w \in Procs /\ w \notin Seeders \cup Indexers \cup Searchers
    BY CorpusAssumption DEF Procs
  <1> Types /\ Each(w)
    BY DEF LocksInv
  <1>1. CASE Sweep(w)
    <2> DEFINE r == [Off EXCEPT !.pc = "build", !.left = Grid]
    <2>1. r \in Processes /\ r.pc = "build" /\ r.left = Grid
      BY OffIs, CorpusAssumption DEF Processes, Steps
    <2>2. proc'[w] = r
      BY <1>1 DEF Sweep, Types
    <2> HIDE DEF r
    <2>3. Kind(w)'
      BY <2>1, <2>2, CorpusAssumption DEF Kind
    <2>4. At(w, "off") /\ proc' = [proc EXCEPT ![w] = r]
      BY <1>1 DEF Sweep, Launchable, r
    <2>5. UNCHANGED <<documents, manifest, locks, orphaned>>
      BY <1>1 DEF Sweep
    <2> QED BY <2>1, <2>3, <2>4, <2>5, StartAlone
  <1>2. CASE Measure(w)
    <2>1. Granted(w) /\ Keeps(w) /\ UNCHANGED <<documents, manifest, orphaned>>
          /\ Goto(w, "score") /\ "score" \in Steps
          /\ Request(w) = {<<"log_entries", "read">>} /\ proc[w].pc = "measure"
      BY <1>2, IndexRequest DEF Measure, At, Steps
    <2>2. proc'[w].pc = "score" /\ proc'[w].left = proc[w].left
      BY <2>1, GoesTo
    <2>3. Kind(w)'
      BY <2>1, <2>2 DEF Kind, Each
    <2>4. Has(w)'
      BY <2>1, <2>2, Takes DEF Has, Each, Writing, Tables, Modes
    <2>5. Only(w)'
      BY <2>1, <2>2, Takes DEF Only, Each
    <2> QED BY <2>1, <2>3, <2>4, <2>5, GoesTo, KeepAlone DEF Each
  <1>3. CASE Score(w)
    <2>1. Granted(w) /\ Keeps(w) /\ UNCHANGED <<documents, manifest, orphaned>>
          /\ Request(w) = {<<"chunks", "read">>} /\ proc[w].pc = "score"
      BY <1>3, IndexRequest DEF Score, At
    <2>2. /\ proc' \in [Procs -> Processes]
          /\ proc'[w].pc = "build" /\ proc'[w].left # << >>
          /\ \A q \in Procs \ {w} : proc'[q] = proc[q]
      <3> proc[w].left \in Seq(Settings) /\ Range(Grid) \subseteq Settings
        BY CorpusAssumption DEF Types, Processes, Range
      <3>1. CASE Len(proc[w].left) > 1
        <4>1. Tail(proc[w].left) \in Seq(Settings) /\ Tail(proc[w].left) # << >>
          BY <3>1
        <4> DEFINE r == [proc[w] EXCEPT !.pc = "build", !.left = Tail(proc[w].left)]
        <4>2. r \in Processes /\ r.pc = "build" /\ r.left = Tail(proc[w].left)
          BY <4>1 DEF Types, Processes, Steps
        <4>3. proc' = [proc EXCEPT ![w] = r]
          BY <1>3, <3>1 DEF Score
        <4> HIDE DEF r
        <4> QED BY <4>1, <4>2, <4>3 DEF Types
      <3>2. CASE ~ (Len(proc[w].left) > 1)
        <4>1. PICK s \in Range(Grid) :
                  proc' = [proc EXCEPT ![w] =
                              [@ EXCEPT !.pc = "build", !.left = <<s>>, !.chosen = TRUE]]
          BY <1>3, <3>2 DEF Score
        <4>2. <<s>> \in Seq(Settings) /\ <<s>> # << >>
          OBVIOUS
        <4> DEFINE r == [proc[w] EXCEPT !.pc = "build", !.left = <<s>>, !.chosen = TRUE]
        <4>3. r \in Processes /\ r.pc = "build" /\ r.left = <<s>>
          BY <4>2 DEF Types, Processes, Steps
        <4>4. proc' = [proc EXCEPT ![w] = r]
          BY <4>1
        <4> HIDE DEF r
        <4> QED BY <4>2, <4>3, <4>4 DEF Types
      <3> QED BY <3>1, <3>2
    <2>3. Kind(w)'
      BY <2>1, <2>2 DEF Kind, Each
    <2>4. Has(w)'
      BY <2>1, <2>2, Takes DEF Has, Each, Writing, Tables, Modes
    <2>5. Only(w)'
      BY <2>1, <2>2, Takes DEF Only, Each
    <2> QED BY <2>1, <2>2, <2>3, <2>4, <2>5, KeepAlone DEF Each
  <1> QED BY <1>1, <1>2, <1>3

(* A search takes no lock it keeps. *)
LEMMA SearchersLocks ==
    ASSUME NEW a \in Searchers, LocksInv, ContentTypes,
           \/ Search(a) \/ Rank(a, "vector", "keyword") \/ Rank(a, "keyword", "fetch")
           \/ Fetch(a) \/ Hydrate(a)
    PROVE  LocksInv'
  <1> a \in Procs /\ a \notin Seeders \cup Indexers \cup Sweepers
    BY CorpusAssumption DEF Procs
  <1> Types /\ Each(a)
    BY DEF LocksInv
  <1>1. ASSUME proc' \in [Procs -> Processes], UNCHANGED <<documents, manifest, locks, orphaned>>,
               proc'[a].pc \in {"vector", "keyword", "fetch", "hydrate"},
               \A q \in Procs \ {a} : proc'[q] = proc[q]
        PROVE  LocksInv'
    <2>1. Types' /\ Compatible' /\ Alone(a)
      BY <1>1 DEF LocksInv, Types, Compatible, Held, Alone
    <2>2. \A t \in Tables, m \in Modes : ~ Held(a, t, m)'
      BY <1>1 DEF Each, Only, Held
    <2>3. Each(a)'
      BY <1>1, <2>2 DEF Each, Kind, Has, Only, Writing
    <2> QED BY <2>1, <2>3, StepAlone
  <1>2. CASE Search(a)
    BY <1>1, <1>2, GoesTo DEF Search, Steps
  <1>3. ASSUME NEW pc, NEW next, next \in {"keyword", "fetch"}, Rank(a, pc, next)
        PROVE  LocksInv'
    <2>1. UNCHANGED <<documents, manifest, locks, orphaned>>
      BY <1>3 DEF Rank
    <2>2. CASE proc' = [proc EXCEPT ![a].pc = next]
      BY <1>1, <1>3, <2>1, <2>2, GoesTo DEF Goto, Steps
    <2>3. ASSUME NEW id \in DOMAIN chunks,
                 proc' = [proc EXCEPT ![a] =
                            [@ EXCEPT !.pc = next, !.ids = proc[a].ids \cup {id},
                                      !.ranked = proc[a].ranked \cup {chunks[id]}]]
          PROVE  LocksInv'
      <3> DEFINE r == [proc[a] EXCEPT !.pc = next, !.ids = proc[a].ids \cup {id},
                                      !.ranked = proc[a].ranked \cup {chunks[id]}]
      <3>1. id \in Nat /\ chunks[id] \in ChunkValues
        BY DEF ContentTypes
      <3>2. r \in Processes /\ r.pc = next
        BY <1>3, <3>1 DEF Types, Processes, Steps
      <3>3. proc' = [proc EXCEPT ![a] = r]
        BY <2>3
      <3> HIDE DEF r
      <3> QED BY <1>1, <1>3, <2>1, <3>2, <3>3 DEF Types
    <2> QED BY <1>3, <2>2, <2>3 DEF Rank
  <1>4. CASE Fetch(a)
    <2> DEFINE f == {chunks[id] : id \in proc[a].ids \cap DOMAIN chunks}
               r == [proc[a] EXCEPT !.pc = "hydrate", !.found = f]
    <2>1. f \subseteq ChunkValues
      BY DEF ContentTypes
    <2>2. r \in Processes /\ r.pc = "hydrate"
      <3> HIDE DEF f
      <3> QED BY <2>1 DEF Types, Processes, Steps
    <2>3. proc' = [proc EXCEPT ![a] = r]
      BY <1>4 DEF Fetch
    <2> HIDE DEF r
    <2> QED BY <1>1, <1>4, <2>2, <2>3 DEF Types, Fetch
  <1>5. CASE Hydrate(a)
    BY <1>5, ExitAlone, OffIs DEF Hydrate, Exits, Types
  <1> QED BY <1>2, <1>3, <1>4, <1>5

(* The end of a process in the middle of its work. *)
LEMMA EndingLocks ==
    ASSUME NEW p \in Procs, LocksInv, Kill(p) \/ DeadlockVictim(p)
    PROVE  LocksInv'
  <1> Types
    BY DEF LocksInv
  <1>1. Exits(p) /\ UNCHANGED <<documents, manifest>> /\ orphaned' \in BOOLEAN
    BY DEF Kill, DeadlockVictim, Types
  <1> QED BY <1>1, ExitAlone, OffIs DEF Exits, Types

(* No one runs and no one holds a lock at the start. *)
LEMMA InitLocks == Init => LocksInv
  <1> SUFFICES ASSUME Init PROVE LocksInv
    OBVIOUS
  <1>1. Types
    BY OffIs DEF Init, Types
  <1>2. \A p \in Procs : Each(p)
    BY OffIs DEF Init, Each, Kind, Has, Only, Held, Writing, Tables
  <1>3. Compatible
    BY DEF Init, Compatible, Held
  <1> QED BY <1>1, <1>2, <1>3 DEF LocksInv

(* Every step keeps the locks as said. *)
LEMMA NextLocks == LocksInv /\ ContentTypes /\ [Next]_vars => LocksInv'
  <1> SUFFICES ASSUME LocksInv, ContentTypes, [Next]_vars PROVE LocksInv'
    OBVIOUS
  <1>1. CASE UNCHANGED vars
    <2>1. Types'
      BY <1>1 DEF vars, LocksInv, Types
    <2>2. \A p \in Procs : Kind(p)' /\ Has(p)' /\ Only(p)'
      <3> SUFFICES ASSUME NEW p \in Procs PROVE Kind(p)' /\ Has(p)' /\ Only(p)'
        OBVIOUS
      <3>1. Kind(p)'
        BY <1>1 DEF vars, LocksInv, Each, Kind
      <3>2. Has(p)'
        BY <1>1 DEF vars, LocksInv, Each, Has, Held, Writing
      <3>3. Only(p)'
        BY <1>1 DEF vars, LocksInv, Each, Only, Held
      <3> QED BY <3>1, <3>2, <3>3
    <2>3. Compatible'
      BY <1>1 DEF vars, LocksInv, Compatible, Held
    <2> QED BY <2>1, <2>2, <2>3 DEF LocksInv, Each
  <1>2. CASE Next
    BY <1>2, SeedersLocks, IndexersLocks, IndexingLocks, SweepersLocks, SearchersLocks,
       EndingLocks DEF Next
  <1> QED BY <1>1, <1>2

------------------------------------------------------------------------------
(***************************************************************************)
(* The contents.  The chunk table is that of the documents, or empty;      *)
(* what an indexer has read of the documents is what they still are, or it *)
(* found none; a seeder that does not force writes where there are none;   *)
(* the manifest of a seeder about to commit is its own.                    *)
(***************************************************************************)
ChunksOK ==
    chunks = << >> \/ (documents \in Versions
                       /\ \E s \in Settings : chunks = Rows(Build(documents, s)))

IndexersOK ==
    \A x \in Indexers \cup Sweepers :
        proc[x].pc \in {"truncate", "commit"} => proc[x].version \in {None, documents}

WritersOK ==
    /\ \A p \in Seeders : Writing(p) /\ ~ proc[p].force => documents = None
    /\ \A p \in Seeders : proc[p].pc = "commit" => manifest = proc[p].version

ContentInv == ChunksOK /\ IndexersOK /\ WritersOK /\ ManifestIsOfTheDocuments

CorpusInv == LocksInv /\ ContentInv

(* The rows of a version: their places, and their chunks. *)
LEMMA RowsAre ==
    ASSUME NEW v \in Versions, NEW s \in Settings
    PROVE  /\ DOMAIN Rows(Build(v, s)) = 1 .. s
           /\ \A i \in 1 .. s : Rows(Build(v, s))[i] = <<v, s, i>>
           /\ Rows(Build(v, s)) = Build(v, s) /\ s \in Nat \ {0}
  <1>1. s \in Nat \ {0} /\ v # None
    BY CorpusAssumption
  <1>2. Build(v, s) = [i \in 1 .. s |-> <<v, s, i>>]
    BY <1>1 DEF Build
  <1>3. Len(Build(v, s)) = s
    BY <1>1, <1>2
  <1> QED BY <1>1, <1>2, <1>3 DEF Rows

(* No documents, no chunks. *)
LEMMA NoRows ==
    ASSUME NEW s
    PROVE  Rows(Build(None, s)) = << >>
  <1>1. Build(None, s) = [i \in 1 .. 0 |-> <<None, s, i>>]
    BY DEF Build
  <1>2. Len(Build(None, s)) = 0
    BY <1>1
  <1>3. Rows(Build(None, s)) = [id \in 1 .. 0 |-> Build(None, s)[id]]
    BY <1>2 DEF Rows
  <1> QED BY <1>3

(* A chunk table of that form has the right type. *)
LEMMA ContentTyped == ChunksOK => ContentTypes
  <1> SUFFICES ASSUME ChunksOK PROVE ContentTypes
    OBVIOUS
  <1>1. CASE chunks = << >>
    BY <1>1 DEF ContentTypes
  <1>2. ASSUME documents \in Versions, NEW s \in Settings, chunks = Rows(Build(documents, s))
        PROVE  ContentTypes
    <2> SUFFICES ASSUME NEW id \in DOMAIN chunks
                 PROVE  id \in Nat \ {0} /\ chunks[id] \in ChunkValues
      BY DEF ContentTypes
    <2>1. id \in 1 .. s /\ chunks[id] = <<documents, s, id>> /\ s \in Nat
      BY <1>2, RowsAre
    <2> QED BY <1>2, <2>1 DEF ChunkValues
  <1> QED BY <1>1, <1>2 DEF ChunksOK

(* Two seeders never write at a time. *)
LEMMA OneWrites ==
    ASSUME LocksInv, NEW p \in Seeders, NEW q \in Seeders, Writing(p), Writing(q)
    PROVE  p = q
  <1>1. p \in Procs /\ q \in Procs /\ "services" \in Tables /\ "write" \in Modes
    BY DEF Procs, Tables, Modes
  <1>2. Held(p, "services", "write") /\ Held(q, "services", "write")
    BY <1>1 DEF LocksInv, Each, Has
  <1>3. Conflict("write", "write")
    BY DEF Conflict
  <1> QED BY <1>1, <1>2, <1>3 DEF LocksInv, Compatible

(* A forced reload commits when no one is making chunks of what it replaces. *)
LEMMA NoneIndexes ==
    ASSUME LocksInv, NEW p \in Seeders, Writing(p), proc[p].force, NEW x \in Indexers \cup Sweepers
    PROVE  proc[x].pc \notin {"truncate", "commit"}
  <1>1. p \in Procs /\ x \in Procs /\ p # x /\ "documents" \in Tables
        /\ {"own", "read"} \subseteq Modes
    BY CorpusAssumption DEF Procs, Tables, Modes
  <1>2. Held(p, "documents", "own")
    BY <1>1 DEF LocksInv, Each, Has, Writing
  <1>3. Conflict("own", "read")
    BY DEF Conflict
  <1>4. ~ Held(x, "documents", "read")
    BY <1>1, <1>2, <1>3 DEF LocksInv, Compatible
  <1> QED BY <1>1, <1>4 DEF LocksInv, Each, Has

(* A step that leaves the three tables alone, of a process that keeps to the above. *)
LEMMA ContentKept ==
    ASSUME ContentInv, UNCHANGED <<documents, chunks, manifest>>, orphaned => orphaned',
           NEW p \in Procs,
           \A q \in Procs \ {p} :
               proc'[q].pc = proc[q].pc /\ proc'[q].version = proc[q].version
               /\ proc'[q].force = proc[q].force,
           p \in Indexers \cup Sweepers /\ proc'[p].pc \in {"truncate", "commit"} =>
               proc'[p].version \in {None, documents},
           p \in Seeders /\ proc'[p].pc \in {"manifest", "commit"} /\ ~ proc'[p].force =>
               documents = None,
           p \in Seeders /\ proc'[p].pc = "commit" => manifest = proc'[p].version,
           p \in Seeders /\ proc[p].pc = "commit" => orphaned'
    PROVE  ContentInv'
  <1>1. ChunksOK'
    BY DEF ContentInv, ChunksOK
  <1>2. IndexersOK'
    BY DEF ContentInv, IndexersOK, Procs
  <1>3. WritersOK'
    BY DEF ContentInv, WritersOK, Writing, Procs
  <1>4. ManifestIsOfTheDocuments'
    BY DEF ContentInv, ManifestIsOfTheDocuments, At, Procs
  <1> QED BY <1>1, <1>2, <1>3, <1>4 DEF ContentInv

(* A seeder's steps: it commits where no one can have read what it replaces. *)
LEMMA SeedersContent ==
    ASSUME NEW p \in Seeders, CorpusInv,
           \/ \E v \in Versions, force \in BOOLEAN : Seed(p, v, force)
           \/ CountServices(p) \/ \E i \in DOMAIN Truncated : TruncateNext(p, i)
           \/ Insert(p) \/ WriteManifest(p) \/ CommitSeeds(p)
    PROVE  ContentInv'
  <1> p \in Procs /\ p \notin Indexers \cup Sweepers \cup Searchers
    BY CorpusAssumption DEF Procs
  <1> Types /\ Each(p) /\ ContentInv /\ LocksInv
    BY DEF CorpusInv, LocksInv
  <1>1. ASSUME NEW v \in Versions, NEW force \in BOOLEAN, Seed(p, v, force)
        PROVE  ContentInv'
    <2> DEFINE r == [Off EXCEPT !.pc = "count", !.version = v, !.force = force]
    <2>1. r.pc = "count" /\ proc' = [proc EXCEPT ![p] = r] /\ At(p, "off")
      BY <1>1 DEF Seed, Off, Launchable
    <2> HIDE DEF r
    <2>2. proc'[p] = r /\ \A q \in Procs \ {p} : proc'[q] = proc[q]
      BY <2>1 DEF Types
    <2> QED BY <1>1, <2>1, <2>2, ContentKept DEF Seed, At
  <1>2. ASSUME UNCHANGED <<documents, chunks, manifest, orphaned>>, proc[p].pc # "commit",
               Exits(p) \/ \E pc \in Steps : Goto(p, pc) /\ pc # "commit"
                          /\ (pc = "manifest" /\ ~ proc[p].force => documents = None)
        PROVE  ContentInv'
    <2>1. CASE Exits(p)
      <3>1. proc'[p] = Off /\ \A q \in Procs \ {p} : proc'[q] = proc[q]
        BY <2>1 DEF Exits, Types
      <3> QED BY <1>2, <3>1, OffIs, ContentKept
    <2>2. ASSUME NEW pc \in Steps, Goto(p, pc), pc # "commit",
                 pc = "manifest" /\ ~ proc[p].force => documents = None
          PROVE  ContentInv'
      <3>1. proc'[p].pc = pc /\ proc'[p].force = proc[p].force
            /\ \A q \in Procs \ {p} : proc'[q] = proc[q]
        BY <2>2, GoesTo
      <3> QED BY <1>2, <2>2, <3>1, ContentKept
    <2> QED BY <1>2, <2>1, <2>2
  <1>3. CASE CountServices(p)
    BY <1>2, <1>3, TruncatedIs DEF CountServices, At, Steps, Tables
  <1>4. ASSUME NEW i \in DOMAIN Truncated, TruncateNext(p, i)
        PROVE  ContentInv'
    <2> DEFINE pc == IF i = Len(Truncated) THEN "insert" ELSE Truncated[i + 1]
    <2>1. i \in 1 .. 4
      BY TruncatedIs
    <2>2. pc \in Steps /\ pc \notin {"manifest", "commit"} /\ proc[p].pc # "commit"
      BY <1>4, <2>1, TruncatedIs DEF Steps, Tables, TruncateNext, At
    <2>3. Goto(p, pc) /\ UNCHANGED <<documents, chunks, manifest, orphaned>>
      BY <1>4 DEF TruncateNext
    <2> HIDE DEF pc
    <2> QED BY <1>2, <2>2, <2>3
  <1>5. CASE Insert(p)
    BY <1>2, <1>5 DEF Insert, At, Steps
  <1>6. CASE WriteManifest(p)
    <2>1. /\ proc'[p].pc = "commit" /\ proc'[p].force = proc[p].force
          /\ proc'[p].version = proc[p].version /\ proc[p].pc = "manifest"
          /\ \A q \in Procs \ {p} : proc'[q] = proc[q]
          /\ manifest' = proc[p].version /\ UNCHANGED <<documents, chunks, orphaned>>
      BY <1>6, GoesTo DEF WriteManifest, At, Steps
    <2>2. \A q \in Seeders \ {p} : proc[q].pc # "commit"
      BY <2>1, OneWrites DEF Writing
    <2>3. ChunksOK'
      BY <2>1 DEF ContentInv, ChunksOK
    <2>4. IndexersOK'
      BY <2>1 DEF ContentInv, IndexersOK, Procs
    <2>5. WritersOK'
      BY <2>1, <2>2 DEF ContentInv, WritersOK, Writing, Procs
    <2>6. ManifestIsOfTheDocuments'
      BY <2>1 DEF ManifestIsOfTheDocuments, At
    <2> QED BY <2>3, <2>4, <2>5, <2>6 DEF ContentInv
  <1>7. CASE CommitSeeds(p)
    <2> DEFINE v == proc[p].version
    <2>1. /\ proc[p].pc = "commit" /\ documents' = v /\ manifest' = manifest
          /\ orphaned' = orphaned
          /\ chunks' = (IF proc[p].force THEN << >> ELSE chunks)
          /\ \E new : proc' = [q \in Procs |-> IF q = p THEN Off
                                 ELSE IF q \in Searchers THEN Moved(new)[q] ELSE proc[q]]
      BY <1>7 DEF CommitSeeds, ExitsWith, At
    <2>2. /\ proc'[p] = Off
          /\ \A q \in Procs \ {p} :
                 /\ proc'[q].pc = proc[q].pc /\ proc'[q].version = proc[q].version
                 /\ proc'[q].force = proc[q].force
      BY <2>1, OthersMoved, OffIs
    <2>3. \A q \in Seeders \ {p} : ~ Writing(q)
      BY <2>1, OneWrites DEF Writing
    <2>4. manifest = v /\ v \in Versions
      BY <2>1 DEF ContentInv, WritersOK, Each, Kind
    <2>5. ~ proc[p].force => documents = None /\ chunks = << >>
      BY <2>1, CorpusAssumption DEF ContentInv, WritersOK, ChunksOK, Writing
    <2>6. ChunksOK'
      BY <2>1, <2>5 DEF ChunksOK
    <2>7. IndexersOK'
      <3>1. CASE proc[p].force
        BY <2>1, <2>2, <3>1, NoneIndexes DEF IndexersOK, Writing, Procs
      <3>2. CASE ~ proc[p].force
        BY <2>1, <2>2, <2>5, <3>2 DEF ContentInv, IndexersOK, Procs
      <3> QED BY <3>1, <3>2
    <2>8. WritersOK'
      BY <2>2, <2>3, OffIs DEF WritersOK, Writing, Procs
    <2>9. ManifestIsOfTheDocuments'
      BY <2>1, <2>4 DEF ManifestIsOfTheDocuments
    <2> QED BY <2>6, <2>7, <2>8, <2>9 DEF ContentInv
  <1> QED BY <1>1, <1>3, <1>4, <1>5, <1>6, <1>7

(* An indexer's commit makes chunks of what the documents still are. *)
LEMMA IndexingContent ==
    ASSUME NEW x \in Indexers \cup Sweepers, CorpusInv,
           BuildChunks(x) \/ TruncateAndCopy(x) \/ CommitIndex(x)
    PROVE  ContentInv'
  <1> x \in Procs /\ x \notin Seeders \cup Searchers
    BY CorpusAssumption DEF Procs
  <1> Types /\ Each(x) /\ ContentInv /\ LocksInv
    BY DEF CorpusInv, LocksInv
  <1>1. CASE BuildChunks(x)
    <2> DEFINE r == [proc[x] EXCEPT !.pc = "truncate", !.version = documents]
    <2>1. r.version = documents /\ proc' = [proc EXCEPT ![x] = r]
      BY <1>1 DEF BuildChunks, Types, Processes
    <2> HIDE DEF r
    <2>2. proc'[x] = r /\ \A q \in Procs \ {x} : proc'[q] = proc[q]
      BY <2>1 DEF Types
    <2> QED BY <1>1, <2>1, <2>2, ContentKept DEF BuildChunks
  <1>2. CASE TruncateAndCopy(x)
    <2>1. /\ proc[x].pc = "truncate" /\ proc'[x].version = proc[x].version
          /\ \A q \in Procs \ {x} : proc'[q] = proc[q]
      BY <1>2, GoesTo DEF TruncateAndCopy, At, Steps
    <2> QED BY <1>2, <2>1, ContentKept DEF TruncateAndCopy, ContentInv, IndexersOK
  <1>3. CASE CommitIndex(x)
    <2> DEFINE s == Head(proc[x].left)
    <2>1. /\ proc[x].pc = "commit" /\ UNCHANGED <<documents, manifest, orphaned>>
          /\ chunks' = Rows(Build(proc[x].version, s))
      BY <1>3 DEF CommitIndex, At
    <2>2. s \in Settings
      BY <2>1 DEF Types, Processes, Each, Kind
    <2> HIDE DEF s
    <2>3. /\ proc'[x].pc \in {"off", "measure"}
          /\ \A q \in Procs \ {x} :
                 /\ proc'[q].pc = proc[q].pc /\ proc'[q].version = proc[q].version
                 /\ proc'[q].force = proc[q].force
      <3>1. CASE proc[x].chosen
        <4>1. \E new : proc' = [q \in Procs |-> IF q = x THEN Off
                                  ELSE IF q \in Searchers THEN Moved(new)[q] ELSE proc[q]]
          BY <1>3, <3>1 DEF CommitIndex, ExitsWith
        <4> QED BY <4>1, OthersMoved, OffIs
      <3>2. CASE ~ proc[x].chosen
        <4> DEFINE r == [proc[x] EXCEPT !.pc = "measure"]
        <4>1. r \in Processes /\ r.pc = "measure"
          BY DEF Types, Processes, Steps
        <4>2. \E new : proc' = [q \in Procs |-> IF q = x THEN r
                                  ELSE IF q \in Searchers THEN Moved(new)[q] ELSE proc[q]]
          BY <1>3, <3>2 DEF CommitIndex
        <4> HIDE DEF r
        <4> QED BY <4>1, <4>2, OthersMoved
      <3> QED BY <3>1, <3>2
    <2>4. ChunksOK'
      <3>1. proc[x].version = None \/ (proc[x].version = documents /\ documents \in Versions)
        BY <2>1 DEF ContentInv, IndexersOK, Types
      <3>2. CASE proc[x].version = None
        BY <2>1, <3>2, NoRows DEF ChunksOK
      <3>3. CASE proc[x].version = documents /\ documents \in Versions
        BY <2>1, <2>2, <3>3 DEF ChunksOK
      <3> QED BY <3>1, <3>2, <3>3
    <2>5. IndexersOK'
      BY <2>1, <2>3 DEF ContentInv, IndexersOK, Procs
    <2>6. WritersOK'
      BY <2>1, <2>3 DEF ContentInv, WritersOK, Writing, Procs
    <2>7. ManifestIsOfTheDocuments'
      BY <2>1, <2>3 DEF ContentInv, ManifestIsOfTheDocuments, At, Procs
    <2> QED BY <2>4, <2>5, <2>6, <2>7 DEF ContentInv
  <1> QED BY <1>1, <1>2, <1>3

(* The steps that neither write a table nor read the documents to make chunks of. *)
LEMMA OthersContent ==
    ASSUME CorpusInv, NEW p \in Procs,
           \/ p \in Indexers /\ (CountDocuments(p) \/ \E s \in Settings : IndexMain(p, s))
           \/ p \in Sweepers /\ (Sweep(p) \/ Measure(p) \/ Score(p))
           \/ p \in Searchers /\ (\/ Search(p) \/ Rank(p, "vector", "keyword")
                                  \/ Rank(p, "keyword", "fetch") \/ Fetch(p) \/ Hydrate(p))
    PROVE  ContentInv'
  <1> Types /\ LocksInv
    BY DEF CorpusInv, LocksInv
  <1>1. p \notin Seeders
    BY CorpusAssumption
  <1>2. UNCHANGED <<documents, chunks, manifest, orphaned>>
    BY DEF CountDocuments, IndexMain, Sweep, Measure, Score, Search, Rank, Fetch, Hydrate
  <1>3. ASSUME NEW r, r.pc \notin {"manifest", "commit", "truncate"},
               proc' = [proc EXCEPT ![p] = r]
        PROVE  ContentInv'
    <2>1. proc'[p] = r /\ \A q \in Procs \ {p} : proc'[q] = proc[q]
      BY <1>3 DEF Types
    <2> QED BY <1>1, <1>2, <1>3, <2>1, ContentKept DEF CorpusInv
  <1>4. ASSUME NEW pc, pc \notin {"manifest", "commit", "truncate"}, Goto(p, pc)
        PROVE  ContentInv'
    <2> DEFINE r == [proc[p] EXCEPT !.pc = pc]
    <2>1. r.pc = pc /\ proc' = [proc EXCEPT ![p] = r]
      BY <1>4 DEF Goto, Types, Processes
    <2> HIDE DEF r
    <2> QED BY <1>3, <1>4, <2>1
  <1>5. CASE Exits(p)
    BY <1>3, <1>5, OffIs DEF Exits
  <1>6. ASSUME NEW s \in Settings, IndexMain(p, s) PROVE ContentInv'
    <2> DEFINE r == [Off EXCEPT !.pc = "count", !.left = <<s>>, !.chosen = TRUE]
    <2>1. r.pc = "count" /\ proc' = [proc EXCEPT ![p] = r]
      BY <1>6 DEF IndexMain, Off
    <2> HIDE DEF r
    <2> QED BY <1>3, <2>1
  <1>7. CASE Sweep(p)
    <2> DEFINE r == [Off EXCEPT !.pc = "build", !.left = Grid]
    <2>1. r.pc = "build" /\ proc' = [proc EXCEPT ![p] = r]
      BY <1>7 DEF Sweep, Off
    <2> HIDE DEF r
    <2> QED BY <1>3, <2>1
  <1>8. CASE Score(p)
    <2>1. CASE Len(proc[p].left) > 1
      <3> DEFINE r == [proc[p] EXCEPT !.pc = "build", !.left = Tail(proc[p].left)]
      <3>1. r.pc = "build" /\ proc' = [proc EXCEPT ![p] = r]
        BY <1>8, <2>1 DEF Score, Types, Processes
      <3> HIDE DEF r
      <3> QED BY <1>3, <3>1
    <2>2. CASE ~ (Len(proc[p].left) > 1)
      <3>1. PICK s \in Range(Grid) :
                proc' = [proc EXCEPT ![p] =
                            [@ EXCEPT !.pc = "build", !.left = <<s>>, !.chosen = TRUE]]
        BY <1>8, <2>2 DEF Score
      <3> DEFINE r == [proc[p] EXCEPT !.pc = "build", !.left = <<s>>, !.chosen = TRUE]
      <3>2. r.pc = "build" /\ proc' = [proc EXCEPT ![p] = r]
        BY <3>1 DEF Types, Processes
      <3> HIDE DEF r
      <3> QED BY <1>3, <3>2
    <2> QED BY <2>1, <2>2
  <1>9. ASSUME NEW pc, NEW next, next \in {"keyword", "fetch"}, Rank(p, pc, next)
        PROVE  ContentInv'
    <2>1. CASE proc' = [proc EXCEPT ![p].pc = next]
      BY <1>4, <1>9, <2>1 DEF Goto
    <2>2. ASSUME NEW id \in DOMAIN chunks,
                 proc' = [proc EXCEPT ![p] =
                            [@ EXCEPT !.pc = next, !.ids = proc[p].ids \cup {id},
                                      !.ranked = proc[p].ranked \cup {chunks[id]}]]
          PROVE  ContentInv'
      <3> DEFINE r == [proc[p] EXCEPT !.pc = next, !.ids = proc[p].ids \cup {id},
                                      !.ranked = proc[p].ranked \cup {chunks[id]}]
      <3>1. r.pc = next /\ proc' = [proc EXCEPT ![p] = r]
        BY <2>2 DEF Types, Processes
      <3> HIDE DEF r
      <3> QED BY <1>3, <1>9, <3>1
    <2> QED BY <1>9, <2>1, <2>2 DEF Rank
  <1>10. CASE Fetch(p)
    <2> DEFINE f == {chunks[id] : id \in proc[p].ids \cap DOMAIN chunks}
               r == [proc[p] EXCEPT !.pc = "hydrate", !.found = f]
    <2>1. r.pc = "hydrate" /\ proc' = [proc EXCEPT ![p] = r]
      BY <1>10 DEF Fetch, Types, Processes
    <2> HIDE DEF r
    <2> QED BY <1>3, <2>1
  <1> QED BY <1>4, <1>5, <1>6, <1>7, <1>8, <1>9, <1>10
       DEF CountDocuments, Measure, Search, Hydrate

(* A process that is ended; no one at a commit waits for a lock. *)
LEMMA EndingContent ==
    ASSUME NEW p \in Procs, CorpusInv, Kill(p) \/ DeadlockVictim(p)
    PROVE  ContentInv'
  <1> Types /\ LocksInv /\ ContentInv
    BY DEF CorpusInv, LocksInv
  <1>1. proc'[p] = Off /\ \A q \in Procs \ {p} : proc'[q] = proc[q]
    BY DEF Kill, DeadlockVictim, Exits, Types
  <1>2. UNCHANGED <<documents, chunks, manifest>> /\ (orphaned => orphaned')
    <2>1. UNCHANGED <<documents, chunks, manifest>>
      BY DEF Kill, DeadlockVictim
    <2>2. CASE Kill(p)
      BY <2>1, <2>2 DEF Kill, Types
    <2>3. CASE DeadlockVictim(p)
      BY <2>1, <2>3 DEF DeadlockVictim
    <2> QED BY <2>1, <2>2, <2>3
  <1>3. p \in Seeders /\ proc[p].pc = "commit" => orphaned'
    <2>1. CASE Kill(p)
      BY <2>1 DEF Kill, At
    <2>2. CASE DeadlockVictim(p)
      <3>1. p \in Waiting
        BY <2>2 DEF DeadlockVictim
      <3>2. Request(p) # {}
        BY <3>1 DEF Waiting, Granted, Blocks
      <3> QED BY <3>2, SeederRequest
    <2> QED BY <2>1, <2>2
  <1> QED BY <1>1, <1>2, <1>3, OffIs, ContentKept

(* The empty database is consistent. *)
LEMMA InitContent == Init => ContentInv
  <1> SUFFICES ASSUME Init PROVE ContentInv
    OBVIOUS
  <1>1. ChunksOK /\ ManifestIsOfTheDocuments
    BY DEF Init, ChunksOK, ManifestIsOfTheDocuments
  <1>2. \A p \in Procs : proc[p].pc = "off"
    BY OffIs DEF Init
  <1>3. IndexersOK /\ WritersOK
    BY <1>2 DEF IndexersOK, WritersOK, Writing, Procs
  <1> QED BY <1>1, <1>3 DEF ContentInv

(* Every step keeps the contents as said. *)
LEMMA NextContent == CorpusInv /\ [Next]_vars => ContentInv'
  <1> SUFFICES ASSUME CorpusInv, [Next]_vars PROVE ContentInv'
    OBVIOUS
  <1>1. CASE UNCHANGED vars
    BY <1>1 DEF vars, CorpusInv, ContentInv, ChunksOK, IndexersOK, WritersOK, Writing,
                ManifestIsOfTheDocuments, At
  <1>2. CASE Next
    BY <1>2, SeedersContent, IndexingContent, OthersContent, EndingContent DEF Next, Procs
  <1> QED BY <1>1, <1>2

(* The inductive invariant: every process has the locks it needs and no others, no two
   locks conflict, and the tables are as said. *)
THEOREM CorpusInvariance == Spec => []CorpusInv
  <1>1. Init => CorpusInv
    BY InitLocks, InitContent DEF CorpusInv
  <1>2. CorpusInv /\ [Next]_vars => CorpusInv'
    BY NextLocks, NextContent, ContentTyped DEF CorpusInv, ContentInv
  <1> QED BY <1>1, <1>2, PTL DEF Spec

(* The chunk table, whenever someone looks, is that of the documents beside it,
   whole and of one setting, or empty; and the manifest the scenarios are made from is
   that of the documents, unless a seeder was killed between writing it and
   committing: whatever reloads, indexes, sweeps, searches and deaths
   (generate.load and main, indexer.index and main, retrieval_eval.run_sweep). *)
THEOREM OneVersion == Spec => []CorpusIsConsistent
  <1>1. CorpusInv => CorpusIsConsistent
    <2> SUFFICES ASSUME CorpusInv PROVE CorpusIsConsistent
      OBVIOUS
    <2>1. ManifestIsOfTheDocuments
      BY DEF CorpusInv, ContentInv
    <2>2. ChunksAreOfTheDocuments
      <3> SUFFICES ASSUME chunks # << >>
                   PROVE  \E s \in Settings : Range(chunks) = Range(Build(documents, s))
        BY DEF ChunksAreOfTheDocuments
      <3>1. PICK s \in Settings : documents \in Versions /\ chunks = Rows(Build(documents, s))
        BY DEF CorpusInv, ContentInv, ChunksOK
      <3>2. chunks = Build(documents, s)
        BY <3>1, RowsAre
      <3> QED BY <3>2
    <2> QED BY <2>1, <2>2 DEF CorpusIsConsistent
  <1> QED BY <1>1, CorpusInvariance, PTL

------------------------------------------------------------------------------
(***************************************************************************)
(* The searches.  Until the chunks become others, what a search ranked is  *)
(* what is under the ids it keeps.  Tables with the same chunks are the    *)
(* same table: they are in the order of the documents.                     *)
(***************************************************************************)
SearchOK ==
    \A a \in Searchers : ~ proc[a].moved =>
        /\ proc[a].ids \subseteq DOMAIN chunks
        /\ proc[a].ranked = {chunks[id] : id \in proc[a].ids}
        /\ proc[a].pc = "hydrate" => proc[a].found = proc[a].ranked

(* Versions and settings with the same chunks are the same. *)
LEMMA SameRows ==
    ASSUME NEW v \in Versions, NEW u \in Versions, NEW s \in Settings, NEW t \in Settings,
           Range(Rows(Build(v, s))) = Range(Rows(Build(u, t)))
    PROVE  Rows(Build(v, s)) = Rows(Build(u, t))
  <1> DEFINE f == Rows(Build(v, s))
             g == Rows(Build(u, t))
  <1>1. /\ DOMAIN f = 1 .. s /\ s \in Nat \ {0} /\ \A i \in 1 .. s : f[i] = <<v, s, i>>
        /\ DOMAIN g = 1 .. t /\ t \in Nat \ {0} /\ \A i \in 1 .. t : g[i] = <<u, t, i>>
    BY RowsAre
  <1>2. f[1] \in Range(f)
    BY <1>1 DEF Range
  <1>3. f[1] \in Range(g)
    BY <1>2
  <1>4. PICK i \in 1 .. t : f[1] = g[i]
    BY <1>1, <1>3 DEF Range
  <1>5. v = u /\ s = t
    BY <1>1, <1>4
  <1> QED BY <1>5

(* A table replaced with the same chunks is the same table. *)
LEMMA SameTable ==
    ASSUME CorpusInv, CorpusInv', Range(chunks') = Range(chunks)
    PROVE  chunks' = chunks
  <1> USE DEF CorpusInv, ContentInv, ChunksOK
  <1>1. CASE chunks = << >> /\ chunks' = << >>
    BY <1>1
  <1>2. CASE chunks = << >> /\ chunks' # << >>
    <2>1. PICK s \in Settings : documents' \in Versions /\ chunks' = Rows(Build(documents', s))
      BY <1>2
    <2>2. chunks'[1] \in Range(chunks')
      BY <2>1, RowsAre DEF Range
    <2> QED BY <1>2, <2>2 DEF Range
  <1>3. CASE chunks # << >> /\ chunks' = << >>
    <2>1. PICK s \in Settings : documents \in Versions /\ chunks = Rows(Build(documents, s))
      BY <1>3
    <2>2. chunks[1] \in Range(chunks)
      BY <2>1, RowsAre DEF Range
    <2> QED BY <1>3, <2>2 DEF Range
  <1>4. CASE chunks # << >> /\ chunks' # << >>
    <2>1. PICK s \in Settings : documents \in Versions /\ chunks = Rows(Build(documents, s))
      BY <1>4
    <2>2. PICK t \in Settings : documents' \in Versions /\ chunks' = Rows(Build(documents', t))
      BY <1>4
    <2> QED BY <2>1, <2>2, SameRows
  <1> QED BY <1>1, <1>2, <1>3, <1>4

(* Steps that touch neither the chunks nor a search. *)
LEMMA SearchKept ==
    ASSUME SearchOK, UNCHANGED chunks, \A a \in Searchers : proc'[a] = proc[a]
    PROVE  SearchOK'
  BY DEF SearchOK

(* A commit, which tells the searches when the chunks become others. *)
LEMMA SearchTold ==
    ASSUME SearchOK, CorpusInv, CorpusInv', NEW p \in Procs \ Searchers, NEW r,
           proc' = [q \in Procs |-> IF q = p THEN r
                                    ELSE IF q \in Searchers THEN Moved(chunks')[q] ELSE proc[q]]
    PROVE  SearchOK'
  <1> SUFFICES ASSUME NEW a \in Searchers, ~ proc'[a].moved
               PROVE  /\ proc'[a].ids \subseteq DOMAIN chunks'
                      /\ proc'[a].ranked = {chunks'[id] : id \in proc'[a].ids}
                      /\ proc'[a].pc = "hydrate" => proc'[a].found = proc'[a].ranked
    BY DEF SearchOK
  <1>1. proc'[a] = [proc[a] EXCEPT !.moved = proc[a].moved
                        \/ (proc[a].ids # {} /\ Range(chunks') # Range(chunks))]
    BY DEF Moved, Procs
  <1>2. proc[a] \in Processes
    BY DEF CorpusInv, LocksInv, Types, Procs
  <1>3. /\ proc'[a].ids = proc[a].ids /\ proc'[a].ranked = proc[a].ranked
        /\ proc'[a].found = proc[a].found /\ proc'[a].pc = proc[a].pc
        /\ ~ proc[a].moved /\ (proc[a].ids = {} \/ Range(chunks') = Range(chunks))
    <2> DEFINE b == proc[a].moved \/ (proc[a].ids # {} /\ Range(chunks') # Range(chunks))
    <2>1. proc'[a] = [proc[a] EXCEPT !.moved = b]
      BY <1>1
    <2>2. b <=> proc[a].moved \/ (proc[a].ids # {} /\ Range(chunks') # Range(chunks))
      OBVIOUS
    <2> HIDE DEF b
    <2>3. /\ proc'[a].ids = proc[a].ids /\ proc'[a].ranked = proc[a].ranked
          /\ proc'[a].found = proc[a].found /\ proc'[a].pc = proc[a].pc
          /\ proc'[a].moved = b
      BY <1>2, <2>1 DEF Processes
    <2>4. ~ b
      BY <2>3
    <2> QED BY <2>2, <2>3, <2>4
  <1>4. CASE proc[a].ids = {}
    BY <1>3, <1>4 DEF SearchOK
  <1>5. CASE Range(chunks') = Range(chunks)
    BY <1>3, <1>5, SameTable DEF SearchOK
  <1> QED BY <1>3, <1>4, <1>5

(* The search's own steps. *)
LEMMA SearchersSearch ==
    ASSUME SearchOK, CorpusInv, NEW a \in Searchers,
           \/ Search(a) \/ Rank(a, "vector", "keyword") \/ Rank(a, "keyword", "fetch")
           \/ Fetch(a) \/ Hydrate(a)
    PROVE  SearchOK'
  <1> a \in Procs /\ Types /\ proc[a] \in Processes
    BY DEF Procs, CorpusInv, LocksInv, Types
  <1>1. UNCHANGED chunks
    BY DEF Search, Rank, Fetch, Hydrate
  <1>2. ASSUME NEW r, proc' = [proc EXCEPT ![a] = r],
               ~ r.moved =>
                   /\ r.ids \subseteq DOMAIN chunks
                   /\ r.ranked = {chunks[id] : id \in r.ids}
                   /\ r.pc = "hydrate" => r.found = r.ranked
        PROVE  SearchOK'
    <2>1. proc'[a] = r /\ \A q \in Searchers \ {a} : proc'[q] = proc[q]
      BY <1>2 DEF Types, Procs
    <2> QED BY <1>1, <1>2, <2>1 DEF SearchOK
  <1>3. ASSUME NEW pc, pc # "hydrate", proc' = [proc EXCEPT ![a].pc = pc]
        PROVE  SearchOK'
    <2> DEFINE r == [proc[a] EXCEPT !.pc = pc]
    <2>1. /\ r.pc = pc /\ r.ids = proc[a].ids /\ r.ranked = proc[a].ranked
          /\ r.moved = proc[a].moved /\ proc' = [proc EXCEPT ![a] = r]
      BY <1>3 DEF Processes
    <2> HIDE DEF r
    <2> QED BY <1>2, <1>3, <2>1 DEF SearchOK
  <1>4. ASSUME NEW pc, NEW next, next \in {"keyword", "fetch"}, Rank(a, pc, next)
        PROVE  SearchOK'
    <2>1. CASE proc' = [proc EXCEPT ![a].pc = next]
      BY <1>3, <1>4, <2>1
    <2>2. ASSUME NEW id \in DOMAIN chunks,
                 proc' = [proc EXCEPT ![a] =
                            [@ EXCEPT !.pc = next, !.ids = proc[a].ids \cup {id},
                                      !.ranked = proc[a].ranked \cup {chunks[id]}]]
          PROVE  SearchOK'
      <3> DEFINE r == [proc[a] EXCEPT !.pc = next, !.ids = proc[a].ids \cup {id},
                                      !.ranked = proc[a].ranked \cup {chunks[id]}]
      <3>1. /\ r.pc = next /\ r.ids = proc[a].ids \cup {id}
            /\ r.ranked = proc[a].ranked \cup {chunks[id]}
            /\ r.moved = proc[a].moved /\ proc' = [proc EXCEPT ![a] = r]
        BY <2>2 DEF Processes
      <3> HIDE DEF r
      <3>2. ASSUME ~ r.moved
            PROVE  /\ r.ids \subseteq DOMAIN chunks
                   /\ r.ranked = {chunks[j] : j \in r.ids}
        <4>1. /\ proc[a].ids \subseteq DOMAIN chunks
              /\ proc[a].ranked = {chunks[j] : j \in proc[a].ids}
          BY <3>1, <3>2 DEF SearchOK
        <4>2. {chunks[j] : j \in proc[a].ids \cup {id}} =
                  {chunks[j] : j \in proc[a].ids} \cup {chunks[id]}
          OBVIOUS
        <4> QED BY <3>1, <4>1, <4>2
      <3> QED BY <1>2, <1>4, <3>1, <3>2
    <2> QED BY <1>4, <2>1, <2>2 DEF Rank
  <1>5. CASE Fetch(a)
    <2> DEFINE f == {chunks[id] : id \in proc[a].ids \cap DOMAIN chunks}
               r == [proc[a] EXCEPT !.pc = "hydrate", !.found = f]
    <2>1. /\ r.pc = "hydrate" /\ r.ids = proc[a].ids /\ r.ranked = proc[a].ranked
          /\ r.found = f /\ r.moved = proc[a].moved /\ proc' = [proc EXCEPT ![a] = r]
      BY <1>5 DEF Fetch, Processes
    <2>2. ~ proc[a].moved => f = proc[a].ranked
      BY DEF SearchOK
    <2> HIDE DEF r, f
    <2> QED BY <1>2, <2>1, <2>2 DEF SearchOK
  <1>6. CASE Hydrate(a)
    <2>1. /\ Off.ids = {} /\ Off.ranked = {} /\ Off.pc = "off"
          /\ proc' = [proc EXCEPT ![a] = Off]
      BY <1>6 DEF Hydrate, Exits, Off
    <2> QED BY <1>2, <2>1
  <1>7. CASE Search(a)
    BY <1>3, <1>7 DEF Search, Goto
  <1> QED BY <1>4, <1>5, <1>6, <1>7

(* The steps of the others. *)
LEMMA WritersSearch ==
    ASSUME SearchOK, CorpusInv, CorpusInv',
           \/ \E p \in Seeders : CommitSeeds(p)
           \/ \E x \in Indexers \cup Sweepers : CommitIndex(x)
    PROVE  SearchOK'
  <1>1. ASSUME NEW p \in Seeders, CommitSeeds(p) PROVE SearchOK'
    <2>1. p \in Procs \ Searchers
      BY CorpusAssumption DEF Procs
    <2> QED BY <1>1, <2>1, SearchTold DEF CommitSeeds, ExitsWith
  <1>2. ASSUME NEW x \in Indexers \cup Sweepers, CommitIndex(x) PROVE SearchOK'
    <2>1. x \in Procs \ Searchers
      BY CorpusAssumption DEF Procs
    <2>2. CASE proc[x].chosen
      BY <1>2, <2>1, <2>2, SearchTold DEF CommitIndex, ExitsWith
    <2>3. CASE ~ proc[x].chosen
      BY <1>2, <2>1, <2>3, SearchTold DEF CommitIndex
    <2> QED BY <2>2, <2>3
  <1> QED BY <1>1, <1>2

(* Every other step but a search's own leaves chunks and searches alone. *)
LEMMA OthersSearch ==
    ASSUME SearchOK, CorpusInv,
           \/ \E p \in Seeders :
                  \/ \E v \in Versions, force \in BOOLEAN : Seed(p, v, force)
                  \/ CountServices(p) \/ \E i \in DOMAIN Truncated : TruncateNext(p, i)
                  \/ Insert(p) \/ WriteManifest(p)
           \/ \E x \in Indexers : CountDocuments(x) \/ \E s \in Settings : IndexMain(x, s)
           \/ \E x \in Indexers \cup Sweepers : BuildChunks(x) \/ TruncateAndCopy(x)
           \/ \E w \in Sweepers : Sweep(w) \/ Measure(w) \/ Score(w)
    PROVE  SearchOK'
  <1>1. UNCHANGED chunks
    BY DEF Seed, CountServices, TruncateNext, Insert, WriteManifest, CountDocuments, IndexMain,
           BuildChunks, TruncateAndCopy, Sweep, Measure, Score
  <1>2. PICK p \in Procs \ Searchers :
            Exits(p) \/ (\E pc : Goto(p, pc)) \/ \E r : proc' = [proc EXCEPT ![p] = r]
    BY CorpusAssumption
       DEF Procs, Seed, CountServices, TruncateNext, Insert, WriteManifest, CountDocuments,
           IndexMain, BuildChunks, TruncateAndCopy, Sweep, Measure, Score
  <1>3. \A a \in Searchers : proc'[a] = proc[a]
    BY <1>2 DEF Exits, Goto, Procs, CorpusInv, LocksInv, Types
  <1> QED BY <1>1, <1>3, SearchKept

(* A process that is ended takes no chunk with it. *)
LEMMA EndingSearch ==
    ASSUME SearchOK, CorpusInv, NEW p \in Procs, Kill(p) \/ DeadlockVictim(p)
    PROVE  SearchOK'
  <1>1. UNCHANGED chunks /\ proc' = [proc EXCEPT ![p] = Off]
    BY DEF Kill, DeadlockVictim, Exits
  <1>2. Off.ids = {} /\ Off.ranked = {} /\ Off.pc = "off"
    BY DEF Off
  <1>3. \A a \in Searchers : proc'[a] = proc[a] \/ proc'[a] = Off
    BY <1>1 DEF Procs, CorpusInv, LocksInv, Types
  <1> QED BY <1>1, <1>2, <1>3 DEF SearchOK

SearchInv == CorpusInv /\ SearchOK

(* The inductive invariant, with the searches. *)
THEOREM SearchInvariance == Spec => []SearchInv
  <1>1. Init => SearchOK
    <2>1. Off.ids = {} /\ Off.ranked = {} /\ Off.pc = "off"
      BY DEF Off
    <2> QED BY <2>1 DEF Init, SearchOK, Procs
  <1>2. SearchOK /\ CorpusInv /\ CorpusInv' /\ [Next]_vars => SearchOK'
    <2> SUFFICES ASSUME SearchOK, CorpusInv, CorpusInv', [Next]_vars PROVE SearchOK'
      OBVIOUS
    <2>1. CASE UNCHANGED vars
      BY <2>1 DEF vars, SearchOK
    <2>2. CASE Next
      BY <2>2, SearchersSearch, WritersSearch, OthersSearch, EndingSearch DEF Next
    <2> QED BY <2>1, <2>2
  <1> QED BY <1>1, <1>2, CorpusInvariance, PTL DEF Spec, SearchInv

(* A search that ranks chunks by their ids and fetches them after finds the chunks it
   ranked, of the documents whose titles it reads, unless the chunks became others
   under it: replacing the chunk table with the same chunks is as if nothing had been
   done (retrieval._search, hydrate; indexer.index). *)
THEOREM SearchSurvives == Spec => SearchSurvivesReindexing
  <1>1. SearchInv /\ [Next]_vars =>
            [\A a \in Searchers : At(a, "hydrate") /\ At(a, "off")' /\ ~ proc[a].moved =>
                /\ proc[a].found = proc[a].ranked
                /\ \A c \in proc[a].found : c[1] = documents]_vars
    <2> SUFFICES ASSUME SearchInv, NEW a \in Searchers, At(a, "hydrate"), ~ proc[a].moved
                 PROVE  /\ proc[a].found = proc[a].ranked
                        /\ \A c \in proc[a].found : c[1] = documents
      OBVIOUS
    <2>1. /\ proc[a].found = proc[a].ranked /\ proc[a].ids \subseteq DOMAIN chunks
          /\ proc[a].ranked = {chunks[id] : id \in proc[a].ids}
      BY DEF SearchInv, SearchOK, At
    <2>2. \A id \in DOMAIN chunks : chunks[id][1] = documents
      <3>1. CASE chunks = << >>
        BY <3>1
      <3>2. CASE chunks # << >>
        <4>1. PICK s \in Settings :
                  documents \in Versions /\ chunks = Rows(Build(documents, s))
          BY <3>2 DEF SearchInv, CorpusInv, ContentInv, ChunksOK
        <4>2. \A id \in DOMAIN chunks : chunks[id] = <<documents, s, id>>
          BY <4>1, RowsAre
        <4> QED BY <4>2
      <3> QED BY <3>1, <3>2
    <2> QED BY <2>1, <2>2
  <1> QED BY <1>1, SearchInvariance, PTL DEF Spec, SearchSurvivesReindexing

------------------------------------------------------------------------------
(***************************************************************************)
(* The deadlocks.  In a circle of waits no one waits for documents, for    *)
(* the logs, or to read the chunks: only a seeder could be in the way, and *)
(* it would have to wait itself, which the order of its TRUNCATE excludes. *)
(* What is left are seeders that wait for the services or the logs, and    *)
(* indexers and sweepers that wait for chunks sweepers have read.          *)
(***************************************************************************)
LEMMA WaitsFor ==
    ASSUME LocksInv, NEW S \in SUBSET Waiting, Knot(S), NEW p \in S
    PROVE  \E q \in S, t \in Tables, m \in Modes, o \in Modes :
               q # p /\ Held(q, t, m) /\ <<t, o>> \in Request(p) /\ Conflict(o, m)
  <1>1. PICK q \in S : Blocks(q, p)
    BY DEF Knot
  <1>2. PICK l \in locks, r \in Request(p) :
            q # p /\ l[1] = q /\ l[2] = r[1] /\ Conflict(r[2], l[3])
    BY <1>1 DEF Blocks
  <1>3. l \in Procs \X Tables \X Modes /\ r \in Tables \X Modes
    BY RequestType DEF LocksInv, Types, Each, Waiting
  <1>4. l = <<q, r[1], l[3]>> /\ r = <<r[1], r[2]>>
    BY <1>2, <1>3
  <1> QED BY <1>2, <1>3, <1>4 DEF Held

(* Where those who wait are, and what they can have there. *)
LEMMA InAKnot ==
    ASSUME LocksInv, NEW S \in SUBSET Waiting, NEW p \in S
    PROVE  /\ p \in Procs
           /\ p \in Seeders => proc[p].pc \in Tables \cup {"count", "insert"}
           /\ p \in Indexers => proc[p].pc \in {"count", "build", "truncate"}
           /\ p \in Sweepers => proc[p].pc \in {"build", "truncate", "measure", "score"}
           /\ p \in Searchers => proc[p].pc \in {"vector", "keyword", "fetch", "hydrate"}
           /\ \A t \in Tables, m \in Modes : Held(p, t, m) =>
                  /\ p \notin Searchers
                  /\ p \in Seeders /\ t = "log_entries" =>
                         proc[p].pc \in {"documents", "chunks", "insert"}
                  /\ p \in Seeders /\ t = "documents" => proc[p].pc \in {"chunks", "insert"}
                  /\ p \in Seeders /\ t = "chunks" => proc[p].pc = "insert"
                  /\ p \in Seeders /\ t # "services" => proc[p].force
                  /\ p \in Indexers => t = "documents" /\ m = "read"
                  /\ p \in Sweepers => m = "read" /\ t # "services"
                  /\ p \in Sweepers /\ t = "chunks" => proc[p].pc \in {"build", "truncate"}
  <1>1. p \in Procs /\ Each(p)
    BY DEF LocksInv, Waiting
  <1>2. Request(p) # {}
    BY DEF Waiting, Granted, Blocks
  <1>3. p \in Seeders => proc[p].pc \in Tables \cup {"count", "insert"}
    BY <1>1, <1>2, SeederRequest DEF Each, Kind
  <1>4. /\ p \in Indexers => proc[p].pc \in {"count", "build", "truncate"}
        /\ p \in Sweepers => proc[p].pc \in {"build", "truncate", "measure", "score"}
    BY <1>1, <1>2, IndexRequest DEF Each, Kind
  <1>5. p \in Searchers => proc[p].pc \in {"vector", "keyword", "fetch", "hydrate"}
    BY <1>1, <1>2, SearcherRequest DEF Each, Kind
  <1>6. ASSUME NEW t \in Tables, NEW m \in Modes, Held(p, t, m)
        PROVE  /\ p \notin Searchers
               /\ p \in Seeders /\ t = "log_entries" =>
                      proc[p].pc \in {"documents", "chunks", "insert"}
               /\ p \in Seeders /\ t = "documents" => proc[p].pc \in {"chunks", "insert"}
               /\ p \in Seeders /\ t = "chunks" => proc[p].pc = "insert"
               /\ p \in Seeders /\ t # "services" => proc[p].force
               /\ p \in Indexers => t = "documents" /\ m = "read"
               /\ p \in Sweepers => m = "read" /\ t # "services"
               /\ p \in Sweepers /\ t = "chunks" => proc[p].pc \in {"build", "truncate"}
    <2> Only(p)
      BY <1>1 DEF Each
    <2>1. CASE p \in Seeders
      BY <1>3, <1>6, <2>1, CorpusAssumption DEF Only, Tables
    <2>2. CASE p \in Indexers
      BY <1>4, <1>6, <2>2, CorpusAssumption DEF Only
    <2>3. CASE p \in Sweepers
      BY <1>4, <1>6, <2>3, CorpusAssumption DEF Only
    <2>4. CASE p \in Searchers
      BY <1>6, <2>4 DEF Only
    <2> QED BY <1>1, <2>1, <2>2, <2>3, <2>4 DEF Procs
  <1> QED BY <1>1, <1>3, <1>4, <1>5, <1>6

(* A lock of its own excludes every other lock of the table. *)
LEMMA OwnExcludes ==
    ASSUME LocksInv, NEW p \in Procs, NEW q \in Procs, p # q, NEW t \in Tables, NEW m \in Modes,
           Held(p, t, "own")
    PROVE  ~ Held(q, t, m)
  <1>1. "own" \in Modes /\ Conflict("own", m)
    BY DEF Modes, Conflict
  <1> QED BY <1>1 DEF LocksInv, Compatible

(* A sweeper that has read chunks is at its TRUNCATE or about to read the documents, and
   has read the logs: no seeder is past them. *)
LEMMA SweeperOrSeeder ==
    ASSUME LocksInv, NEW w \in Sweepers, NEW p \in Seeders, Held(w, "chunks", "read"),
           proc[p].pc \in {"documents", "chunks"}
    PROVE  FALSE
  <1>1. w \in Procs /\ p \in Procs /\ w # p /\ "log_entries" \in Tables /\ "read" \in Modes
    BY CorpusAssumption DEF Procs, Tables, Modes
  <1>2. Held(w, "log_entries", "read") /\ Held(p, "log_entries", "own")
    BY <1>1 DEF LocksInv, Each, Has
  <1> QED BY <1>1, <1>2, OwnExcludes

(* A seeder that has all tables of its own waits for no one. *)
LEMMA NoForcedInsert ==
    ASSUME LocksInv, NEW S \in SUBSET Waiting, Knot(S), NEW p \in S, p \in Seeders,
           proc[p].pc = "insert"
    PROVE  ~ proc[p].force
  <1> SUFFICES ASSUME proc[p].force PROVE FALSE
    OBVIOUS
  <1>1. PICK q \in S, t \in Tables, m \in Modes, o \in Modes :
            q # p /\ Held(q, t, m) /\ <<t, o>> \in Request(p)
    BY WaitsFor
  <1>2. p \in Procs /\ q \in Procs
    BY InAKnot
  <1>3. Held(p, t, "own")
    BY <1>2 DEF LocksInv, Each, Has
  <1> QED BY <1>1, <1>2, <1>3, OwnExcludes

(* A seeder at the last table waits for no one who waits. *)
LEMMA NoOneAtChunks ==
    ASSUME LocksInv, NEW S \in SUBSET Waiting, Knot(S), NEW p \in S, p \in Seeders
    PROVE  proc[p].pc # "chunks"
  <1> SUFFICES ASSUME proc[p].pc = "chunks" PROVE FALSE
    OBVIOUS
  <1>1. PICK q \in S, t \in Tables, m \in Modes, o \in Modes :
            q # p /\ Held(q, t, m) /\ <<t, o>> \in Request(p)
    BY WaitsFor
  <1>2. t = "chunks"
    BY <1>1, SeederRequest DEF Tables
  <1>3. q \in Procs
    BY InAKnot
  <1>4. CASE q \in Seeders
    BY <1>1, <1>2, <1>4, InAKnot, NoForcedInsert
  <1>5. CASE q \in Sweepers
    BY <1>1, <1>2, <1>5, InAKnot, SweeperOrSeeder
  <1>6. CASE q \in Indexers \cup Searchers
    BY <1>1, <1>2, <1>6, InAKnot
  <1> QED BY <1>3, <1>4, <1>5, <1>6 DEF Procs

(* So no one in the circle has the documents of its own, and no one waits to read
   them. *)
LEMMA NoOneReadsDocuments ==
    ASSUME LocksInv, NEW S \in SUBSET Waiting, Knot(S), NEW p \in S, p \notin Seeders
    PROVE  /\ p \in Indexers \cup Sweepers \cup Searchers
           /\ p \in Indexers => proc[p].pc = "truncate"
           /\ p \in Sweepers => proc[p].pc \in {"truncate", "measure", "score"}
           /\ p \in Searchers => proc[p].pc \in {"vector", "keyword", "fetch"}
  <1>0. p \in Procs
    BY InAKnot
  <1>1. Request(p) # {<<"documents", "read">>}
    <2> SUFFICES ASSUME Request(p) = {<<"documents", "read">>} PROVE FALSE
      OBVIOUS
    <2>1. PICK q \in S, t \in Tables, m \in Modes, o \in Modes :
              q # p /\ Held(q, t, m) /\ <<t, o>> \in Request(p) /\ Conflict(o, m)
      BY WaitsFor
    <2>2. t = "documents" /\ m = "own"
      BY <2>1 DEF Conflict
    <2>3. q \in Seeders
      BY <2>1, <2>2, InAKnot DEF Procs
    <2> QED BY <2>1, <2>2, <2>3, InAKnot, NoForcedInsert, NoOneAtChunks
  <1>2. CASE p \in Indexers \cup Sweepers
    BY <1>0, <1>1, <1>2, InAKnot, IndexRequest, CorpusAssumption
  <1>3. CASE p \in Searchers
    BY <1>0, <1>1, <1>3, InAKnot, SearcherRequest, CorpusAssumption
  <1> QED BY <1>0, <1>2, <1>3 DEF Procs

(* Who waits for the chunks of its own waits for a sweeper that waits for them too. *)
LEMMA TruncatesForASweeper ==
    ASSUME LocksInv, NEW S \in SUBSET Waiting, Knot(S), NEW p \in S, p \notin Seeders,
           proc[p].pc = "truncate"
    PROVE  \E q \in S : /\ q \in Sweepers /\ q # p /\ proc[q].pc = "truncate"
                        /\ Held(q, "chunks", "read") /\ Blocks(q, p)
  <1>1. PICK q \in S, t \in Tables, m \in Modes, o \in Modes :
            q # p /\ Held(q, t, m) /\ <<t, o>> \in Request(p) /\ Conflict(o, m)
    BY WaitsFor
  <1>2. Request(p) = {<<"chunks", "own">>}
    BY IndexRequest, NoOneReadsDocuments
  <1>3. t = "chunks" /\ o = "own"
    BY <1>1, <1>2
  <1>4. q \notin Seeders
    BY <1>1, <1>3, InAKnot, NoForcedInsert
  <1>5. q \in Sweepers /\ m = "read"
    BY <1>1, <1>3, <1>4, InAKnot DEF Procs
  <1>6. proc[q].pc = "truncate"
    BY <1>1, <1>3, <1>4, <1>5, InAKnot, NoOneReadsDocuments
  <1>7. Blocks(q, p)
    BY <1>1 DEF Blocks, Held
  <1> QED BY <1>1, <1>3, <1>5, <1>6, <1>7

(* Nor does one at the documents: who holds them waits for a sweeper that cannot be
   there. *)
LEMMA NoOneAtDocuments ==
    ASSUME LocksInv, NEW S \in SUBSET Waiting, Knot(S), NEW p \in S, p \in Seeders
    PROVE  proc[p].pc # "documents"
  <1> SUFFICES ASSUME proc[p].pc = "documents" PROVE FALSE
    OBVIOUS
  <1>1. PICK q \in S, t \in Tables, m \in Modes, o \in Modes :
            q # p /\ Held(q, t, m) /\ <<t, o>> \in Request(p)
    BY WaitsFor
  <1>2. t = "documents"
    BY <1>1, SeederRequest DEF Tables
  <1>3. q \notin Seeders
    BY <1>1, <1>2, InAKnot, NoForcedInsert, NoOneAtChunks
  <1>4. proc[q].pc = "truncate"
    <2>1. CASE q \in Indexers
      BY <1>3, <2>1, NoOneReadsDocuments
    <2>2. CASE q \in Sweepers
      <3>1. Each(q)
        BY InAKnot DEF LocksInv
      <3>2. proc[q].pc \in {"truncate", "commit"}
        BY <1>1, <1>2, <2>2, <3>1, CorpusAssumption DEF Each, Only
      <3> QED BY <2>2, <3>2, InAKnot
    <2>3. CASE q \in Searchers
      BY <1>1, <2>3, InAKnot
    <2> QED BY <1>3, <2>1, <2>2, <2>3, InAKnot DEF Procs
  <1>5. PICK w \in S : w \in Sweepers /\ Held(w, "chunks", "read")
    BY <1>3, <1>4, TruncatesForASweeper
  <1> QED BY <1>5, SweeperOrSeeder

(* So no one waits to read logs or chunks. *)
LEMMA AllTruncate ==
    ASSUME LocksInv, NEW S \in SUBSET Waiting, Knot(S), NEW p \in S, p \notin Seeders
    PROVE  p \in Indexers \cup Sweepers /\ proc[p].pc = "truncate"
  <1>1. PICK q \in S, t \in Tables, m \in Modes, o \in Modes :
            q # p /\ Held(q, t, m) /\ <<t, o>> \in Request(p) /\ Conflict(o, m)
    BY WaitsFor
  <1>2. t \in {"log_entries", "chunks"} /\ o = "read" => FALSE
    <2> SUFFICES ASSUME t \in {"log_entries", "chunks"}, o = "read" PROVE FALSE
      OBVIOUS
    <2>1. m = "own"
      BY <1>1 DEF Conflict
    <2>2. q \in Seeders
      BY <1>1, <2>1, InAKnot DEF Procs
    <2> QED BY <1>1, <2>2, InAKnot, NoForcedInsert, NoOneAtChunks, NoOneAtDocuments
  <1>3. p \notin Searchers
    <2> SUFFICES ASSUME p \in Searchers PROVE FALSE
      OBVIOUS
    <2>1. Request(p) = {<<"chunks", "read">>}
      BY SearcherRequest, NoOneReadsDocuments
    <2> QED BY <1>1, <1>2, <2>1
  <1>4. CASE p \in Sweepers /\ proc[p].pc \in {"measure", "score"}
    BY <1>1, <1>2, <1>4, IndexRequest
  <1> QED BY <1>3, <1>4, NoOneReadsDocuments

(* Where processes wait for each other in a circle, two reloads or two sweeps do, of
   which the server ends one; a seeder, an indexer and a sweep never do, whatever
   their number (the order of generate.load's TRUNCATE, of the indexer's reads and
   its TRUNCATE, and of a sweep's measurement). *)
THEOREM OnlyAmongAKind == Spec => []DeadlocksAreAmongAKind
  <1>1. LocksInv => DeadlocksAreAmongAKind
    <2> SUFFICES ASSUME LocksInv, NEW S \in SUBSET Waiting, Knot(S)
                 PROVE  \E T \in SUBSET S : Knot(T) /\ (T \subseteq Seeders \/ T \subseteq Sweepers)
      BY DEF DeadlocksAreAmongAKind
    <2>1. CASE S \subseteq Seeders
      BY <2>1
    <2>2. CASE ~ (S \subseteq Seeders)
      <3> DEFINE T == {w \in S : w \in Sweepers /\ proc[w].pc = "truncate"}
      <3>1. \A p \in S \ Seeders : \E q \in T : Blocks(q, p)
        BY AllTruncate, TruncatesForASweeper
      <3>2. T # {}
        BY <2>2, <3>1
      <3>3. \A w \in T : w \in S \ Seeders
        BY CorpusAssumption
      <3>4. Knot(T)
        BY <3>1, <3>2, <3>3 DEF Knot
      <3> QED BY <3>4
    <2> QED BY <2>1, <2>2
  <1> QED BY <1>1, CorpusInvariance, PTL DEF CorpusInv

(* The types of the tables and of the locks, and that a program that is not running
   holds none. *)
THEOREM TypeCorrect == Spec => []TypeOK
  <1>1. CorpusInv => TypeOK
    <2> SUFFICES ASSUME CorpusInv PROVE TypeOK
      OBVIOUS
    <2>1. Types /\ ContentTypes
      BY ContentTyped DEF CorpusInv, LocksInv, ContentInv
    <2>2. locks \subseteq Procs \X {"services", "log_entries", "documents", "chunks"}
                           \X {"read", "write", "own"}
      BY <2>1 DEF Types, Tables, Modes
    <2>3. ASSUME NEW p \in Procs, At(p, "off"), NEW l \in locks, l[1] = p PROVE FALSE
      <3>1. PICK t \in Tables, m \in Modes : l = <<p, t, m>>
        BY <2>1, <2>3 DEF Types
      <3> QED BY <2>3, <3>1 DEF CorpusInv, LocksInv, Each, Only, Held, At
    <2>4. \A id \in DOMAIN chunks : id > 0 /\ chunks[id] \in Versions \X Settings \X Nat
      BY <2>1 DEF ContentTypes, ChunkValues
    <2> QED BY <2>1, <2>2, <2>3, <2>4 DEF TypeOK, Types
  <1> QED BY <1>1, CorpusInvariance, PTL
=============================================================================
