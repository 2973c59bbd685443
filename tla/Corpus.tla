------------------------------- MODULE Corpus -------------------------------
(***************************************************************************)
(* The documents and the chunk table made from them, under the programs    *)
(* that write them and the agent that searches: seeds/generate.py (load),  *)
(* rag/indexer.py (index, main), the sweep of evals/retrieval_eval.py,     *)
(* which re-indexes at each setting and measures, and a search of          *)
(* rag/retrieval.py.  All but the search work in transactions, which keep  *)
(* the locks of what they read; a search commits each of its statements.   *)
(*                                                                         *)
(* The documents are the version of the generator that made them, of which *)
(* they are a function (its random seed is fixed).  A chunk is             *)
(* <<version, setting, index>>.  A process is killed between any two of    *)
(* its statements.                                                         *)
(***************************************************************************)
EXTENDS Integers, Sequences, FiniteSets, FiniteSetsExt, SequencesExt

CONSTANTS
    Seeders, Indexers, Sweepers, Searchers,     \* the processes
    Versions,       \* the versions of the generator
    Settings,       \* chunk settings: a setting is the chunks it makes of a version
    Grid,           \* the settings a sweep goes through
    MaxRunning,     \* bound: processes at a time, a search counting for two
    MaxKills,       \* bound: processes killed
    None

Procs == Seeders \cup Indexers \cup Sweepers \cup Searchers

ASSUME CorpusAssumption ==
    /\ Settings \subseteq Nat \ {0}
    /\ Grid \in Seq(Settings) /\ Grid # <<>>
    /\ {MaxRunning, MaxKills} \subseteq Nat
    /\ Seeders \cap (Indexers \cup Sweepers \cup Searchers) = {}
    /\ Indexers \cap (Sweepers \cup Searchers) = {}
    /\ Sweepers \cap Searchers = {}
    /\ None \notin Versions

VARIABLES
    documents,  \* the version the incidents, runbooks and service docs are of, or None
    chunks,     \* the chunk table: id -> chunk
    manifest,   \* the version seeds/live_situations.json was written for, or None
    locks,      \* <<process, table, mode>>
    proc,       \* the processes
    kills,
    orphaned    \* history: whether a seeder was killed between manifest and commit

vars == <<documents, chunks, manifest, locks, proc, kills, orphaned>>

Off == [pc |-> "off", version |-> None, force |-> FALSE, left |-> <<>>, chosen |-> FALSE,
        ids |-> {}, ranked |-> {}, found |-> {}, moved |-> FALSE]

Init ==
    /\ documents = None /\ chunks = <<>> /\ manifest = None /\ locks = {}
    /\ proc = [p \in Procs |-> Off]
    /\ kills = 0 /\ orphaned = FALSE

At(p, pc) == proc[p].pc = pc
Weight(S) == Cardinality(S) + Cardinality(S \cap Searchers)
Launchable(p) ==
    At(p, "off") /\ Weight({q \in Procs : q = p \/ ~ At(q, "off")}) <= MaxRunning
Goto(p, pc) == proc' = [proc EXCEPT ![p].pc = pc]

------------------------------------------------------------------------------
(* Locks. *)

(* The tables TRUNCATE names, in its order (those between them left out). *)
Bug_Truncated == <<"services", "chunks", "log_entries", "documents">>
Truncated == <<"services", "log_entries", "documents", "chunks">>

(* The lock of the statement p is about to make: the mode is "read", "write", or
   "own" for a TRUNCATE. *)
Request(p) ==
    CASE At(p, "count") /\ p \in Seeders -> {<<"services", "read">>}
      [] \E i \in DOMAIN Truncated : At(p, Truncated[i]) -> {<<proc[p].pc, "own">>}
      [] At(p, "insert") -> {<<"services", "write">>}
      [] p \notin Seeders /\ proc[p].pc \in {"count", "build"} -> {<<"documents", "read">>}
      [] At(p, "truncate") -> {<<"chunks", "own">>}
      [] At(p, "measure") -> {<<"log_entries", "read">>}
      [] proc[p].pc \in {"score", "vector", "keyword", "fetch"} -> {<<"chunks", "read">>}
      [] At(p, "hydrate") -> {<<"documents", "read">>}
      [] OTHER -> {}

Conflict(mode, held) ==
    \/ "own" \in {mode, held}
    \/ mode = "write" /\ held = "write"     \* rows of the same keys
Blocks(q, p) ==
    q # p /\ \E l \in locks, r \in Request(p) :
                 l[1] = q /\ l[2] = r[1] /\ Conflict(r[2], l[3])
Granted(p) == \A q \in Procs : ~ Blocks(q, p)

Taken(p) == locks \cup {<<p, r[1], r[2]>> : r \in Request(p)}
Released(p) == {l \in locks : l[1] # p}

(* The statements of the sweep and of both mains are in one transaction: what
   they have read stays locked until they commit. *)
Bug_Keeps(p) == locks' = locks              \* a connection that commits each statement
Keeps(p) == locks' = Taken(p)

Exits(p) == proc' = [proc EXCEPT ![p] = Off] /\ locks' = Released(p)

Waiting == {p \in Procs : ~ Granted(p)}

(* Processes each of which waits for one of them. *)
Knot(S) == S # {} /\ \A p \in S : \E q \in S : Blocks(q, p)

(* The server ends one of them, and rolls it back. *)
DeadlockVictim(p) ==
    /\ \E S \in SUBSET Waiting :
           p \in S /\ Knot(S) /\ \A q \in S : ~ Knot(S \ {q})
    /\ Exits(p)
    /\ UNCHANGED <<documents, chunks, manifest, kills, orphaned>>

------------------------------------------------------------------------------
(* generate.py: main, load. *)
Seed(p, version, force) ==
    /\ Launchable(p)
    /\ proc' = [proc EXCEPT ![p] = [Off EXCEPT !.pc = "count", !.version = version,
                                               !.force = force]]
    /\ UNCHANGED <<documents, chunks, manifest, locks, kills, orphaned>>

CountServices(p) ==
    /\ p \in Seeders /\ At(p, "count") /\ Granted(p)
    /\ IF documents # None /\ ~ proc[p].force THEN Exits(p)
       ELSE /\ Keeps(p)
            /\ Goto(p, IF proc[p].force THEN Head(Truncated) ELSE "insert")
    /\ UNCHANGED <<documents, chunks, manifest, kills, orphaned>>

TruncateNext(p, i) ==
    /\ At(p, Truncated[i]) /\ Granted(p)
    /\ Keeps(p)
    /\ Goto(p, IF i = Len(Truncated) THEN "insert" ELSE Truncated[i + 1])
    /\ UNCHANGED <<documents, chunks, manifest, kills, orphaned>>

(* The rows, and their keys, which another seeder may have committed since. *)
Insert(p) ==
    /\ At(p, "insert") /\ Granted(p)
    /\ IF documents # None /\ ~ proc[p].force THEN Exits(p)
       ELSE Keeps(p) /\ Goto(p, "manifest")
    /\ UNCHANGED <<documents, chunks, manifest, kills, orphaned>>

WriteManifest(p) ==
    /\ At(p, "manifest")
    /\ manifest' = proc[p].version
    /\ Goto(p, "commit")
    /\ UNCHANGED <<documents, chunks, locks, kills, orphaned>>

(* The searches that are under way when the chunks become others. *)
Moved(new) ==
    [a \in Searchers |->
        [proc[a] EXCEPT !.moved = @ \/ (proc[a].ids # {} /\ Range(new) # Range(chunks))]]
ExitsWith(p, new) ==
    /\ proc' = [q \in Procs |-> IF q = p THEN Off
                                ELSE IF q \in Searchers THEN Moved(new)[q] ELSE proc[q]]
    /\ locks' = Released(p)

CommitSeeds(p) ==
    /\ p \in Seeders /\ At(p, "commit")
    /\ documents' = proc[p].version
    /\ chunks' = IF proc[p].force THEN <<>> ELSE chunks
    /\ ExitsWith(p, chunks')
    /\ UNCHANGED <<manifest, kills, orphaned>>

------------------------------------------------------------------------------
(* indexer.py: main, build_chunks, index. *)

(* Incidents, runbooks and service docs, each ORDER BY id: the same documents and
   setting give the same rows. *)
Build(version, setting) ==
    [i \in 1..(IF version = None THEN 0 ELSE setting) |-> <<version, setting, i>>]

(* Their ids: TRUNCATE restarts the identity. *)
Bug_Rows(built) ==                          \* no RESTART IDENTITY
    LET last == Max(DOMAIN chunks \cup {0})
    IN [id \in last + 1..last + Len(built) |-> built[id - last]]
Rows(built) == [id \in 1..Len(built) |-> built[id]]

IndexMain(x, setting) ==
    /\ Launchable(x)
    /\ proc' = [proc EXCEPT ![x] = [Off EXCEPT !.pc = "count", !.left = <<setting>>,
                                               !.chosen = TRUE]]
    /\ UNCHANGED <<documents, chunks, manifest, locks, kills, orphaned>>

CountDocuments(x) ==
    /\ x \in Indexers /\ At(x, "count") /\ Granted(x)
    /\ IF documents = None THEN Exits(x) ELSE Keeps(x) /\ Goto(x, "build")
    /\ UNCHANGED <<documents, chunks, manifest, kills, orphaned>>

BuildChunks(x) ==
    /\ At(x, "build") /\ Granted(x)
    /\ Keeps(x)
    /\ proc' = [proc EXCEPT ![x] = [@ EXCEPT !.pc = "truncate", !.version = documents]]
    /\ UNCHANGED <<documents, chunks, manifest, kills, orphaned>>

TruncateAndCopy(x) ==
    /\ At(x, "truncate") /\ Granted(x)
    /\ Keeps(x)
    /\ Goto(x, "commit")
    /\ UNCHANGED <<documents, chunks, manifest, kills, orphaned>>

(* The commit, after which a sweep measures, unless it was the setting it chose. *)
CommitIndex(x) ==
    /\ x \in Indexers \cup Sweepers /\ At(x, "commit")
    /\ chunks' = Rows(Build(proc[x].version, Head(proc[x].left)))
    /\ IF proc[x].chosen THEN ExitsWith(x, chunks')
       ELSE /\ locks' = Released(x)
            /\ proc' = [q \in Procs |->
                           IF q = x THEN [proc[x] EXCEPT !.pc = "measure"]
                           ELSE IF q \in Searchers THEN Moved(chunks')[q] ELSE proc[q]]
    /\ UNCHANGED <<documents, manifest, kills, orphaned>>

(* retrieval_eval.py: run_sweep, run_config.  Each measurement reads the logs
   (enrich_query), then searches, in the transaction of the next re-indexing. *)
Sweep(w) ==
    /\ Launchable(w)
    /\ proc' = [proc EXCEPT ![w] = [Off EXCEPT !.pc = "build", !.left = Grid]]
    /\ UNCHANGED <<documents, chunks, manifest, locks, kills, orphaned>>

Measure(w) ==
    /\ At(w, "measure") /\ Granted(w)
    /\ Keeps(w)
    /\ Goto(w, "score")
    /\ UNCHANGED <<documents, chunks, manifest, kills, orphaned>>

Score(w) ==
    /\ At(w, "score") /\ Granted(w)
    /\ Keeps(w)
    /\ IF Len(proc[w].left) > 1
       THEN proc' = [proc EXCEPT ![w] = [@ EXCEPT !.pc = "build", !.left = Tail(proc[w].left)]]
       ELSE \E s \in Range(Grid) :
                proc' = [proc EXCEPT ![w] =
                            [@ EXCEPT !.pc = "build", !.left = <<s>>, !.chosen = TRUE]]
    /\ UNCHANGED <<documents, chunks, manifest, kills, orphaned>>

------------------------------------------------------------------------------
(* retrieval.py: _search, hydrate; each statement reads the table as it is. *)
Search(a) ==
    /\ Launchable(a)
    /\ Goto(a, "vector")
    /\ UNCHANGED <<documents, chunks, manifest, locks, kills, orphaned>>

(* Each ranker's best candidate; the fusion keeps both.  The nearest chunk is a
   chunk if there is one, the words of the query may be in none. *)
Rank(a, pc, next) ==
    /\ At(a, pc) /\ Granted(a)
    /\ \/ /\ pc = "keyword" \/ chunks = <<>>
          /\ proc' = [proc EXCEPT ![a].pc = next]
       \/ \E id \in DOMAIN chunks :
              proc' = [proc EXCEPT ![a] =
                          [@ EXCEPT !.pc = next, !.ids = proc[a].ids \cup {id},
                                    !.ranked = proc[a].ranked \cup {chunks[id]}]]
    /\ UNCHANGED <<documents, chunks, manifest, locks, kills, orphaned>>

Fetch(a) ==
    /\ At(a, "fetch") /\ Granted(a)
    /\ proc' = [proc EXCEPT ![a] =
                   [@ EXCEPT !.pc = "hydrate",
                             !.found = {chunks[id] : id \in proc[a].ids \cap DOMAIN chunks}]]
    /\ UNCHANGED <<documents, chunks, manifest, locks, kills, orphaned>>

(* The titles, from the documents as they are now; the search returns. *)
Hydrate(a) ==
    /\ At(a, "hydrate") /\ Granted(a)
    /\ Exits(a)
    /\ UNCHANGED <<documents, chunks, manifest, kills, orphaned>>

------------------------------------------------------------------------------
Kill(p) ==
    /\ ~ At(p, "off") /\ p \notin Searchers /\ kills < MaxKills
    /\ kills' = kills + 1
    /\ orphaned' = (orphaned \/ (p \in Seeders /\ At(p, "commit")))
    /\ Exits(p)
    /\ UNCHANGED <<documents, chunks, manifest>>

Next ==
    \/ \E p \in Seeders :
           \/ \E v \in Versions, force \in BOOLEAN : Seed(p, v, force)
           \/ CountServices(p) \/ \E i \in DOMAIN Truncated : TruncateNext(p, i)
           \/ Insert(p) \/ WriteManifest(p) \/ CommitSeeds(p)
    \/ \E x \in Indexers : CountDocuments(x) \/ \E s \in Settings : IndexMain(x, s)
    \/ \E x \in Indexers \cup Sweepers : BuildChunks(x) \/ TruncateAndCopy(x) \/ CommitIndex(x)
    \/ \E w \in Sweepers : Sweep(w) \/ Measure(w) \/ Score(w)
    \/ \E a \in Searchers :
           \/ Search(a) \/ Rank(a, "vector", "keyword") \/ Rank(a, "keyword", "fetch")
           \/ Fetch(a) \/ Hydrate(a)
    \/ \E p \in Procs : Kill(p) \/ DeadlockVictim(p)

Spec == Init /\ [][Next]_vars

------------------------------------------------------------------------------
(* What must hold. *)

TypeOK ==
    /\ {documents, manifest} \subseteq Versions \cup {None}
    /\ \A id \in DOMAIN chunks : id > 0 /\ chunks[id] \in Versions \X Settings \X Nat
    /\ locks \subseteq Procs \X {"services", "log_entries", "documents", "chunks"}
                         \X {"read", "write", "own"}
    /\ \A p \in Procs : At(p, "off") => \A l \in locks : l[1] # p

(* The chunk table is always that of the documents beside it, whole and of one
   setting, or empty: also when the documents are reloaded while an indexer embeds
   what it read, when two index at once, and when one dies at it (indexer.index,
   main's open transaction, generate.load's TRUNCATE). *)
ChunksAreOfTheDocuments ==
    chunks # <<>> => \E s \in Settings : Range(chunks) = Range(Build(documents, s))

(* "Re-running with the same chunk parameters replaces the chunk table" and is
   idempotent (indexer.py:6): a search that has ranked chunks by their ids before,
   and fetches them after, finds the chunks it ranked, with the titles of the
   documents they are of.  (After a re-indexing with other parameters it may find
   other chunks under these ids.) *)
SearchSurvivesReindexing ==
    [][\A a \in Searchers : At(a, "hydrate") /\ At(a, "off")' /\ ~ proc[a].moved =>
           /\ proc[a].found = proc[a].ranked
           /\ \A c \in proc[a].found : c[1] = documents]_vars

(* No seeder, indexer or sweep is in the way of one of another kind: where
   processes wait for each other in a circle, two reloads or two sweeps do, one of
   which the server ends (the order of generate.load's TRUNCATE, of the indexer's
   reads and its TRUNCATE, and of a measurement). *)
DeadlocksAreAmongAKind ==
    \A S \in SUBSET Waiting : Knot(S) =>
        \E T \in SUBSET S : Knot(T) /\ (T \subseteq Seeders \/ T \subseteq Sweepers)

(* The manifest the scenarios and the retrieval labels are made from is that of
   the documents in the database, or a seeder is about to commit them, unless one
   was killed there (generate.load writes the file before main commits). *)
ManifestIsOfTheDocuments ==
    \/ orphaned
    \/ manifest = documents
    \/ \E p \in Seeders : At(p, "commit") /\ manifest = proc[p].version

(* What searches, scenarios and retrieval labels are made from is of one version: both
   of the above. *)
CorpusIsConsistent == ChunksAreOfTheDocuments /\ ManifestIsOfTheDocuments
==============================================================================
