------------------------------ MODULE Retrieval ------------------------------
(***************************************************************************)
(* How a search turns the lists of its two rankers into results            *)
(* (rag/retrieval.py), what the agent keeps of them (nodes.retrieve), and  *)
(* how they are scored (evals/retrieval_eval.py).  Chunks are their ids; a *)
(* list of hits is a sequence of ids, best first.  Scores are exact: a sum *)
(* of weight / (k + rank), in units of half a vote, is a fraction.         *)
(***************************************************************************)
EXTENDS Lists, SequencesExt, FiniteSetsExt

CONSTANT MaxHeld        \* documents an investigation holds (12)

(* Filters.to_sql: a constraint that is absent, or an empty list, constrains
   nothing; all the others must hold. *)
Passes(filters, chunk) ==
    /\ filters.services = {} \/ chunk.service \in filters.services
    /\ filters.types = {} \/ chunk.type \in filters.types
    /\ filters.since <= chunk.date /\ chunk.date <= filters.until

RRF_K == 60
VectorWeight == 2       \* in halves: 1.0
KeywordWeight == 1      \* DEFAULT_KEYWORD_WEIGHT = 0.5
CandidateMultiplier == 4

RankIn(hits, id) == CHOOSE r \in DOMAIN hits : hits[r] = id
Vote(weight, hits, id) ==
    IF id \in Range(hits) THEN <<weight, RRF_K + RankIn(hits, id)>> ELSE <<0, 1>>
Plus(x, y) == <<x[1] * y[2] + y[1] * x[2], x[2] * y[2]>>
More(x, y) == x[1] * y[2] > y[1] * x[2]

Bug_Fuse(vector, keyword, id) ==            \* the later ranker's vote replaces the other's
    IF id \in Range(keyword) THEN Vote(KeywordWeight, keyword, id)
    ELSE Vote(VectorWeight, vector, id)
Fuse(vector, keyword, id) ==
    Plus(Vote(VectorWeight, vector, id), Vote(KeywordWeight, keyword, id))

(* The ids in the order they entered the merged dictionary, sorted by score; equal
   ones stay in that order. *)
Merged(vector, keyword) ==
    vector \o Picked(keyword, {i \in DOMAIN keyword : keyword[i] \notin Range(vector)})
ByScore(score) ==
    {c \in (DOMAIN score) \X (DOMAIN score) :
        \/ More(score[c[1]], score[c[2]])
        \/ c[1] < c[2] /\ ~ More(score[c[2]], score[c[1]])}
SortedBy(score, ids) == Arranged(ids, DOMAIN ids, ByScore(score))

Candidates(hits, limit) == SubSeq(hits, 1, Min({Len(hits), limit * CandidateMultiplier}))

Ordered(mode, vector, keyword) ==
    CASE mode = "vector" -> vector
      [] mode = "keyword" -> keyword
      [] mode = "hybrid" ->
             LET ids == Merged(vector, keyword)
             IN SortedBy([i \in DOMAIN ids |-> Fuse(vector, keyword, ids[i])], ids)

SearchResult(mode, vector, keyword, limit) ==
    LET all == Ordered(mode, Candidates(vector, limit), Candidates(keyword, limit))
    IN SubSeq(all, 1, Min({Len(all), limit}))

------------------------------------------------------------------------------
(* The agent's documents: [id, score], the better copy of each chunk, the best
   MaxHeld of them. *)
Copies(all, i) == {j \in DOMAIN all : all[j].id = all[i].id}
BestCopy(all, i) ==
    CHOOSE j \in Copies(all, i) :
        \A k \in Copies(all, i) :
            all[k].score < all[j].score \/ (all[k].score = all[j].score /\ j <= k)
Union(held, docs) ==
    LET all == held \o docs
        firsts == Firsts([i \in DOMAIN all |-> all[i].id])
        merged == Picked([i \in DOMAIN all |-> all[BestCopy(all, i)]], firsts)
        sorted == SortedBy([i \in DOMAIN merged |-> <<merged[i].score, 1>>], merged)
    IN SubSeq(sorted, 1, Min({Len(sorted), MaxHeld}))

------------------------------------------------------------------------------
(* Scoring a search, on documents: parent[id] is the document of a chunk. *)
UniqueDocs(results, parent, k) ==
    LET docs == [i \in DOMAIN results |-> parent[results[i]]]
        seen == Picked(docs, Firsts(docs))
    IN SubSeq(seen, 1, Min({Len(seen), k}))

OverFetch == 6
Score(mode, vector, keyword, parent, relevant, k) ==
    LET top == UniqueDocs(SearchResult(mode, vector, keyword, k * OverFetch), parent, k)
        found == {i \in DOMAIN top : top[i] \in relevant}
    IN [hits |-> Cardinality(found),
        recall |-> <<Cardinality(found), Min({Cardinality(relevant), k})>>,
        uncapped |-> <<Cardinality(found), Cardinality(relevant)>>,
        reciprocal |-> IF found = {} THEN 0 ELSE Min(found)]

Summed(fractions) == FoldLeft(Plus, <<0, 1>>, fractions)
Reciprocal(rank) == IF rank = 0 THEN <<0, 1>> ELSE <<1, rank>>

(* run_config, score_abstention: the cases [vector, keyword, relevant] that have
   something to find are scored, and the others counted.  Means are of n_scored. *)
RunConfig(mode, cases, parent, k) ==
    LET with == Picked(cases, {i \in DOMAIN cases : cases[i].relevant # {}})
        scores == [i \in DOMAIN with |->
                      Score(mode, with[i].vector, with[i].keyword, parent, with[i].relevant, k)]
    IN [n_scored |-> Len(with),
        recall |-> Summed([i \in DOMAIN scores |-> scores[i].recall]),
        hits |-> Cardinality({i \in DOMAIN scores : scores[i].hits > 0}),
        mrr |-> Summed([i \in DOMAIN scores |-> Reciprocal(scores[i].reciprocal)])]
Abstention(cases) == {i \in DOMAIN cases : cases[i].relevant = {}}

(* run_sweep: the middle setting of those as good as the best. *)
Chosen(recalls) ==
    LET best == {i \in DOMAIN recalls : \A j \in DOMAIN recalls : recalls[j] <= recalls[i]}
        plateau == SetToSortSeq(best, <)
    IN plateau[Len(plateau) \div 2 + 1]

------------------------------------------------------------------------------
(* What must hold. *)

(* Fusion never turns the rankers' agreement around: of two chunks, one that both
   rankers put before the other (a list it is not in counting as its end) comes
   before it, and is among the results when the other is. *)
NoWorse(hits, a, b) ==
    b \in Range(hits) => a \in Range(hits) /\ RankIn(hits, a) < RankIn(hits, b)
AgreementIsKept(vector, keyword, limit) ==
    LET all == Ordered("hybrid", vector, keyword)
        top == SearchResult("hybrid", vector, keyword, limit)
    IN \A a, b \in Range(all) :
           a # b /\ NoWorse(vector, a, b) /\ NoWorse(keyword, a, b) =>
               /\ RankIn(all, a) < RankIn(all, b)
               /\ b \in Range(top) => a \in Range(top)

(* "Recall@5 = |relevant and retrieved@5| / min(|relevant|, 5)" is a fraction, 1 when
   every slot that a relevant document could fill has one, and it does not depend on
   how many chunks a document was cut into. *)
RecallIsAFraction(vector, keyword, parent, relevant, k) ==
    relevant # {} =>
        LET s == Score("hybrid", vector, keyword, parent, relevant, k)
            top == UniqueDocs(SearchResult("hybrid", vector, keyword, k * OverFetch), parent, k)
        IN /\ s.recall[1] <= s.recall[2]
           /\ s.hits = Cardinality(relevant \cap Range(top))
           /\ s.reciprocal # 0 => \A i \in 1..s.reciprocal - 1 : top[i] \notin relevant

(* After two searches the agent holds the best: of every chunk found, a copy at least
   as good, or as many others that are. *)
BestAreHeld(first, second) ==
    LET held == Union(Union(<<>>, first), second) IN
    /\ \A i, j \in DOMAIN held : i < j => held[i].id # held[j].id /\ held[i].score >= held[j].score
    /\ \A d \in Range(first) \cup Range(second) :
           \/ \E i \in DOMAIN held : held[i].id = d.id /\ held[i].score >= d.score
           \/ Len(held) = MaxHeld /\ \A i \in DOMAIN held : held[i].score >= d.score

(* No case is dropped: each is scored or counted as one with nothing to find; and a
   document that is found is found for both figures, the recall and the first rank
   being of the same five. *)
EveryCaseCounts(cases, parent, k) ==
    LET c == RunConfig("hybrid", cases, parent, k) IN
    /\ c.n_scored + Cardinality(Abstention(cases)) = Len(cases)
    /\ ~ More(c.recall, <<c.hits, 1>>)
    /\ ~ More(c.mrr, <<c.hits, 1>>)
    /\ (c.hits > 0) = More(c.recall, <<0, 1>>)
    /\ (c.hits > 0) = More(c.mrr, <<0, 1>>)
==============================================================================
