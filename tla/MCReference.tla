----------------------------- MODULE MCReference -----------------------------
(***************************************************************************)
(* Reference on bounded inputs: all texts of a few words, all rankings of  *)
(* a few chunks, all short conclusions, answers, readings and so on.       *)
(***************************************************************************)
EXTENDS Reference, TLC

CONSTANTS
    MaxWords, WordLengths, Separators, Overlaps,               \* of the texts to chunk
    Ids,                                                       \* of the chunks to rank, 1..n
    Figures,                                                   \* runs of up to this many results
    MaxTokens                                                  \* of an answer

(* What follows the last word of a text is not part of it. *)
Texts == UNION {{[i \in 1..n |-> Part(i, 0, len[i], IF i < n THEN sep[i] ELSE Space)] :
                     len \in [1..n -> WordLengths], sep \in [1..n - 1 -> Separators]} : n \in 0..MaxWords}
MCTextCases == [text : Texts, overlap : Overlaps]

(* Rankings without repetition; the vector ranker's can be named in its own order.  Of
   the long ones not all are candidates. *)
Rankings == UNION {{r \in [1..n -> Ids] : IsInjective(r)} : n \in 0..Cardinality(Ids)}
Parents == {[id \in Ids |-> id], [id \in Ids |-> id % 2], [id \in Ids |-> 1]}
Long == 1..CandidateMultiplier + 2
MCSearchCases ==
    [vector : {[i \in 1..n |-> i] : n \in 0..Cardinality(Ids)}, keyword : Rankings,
     limit : 1..3, parent : Parents, relevant : {{1}, {0, 1, 9}}]
        \cup [vector : {[i \in Long |-> i]}, keyword : {r \in [Long -> Long] : IsInjective(r)},
              limit : {1}, parent : {[id \in Long |-> id % 2]}, relevant : {{1}}]
Cased == [vector : {<<1, 2>>, <<3>>, <<>>}, keyword : {<<2>>, <<3, 1>>}, relevant : {{}, {1}, {1, 2}, {9}}]
MCConfigCases == [cases : UNION {TupleOf(Cased, n) : n \in 0..2}, parent : Parents]
Documents == [id : {1, 2, 3}, score : {1, 2}]
MCHeldCases == [first : TupleOf(Documents, 2), second : TupleOf(Documents, 2)]

(* Texts to grade: a segment says words, names a service at most, and may be denied or
   negate the cause after it. *)
Pieces == [says : {{"disk"}, {"full"}, {"disk", "full"}, {"slow"}}, names : {{}, {"db"}, {"app"}},
           denies : BOOLEAN]
Segments(pieces, negates, c) ==
    [pieces : {<<p>> : p \in pieces}, joined : BOOLEAN, negates : negates, clause : {c}]
Plain == {p \in Pieces : ~ p.denies /\ p.says # {"slow"}}
Bare(c) == Segments(Plain, {FALSE}, c)
Full(c) == Segments(Pieces, BOOLEAN, c)
Sentences(segments, n) == {c \in TupleOf(segments, n) : ~ c[1].joined}
Conclusions ==
    Sentences(Full(1), 1) \cup Sentences(Full(1), 2) \cup Sentences(Bare(1), 3)
        \cup {c \o d : c \in Sentences(Bare(1), 2), d \in Sentences(Full(2), 1)}
        \cup {<<[pieces |-> <<p, q>>, joined |-> FALSE, negates |-> FALSE, clause |-> 1]>> : p, q \in Pieces}
MCGradeCases == [text : Conclusions, archetype : {"disk_full"}, cause : {"db"}]

TwoArchetypes == {"disk_full", "cascade"}
TheirPhrasings == [disk_full |-> {{"disk", "full"}}, cascade |-> {{"slow"}}]
FailureWords == {"full", "slow"}

(* Scenarios, what investigations end with, and readings of a conclusion. *)
Scenarios ==
    [kind : {"cascading", "plain"}, should_abstain : BOOLEAN, cause : {"db", None},
     victims : {{}, {"app"}}, tools : {{}, {"restart"}}]
Runs ==
    [abstained : BOOLEAN, status : {"complete", "failed"}, failed : BOOLEAN,
     target : {"db", "app", None}, tool : {"restart", "scale"}, refused : BOOLEAN]
Readings == [asserted : SUBSET {"db", "app"}, mechanism : BOOLEAN]
MCRegradeCases ==
    {c \in [scenario : Scenarios, run : Runs, first : Readings, second : Readings] :
        /\ c.scenario.kind = "cascading" \/ c.scenario.victims = {}
        /\ c.scenario.should_abstain => c.scenario.cause = None /\ c.scenario.tools = {}
        /\ c.run.refused => c.run.status = "complete"}

(* Results to report, and the verdicts of a person and a judge. *)
Timed(n) == [i \in 1..n |-> [kind |-> "plain", success |-> TRUE, note |-> NoNote, latency |-> i,
                                 attempts |-> 0, successes |-> 0, calls |-> <<>>]]
Outcomes ==
    {r \in [kind : {"plain", "tool_failure"}, success : BOOLEAN, note : {NoNote, "refused", "fabricated"},
            latency : {1, 2}, attempts : {1}, successes : {0, 1}, calls : {<<>>}] :
        r.success = (r.note = NoNote)}
MCReportCases == {Timed(n) : n \in 1..Figures} \cup UNION {TupleOf(Outcomes, n) : n \in 1..2}
Labels == {"supported", "unsupported", "contradicted"}
MCSheetCases == UNION {[human : TupleOf(Labels, n), judge : TupleOf(Labels, n)] : n \in 1..4}

(* Two runs to compare: what came of the scenarios each saw, in their order. *)
KindOf == <<"plain", "plain", "tool_failure">>
Compared ==
    {[settings |-> s, results |-> [i \in 1..Cardinality(ids) |->
          LET id == SetToSortSeq(ids, <)[i]
          IN [id |-> id, kind |-> KindOf[id], note |-> note[id], success |-> note[id] = NoNote]]] :
        ids \in SUBSET {1, 2, 3}, s \in {1, 2},
        note \in [{1, 2, 3} -> {NoNote, "refused", "fabricated"}]}
MCCompareCases == [a : {r \in Compared : r.settings = 1}, b : Compared]

(* Answers of a model, and what a service logs and measures. *)
MCAnswerCases == [text : UNION {TupleOf(Tokens, n) : n \in 0..MaxTokens}, fields : {"some", "none"}]
Values == {Missing, <<0>>, <<45>>, <<55>>, <<1000>>, <<1280>>, <<1300>>, <<-1000>>}  \* 45 is shown as 0
MCMetricCases == UNION {TupleOf([now : Values, before : Values], n) : n \in 1..2}
                   \cup TupleOf([now : {<<0>>, <<55>>, <<1280>>, <<1300>>}, before : {Missing, <<45>>, <<1000>>}], 3)
MCLogCases == [rows : UNION {TupleOf([level : {3, 4, 5}, message : {1, 2, 3}], n) : n \in 0..4},
             level : 3..5, limit : {1, 4}]
==============================================================================
