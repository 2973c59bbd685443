------------------------------ MODULE Reference ------------------------------
(***************************************************************************)
(* The pure parts of the code against their references: every initial      *)
(* state is one case, an input one of them can be given, and nothing       *)
(* happens to it.  What the parts do is in the modules this one extends;   *)
(* here is what is asked of them, and what the theorems need to know of    *)
(* the cases.                                                              *)
(***************************************************************************)
EXTENDS Chunking, Retrieval, Grading, Answers, Evidence

CONSTANTS
    ChunkMax,       \* characters of a chunk
    TextCases,      \* [text, overlap] to chunk
    SearchCases,    \* [vector, keyword, limit, parent, relevant] to search and score
    ConfigCases,    \* [cases, parent] to score a configuration on
    HeldCases,      \* [first, second]: what two searches found
    GradeCases,     \* [text, archetype, cause]: conclusions
    RegradeCases,   \* [scenario, run, first, second]: two graders' readings of one run
    ReportCases,    \* the results of a run
    SheetCases,     \* [human, judge]: verdicts on the same claims
    CompareCases,   \* [a, b]: two runs
    AnswerCases,    \* [text, fields]: a model's answer, the fields a node looks for
    MetricCases,    \* the readings of a service's metrics
    LogCases        \* [rows, level, limit]: log lines, and which of them are asked for

(* A document is words, each followed by a separator of one kind, and something is
   carried from one chunk to the next. *)
ASSUME TextAssumption ==
    /\ ChunkMax \in Nat \ {0}
    /\ \A c \in TextCases :
           /\ c.overlap \in Nat \ {0}
           /\ c.text \in Seq({c.text[i] : i \in DOMAIN c.text})
           /\ \A i \in DOMAIN c.text :
                  /\ c.text[i] = Part(i, 0, c.text[i].len, c.text[i].sep)
                  /\ c.text[i].len \in Nat \ {0}
                  /\ c.text[i].sep \in {Paragraph, Sentence, Line, Space}

(* A ranker names no chunk twice, and something is asked for; a scenario's relevant
   documents are finitely many. *)
Ranking(hits) ==
    hits \in Seq({hits[i] : i \in DOMAIN hits}) /\ \A i, j \in DOMAIN hits : hits[i] = hits[j] => i = j
ASSUME SearchAssumption ==
    \A c \in SearchCases :
        Ranking(c.vector) /\ Ranking(c.keyword) /\ c.limit \in Nat \ {0} /\ IsFiniteSet(c.relevant)

(* A document has a score. *)
ASSUME HeldAssumption ==
    /\ MaxHeld \in Nat \ {0}
    /\ \A c \in HeldCases : \A found \in {c.first, c.second} :
           /\ found \in Seq({found[i] : i \in DOMAIN found})
           /\ \A i \in DOMAIN found : found[i].score \in Int

(* A configuration is measured on cases of which each is a search like that. *)
ASSUME ConfigAssumption ==
    \A c \in ConfigCases :
        /\ c.cases \in Seq({c.cases[i] : i \in DOMAIN c.cases})
        /\ \A i \in DOMAIN c.cases :
               /\ Ranking(c.cases[i].vector) /\ Ranking(c.cases[i].keyword)
               /\ IsFiniteSet(c.cases[i].relevant)

(* A run that is reported has results, each with a latency and, where it failed, its
   reason; the verdicts of a person and of the judge are of the same claims. *)
ASSUME ReportAssumption ==
    \A results \in ReportCases :
        /\ results \in Seq({results[i] : i \in DOMAIN results}) /\ results # <<>>
        /\ \A i \in DOMAIN results :
               /\ results[i].latency \in Nat /\ results[i].success \in BOOLEAN
               /\ ~ results[i].success => results[i].note # NoNote
ASSUME SheetAssumption ==
    \A c \in SheetCases :
        /\ c.human \in Seq({c.human[i] : i \in DOMAIN c.human})
        /\ c.judge \in Seq({c.judge[i] : i \in DOMAIN c.judge})

(* An answer is a list of tokens. *)
ASSUME AnswerAssumption ==
    \A c \in AnswerCases : c.text \in Seq({c.text[i] : i \in DOMAIN c.text})

(* A conclusion is a list of segments, clause by clause. *)
ASSUME GradeAssumption ==
    \A c \in GradeCases :
        /\ c.archetype \in Archetypes
        /\ c.text \in Seq({c.text[n] : n \in DOMAIN c.text})
        /\ \A n \in DOMAIN c.text : c.text[n].clause \in Nat
        /\ \A m, n \in DOMAIN c.text : m <= n => c.text[m].clause <= c.text[n].clause

(* A saved result: what is a yes or a no in it is one. *)
ASSUME RegradeAssumption ==
    \A c \in RegradeCases :
        /\ {c.scenario.should_abstain, c.run.abstained, c.run.failed, c.run.refused,
            c.first.mechanism, c.second.mechanism} \subseteq BOOLEAN

(* Each scenario is run once in a run, and is of the same kind in both. *)
Result(r) == r = [id |-> r.id, kind |-> r.kind, note |-> r.note, success |-> r.success]
ASSUME CompareAssumption ==
    \A c \in CompareCases :
        /\ \A run \in {c.a, c.b} :
               /\ run.results \in Seq({run.results[i] : i \in DOMAIN run.results})
               /\ \A i, j \in DOMAIN run.results :
                      run.results[i].id = run.results[j].id => i = j
               /\ \A i \in DOMAIN run.results :
                      Result(run.results[i]) /\ run.results[i].success \in BOOLEAN
        /\ \A i \in DOMAIN c.a.results, j \in DOMAIN c.b.results :
               c.a.results[i].id = c.b.results[j].id => c.a.results[i].kind = c.b.results[j].kind

(* A reading is a number or is missing; a line has a level; at least one line is asked
   for and shown. *)
Average(x) == x = Missing \/ (x \in Seq(Int) /\ Len(x) = 1)
ASSUME EvidenceAssumption ==
    /\ Grain \in Nat \ {0} /\ SampleLines \in Nat \ {0} /\ SignatureLines \in Nat
    /\ \A readings \in MetricCases :
           /\ readings \in Seq({readings[i] : i \in DOMAIN readings})
           /\ \A i \in DOMAIN readings : Average(readings[i].now) /\ Average(readings[i].before)
    /\ \A c \in LogCases :
           /\ c.rows \in Seq({c.rows[i] : i \in DOMAIN c.rows})
           /\ \A i \in DOMAIN c.rows : c.rows[i].level \in Nat
           /\ c.level \in Nat /\ c.limit \in Nat \ {0}

VARIABLE case

Cases(kind, params) == [kind : {kind}, of : params]

Init ==
    case \in Cases("text", TextCases) \cup Cases("search", SearchCases)
                \cup Cases("held", HeldCases) \cup Cases("grade", GradeCases)
                \cup Cases("regrade", RegradeCases) \cup Cases("report", ReportCases)
                \cup Cases("sheet", SheetCases) \cup Cases("config", ConfigCases)
                \cup Cases("compare", CompareCases) \cup Cases("answer", AnswerCases)
                \cup Cases("metrics", MetricCases) \cup Cases("logs", LogCases)
Next == UNCHANGED case
Spec == Init /\ [][Next]_case

------------------------------------------------------------------------------
(* The chunks of a document hold every word of it, in order; none is longer than its
   limit and what it was carried; and each repeats the end of the one before. *)
ChunksCoverTheText ==
    case.kind = "text" =>
        LET chunks == ChunkText(case.of.text, ChunkMax, case.of.overlap) IN
        /\ NothingLost(case.of.text, ChunkMax)
        /\ SizeBounded(chunks, ChunkMax, case.of.overlap)
        /\ OverlapCarried(chunks, case.of.overlap)

(* A search keeps the best of its rankers: it never turns an agreement of theirs
   around; its recall is a fraction of the documents that could be found, whatever
   chunks they were cut into; and the agent holds the best of what two searches found. *)
AgreementStands ==
    case.kind = "search" => AgreementIsKept(case.of.vector, case.of.keyword, case.of.limit)
RecallIsOfDocuments ==
    case.kind = "search" =>
        RecallIsAFraction(case.of.vector, case.of.keyword, case.of.parent, case.of.relevant,
                          case.of.limit)
BestOfBoth == case.kind = "held" => BestAreHeld(case.of.first, case.of.second)
SearchKeepsTheBest == AgreementStands /\ RecallIsOfDocuments /\ BestOfBoth

(* What a model concludes is read as it says it: the first object in its answer with as
   many braces closed as opened before it, or that of its code block; and a conclusion is credited with the failure of the service at fault by
   the smallest stretches of it that assert the failure, all of them. *)
ObjectIsRead == case.kind = "answer" => FirstObjectIsRead(case.of.text, case.of.fields)
FailureIsBound ==
    case.kind = "grade" => BoundIsBySmallestSpans(case.of.text, case.of.archetype, case.of.cause)
ConclusionsAreRead == ObjectIsRead /\ FailureIsBound

(* Grading saved conclusions again is grading them; of what failed before its conclusion
   was graded, the success stays; and every failure has a reason. *)
RegradeIsGrading ==
    case.kind = "regrade" =>
        RegradeIsFreshGrade(case.of.scenario, case.of.run, case.of.first, case.of.second)

(* What is reported of a run, of its judge and of a configuration of the search: the
   95th percentile, the shares of the kinds, the reasons for failure, an agreement that
   has to be earned, and no case dropped from a recall. *)
FiguresAreOfTheResults ==
    /\ case.kind = "report" => SummaryIsOfTheResults(case.of)
    /\ case.kind = "sheet" => KappaIsEarned(case.of.human, case.of.judge)
    /\ case.kind = "config" => EveryCaseCounts(case.of.cases, case.of.parent, 2)

(* What is reported of two runs: the scenarios that came out differently are the
   difference. *)
DifferencesAddUp == case.kind = "compare" => ComparisonAddsUp(case.of.a, case.of.b)

(* A service is read for what is abnormal on it, however much a failure has cut off:
   the gate on actions opens on a partial result as on the whole one, unless all that is
   abnormal is metrics that only rounding shows to have been zero. *)
NothingSeenIsLost ==
    /\ case.kind = "metrics" => PartialShowsTheSame(case.of)
    /\ case.kind = "logs" => PartialLogsShowTheSame(case.of.rows, case.of.level, case.of.limit)
==============================================================================
