------------------------------- MODULE Grading -------------------------------
(***************************************************************************)
(* How the evaluation harness grades a conclusion and reports the grades   *)
(* (evals/run.py, mechanism.py, words.py, judge.py, calibration.py).  A    *)
(* conclusion is a sequence of segments, each of a `clause`: a clause is   *)
(* cut at "because" and, where a segment is `joined`, at a comma or "and". *)
(* A segment is pieces, cut at "with", and may end in a negation of the    *)
(* cause after it.  A piece says words and names services, as owners and   *)
(* not as where connections go.  A phrasing is the set of words it needs:  *)
(* their order and distance are left out.                                  *)
(***************************************************************************)
EXTENDS Lists, SequencesExt, FiniteSetsExt

CONSTANTS
    Archetypes,
    Phrasings,      \* of each archetype: sets of words that assert it (ASSERTIONS)
    Failing,        \* the words that say that something is wrong (_FAILS)
    None

(* A phrasing has something to look for. *)
ASSUME PhrasingsAssumption == \A archetype \in Archetypes : {} \notin Phrasings[archetype]

(* mechanism.clauses: what is left of a segment once the denied pieces are gone, and
   all of them where the segment before denies its cause. *)
OpensClause(text, n) == n = 1 \/ text[n - 1].clause # text[n].clause
Asserts(text, n) ==
    IF ~ OpensClause(text, n) /\ ~ text[n].joined /\ text[n - 1].negates THEN {}
    ELSE {p \in Range(text[n].pieces) : ~ p.denies}
Says(pieces) == UNION {p.says : p \in pieces}
Named(pieces) == UNION {p.names : p \in pieces}
Clauses(text) == {text[n].clause : n \in DOMAIN text}
InClause(text, c) == {n \in DOMAIN text : text[n].clause = c}
Clause(text, c) == UNION {Asserts(text, n) : n \in InClause(text, c)}
Fails(text, c) == Says(Clause(text, c)) \cap Failing # {}

AssertedClauses(text) == {Clause(text, c) : c \in {d \in Clauses(text) : Fails(text, d)}}
Asserted(text) == UNION {Named(clause) : clause \in AssertedClauses(text)}

Matches(words, archetype) == {p \in Phrasings[archetype] : p \subseteq words}
Hits(text, archetype) ==
    Cardinality(UNION {Matches(Says(clause), archetype) : clause \in AssertedClauses(text)})
Names(text, archetype) ==
    /\ Hits(text, archetype) > 0
    /\ \A other \in Archetypes : Hits(text, other) <= Hits(text, archetype)

------------------------------------------------------------------------------
(* _bound.  Whose failure a segment is about. *)
ServicesOf(text, n) ==
    LET left == Asserts(text, n) IN Named(IF left = {} THEN Range(text[n].pieces) ELSE left)
GoesOn(text, n) == OpensClause(text, n) \/ text[n].joined
Owners(text) ==
    LET owner[n \in DOMAIN text] ==
            IF ServicesOf(text, n) = {} /\ GoesOn(text, n)
            THEN IF n = 1 THEN {} ELSE owner[n - 1]
            ELSE ServicesOf(text, n)
    IN owner

(* The spans <<first, last>> of n neighbouring texts, the shorter ones first. *)
AllSpans(n) == {s \in (1..n) \X (1..n) : s[1] <= s[2]}
Shorter(spans) ==
    {c \in spans \X spans :
        LET s == c[1]
            t == c[2]
        IN \/ s[2] - s[1] < t[2] - t[1]
           \/ s[2] - s[1] = t[2] - t[1] /\ s[1] < t[1]}
Spans(n) == Arranged([s \in AllSpans(n) |-> s], AllSpans(n), Shorter(AllSpans(n)))
Inside(s, t) == t[1] <= s[1] /\ s[2] <= t[2]
SpanAsserts(texts, s, archetype) ==
    Matches(UNION {Says(texts[i]) : i \in s[1]..s[2]}, archetype) # {}

Bug_SmallestMatches(texts, archetype) ==    \* a span that only overlaps one found is left out
    LET Look(found, s) ==
            IF \E f \in found : f[1] <= s[2] /\ s[1] <= f[2] THEN found
            ELSE IF SpanAsserts(texts, s, archetype) THEN found \cup {s} ELSE found
    IN FoldLeft(Look, {}, Spans(Len(texts)))
SmallestMatches(texts, archetype) ==
    LET Look(found, s) ==
            IF \E f \in found : Inside(f, s) THEN found
            ELSE IF SpanAsserts(texts, s, archetype) THEN found \cup {s} ELSE found
    IN FoldLeft(Look, {}, Spans(Len(texts)))

Stated(text, c) ==      \* the segments of a clause that assert something
    Picked([n \in DOMAIN text |-> n], {n \in InClause(text, c) : Asserts(text, n) # {}})
OwnersIn(text, c, archetype) ==
    LET places == Stated(text, c)
        texts == [i \in DOMAIN places |-> Asserts(text, places[i])]
    IN {UNION {Owners(text)[places[i]] : i \in s[1]..s[2]} : s \in SmallestMatches(texts, archetype)}
OwnersFound(text, archetype) ==
    UNION {OwnersIn(text, c, archetype) : c \in {d \in Clauses(text) : Fails(text, d)}}

Bound(text, archetype, cause) ==
    LET owners == OwnersFound(text, archetype) IN
    \/ \E o \in owners : cause \in o
    \/ owners # {} /\ \A o \in owners : o = {}

(* _mechanism.  A scenario has an archetype, or keywords, looked for in all that the
   root cause says. *)
MIN_HITS == 2
Written(text) == UNION {Says(Range(text[n].pieces)) : n \in DOMAIN text}
KeywordHits(keywords, words) == Cardinality(keywords \cap words)
Mechanism(scenario, text) ==
    IF scenario.archetype \in Archetypes
    THEN Names(text, scenario.archetype) /\ Bound(text, scenario.archetype, scenario.cause)
    ELSE \/ scenario.keywords = {}
         \/ KeywordHits(scenario.keywords, Written(text))
                >= Min({MIN_HITS, Cardinality(scenario.keywords)})

------------------------------------------------------------------------------
(* Grading a result.  What a grader reads of a conclusion is a reading: the services
   asserted to fail, and whether the failure mode is described. *)
Reading(scenario, root, whole) ==
    [asserted |-> Asserted(whole), mechanism |-> Mechanism(scenario, root)]

NoNote == "no note"
Bug_VERDICT_NOTES == {"no conclusion", "cause not named", "other failure mode",
                      "other action", "acted on victim"}        \* not "blamed victim"
VERDICT_NOTES == {"no conclusion", "cause not named", "other failure mode",
                  "other action", "acted on victim", "blamed victim"}

Identify(scenario, reading, r) ==
    LET target == r.target
        identified == scenario.cause # None
                          /\ (scenario.cause \in reading.asserted \/ target = scenario.cause)
        acted == target \in scenario.victims /\ target # scenario.cause
        wrong == scenario.kind = "cascading" /\ (acted \/ ~ identified)
                     /\ (acted \/ reading.asserted \cap scenario.victims # {})
    IN [r EXCEPT !.identified = identified /\ ~ wrong,
                 !.note = IF ~ wrong THEN @
                          ELSE IF acted THEN "acted on victim" ELSE "blamed victim"]

Verdict(reading, r) ==
    LET success == r.completed /\ r.identified /\ reading.mechanism /\ r.remediation
        why == CASE ~ r.completed -> "no conclusion"
                 [] r.completed /\ ~ r.identified -> "cause not named"
                 [] r.completed /\ r.identified /\ ~ reading.mechanism -> "other failure mode"
                 [] OTHER -> "other action"
    IN [r EXCEPT !.success = success, !.note = IF ~ success /\ @ = NoNote THEN why ELSE @]

(* run is what the investigation ended with. *)
Grade(scenario, run, reading) ==
    LET r == [abstained |-> run.abstained, target |-> run.target, identified |-> FALSE,
              completed |-> run.status \in {"complete", "awaiting_approval"} /\ ~ run.failed,
              remediation |-> scenario.tools = {} \/ run.tool \in scenario.tools,
              success |-> FALSE, note |-> IF run.failed THEN "action failed" ELSE NoNote]
    IN IF scenario.should_abstain
       THEN [r EXCEPT !.success = run.abstained, !.note = IF run.abstained THEN @ ELSE "fabricated"]
       ELSE IF run.abstained THEN [r EXCEPT !.note = "abstained"]
       ELSE Verdict(reading, Identify(scenario, reading, r))

(* run_scenario: an approval that was refused, at the decision or because the edit did
   not run as edited, fails the result whatever it concluded. *)
RunScenario(scenario, run, reading) ==
    LET r == Grade(scenario, run, reading) IN
    IF run.refused THEN [r EXCEPT !.completed = FALSE, !.success = FALSE, !.note = "refused"]
    ELSE r

Regrade(scenario, reading, r) ==
    IF scenario.should_abstain \/ r.abstained THEN r
    ELSE IF r.note # NoNote /\ r.note \notin VERDICT_NOTES THEN r
    ELSE Verdict(reading, Identify(scenario, reading, [r EXCEPT !.note = NoNote]))

------------------------------------------------------------------------------
(* The judge, on the verdicts of its claims; None when its answer cannot be read. *)
ScoreGroundedness(run, verdicts) ==
    LET supported == Len(SelectSeq(verdicts, LAMBDA v : v = "supported")) IN
    CASE run.analysis = "empty" ->
             [fraction |-> <<IF run.abstained THEN 1 ELSE 0, 1>>, fully |-> FALSE]
      [] run.analysis = "unreadable" -> [fraction |-> <<0, 1>>, fully |-> FALSE]
      [] run.analysis = "judged" ->
             [fraction |-> IF verdicts = <<>> THEN <<0, 1>> ELSE <<supported, Len(verdicts)>>,
              fully |-> verdicts # <<>> /\ supported = Len(verdicts)]

(* recovered: an injected failure, then a success of the same call. *)
Recovered(calls) ==
    \E i \in DOMAIN calls : \E j \in i + 1..Len(calls) :
        /\ calls[i].injected
        /\ calls[j].call = calls[i].call /\ calls[j].status \in {"success", "partial"}

(* aggregate, on results [kind, success, latency, attempts, successes].  A rate is a
   fraction, None where nothing counts towards it. *)
Rate(of, counted) ==
    IF of = {} THEN None ELSE <<Cardinality(of \cap counted), Cardinality(of)>>
OfKind(results, kind) == {i \in DOMAIN results : results[i].kind = kind}
Kinds(results) == {results[i].kind : i \in DOMAIN results}
Completed(results) == {i \in DOMAIN results : results[i].success}

CeilOf95Percent(n) == (95 * n + 99) \div 100
P95(latencies) == latencies[Min({Len(latencies), CeilOf95Percent(Len(latencies))})]
Latencies(results) == [i \in DOMAIN results |-> results[i].latency]

Aggregate(results) ==
    LET attempts == SumFunction([i \in DOMAIN results |-> results[i].attempts])
        successes == SumFunction([i \in DOMAIN results |-> results[i].successes])
        recovered == {i \in DOMAIN results : Recovered(results[i].calls)}
    IN [task_completion |-> Rate(DOMAIN results, Completed(results)),
        tool_success_rate |-> IF attempts = 0 THEN None ELSE <<successes, attempts>>,
        p95_latency |-> P95(Ascending(Latencies(results))),
        recovery_rate |-> Rate(OfKind(results, "tool_failure"), recovered),
        by_kind |-> [k \in Kinds(results) |-> Rate(OfKind(results, k), Completed(results))]]

(* failure_analysis: how many failed with each note. *)
FailureAnalysis(results) ==
    LET failed == {i \in DOMAIN results : ~ results[i].success /\ results[i].note # NoNote}
    IN [note \in {results[i].note : i \in failed} |->
            Cardinality({i \in failed : results[i].note = note})]

(* compare.py.  A run is its results, of one scenario each, and its settings: the cap,
   the seed, the judge, the scenario files, the execution settings and the grader. *)
ScenariosOf(run) == {run.results[i].id : i \in DOMAIN run.results}
Warnings(a, b) ==
    (IF Len(a.results) # Len(b.results) THEN {"counts"} ELSE {})
        \cup (IF a.settings # b.settings THEN {"settings"} ELSE {})
        \cup (IF Kinds(a.results) # Kinds(b.results) THEN {"kinds"} ELSE {})
        \cup (IF ScenariosOf(a) # ScenariosOf(b) THEN {"scenarios"} ELSE {})
Bug_Changed(a, b) ==    \* a scenario that failed for another reason is left out
    {c \in (DOMAIN a.results) \X (DOMAIN b.results) :
        LET r == a.results[c[1]]
            s == b.results[c[2]]
        IN r.id = s.id /\ r.success # s.success}
Changed(a, b) ==        \* the scenarios of both whose outcome or note is another
    {c \in (DOMAIN a.results) \X (DOMAIN b.results) :
        LET r == a.results[c[1]]
            s == b.results[c[2]]
        IN r.id = s.id /\ (r.success # s.success \/ r.note # s.note)}

(* cohens_kappa, as a fraction of (n n - expected): 0 of 1 where there is nothing to
   compare. *)
Bug_Kappa(a, b) == <<Cardinality({i \in DOMAIN a : a[i] = b[i]}), Len(a)>>    \* raw agreement
Kappa(a, b) ==
    LET n == Len(a)
        Count(s, label) == Cardinality({i \in DOMAIN s : s[i] = label})
        agree == Cardinality({i \in DOMAIN a : a[i] = b[i]})
        expected == SumFunction([label \in Range(a) \cup Range(b) |-> Count(a, label) * Count(b, label)])
    IN IF n = 0 \/ n # Len(b) THEN <<0, 1>>
       ELSE IF expected >= n * n THEN <<IF agree = n THEN 1 ELSE 0, 1>>
       ELSE <<n * agree - expected, n * n - expected>>

(* score_sheet: the claims a person has labelled; None where there are none. *)
ScoreSheet(claims) ==
    LET labelled == SelectSeq(claims, LAMBDA c : c.human # None)
    IN IF labelled = <<>> THEN None
       ELSE Kappa([i \in DOMAIN labelled |-> labelled[i].human],
                  [i \in DOMAIN labelled |-> labelled[i].judge])

------------------------------------------------------------------------------
(* What must hold. *)

(* The service a segment is about is named in it, or in the nearest one before it that
   names any, if every segment from there on goes on about it. *)
OwnerOf(text, n) ==
    LET named == {m \in 1..n : ServicesOf(text, m) # {}}
    IN IF named # {} /\ \A m \in Max(named) + 1..n : GoesOn(text, m)
       THEN ServicesOf(text, Max(named)) ELSE {}

(* A failure is bound to the service at fault by the stretches of its clauses that assert
   it with no shorter one inside: every one of them, also where two share a segment.
   A conclusion that names an archetype has such a stretch. *)
Stretches(text, archetype) ==
    {s \in (DOMAIN text) \X (DOMAIN text) :
        /\ s[1] <= s[2] /\ text[s[1]].clause = text[s[2]].clause
        /\ Fails(text, text[s[1]].clause)
        /\ Matches(UNION {Says(Asserts(text, n)) : n \in s[1]..s[2]}, archetype) # {}}
Smallest(stretches) == {s \in stretches : \A t \in stretches : Inside(t, s) => t = s}
Blamed(text, s) == UNION {OwnerOf(text, n) : n \in {m \in s[1]..s[2] : Asserts(text, m) # {}}}
BoundIsBySmallestSpans(text, archetype, cause) ==
    LET smallest == Smallest(Stretches(text, archetype))
        blamed == {Blamed(text, s) : s \in smallest}
    IN /\ Bound(text, archetype, cause)
              = (\/ cause \in UNION blamed
                 \/ blamed = {{}})
       /\ Names(text, archetype) => smallest # {}

(* Grading a saved result again gives what the second grader would have given the
   investigation, its note included, where the conclusion is what was graded; and the
   same success everywhere.  A result that failed before its conclusion was graded is
   left as it was (run.py:328), except one whose note the grading had written over with
   that of a victim: it is graded again, to the same failure under a note of its
   conclusion.  No failure is without its reason, and a third time changes nothing. *)
BeforeItsConclusion(run) == run.failed \/ run.refused
VICTIM_NOTES == {"acted on victim", "blamed victim"}
RegradeIsFreshGrade(scenario, run, first, second) ==
    LET before == RunScenario(scenario, run, first)
        fresh == RunScenario(scenario, run, second)
        again == Regrade(scenario, second, before)
    IN /\ ~ BeforeItsConclusion(run) => again = fresh
       /\ BeforeItsConclusion(run) /\ before.note \notin VICTIM_NOTES => again = before
       /\ BeforeItsConclusion(run) /\ before.note \in VICTIM_NOTES => again.note \in VERDICT_NOTES
       /\ again.success = fresh.success
       /\ \A r \in {fresh, again} : ~ r.success => r.note # NoNote
       /\ Regrade(scenario, second, again) = again

(* "a judge that answers supported unconditionally [...] carrying no information"
   scores 0 unless the person does the same; only full agreement scores 1. *)
KappaIsEarned(human, judge) ==
    LET k == Kappa(human, judge) IN
    human # <<>> =>
        /\ k[1] <= k[2] /\ k[2] > 0
        /\ k[1] = k[2] <=> human = judge
        /\ Cardinality(Range(judge)) = 1 /\ human # judge => k[1] = 0

(* p95 is the smallest latency that at least 95 of 100 do not exceed; the kinds of
   scenario make up the whole, and every failure is counted once. *)
SummaryIsOfTheResults(results) ==
    LET s == Aggregate(results)
        n == Len(results)
        NotAbove(l) == Cardinality({i \in DOMAIN results : results[i].latency <= l})
        kinds == Kinds(results)
        notes == FailureAnalysis(results)
    IN /\ 100 * NotAbove(s.p95_latency) >= 95 * n
       /\ \A i \in DOMAIN results :
              100 * NotAbove(results[i].latency) >= 95 * n => s.p95_latency <= results[i].latency
       /\ s.task_completion[1] = SumFunction([k \in kinds |-> s.by_kind[k][1]])
       /\ s.task_completion[2] = SumFunction([k \in kinds |-> s.by_kind[k][2]])
       /\ n - s.task_completion[1] = SumFunction(notes)

(* Two runs compared without a warning saw the same scenarios: the difference of their
   completions is that of the scenarios that changed, "the table that says what a fix
   did" (compare.py:154), and a scenario that is not in it came out the same in both. *)
ComparisonAddsUp(a, b) ==
    LET Successes(run) == {run.results[i].id : i \in {j \in DOMAIN run.results : run.results[j].success}}
        changed == Changed(a, b)
        fixed == {c \in changed : b.results[c[2]].success /\ ~ a.results[c[1]].success}
        broken == {c \in changed : a.results[c[1]].success /\ ~ b.results[c[2]].success}
    IN Warnings(a, b) = {} =>
           /\ Cardinality(Successes(b)) - Cardinality(Successes(a))
                  = Cardinality(fixed) - Cardinality(broken)
           /\ \A i \in DOMAIN a.results :
                  (\A c \in changed : c[1] # i) => a.results[i] \in Range(b.results)
==============================================================================
