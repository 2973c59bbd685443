------------------------------- MODULE Evidence -------------------------------
(***************************************************************************)
(* What a diagnostic tool shows of a service, what a partial result leaves *)
(* of it, and whether the gate on actions sees something abnormal in it    *)
(* (tools/diagnostics.py, tools/base.py, agent/evidence.py).  A log line   *)
(* is its level, 1 (DEBUG) to 5 (FATAL); a metric is its average in the    *)
(* latest hour and the one it is compared with, <<>> for no reading.       *)
(***************************************************************************)
EXTENDS Lists, FiniteSetsExt, SequencesExt

CONSTANTS
    Grain,          \* units a reading is measured in, to one of those it is shown in
    SampleLines,    \* log lines shown (15)
    SignatureLines  \* distinct messages shown (10)

ERROR == 4
Missing == <<>>
MOVED_PCT == 300        \* in tenths of a percent, as changes are rounded
Infinite == 1000000     \* more than any change here

AbsoluteOf(n) == IF n < 0 THEN - n ELSE n

(* round: n / d to the nearest whole, to the even one from half-way. *)
Nearest(n, d) ==
    LET down == n \div d
        rest == n % d
    IN IF 2 * rest > d \/ (2 * rest = d /\ down % 2 = 1) THEN down + 1 ELSE down

(* A reading is shown to four places; whether it was zero is asked of what is shown,
   its change is of what was measured.  The sign of a change is only shown. *)
Shown(reading) == IF reading = Missing THEN Missing ELSE <<Nearest(reading[1], Grain)>>
PctChange(now, before) ==
    IF before = Missing \/ before = <<0>> \/ now = Missing THEN Missing
    ELSE <<Nearest(1000 * AbsoluteOf(now[1] - before[1]), AbsoluteOf(before[1]))>>
WasZero(m) == Shown(m.before) = <<0>> /\ Shown(m.now) \notin {Missing, <<0>>}

Moved(m) ==
    LET change == PctChange(m.now, m.before)
    IN IF change # Missing THEN change[1] ELSE IF WasZero(m) THEN Infinite ELSE 0

(* get_metrics of every metric, get_service_logs. *)
Bug_Metrics(readings) == readings       \* in the order of their names
MoreMoved(readings) ==
    {c \in (DOMAIN readings) \X (DOMAIN readings) :
        \/ Moved(readings[c[1]]) > Moved(readings[c[2]])
        \/ Moved(readings[c[1]]) = Moved(readings[c[2]]) /\ c[1] < c[2]}
Metrics(readings) == Arranged(readings, DOMAIN readings, MoreMoved(readings))

ServiceLogs(rows, level, limit) ==
    LET matching == {i \in DOMAIN rows : rows[i].level >= level}
    IN [lines |-> SubSeq(Picked(rows, matching), 1,
                         Min({Cardinality(matching), limit, SampleLines})),
        signatures |-> Min({Cardinality({rows[i].message : i \in matching}), SignatureLines})]

(* _truncate: the longest list is halved, the first of those as long. *)
Half(list) == IF Len(list) > 1 THEN SubSeq(list, 1, Len(list) \div 2) ELSE list
PartialLogs(logs) ==
    IF logs.signatures >= Len(logs.lines)
    THEN [logs EXCEPT !.signatures = IF @ > 1 THEN @ \div 2 ELSE @]
    ELSE [logs EXCEPT !.lines = Half(@)]

(* faults *)
LogsShow(logs) == \E i \in DOMAIN logs.lines : logs.lines[i].level >= ERROR
MetricShows(m) ==
    LET change == PctChange(m.now, m.before) IN
    WasZero(m) \/ (change # Missing /\ change[1] >= MOVED_PCT)
MetricsShow(metrics) == \E i \in DOMAIN metrics : MetricShows(metrics[i])

------------------------------------------------------------------------------
(* What must hold. *)

(* Whether a service is found abnormal does not depend on how much of its metrics a
   partial result has left, nor on how much of its error lines: the gate opens on a
   truncated result where it does on the whole one, and nowhere else.  Two exceptions,
   in which an injected failure can withhold an action.  A metric that is shown to have
   been zero, and was not, is abnormal by that alone, and is ranked by its change: it
   may be in the half that is cut.  So may the errors among lines of all levels. *)
OnlyByRounding(m) ==
    LET change == PctChange(m.now, m.before) IN
    WasZero(m) /\ change # Missing /\ change[1] < MOVED_PCT
PartialShowsTheSame(readings) ==
    LET abnormal == {i \in DOMAIN readings : MetricShows(readings[i])}
        kept == MetricsShow(Half(Metrics(readings)))
    IN /\ kept => abnormal # {}
       /\ (\E i \in abnormal : ~ OnlyByRounding(readings[i])) => kept
PartialLogsShowTheSame(rows, level, limit) ==
    level >= ERROR =>
        (LogsShow(PartialLogs(ServiceLogs(rows, level, limit)))
            <=> \E i \in DOMAIN rows : rows[i].level >= level)
==============================================================================
