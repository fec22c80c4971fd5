----------------------------- MODULE RunMetrics -----------------------------
(***************************************************************************)
(* MetricsAggregator with its window, its moving averages and the           *)
(* PrometheusExporter behind it (ytaimbot_ml/metrics, adapters/monitoring), *)
(* and the MultiMetricTracker that is saved and loaded.  Numbers are scaled *)
(* so that a half stays whole; histogram, timestamps and logs are left out. *)
(***************************************************************************)
EXTENDS Integers, Sequences, SequencesExt, FiniteSetsExt, Tables

CONSTANTS
    WindowSize,     \* maxlen of both deques
    Alpha,          \* smoothing factor, in hundredths
    DefaultAlpha,   \* from_dict() of nothing
    Values,         \* observed rates
    Statuses,       \* of a PipelineResult
    Names,          \* of a multi tracker's metrics
    MaxRecords      \* bound: calls in all

Successes == {"ok", "published", "success"}

MetricsAssumption ==
    /\ WindowSize \in Nat \ {0} /\ MaxRecords \in Nat
    /\ Alpha \in 1 .. 99 /\ DefaultAlpha \in 1 .. 99 /\ Values \subseteq Nat

VARIABLES
    window,     \* the last results: status, and whether it uploaded
    ctr,        \* EMATracker; retention's has the same code
    counts,     \* videos, errors and quota since the last reset
    revenue,    \* _revenue_history
    exported,   \* counters and gauges of the process, whatever the aggregator does
    multi,      \* MultiMetricTracker: alpha, and trackers by name with their own
    saved,      \* its to_dict()
    samples,    \* history: what ctr was updated with since the last reset
    runs,       \* history: every result since the last reset
    calls

aggregator == <<window, ctr, counts, revenue, exported, samples, runs>>
rmvars     == <<aggregator, multi, saved, calls>>

NoSample == [value |-> 0, n |-> 0]
Zeros    == [videos |-> 0, errors |-> 0, quota |-> 0]
NoExport == [runs |-> [s \in Statuses |-> 0], ctr |-> 0, videos |-> 0, errors |-> 0, quota |-> 0]

RMInit ==
    /\ window = <<>> /\ ctr = NoSample /\ counts = Zeros /\ revenue = <<>>
    /\ exported = NoExport
    /\ multi = [alpha |-> Alpha, trackers |-> <<>>] /\ saved = <<>>
    /\ samples = <<>> /\ runs = <<>> /\ calls = 0
------------------------------------------------------------------------------
\* deque(maxlen)
Push(q, x) == IF Len(q) < WindowSize THEN Append(q, x) ELSE Append(Tail(q), x)

\* Mutant of Smoothed: the first sample is averaged with the initial zero.
SmoothedFromZero(t, v, a) ==
    [value |-> (a * v + (100 - a) * t.value) \div 100, n |-> t.n + 1]

\* EMATracker.update()
Smoothed(t, v, a) ==
    [value |-> IF t.n = 0 THEN v ELSE (a * v + (100 - a) * t.value) \div 100,
     n     |-> t.n + 1]

\* The exporter: counters go up, gauges are set.
ExportRun(e, s)   == [e EXCEPT !.runs[s] = @ + 1]
ExportVideo(e)    == [e EXCEPT !.videos = @ + 1]
ExportError(e)    == [e EXCEPT !.errors = @ + 1]
ExportCtr(e, v)   == [e EXCEPT !.ctr = v]
ExportQuota(e, q) == [e EXCEPT !.quota = q]

RecordRun(s, uploaded) ==
    /\ window' = Push(window, [status |-> s, uploads |-> uploaded])
    /\ exported' = IF uploaded THEN ExportVideo(ExportRun(exported, s)) ELSE ExportRun(exported, s)
    /\ runs' = Append(runs, s)
    /\ UNCHANGED <<ctr, counts, revenue, multi, saved, samples>>

\* The gauge named for the average is set to the observation.
RecordVideo(v, r) ==
    /\ counts' = [counts EXCEPT !.videos = @ + 1]
    /\ ctr' = Smoothed(ctr, v, Alpha)
    /\ revenue' = Push(revenue, r)
    /\ exported' = ExportCtr(ExportVideo(exported), v)
    /\ samples' = Append(samples, v)
    /\ UNCHANGED <<window, multi, saved, runs>>

RecordError ==
    /\ counts' = [counts EXCEPT !.errors = @ + 1]
    /\ exported' = ExportError(exported)
    /\ UNCHANGED <<window, ctr, revenue, multi, saved, samples, runs>>

RecordQuota(d) ==
    /\ counts' = [counts EXCEPT !.quota = @ + d]
    /\ exported' = ExportQuota(exported, counts'.quota)
    /\ UNCHANGED <<window, ctr, revenue, multi, saved, samples, runs>>

\* reset(): the exporter keeps what it has.
ResetMetrics ==
    /\ window' = <<>> /\ ctr' = NoSample /\ counts' = Zeros /\ revenue' = <<>>
    /\ samples' = <<>> /\ runs' = <<>>
    /\ UNCHANGED <<exported, multi, saved>>

\* get_window_stats() and snapshot()
Share(S) == Cardinality({i \in DOMAIN window : window[i].status \in S})
Stats == [total |-> Len(window), ok |-> Share(Successes), error |-> Share({"error"}),
          dry |-> Share({"dry_run"}), ctr |-> ctr.value]
Snapshot == [videos |-> counts.videos, errors |-> counts.errors, quota |-> counts.quota,
             ctr |-> ctr.value, revenue |-> <<FoldSeq(+, 0, revenue), Len(revenue)>>]

\* MultiMetricTracker: a name that comes up first is registered with the alpha of
\* the whole, and a tracker is updated with its own.
Tracked(t, v) ==
    LET s == Smoothed(t, v, t.alpha) IN [value |-> s.value, n |-> s.n, alpha |-> t.alpha]
Track(name, v) ==
    LET t == IF name \in DOMAIN multi.trackers THEN multi.trackers[name]
             ELSE [value |-> 0, n |-> 0, alpha |-> multi.alpha]
    IN  /\ multi' = [multi EXCEPT !.trackers = Over([m \in {name} |-> Tracked(t, v)], @)]
        /\ UNCHANGED <<aggregator, saved>>

\* to_dict()
Save ==
    /\ saved' = multi.trackers
    /\ UNCHANGED <<aggregator, multi>>

\* from_dict(): the alpha of the whole is that of the first tracker, whichever it
\* is, or the default where there is none.
Load ==
    /\ IF saved = <<>> THEN multi' = [alpha |-> DefaultAlpha, trackers |-> <<>>]
       ELSE \E m \in DOMAIN saved : multi' = [alpha |-> saved[m].alpha, trackers |-> saved]
    /\ UNCHANGED <<aggregator, saved>>

RMNext ==
    /\ calls < MaxRecords /\ calls' = calls + 1
    /\ \/ \E s \in Statuses, b \in BOOLEAN : RecordRun(s, b)
       \/ \E v \in Values : RecordVideo(v, v) \/ \E m \in Names : Track(m, v)
       \/ RecordError \/ RecordQuota(1) \/ ResetMetrics \/ Save \/ Load
------------------------------------------------------------------------------
Suffix(s, n) == SubSeq(s, Len(s) - n + 1, Len(s))

\* The numbers of a report agree with what was recorded since the last reset, in
\* whatever order runs, videos, errors and resets come (aggregator.py:279-540): the
\* window is the last WindowSize results; a moving average counts every sample
\* and stays between the least and the greatest, the first one included; what is
\* scraped counts at least the videos of the snapshot, and shows its quota once
\* there is any.  The trackers of a MultiMetricTracker share its alpha, through
\* whatever saves and loads, the default included (ema_tracker.py:233, 367-376).
RunsTrue ==
    /\ [i \in DOMAIN window |-> window[i].status]
          = Suffix(runs, IF Len(runs) < WindowSize THEN Len(runs) ELSE WindowSize)
    /\ Stats.ok + Stats.error + Stats.dry <= Stats.total
    /\ ctr.n = Len(samples) /\ Snapshot.videos = ctr.n
    /\ IF samples = <<>> THEN ctr.value = 0
       ELSE ctr.value \in Min(ToSet(samples)) .. Max(ToSet(samples))
    /\ exported.videos >= Snapshot.videos
    /\ Snapshot.quota \in {0, exported.quota}
    /\ \A m \in DOMAIN multi.trackers : multi.trackers[m].alpha = multi.alpha

\* What the gauge is called: the moving average of the click-through rate
\* (prometheus.py:65-68, aggregator.py:9).
GaugeIsAverage == samples # <<>> => exported.ctr = ctr.value
=============================================================================
