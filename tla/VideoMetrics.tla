---------------------------- MODULE VideoMetrics ----------------------------
(***************************************************************************)
(* Performance of published videos: the tables published_videos and metrics *)
(* (storage/sqlite.py), the MetricsCollector that fills the second from     *)
(* YouTube Analytics, and the YouTubeAnalyticsAdapter that smooths what it  *)
(* shows.  Of a snapshot the views are kept, of the smoothed statistics the *)
(* click-through rate; the sign-in of the service is part of its errors.    *)
(***************************************************************************)
EXTENDS Integers, Sequences, SequencesExt, FiniteSetsExt, Tables

CONSTANTS
    Videos, NoVideo,
    Day,            \* ticks of a date
    MinAge,         \* 48 hours, in ticks
    MaxRetries,     \* of exponential_backoff around collect()
    Limit,          \* of list_published_videos()
    Weight,         \* ema_alpha, in tenths
    Rates,          \* click-through rates the service reports
    MaxTime, MaxViews, MaxRows, MaxStats    \* bounds; the list is not read past MaxRows

VideoAssumption ==
    /\ {MinAge, MaxRetries, Limit, MaxTime, MaxViews, MaxRows, MaxStats} \subseteq Nat
    /\ Day \in Nat \ {0} /\ Weight \in 0 .. 10 /\ Rates \subseteq Nat /\ NoVideo \notin Videos

VARIABLES
    now,
    published,  \* published_videos: published_at by video
    metrics,    \* rows of metrics; since and empty are history
    seen,       \* what YouTube Analytics has of a video: the date of each view
    todo,       \* what is left of the list of collect_all_pending(), with its dates
    tries,      \* attempts at its first video
    attempt,    \* the one under way: its clock, then its snapshot
    cache,      \* _cache of the adapter: rate by video
    rates,      \* history: rates fetched, by video
    fetches

vmvars == <<now, published, metrics, seen, todo, tries, attempt, cache, rates, fetches>>

NoAttempt == [step |-> "none", at |-> 0, views |-> 0, empty |-> FALSE]

VMInit ==
    /\ now = 0 /\ published = <<>> /\ metrics = <<>>
    /\ seen = [v \in Videos |-> <<>>]
    /\ todo = <<>> /\ tries = 0 /\ attempt = NoAttempt
    /\ cache = <<>> /\ rates = [v \in Videos |-> {}] /\ fetches = 0

Date(t) == t \div Day

PassTime ==
    /\ now < MaxTime /\ now' = now + 1
    /\ UNCHANGED <<published, metrics, seen, todo, tries, attempt, cache, rates, fetches>>

\* A view comes to the reports, for its own date.
Watched(v) ==
    /\ MapThenSumSet(LAMBDA w : Len(seen[w]), Videos) < MaxViews /\ v \in DOMAIN published
    /\ \E d \in 0 .. Date(now) : seen' = [seen EXCEPT ![v] = Append(@, d)]
    /\ UNCHANGED <<now, published, metrics, todo, tries, attempt, cache, rates, fetches>>

\* save_video(): INSERT OR REPLACE, a new date for a known id too.
SaveVideo(v) ==
    /\ published' = Over([w \in {v} |-> now], published)
    /\ UNCHANGED <<now, metrics, seen, todo, tries, attempt, cache, rates, fetches>>
------------------------------------------------------------------------------
\* list_published_videos(): newest first, ties in any order, as many as Limit.
Listings ==
    LET all == {s \in [1 .. Cardinality(DOMAIN published) -> DOMAIN published] :
                   /\ IsInjective(s)
                   /\ \A i, j \in DOMAIN s : i < j => published[s[i]] >= published[s[j]]}
    IN  {SubSeq(s, 1, IF Len(s) < Limit THEN Len(s) ELSE Limit) : s \in all}

Collect ==
    /\ todo = <<>> /\ DOMAIN published # {} /\ Len(metrics) < MaxRows
    /\ \E s \in Listings :
          todo' = [i \in DOMAIN s |-> [video |-> s[i], since |-> published[s[i]]]]
    /\ UNCHANGED <<now, published, metrics, seen, tries, attempt, cache, rates, fetches>>

NextVideo == todo' = Tail(todo) /\ tries' = 0 /\ attempt' = NoAttempt

\* Mutant of SaveMetrics: without OR IGNORE.
SaveMetricsTwice(row) == metrics' = Append(metrics, row)

\* save_metrics(): INSERT OR IGNORE under UNIQUE(video_id, collected_at).
SaveMetrics(row) ==
    metrics' = IF \E i \in DOMAIN metrics :
                     metrics[i].video = row.video /\ metrics[i].at = row.at
               THEN metrics ELSE Append(metrics, row)

TooEarly == now - Head(todo).since < MinAge

\* collect() reads the clock; a video young by the date of the list is passed over.
Ask ==
    /\ todo # <<>> /\ attempt.step = "none"
    /\ \/ TooEarly /\ NextVideo
       \/ /\ ~ TooEarly /\ UNCHANGED <<todo, tries>>
          /\ attempt' = [NoAttempt EXCEPT !.step = "asked", !.at = now]
    /\ UNCHANGED <<now, published, metrics, seen, cache, rates, fetches>>

\* Views of the dates from the video's own to that of the clock.
Reported(v, since, at) ==
    Cardinality({i \in DOMAIN seen[v] : seen[v][i] \in Date(since) .. Date(at)})

\* The query: views, or no rows and the zeros of a new snapshot, or an error of
\* any kind, which is retried.
Fetch ==
    /\ attempt.step = "asked"
    /\ \/ /\ \/ attempt' = [attempt EXCEPT !.step = "fetched",
                         !.views = Reported(Head(todo).video, Head(todo).since, attempt.at)]
             \/ attempt' = [attempt EXCEPT !.step = "fetched", !.empty = TRUE]
          /\ UNCHANGED <<todo, tries>>
       \/ /\ tries < MaxRetries /\ tries' = tries + 1
          /\ attempt' = NoAttempt /\ UNCHANGED todo
       \/ tries = MaxRetries /\ NextVideo
    /\ UNCHANGED <<now, published, metrics, seen, cache, rates, fetches>>

\* The snapshot is saved, or the database fails and the video is skipped.
Keep ==
    /\ attempt.step = "fetched" /\ NextVideo
    /\ \/ SaveMetrics([video |-> Head(todo).video, at |-> attempt.at, views |-> attempt.views,
                       since |-> Head(todo).since, empty |-> attempt.empty])
       \/ UNCHANGED metrics
    /\ UNCHANGED <<now, published, seen, cache, rates, fetches>>

\* _apply_ema(): the first statistics of a video as they are.
Smoothed(v, x) ==
    IF v \in DOMAIN cache THEN (Weight * x + (10 - Weight) * cache[v]) \div 10 ELSE x

\* get_stats(): an error shows what is cached and keeps it.
GetStats(v) ==
    /\ fetches < MaxStats /\ fetches' = fetches + 1
    /\ \E x \in Rates :
          /\ cache' = Over([w \in {v} |-> Smoothed(w, x)], cache)
          /\ rates' = [rates EXCEPT ![v] = @ \cup {x}]
    /\ UNCHANGED <<now, published, metrics, seen, todo, tries, attempt>>

Shown(v) == IF v \in DOMAIN cache THEN cache[v] ELSE 0

CollectorNext ==
    \/ PassTime \/ Collect \/ Ask \/ Fetch \/ Keep
    \/ \E v \in Videos : Watched(v) \/ SaveVideo(v)

AdapterNext == \E v \in Videos : GetStats(v)
------------------------------------------------------------------------------
Rows(v)   == {i \in DOMAIN metrics : metrics[i].video = v}
Latest(v) == {i \in Rows(v) : \A j \in Rows(v) : metrics[j].at <= metrics[i].at}

\* get_top_videos(): one line for every latest row of a published video.
TopVideos(n) ==
    LET S == UNION {Latest(v) : v \in DOMAIN published}
    IN  {i \in S : Cardinality({j \in S : metrics[j].views > metrics[i].views}) < n}

\* Rows come from attempts that wait, fail and are retried while views go on being
\* reported, for past dates too, and a known video may be saved again
\* (metrics_collector.py:139-207, sqlite.py:530-629): the ranking names a video
\* once however often it was collected; no row has more views than Analytics has;
\* of two rows asked from the same date the later has no fewer, unless it is the
\* zero snapshot of an answer without rows, which is saved like any other.  A
\* smoothed rate never leaves the range of what was fetched
\* (youtube_analytics.py:249-274).
VideosTrue ==
    /\ \A v \in Videos : Cardinality(Latest(v) \cap TopVideos(Limit)) <= 1
    /\ \A v \in Videos : \A i \in Rows(v) :
          /\ metrics[i].views <= Len(seen[v])
          /\ \A j \in Rows(v) :
                metrics[i].since = metrics[j].since /\ metrics[i].at <= metrics[j].at =>
                   metrics[j].empty \/ metrics[i].views <= metrics[j].views
    /\ \A v \in Videos : rates[v] # {} => Shown(v) \in Min(rates[v]) .. Max(rates[v])
==============================================================================
