---------------------------- MODULE TrendSources ----------------------------
(***************************************************************************)
(* CompositeTrendSource.fetch() of modules/adapters/composite.py over the   *)
(* YouTube search with its rolling quota and its retries, the Google trends *)
(* and the cache.  Scores are integers, Top stands for 1.0, and weights are *)
(* numbers of halves.                                                       *)
(***************************************************************************)
EXTENDS TrendCache, StableSort

CONSTANTS
    CacheKey,   \* _CACHE_KEY
    Titles,     \* normalised keywords
    Top,
    Weight,     \* [{"youtube", "google"} -> Nat], 2 stands for 1.0
    Budget,     \* quota of a window, in searches
    Window,
    MaxRetries,
    MaxSearches, MaxFetches     \* bounds

ASSUME SourcesAssumption ==
    /\ CacheKey \in Keys
    /\ Top \in Nat \ {0} /\ Weight \in [{"youtube", "google"} -> Nat]
    /\ Budget \in Nat /\ Window \in Nat /\ MaxRetries \in Nat

VARIABLES
    stage,      \* "idle", "search", "reply", "google", "merge"
    attempt,    \* of the retry loop around the search
    signals,    \* all_signals
    best, rest, \* of _deduplicate: the dict, and the signals still to come
    log,        \* _log of the QuotaTracker: when each search was recorded
    answer,     \* what fetch() returned
    \* history
    searches,   \* when each search was recorded, never evicted
    fetches

tvars == <<stage, attempt, signals, best, rest, log, answer, searches, fetches>>

Signal == [title : Titles \cup {"synthetic"}, score : 0 .. Top]
Synthetic == <<[title |-> "synthetic", score |-> Top]>>

TTypeOK ==
    /\ CTypeOK
    /\ stage \in {"idle", "search", "reply", "google", "merge"}
    /\ attempt \in 0 .. MaxRetries
    /\ {signals, best, rest, answer} \subseteq Seq(Signal)
    /\ IsSuffix(log, searches)

TInit ==
    /\ CInit
    /\ stage = "idle" /\ attempt = 0
    /\ signals = <<>> /\ best = <<>> /\ rest = <<>> /\ answer = <<>>
    /\ log = <<>> /\ searches = <<>> /\ fetches = 0
------------------------------------------------------------------------------
\* fetch(): cached, or every source in turn.
Fetch ==
    /\ stage = "idle" /\ fetches < MaxFetches
    /\ fetches' = fetches + 1
    /\ \/ Hit(CacheKey) /\ answer' = got'.value /\ UNCHANGED <<stage, signals>>
       \/ Miss(CacheKey) /\ stage' = "search" /\ signals' = <<>> /\ UNCHANGED answer
    /\ attempt' = 0
    /\ UNCHANGED <<best, rest, log, searches>>

\* _apply_weight: clamped to 1.0, and left alone when the weight is 1.0.
Weighted(source, s) ==
    [i \in 1 .. Len(s) |-> [s[i] EXCEPT !.score =
        IF Weight[source] = 2 THEN @ ELSE Min({(@ * Weight[source]) \div 2, Top})]]

Collect(source, s) == signals' = signals \o Weighted(source, s)

\* Mutant of Recent: a record that is just leaving the window is dropped early.
RecentOnly ==
    LET kept == {i \in 1 .. Len(log) : log[i] > now - Window}
    IN  IF kept = {} THEN <<>> ELSE SubSeq(log, Min(kept), Len(log))

\* _evict_expired: from the left, up to the first record that still counts.
Recent ==
    LET kept == {i \in 1 .. Len(log) : log[i] >= now - Window}
    IN  IF kept = {} THEN <<>> ELSE SubSeq(log, Min(kept), Len(log))

\* can_proceed(), on every attempt anew.
Search ==
    /\ stage = "search"
    /\ log' = Recent
    /\ IF Len(Recent) + 1 <= Budget
       THEN stage' = "reply" /\ UNCHANGED signals
       ELSE stage' = "google" /\ Collect("youtube", Synthetic)
    /\ UNCHANGED <<attempt, best, rest, answer, searches, fetches, cvars>>

\* Titles in the order of the answer: 1 - rank / total.
Ranked(titles) ==
    [i \in 1 .. Len(titles) |->
        [title |-> titles[i], score |-> Top - ((i - 1) * Top) \div Len(titles)]]

TitleSeqs == UNION {[1 .. n -> Titles] : n \in 0 .. 2}

\* Mutant of SearchFails: the last attempt is not told from the others.
SearchFailsAgain ==
    /\ stage = "reply"
    /\ \/ attempt <= MaxRetries /\ attempt' = attempt + 1 /\ stage' = "search"
       \/ stage' = "google" /\ UNCHANGED attempt
    /\ UNCHANGED <<signals, best, rest, log, answer, searches, fetches, cvars>>

\* 429, 5xx, timeouts: retried while attempts are left; then, or at once after
\* 400 and 403, _merge_all goes on with the next source.
SearchFails ==
    /\ stage = "reply"
    /\ \/ attempt < MaxRetries /\ attempt' = attempt + 1 /\ stage' = "search"
       \/ stage' = "google" /\ UNCHANGED attempt
    /\ UNCHANGED <<signals, best, rest, log, answer, searches, fetches, cvars>>

\* A search is recorded when its answer is there; an error of no known kind
\* brings synthetic signals.
SearchReplies ==
    /\ stage = "reply" /\ Len(searches) < MaxSearches
    /\ stage' = "google"
    /\ \/ /\ \E titles \in TitleSeqs : Collect("youtube", Ranked(titles))
          /\ log' = Append(log, now)
          /\ searches' = Append(searches, now)
       \/ Collect("youtube", Synthetic) /\ UNCHANGED <<log, searches>>
    /\ UNCHANGED <<attempt, best, rest, answer, fetches, cvars>>

\* trendspy raises nothing that is retried: one call, any error ends the source.
Google ==
    /\ stage = "google"
    /\ stage' = "merge"
    /\ \/ \E t \in Titles, volume \in 0 .. Top :
             Collect("google", <<[title |-> t, score |-> volume]>>)
       \/ UNCHANGED signals
    /\ best' = <<>> /\ rest' = signals'
    /\ UNCHANGED <<attempt, log, answer, searches, fetches, cvars>>

Same(s) == {i \in 1 .. Len(best) : best[i].title = s.title}

\* Mutant of Keep: the last signal of a title wins.
KeepLast(s) ==
    IF Same(s) = {} THEN Append(best, s) ELSE [best EXCEPT ![Max(Same(s))] = s]

\* A dict keeps the place of the first.
Keep(s) ==
    IF Same(s) = {} THEN Append(best, s)
    ELSE IF s.score > best[Max(Same(s))].score THEN [best EXCEPT ![Max(Same(s))] = s] ELSE best

\* One turn of the loop of _deduplicate.
Deduplicate ==
    /\ stage = "merge" /\ rest # <<>>
    /\ best' = Keep(Head(rest)) /\ rest' = Tail(rest)
    /\ UNCHANGED <<stage, attempt, signals, log, answer, searches, fetches, cvars>>

Sorted ==
    LET order == Order([i \in 1 .. Len(best) |-> best[i].score])
    IN  [n \in 1 .. Len(best) |-> best[order[n]]]

Merged == IF signals = <<>> THEN Synthetic ELSE Sorted

Merge ==
    /\ stage = "merge" /\ rest = <<>>
    /\ stage' = "idle"
    /\ answer' = Merged
    /\ Put(CacheKey, Merged)
    /\ UNCHANGED <<attempt, signals, best, rest, log, searches, fetches>>

TStep == Search \/ SearchFails \/ SearchReplies \/ Google \/ Deduplicate \/ Merge
TNext == Fetch \/ TStep \/ (Pass /\ UNCHANGED tvars)
------------------------------------------------------------------------------
\* No window, wherever it starts, holds more recorded searches than the budget
\* pays, although time passes between can_proceed() and record() and records
\* are evicted one attempt at a time (youtube_search.py:74-89).
SearchWindow ==
    \A t \in 0 .. now :
        Cardinality({i \in 1 .. Len(searches) : searches[i] \in t .. t + Window}) <= Budget

\* What fetch() merges is what it was told (composite.py:114-182): every title
\* once, with the best weighted score any source gave it, best first, and the
\* synthetic answer when no source said anything; a cached answer is the same.
MergedIsBest ==
    stage = "idle" /\ fetches > 0 =>
        LET Said(t) == {signals[i].score : i \in {j \in 1 .. Len(signals) : signals[j].title = t}}
        IN  /\ IsInjective([i \in 1 .. Len(answer) |-> answer[i].title])
            /\ \A i \in 1 .. Len(answer) : \A j \in 1 .. i : answer[j].score >= answer[i].score
            /\ IF signals = <<>> THEN answer = Synthetic
               ELSE /\ {answer[i].title : i \in 1 .. Len(answer)} =
                          {signals[i].title : i \in 1 .. Len(signals)}
                    /\ \A i \in 1 .. Len(answer) : answer[i].score = Max(Said(answer[i].title))

\* Every fetch() ends, with the last retry of the search at the latest.
FetchEnds == stage # "idle" ~> stage = "idle"
==============================================================================
