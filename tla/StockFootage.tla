---------------------------- MODULE StockFootage ----------------------------
(***************************************************************************)
(* PexelsStockAdapter.fetch_for_plan() of modules/adapters/video/pexels.py: *)
(* search two services, keep the largest hits, download each unless its file*)
(* is there.  A process may end at any point; the directory stays.          *)
(***************************************************************************)
EXTENDS Integers, FiniteSets, Sequences, SequencesExt, StableSort

CONSTANTS
    PexelsClips, PixabayClips,
    Pixels,     \* [clips -> Nat], width * height
    Count,      \* clips wanted
    MaxPlans    \* bound: calls of fetch_for_plan()

Clips == PexelsClips \cup PixabayClips

FootageAssumption ==
    /\ PexelsClips \cap PixabayClips = {} /\ IsFiniteSet(Clips) /\ "none" \notin Clips
    /\ Pixels \in [Clips -> Nat] /\ Count \in Nat /\ MaxPlans \in Nat

VARIABLES
    disk,       \* per clip: "absent", "part", "whole"
    keys,       \* which API keys are set
    todo,       \* videos still to download
    open,       \* the clip whose file is being written, or "none"
    paths,      \* paths so far
    fetching,
    \* history
    plans, hits, broken

fvars == <<disk, keys, todo, open, paths, fetching, plans, hits, broken>>

FInit ==
    /\ disk = [c \in Clips |-> "absent"]
    /\ keys \in SUBSET {"pexels", "pixabay"}
    /\ todo = <<>> /\ open = "none" /\ paths = <<>> /\ fetching = FALSE
    /\ plans = 0 /\ hits = <<>> /\ broken = {}
------------------------------------------------------------------------------
\* What a service answers: clips in any order, nothing when it fails.
Answers(S, key) == IF key \in keys THEN UNION {SetToSeqs(T) : T \in SUBSET S} ELSE {<<>>}

\* results.sort(key=pixels, reverse=True)
Best(s) ==
    LET order == Order([i \in 1 .. Len(s) |-> Pixels[s[i]]])
    IN  [n \in 1 .. Len(s) |-> s[order[n]]]

Cut(s) == IF Len(s) > Count THEN SubSeq(s, 1, Count) ELSE s

\* search(): Pixabay is asked only when Pexels has too few.
FetchForPlan ==
    /\ ~ fetching /\ plans < MaxPlans /\ keys # {}
    /\ plans' = plans + 1
    /\ \E a \in Answers(PexelsClips, "pexels") :
          \E b \in IF Len(a) < Count THEN Answers(PixabayClips, "pixabay") ELSE {<<>>} :
             /\ hits' = Cut(Best(a \o b))
             /\ todo' = hits'
    /\ fetching' = TRUE /\ paths' = <<>>
    /\ UNCHANGED <<disk, keys, open, broken>>

Due == Head(todo)
Drop == todo' = Tail(todo)

\* download(): a file that exists is taken as it is.
Cached ==
    /\ fetching /\ todo # <<>> /\ open = "none"
    /\ disk[Due] # "absent"
    /\ paths' = Append(paths, Due) /\ Drop
    /\ UNCHANGED <<disk, keys, open, fetching, plans, hits, broken>>

\* The request is answered and the file opened, or it is refused.
Open ==
    /\ fetching /\ todo # <<>> /\ open = "none"
    /\ disk[Due] = "absent"
    /\ \/ open' = Due /\ disk' = [disk EXCEPT ![Due] = "part"] /\ UNCHANGED todo
       \/ Drop /\ UNCHANGED <<open, disk>>
    /\ UNCHANGED <<keys, paths, fetching, plans, hits, broken>>

\* Mutant of Stream: a download that breaks off counts.
StreamAnyway ==
    /\ open # "none"
    /\ \/ disk' = [disk EXCEPT ![open] = "whole"]
       \/ UNCHANGED disk
    /\ paths' = Append(paths, open)
    /\ open' = "none" /\ Drop
    /\ UNCHANGED <<keys, fetching, plans, hits, broken>>

\* The chunks arrive, or the stream breaks off and leaves what there is.
Stream ==
    /\ open # "none"
    /\ \/ /\ disk' = [disk EXCEPT ![open] = "whole"]
          /\ paths' = Append(paths, open) /\ UNCHANGED broken
       \/ broken' = broken \cup {open} /\ UNCHANGED <<disk, paths>>
    /\ open' = "none" /\ Drop
    /\ UNCHANGED <<keys, fetching, plans, hits>>

Done ==
    /\ fetching /\ todo = <<>> /\ open = "none"
    /\ fetching' = FALSE
    /\ UNCHANGED <<disk, keys, todo, open, paths, plans, hits, broken>>

\* The process ends and another one starts on the same directory.
Stop ==
    /\ fetching
    /\ broken' = IF open = "none" THEN broken ELSE broken \cup {open}
    /\ fetching' = FALSE /\ open' = "none" /\ todo' = <<>> /\ paths' = <<>>
    /\ UNCHANGED <<disk, keys, plans, hits>>

FStep == Cached \/ Open \/ Stream \/ Done
FNext == FetchForPlan \/ FStep \/ Stop
------------------------------------------------------------------------------
\* What fetch_for_plan() hands out (pexels.py:195-236): clips of this plan's
\* search, the largest first and at most Count, each of them on disk, and whole
\* unless an earlier download of the same clip broke off and left its part, which
\* is from then on taken for the clip.
FootageIsWhole ==
    /\ Len(paths) <= Count
    /\ \E at \in [1 .. Len(paths) -> 1 .. Len(hits)] : \A i \in 1 .. Len(paths) :
          paths[i] = hits[at[i]] /\ \A j \in 1 .. i - 1 : at[j] < at[i]
    /\ \A i \in 1 .. Len(paths) :
        /\ disk[paths[i]] # "absent"
        /\ disk[paths[i]] = "part" => paths[i] \in broken
        /\ \A j \in 1 .. i : Pixels[paths[j]] >= Pixels[paths[i]]
==============================================================================
