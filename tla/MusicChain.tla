----------------------------- MODULE MusicChain -----------------------------
(***************************************************************************)
(* AudioChain.generate() of modules/adapters/audio/audio_chain.py over Suno,*)
(* Pixabay and the silent fallback, and KlingAdapter.generate(), which works*)
(* like Suno.  Suno and Kling generate in the background: submit, poll a    *)
(* bounded number of times, download.                                       *)
(***************************************************************************)
EXTENDS Integers, Sequences

CONSTANTS
    Chains,     \* the chains a process may have been built with
    DailyLimit, \* _daily_limit of Suno
    MaxPolls,   \* MAX_POLL_ATTEMPTS
    MaxSongs    \* bound: calls of generate()

\* A chain has an adapter, and Kling is in none.
MusicAssumption ==
    /\ DailyLimit \in Nat /\ MaxPolls \in Nat \ {0} /\ MaxSongs \in Nat
    /\ \A c \in Chains :
          /\ c \in Seq({"suno", "pixabay", "silent", "kling"}) /\ c # <<>>
          /\ "kling" \in {c[i] : i \in 1 .. Len(c)} => c = <<"kling">>

VARIABLES
    adapters,   \* the adapters of the chain
    enabled,    \* Kling: KLING_ENABLED and a key
    made,       \* _generations_today
    step,       \* "idle", "try", "submit", "poll", "search", "download", "write"
    turn, polls,
    job,        \* at the service: "none", "running", "ready", "broken"
    file,       \* per path what is there: "none", "empty", "part" or who wrote it
    result,     \* "none", "failed" or the path returned
    \* history
    songs,      \* calls begun
    ordered,    \* generations Suno accepted from this process
    wasted,     \* those of them that came to no file
    refused,    \* Suno answered 429
    wrote,      \* who returned
    spoilt      \* a write of this call failed

mvars == <<adapters, enabled, made, step, turn, polls, job, file, result, songs, ordered, wasted, refused, wrote, spoilt>>

Paths == {"asked", "wav"}
Background == {"suno", "kling"}

MTypeOK ==
    /\ made \in 0 .. DailyLimit /\ polls \in 0 .. MaxPolls
    /\ turn \in 1 .. Len(adapters)
    /\ result \in {"none", "failed"} \cup Paths
    /\ step = "idle" \/ result = "none"
    /\ step = "poll" => job # "none"

MInit ==
    /\ adapters \in Chains /\ enabled \in BOOLEAN
    /\ made = 0 /\ step = "idle" /\ turn = 1 /\ polls = 0 /\ job = "none"
    /\ file = [p \in Paths |-> "none"]
    /\ result = "none" /\ songs = 0 /\ ordered = 0 /\ wasted = 0 /\ refused = FALSE /\ wrote = "none"
    /\ spoilt = FALSE
------------------------------------------------------------------------------
Adapter == adapters[turn]

\* An adapter that raises or is not available: the next one.  Kling stands alone.
\* A generation under way at Suno goes on there, and nobody will fetch it.
Fails ==
    /\ job' = "none"
    /\ wasted' = IF Adapter = "suno" /\ job # "none" THEN wasted + 1 ELSE wasted
    /\ IF turn < Len(adapters)
       THEN turn' = turn + 1 /\ step' = "try" /\ UNCHANGED result
       ELSE step' = "idle" /\ result' = "failed" /\ UNCHANGED turn

Returns(path) ==
    /\ step' = "idle" /\ result' = path /\ job' = "none"
    /\ file' = [file EXCEPT ![path] = Adapter]
    /\ wrote' = Adapter
    /\ UNCHANGED <<turn, wasted, spoilt>>

Request ==
    /\ step = "idle" /\ songs < MaxSongs
    /\ songs' = songs + 1
    /\ step' = "try" /\ turn' = 1 /\ result' = "none" /\ wrote' = "none" /\ spoilt' = FALSE
    /\ UNCHANGED <<adapters, enabled, made, polls, job, file, ordered, wasted, refused>>

Available == Adapter = "suno" => made < DailyLimit

\* is_available(), then generate().  Kling writes an empty file when it is off.
Try ==
    /\ step = "try"
    /\ IF ~ Available THEN Fails /\ UNCHANGED <<file, wrote>>
       ELSE IF Adapter = "kling" /\ ~ enabled
       THEN /\ step' = "idle" /\ result' = "asked"
            /\ file' = [file EXCEPT !["asked"] = "empty"]
            /\ UNCHANGED <<turn, job, wasted, wrote>>
       ELSE /\ step' = CASE Adapter \in Background -> "submit"
                         [] Adapter = "pixabay"    -> "search"
                         [] OTHER                  -> "write"
            /\ UNCHANGED <<turn, job, wasted, file, result, wrote>>
    /\ UNCHANGED <<adapters, enabled, made, polls, songs, ordered, refused, spoilt>>

\* POST: accepted, refused with 429 (Suno is then off for this process), or failed.
Submit ==
    /\ step = "submit"
    /\ \/ /\ job' = "running" /\ polls' = 0 /\ step' = "poll"
          /\ ordered' = IF Adapter = "suno" THEN ordered + 1 ELSE ordered
          /\ UNCHANGED <<made, turn, result, wasted, refused>>
       \/ Fails /\ UNCHANGED <<made, polls, ordered, refused>>
       \/ /\ Adapter = "suno"
          /\ made' = DailyLimit /\ refused' = TRUE
          /\ Fails /\ UNCHANGED <<polls, ordered>>
    /\ UNCHANGED <<adapters, enabled, file, songs, wrote, spoilt>>

\* The service goes on by itself.
Progress ==
    /\ job = "running"
    /\ job' \in {"ready", "broken"}
    /\ UNCHANGED <<adapters, enabled, made, step, turn, polls, file, result>>
    /\ UNCHANGED <<songs, ordered, wasted, refused, wrote, spoilt>>

\* Mutant of Poll: the limit is not looked at.
PollForEver ==
    /\ step = "poll"
    /\ \/ job = "ready" /\ step' = "download" /\ UNCHANGED <<turn, polls, job, result, wasted>>
       \/ job = "broken" /\ Fails /\ UNCHANGED polls
       \/ job = "running" /\ UNCHANGED <<step, turn, polls, job, result, wasted>>
    /\ UNCHANGED <<adapters, enabled, made, file, songs, ordered, refused, wrote, spoilt>>

\* One poll; an answer after the last one comes too late.
Poll ==
    /\ step = "poll"
    /\ \/ job = "ready" /\ step' = "download" /\ UNCHANGED <<turn, polls, job, result, wasted>>
       \/ Fails /\ UNCHANGED polls      \* broken, no URL, HTTP error
       \/ /\ job = "running"
          /\ polls' = polls + 1
          /\ IF polls + 1 = MaxPolls THEN Fails ELSE UNCHANGED <<step, turn, job, result, wasted>>
    /\ UNCHANGED <<adapters, enabled, made, file, songs, ordered, refused, wrote, spoilt>>

\* Pixabay: a track of the genre, or an error.
Search ==
    /\ step = "search"
    /\ \/ step' = "download" /\ UNCHANGED <<turn, job, result, wasted>>
       \/ Fails
    /\ UNCHANGED <<adapters, enabled, made, polls, file, songs, ordered, refused, wrote, spoilt>>

\* The download fails before there is anything to write.
Lost == Fails /\ UNCHANGED <<file, wrote, spoilt>>

\* A write that fails may leave a part of the file.
WriteFails(path) ==
    /\ Fails
    /\ file' \in {file, [file EXCEPT ![path] = "part"]}
    /\ spoilt' = TRUE
    /\ UNCHANGED wrote

\* Mutant of Download: generations are not counted.
DownloadUncounted ==
    /\ step = "download"
    /\ Returns("asked") \/ Lost
    /\ UNCHANGED <<adapters, enabled, made, polls, songs, ordered, refused>>

\* Only a song that arrived and was written counts.
Download ==
    /\ step = "download"
    /\ \/ Returns("asked") /\ made' = IF Adapter = "suno" THEN made + 1 ELSE made
       \/ Lost /\ UNCHANGED made
       \/ WriteFails("asked") /\ UNCHANGED made
    /\ UNCHANGED <<adapters, enabled, polls, songs, ordered, refused>>

\* The silent WAV, next to the path that was asked for.
WriteSilence ==
    /\ step = "write"
    /\ Returns("wav") \/ WriteFails("wav")
    /\ UNCHANGED <<adapters, enabled, made, polls, songs, ordered, refused>>

MStep == Try \/ Submit \/ Poll \/ Search \/ Download \/ WriteSilence
MNext == Request \/ MStep \/ Progress
------------------------------------------------------------------------------
\* In one process the generations that Suno accepted are no more than its limit
\* and those that came to no file (a late job, a failed download or write), and
\* Suno is not asked again once it has refused, although the counter moves only
\* after the file is there (suno.py:133-150, 233-235).
SunoWithinLimit ==
    /\ ordered <= DailyLimit + wasted
    /\ refused => ~ (step \in {"submit", "poll", "download"} /\ Adapter = "suno")

\* What suno.py:43 and :118-119 say: a process asks Suno for no more generations
\* a day than the limit; the model stays within a day.
SunoDailyLimit == ordered <= DailyLimit

\* The path that generate() returns holds what the adapter that returned it
\* wrote, whatever earlier adapters and earlier calls left at either path; an
\* empty file only from a Kling that is off (audio_chain.py:210-233, kling.py:114).
MusicIsWhole ==
    result \in Paths =>
        \/ wrote # "none" /\ file[result] = wrote
        \/ adapters = <<"kling">> /\ ~ enabled /\ file[result] = "empty"

\* Every call ends, polls included, and a chain that has the fallback ends with
\* music unless a write failed (audio_chain.py:133-134: "the chain never raises").
MusicComes ==
    step # "idle" ~>
        /\ step = "idle"
        /\ ~ spoilt /\ adapters[Len(adapters)] = "silent" => result \in Paths
==============================================================================
