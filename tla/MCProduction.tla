---------------------------- MODULE MCProduction ----------------------------
(* The parts that produce a video's material, one after the other in the     *)
(* program and without a common variable: TLC takes one at a time.  The      *)
(* cache is also driven by a client of its own, with more keys than room.    *)
EXTENDS TrendSources, TLC

CONSTANTS
    Sections, SectionWeight, MinTokens, Totals, Keywords, MaxPerSection, Lengths,
    MinWords, LlmRetries, MaxScripts, MaxPuts,
    Chains, DailyLimit, MaxPolls, MaxSongs,
    PexelsClips, PixabayClips, Pixels, Count, MaxPlans,
    MaxChars, Texts,
    Workers, Plans, MaxRuns

VARIABLES
    part,
    chain, total, allocations, status, written, place, try, requests, scripts,
    adapters, enabled, made, step, turn, polls, job, file, result, songs,
    ordered, wasted, refused, wrote, spoilt,
    disk, keys, todo, open, paths, fetching, plans, hits, broken,
    text,
    video, worker, temps, jobs, runs, uploaded

W == INSTANCE ScriptWriter
A == INSTANCE MusicChain
P == INSTANCE StockFootage
X == INSTANCE TextWrap
V == INSTANCE Assembly WITH file <- video

ASSUME ProductionAssumption ==
    /\ W!WriterAssumption /\ A!MusicAssumption /\ P!FootageAssumption
    /\ X!WrapAssumption /\ V!AssemblyAssumption

trends  == <<cvars, tvars>>
script  == <<chain, total, allocations, status, written, place, try, requests, scripts>>
music   == <<adapters, enabled, made, step, turn, polls, job, file, result, songs,
             ordered, wasted, refused, wrote, spoilt>>
footage == <<disk, keys, todo, open, paths, fetching, plans, hits, broken>>
videos  == <<video, worker, temps, jobs, runs, uploaded>>
mvars   == <<part, trends, script, music, footage, text, videos>>

ThreeSections == <<"hook", "body", "cta">>
Weights       == "hook" :> 15 @@ "body" :> 10 @@ "cta" :> 12
TwoKeywords   == <<"k1", "k2">>
Retries       == "groq" :> 2 @@ "gemini" :> 1 @@ "ollama" :> 1
SourceWeights == "youtube" :> 2 @@ "google" :> 3
MusicChains   == {<<"suno", "pixabay", "silent">>, <<"pixabay", "silent">>, <<"kling">>}
Sizes         == "c1" :> 1 @@ "c2" :> 2 @@ "d1" :> 1 @@ "d2" :> 3
Sentences     == UNION {[1 .. n -> 1 .. 5] : n \in 1 .. 3}
ShortTexts    == {<<s>> : s \in Sentences}
                 \cup {<<s, t>> : s, t \in {u \in Sentences : Len(u) < 3}}

Idle(p, chosen, default) == part # p => chosen = default

MInit == /\ TInit /\ W!WInit /\ A!MInit /\ P!FInit /\ X!XInit /\ V!VInit
         /\ part \in {"cache", "trends", "script", "music", "footage", "text", "videos"}
         /\ Idle("script", chain, <<>>)
         /\ (Len(chain) # 1 => total = 2048)
         /\ Idle("music", adapters, <<"kling">>) /\ Idle("music", enabled, FALSE)
         /\ Idle("footage", keys, {})
         /\ Idle("text", text, <<<<1>>>>)

CacheClient ==
    \/ \E k \in Keys : Get(k) \/ Invalidate(k) \/ \E v \in 1 .. MaxPuts : Put(k, v)
    \/ Clear \/ Pass

MNext ==
    /\ UNCHANGED <<part, text>>
    /\ \/ part = "cache" /\ CacheClient /\ UNCHANGED <<tvars, script, music, footage, videos>>
       \/ part = "trends" /\ TNext /\ UNCHANGED <<script, music, footage, videos>>
       \/ part = "script" /\ W!WNext /\ UNCHANGED <<trends, music, footage, videos>>
       \/ part = "music" /\ A!MNext /\ UNCHANGED <<trends, script, footage, videos>>
       \/ part = "footage" /\ P!FNext /\ UNCHANGED <<trends, script, music, videos>>
       \/ part = "videos" /\ V!VNext /\ UNCHANGED <<trends, script, music, footage>>

\* Straight-line code: a call under way goes on.  Whether a job at a service ever
\* ends is not assumed.
Step ==
    /\ UNCHANGED <<part, text, videos>>
    /\ \/ TStep /\ UNCHANGED <<script, music, footage>>
       \/ W!WStep /\ UNCHANGED <<trends, music, footage>>
       \/ A!MStep /\ UNCHANGED <<trends, script, footage>>
       \/ P!FStep /\ UNCHANGED <<trends, script, music>>
MSpec == MInit /\ [][MNext]_mvars /\ WF_mvars(Step)

TypesOK == TTypeOK /\ A!MTypeOK

ScriptIsWhole   == W!ScriptIsWhole
RequestsBounded == W!RequestsBounded
TokensShared    == W!TokensShared
SunoWithinLimit == A!SunoWithinLimit
FilesAreWhole   == A!MusicIsWhole /\ P!FootageIsWhole /\ V!VideosAreWhole
PiecesFit       == X!PiecesFit

\* What the comments say and the code does not do: of the sum of a script's tokens
\* (token_budget.py:82), Suno's daily limit (suno.py:43), the subtitle phrases
\* (subtitle.py:177) and the chunks of TTSMaker (ttsmaker.py:166).
TokensWithinTotal == W!TokensWithinTotal
SunoDailyLimit    == A!SunoDailyLimit
PhrasesFit        == X!PhrasesFit
ChunksFit         == X!ChunksFit

\* Every fetch(), every generate() and every plan's download comes to an end.
ProductionEnds == FetchEnds /\ W!GenerateEnds /\ A!MusicComes
==============================================================================
