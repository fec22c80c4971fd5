------------------------------ MODULE Learning ------------------------------
(***************************************************************************)
(* What the program measures, learns and decides from, part by part: the   *)
(* parts share no variable, and one of them moves in a behaviour.          *)
(***************************************************************************)
EXTENDS Integers, Sequences, FiniteSets

CONSTANTS
    Niches, Fallback, Top, Bonus, LearnRewards, TableRewards,   \* of NicheLearning
    RunAlpha, RunDefault, Values,                   \* of RunMetrics
    Weight, Rates, Day, Horizon,                    \* of VideoMetrics
    Signals, Averages, Variants, Inconclusive, MinImpressions, Ratios, LogViews,  \* of Feedback
    Announced, Texts, Filter,                          \* of Alerts: messages, text, bits
    Lower, Phrases, Scripts, Replacement, Space, Odds, Prior, Features, MaxTurns,   \* of QualityGate
    Fields,                                         \* of EvidenceChain
    Registers, HashBits, HashAlpha, Hashes, LogHashes,  \* of Sketch
    NoArm, NoVideo, Idle, Videos, Statuses, Names, Items, LearnPulls, TablePulls, MaxRecords, MaxPosts,
    MaxTime, MaxViews, MaxRows, MaxStats, MaxCount, MaxArtifacts, MaxPending, MinAge, MaxRetries,
    Limit, Cooldown, WindowSize, Scorers, MaxUpdates, MaxShapes, MaxStream

VARIABLES
    part,
    rows, weights, bandit, chosen, basis,
    window, ctr, counts, revenue, exported, multi, saved, samples, runs, calls,
    time, published, metrics, seen, todo, tries, attempt, cache, rates, fetches,
    now, sentAt, bits, windowStart, posting, accepted, attempts, posts,
    registers, count, added,
    nodes, ends, phraseCount, patterns, text, matches, inserted, known, came, replaced,
    artifacts, pending, clock, history, edited,
    table, cached, updates, bases, tally, results, n, mean, s, scale, rewards

niches   == <<rows, weights, bandit, chosen, basis>>
aggregator == <<window, ctr, counts, revenue, exported, multi, saved, samples, runs, calls>>
videos   == <<time, published, metrics, seen, todo, tries, attempt, cache, rates, fetches>>
alerts   == <<now, sentAt, bits, windowStart, posting, accepted, attempts, posts>>
sketches == <<registers, count, added>>
gate     == <<nodes, ends, phraseCount, patterns, text, matches, inserted, known, came, replaced>>
chain    == <<artifacts, pending, clock, history, edited>>
scoring  == <<table, cached, updates, bases>>
testing  == <<tally, results>>
shaping  == <<n, mean, s, scale, rewards>>
feedback == <<scoring, testing, shaping>>
lvars    == <<part, niches, aggregator, videos, alerts, sketches, gate, chain, feedback>>

\* More pulls where arms are only learned, fewer where the tables move too.
B == INSTANCE NicheLearning WITH
        Rewards <- LearnRewards, MaxPulls <- LearnPulls
T == INSTANCE NicheLearning WITH
        Rewards <- TableRewards, MaxPulls <- TablePulls
R == INSTANCE RunMetrics WITH Alpha <- RunAlpha, DefaultAlpha <- RunDefault
V == INSTANCE VideoMetrics WITH now <- time, MaxTime <- Horizon

A == INSTANCE Alerts WITH Messages <- Announced, Text <- Texts, Bits <- Filter, Configured <- TRUE

H == INSTANCE Sketch WITH
        Bits <- HashBits, Alpha <- HashAlpha, CounterHash <- Hashes, LogHash <- LogHashes

Q == INSTANCE QualityGate WITH
        Texts <- Scripts, MinDuration <- 480, Durations <- {479, 480}, NoDuration <- -1
E == INSTANCE EvidenceChain
F == INSTANCE Feedback WITH
        Niches <- B!Arms, Unit <- 1000,
        Batch <- 6, MaxBatches <- 2, MaxRows <- 1

ASSUME LearningAssumption ==
    /\ B!NicheAssumption /\ T!NicheAssumption /\ R!MetricsAssumption
    /\ V!VideoAssumption /\ A!AlertAssumption /\ H!SketchAssumption
    /\ Q!GateAssumption /\ E!EvidenceAssumption
    /\ F!FeedbackAssumption

LInit ==
    /\ B!NInit /\ R!RMInit /\ V!VMInit /\ A!AInit /\ H!HInit /\ Q!GInit /\ E!EInit /\ F!BInit
    /\ part \in {"arms", "table", "runs", "collector", "adapter", "manager", "slack", "counter",
                 "log", "sanitizer", "blacklist", "chain", "scorer", "tester", "shaper"}
    /\ part # "sanitizer" => text = CHOOSE t \in Scripts : TRUE

LNext ==
    /\ UNCHANGED part
    /\ \/ /\ \/ part = "arms" /\ B!LearnNext
             \/ part = "table" /\ T!NNext
          /\ UNCHANGED <<aggregator, videos, alerts, sketches, gate, chain, feedback>>
       \/ /\ part = "runs" /\ R!RMNext
          /\ UNCHANGED <<niches, videos, alerts, sketches, gate, chain, feedback>>
       \/ /\ \/ part = "collector" /\ V!CollectorNext
             \/ part = "adapter" /\ V!AdapterNext
          /\ UNCHANGED <<niches, aggregator, alerts, sketches, gate, chain, feedback>>
       \/ /\ \/ part = "manager" /\ A!ManagerNext
             \/ part = "slack" /\ A!SlackNext
          /\ UNCHANGED <<niches, aggregator, videos, sketches, gate, chain, feedback>>
       \/ /\ \/ part = "counter" /\ H!CounterNext
             \/ part = "log" /\ H!LogNext
          /\ UNCHANGED <<niches, aggregator, videos, alerts, gate, chain, feedback>>
       \/ /\ \/ part = "sanitizer" /\ Q!SanitizerNext
             \/ part = "blacklist" /\ Q!BlacklistNext
          /\ UNCHANGED <<niches, aggregator, videos, alerts, sketches, chain, feedback>>
       \/ /\ part = "chain" /\ E!ENext
          /\ UNCHANGED <<niches, aggregator, videos, alerts, sketches, gate, feedback>>
       \/ /\ \/ part = "scorer" /\ F!ScorerNext /\ UNCHANGED <<testing, shaping>>
             \/ part = "tester" /\ F!TesterNext /\ UNCHANGED <<scoring, shaping>>
             \/ part = "shaper" /\ F!ShaperNext /\ UNCHANGED <<scoring, testing>>
          /\ UNCHANGED <<niches, aggregator, videos, alerts, sketches, gate, chain>>

LSpec == LInit /\ [][LNext]_lvars

\* What is not moved in a part need not be looked at again.
NichesLearn  == /\ part \in {"arms", "table"} => B!NichesLearn
                /\ part = "scorer" => F!WeightsBounded
MetricsTrue  == /\ part = "runs" => R!RunsTrue
                /\ part \in {"collector", "adapter"} => V!VideosTrue
                /\ part = "tester" => F!WinnersWin
                /\ part = "shaper" => F!ShapesTrue /\ (n = 0 => F!SampleUniform)
\* What the repository says of the copies of an alert, of a gauge, of the sanitizer
\* and of the chain.
CopiesSpaced == part \in {"manager", "slack"} => A!CopiesSpaced
GaugeIsAverage == part = "runs" => R!GaugeIsAverage
EachReplaced     == part = "sanitizer" => Q!EachReplaced
SurroundingsKept == part = "sanitizer" => Q!SurroundingsKept
TurnsBounded     == part = "sanitizer" => Q!TurnsBounded
TamperingTells   == part = "chain" => E!TamperingTells

AlertsSpaced == part \in {"manager", "slack"} => A!AlertsSpaced
SketchOfSet  == part \in {"counter", "log"} => H!SketchOfSet
GateHolds    == /\ part = "sanitizer" => Q!TextSafe
                /\ part = "blacklist" => Q!PolicySafe
                /\ part = "chain" => E!ChainTells
==============================================================================
