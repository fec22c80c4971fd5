------------------------------ MODULE Feedback ------------------------------
(***************************************************************************)
(* What comes back from published videos (ytaimbot_ml/feedback,             *)
(* rl/reward_shaper.py, learner/drift_detector.py): FeedbackScorers of two   *)
(* processes on the table niche_weights, to which optimize_niche_weights()   *)
(* writes too; the ABTester of a process; the running statistics of the      *)
(* RewardShaper; reservoir sampling.  A weight and a signal of 1.0 are Unit. *)
(***************************************************************************)
EXTENDS Integers, Sequences, SequencesExt, FiniteSets, Powers, Tables, Sampling

CONSTANTS
    Scorers, Niches,
    Unit,
    Signals,        \* of _compute_signal(): 0.0 to 2.0
    Averages,       \* what optimize_niche_weights() saves: 0.0 to 1.0
    Variants, Inconclusive,
    MinImpressions,
    Batch, MaxBatches,  \* bound: impressions and clicks come in batches
    Ratios,         \* a metric relative to its target, in parts of Unit
    LogViews,       \* log1p(views) / log1p(VIEWS_TARGET), likewise
    MaxUpdates, MaxRows, MaxShapes, MaxStream   \* bounds

FeedbackAssumption ==
    /\ {Unit, Batch, MaxBatches, MinImpressions, MaxUpdates, MaxRows, MaxStream} \subseteq Nat
    /\ Signals \subseteq 0 .. 2 * Unit /\ Averages \subseteq 0 .. Unit
    /\ Ratios \subseteq Nat /\ LogViews \subseteq Nat /\ Inconclusive \notin Variants

VARIABLES
    table,      \* niche_weights
    cached,     \* _weights of every scorer
    tally,      \* _counts: variants in the order they came up, impressions and clicks
    results,    \* rows of ab_tests, with the counts each was made of
    n, mean, s, \* the Welford accumulators: mean in parts of scale, s in
    scale,      \* parts of its square, so that nothing is rounded
    \* history
    updates, bases, rewards

scoring == <<table, cached, updates, bases>>
testing == <<tally, results>>
shaping == <<n, mean, s, scale, rewards>>

BInit ==
    /\ table = <<>> /\ cached = [p \in Scorers |-> <<>>]
    /\ updates = [k \in Niches |-> 0] /\ bases = [k \in Niches |-> {Unit}]
    /\ tally = <<>> /\ results = <<>>
    /\ n = 0 /\ mean = 0 /\ s = 0 /\ scale = 1 /\ rewards = <<>>
------------------------------------------------------------------------------
\* A process starts: _load_weights()
LoadWeights(p) ==
    /\ cached' = [cached EXCEPT ![p] = table]
    /\ UNCHANGED <<table, updates, bases>>

Old(p, k) == IF k \in DOMAIN cached[p] THEN cached[p][k] ELSE Unit

Clip(x, low, high) == IF x < low THEN low ELSE IF x > high THEN high ELSE x

\* Mutant of Bounded: the average, without the safety bounds.
BoundedNot(old, signal) == (3 * signal + 7 * old) \div 10

\* The moving average, at most 20 % away: bounds are rounded inwards.
Bounded(old, signal) ==
    Clip((3 * signal + 7 * old) \div 10, (8 * old + 9) \div 10, (12 * old) \div 10)

\* update(): all weights this process knows are saved, fresh or not.
UpdateWeight(p, k, signal) ==
    /\ updates[k] < MaxUpdates /\ updates' = [updates EXCEPT ![k] = @ + 1]
    /\ cached' = [cached EXCEPT ![p] = Over([c \in {k} |-> Bounded(Old(p, k), signal)], @)]
    /\ table' = Over(cached'[p], table)
    /\ UNCHANGED bases

\* save_niche_weights() of optimize_niche_weights()
SaveNicheWeights(f) ==
    /\ table' = Over(f, table)
    /\ bases' = [k \in Niches |-> bases[k] \cup {f[k]}]
    /\ UNCHANGED <<cached, updates>>

ScorerNext ==
    \/ \E p \in Scorers : LoadWeights(p) \/ \E k \in Niches, x \in Signals : UpdateWeight(p, k, x)
    \/ \E x \in Averages : SaveNicheWeights([k \in Niches |-> x])
------------------------------------------------------------------------------
Known(v)  == \E i \in DOMAIN tally : tally[i].variant = v
Ensured(v) == IF Known(v) THEN tally
              ELSE Append(tally, [variant |-> v, impressions |-> 0, clicks |-> 0])
At(q, v)  == CHOOSE i \in DOMAIN q : q[i].variant = v

RecordImpressions(v) ==
    LET q == Ensured(v)
    IN  /\ q[At(q, v)].impressions < Batch * MaxBatches
        /\ tally' = [q EXCEPT ![At(q, v)].impressions = @ + Batch]
        /\ UNCHANGED results

RecordClicks(v) ==
    LET q == Ensured(v)
    IN  /\ q[At(q, v)].clicks < Batch * MaxBatches
        /\ tally' = [q EXCEPT ![At(q, v)].clicks = @ + Batch]
        /\ UNCHANGED results

\* chi2_contingency() of a 2 x 2 table, with Yates' correction; p < 0.05 when
\* the statistic is above 3.84.  It raises for a negative number and for an
\* expected frequency of zero.
Misses(c)  == c.impressions - c.clicks
Raises(a, b) ==
    \/ Misses(a) < 0 \/ Misses(b) < 0
    \/ a.clicks + b.clicks = 0 \/ Misses(a) + Misses(b) = 0
Abs(x) == IF x < 0 THEN -x ELSE x
Significant(a, b) ==
    LET N == a.impressions + b.impressions
        d == 2 * Abs(a.clicks * Misses(b) - b.clicks * Misses(a)) - N
    IN  d > 0 /\ 25 * N * d * d >
          384 * a.impressions * b.impressions * (a.clicks + b.clicks) * (Misses(a) + Misses(b))

Winner(a, b) ==
    IF ~ Significant(a, b) THEN Inconclusive
    ELSE IF a.clicks * b.impressions > b.clicks * a.impressions THEN a.variant ELSE b.variant

\* Mutant of Enough: the first variant's impressions are enough.
EnoughOfFirst(a, b) == a.impressions >= MinImpressions

Enough(a, b) == a.impressions >= MinImpressions /\ b.impressions >= MinImpressions

\* save_ab_test(): one more row each time.
SaveAbTest(row) == results' = Append(results, row)

\* analyze(): of the first two variants.
Analyze ==
    /\ Len(tally) >= 2 /\ Len(results) < MaxRows
    /\ LET a == tally[1]
           b == tally[2]
       IN  /\ Enough(a, b) /\ ~ Raises(a, b)
           /\ SaveAbTest([winner |-> Winner(a, b), of |-> {a, b}])
    /\ UNCHANGED tally

\* The counts are not stored.
Restart == tally' = <<>> /\ UNCHANGED results

TesterNext ==
    \/ \E v \in Variants : RecordImpressions(v) \/ RecordClicks(v)
    \/ Analyze \/ Restart
------------------------------------------------------------------------------
\* shape()
Shaped(ctr, retention, views) == Clip((4 * ctr + 4 * retention + 2 * views) \div 10, 0, Unit)

\* Mutant of Deviation: both factors are taken from the old mean.
DeviationOld(x, old, new) == (x - old) * (x - old)

Deviation(x, old, new) == (x - old) * (x - new)

\* _welford_update()
Shape(x) ==
    /\ n < MaxShapes /\ n' = n + 1 /\ scale' = scale * n'
    /\ LET new == x * scale'
           old == mean * n'
       IN  /\ mean' = old + (new - old) \div n'
           /\ s' = s * n' * n' + Deviation(new, old, mean')
    /\ rewards' = Append(rewards, x)

ShaperNext == \E c, r \in Ratios, v \in LogViews : Shape(Shaped(c, r, v))
------------------------------------------------------------------------------
\* Processes save all the weights they know, old ones too, and undo what others
\* saved (scorer.py:55-119, orchestrator.py:856-866).  Even so a weight is never
\* further than 20 % for each update of its niche from a value that somebody
\* meant it to have, and so no sequence of bad weeks, in whatever process,
\* brings a weight to zero that was not set to zero.
WeightsBounded ==
    \A k \in DOMAIN table : \E b \in bases[k] :
       /\ b * Power(8)[updates[k]] <= table[k] * Power(10)[updates[k]]
       /\ table[k] * Power(10)[updates[k]] <= b * Power(12)[updates[k]]

\* A row of ab_tests with a winner is of two variants with enough impressions
\* each, and the winner has the better rate of the two whichever was seen first
\* (ab_tester.py:62-118); a test that starts anew after a restart owes nothing to the
\* counts before.
WinnersWin ==
    \A i \in DOMAIN results : \A a, b \in results[i].of : a # b =>
       /\ a.impressions >= MinImpressions
       /\ results[i].winner = a.variant =>
             a.clicks * b.impressions > b.clicks * a.impressions

\* The accumulators agree with the definitions of mean and variance, rewards stay
\* in [0, 1] (reward_shaper.py:75-157).
Plus(q) == FoldSeq(+, 0, q)
ShapesTrue ==
    /\ n = Len(rewards) /\ n * mean = scale * Plus(rewards)
    /\ n * s = scale * scale * (n * Plus([i \in DOMAIN rewards |-> rewards[i] * rewards[i]])
                                 - Plus(rewards) * Plus(rewards))
    /\ mean \in 0 .. scale * Unit /\ s >= 0

\* A sample has k positions, none twice, and every set of k is drawn in as many ways
\* as any other (drift_detector.py:76-110).
SampleUniform ==
    \A len, k \in 1 .. MaxStream :
       LET ways(S) == Cardinality({f \in Draws(k, len) : ToSet(Reservoir(k, len, f)) = S})
           all == {S \in SUBSET (1 .. len) : Cardinality(S) = IF len < k THEN len ELSE k}
       IN  \A S, T \in all : ways(S) = ways(T) /\ ways(S) > 0
=============================================================================
