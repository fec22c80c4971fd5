---------------------------- MODULE NicheLearning ----------------------------
(***************************************************************************)
(* UCB1Bandit of ytaimbot_ml/rl/ucb1_bandit.py and what the orchestrator    *)
(* does with it: loads it from niche_arms, resets it on drift, and once in a*)
(* while derives niche_weights from it.  A reward is in units of 1 / Top, a *)
(* score in thousandths of such a unit; last_reward is left out.            *)
(***************************************************************************)
EXTENDS Integers, Sequences, SequencesExt, FiniteSets, Functions, Tables

CONSTANTS
    Niches,     \* arm ids in the order of the table
    Fallback,   \* arm ids of an empty table
    Top,        \* 1.0
    Rewards,    \* what update() is called with, clamped or not
    Bonus,      \* Bonus[N][n]: sqrt(2 ln N / n)
    NoArm,
    MaxPulls    \* bound: pulls in all

Arms == ToSet(Niches) \cup ToSet(Fallback)

NicheAssumption ==
    /\ {Niches, Fallback} \subseteq Seq(Arms) /\ Fallback # <<>>
    /\ IsInjective(Niches) /\ IsInjective(Fallback)
    /\ Top \in Nat \ {0} /\ Rewards \subseteq Int /\ MaxPulls \in Nat
    /\ \A N, n \in 1 .. MaxPulls : Bonus[N][n] \in Nat
    /\ \A N, n, k \in 1 .. MaxPulls : n <= k => Bonus[N][k] <= Bonus[N][n]

VARIABLES
    rows,       \* niche_arms
    weights,    \* niche_weights
    bandit,     \* niche_bandit: order of its dict, statistics of its arms, total pulls
    chosen,     \* the arm select() returned and the bandit it looked at
    basis       \* history: niche_arms when niche_weights was last written

nvars == <<rows, weights, bandit, chosen, basis>>

Sum(f)      == FoldFunction(+, 0, f)
Pulls(s)    == Sum([a \in DOMAIN s |-> s[a].n])
Unplayed    == [n |-> 0, total |-> 0]
Stat(b, a)  == b.stat[a]
Nothing     == [arm |-> NoArm, of |-> <<>>]

Fresh(order, arms) == [order |-> order, stat |-> [a \in arms |-> Unplayed], pulls |-> 0]

\* load_niche_arms() and from_dict(); the names of an empty table otherwise.
Loaded ==
    IF DOMAIN rows = {} THEN Fresh(Fallback, ToSet(Fallback))
    ELSE [order |-> Niches, stat |-> rows, pulls |-> Pulls(rows)]

NInit ==
    /\ rows = <<>> /\ weights = <<>> /\ basis = <<>>
    /\ bandit = Loaded
    /\ chosen = Nothing
------------------------------------------------------------------------------
Clamped(r) == IF r < 0 THEN 0 ELSE IF r > Top THEN Top ELSE r

\* update()
Pulled(b, a, r) ==
    [order |-> b.order,
     stat  |-> [b.stat EXCEPT ![a] = [n |-> @.n + 1, total |-> @.total + Clamped(r)]],
     pulls |-> b.pulls + 1]

\* update() of every arm once.
PulledEach(b, r) ==
    [order |-> b.order,
     stat  |-> [a \in DOMAIN b.stat |-> [n |-> Stat(b, a).n + 1, total |-> Stat(b, a).total + Clamped(r[a])]],
     pulls |-> b.pulls + Cardinality(DOMAIN b.stat)]

Average(s) == IF s.n = 0 THEN 0 ELSE (s.total * 1000) \div s.n
Score(b, a) == Average(Stat(b, a)) + Bonus[b.pulls][Stat(b, a).n]

FewestPulls(b, S) == {a \in S : \A c \in S : Stat(b, a).n <= Stat(b, c).n}

FirstUnplayed(b) ==
    LET places == {i \in DOMAIN b.order : b.order[i] \in DOMAIN b.stat /\ Stat(b, b.order[i]).n = 0}
    IN  {b.order[i] : i \in {i \in places : \A j \in places : i <= j}}

\* Mutant of Candidates: the bonus is forgotten.
CandidatesGreedy(b) ==
    LET S == DOMAIN b.stat
    IN  IF \E a \in S : Stat(b, a).n = 0 THEN FirstUnplayed(b)
        ELSE FewestPulls(b, {a \in S : \A c \in S : Average(Stat(b, c)) <= Average(Stat(b, a))})

\* select(): unplayed arms first, in order; then the best score, ties to the arm
\* with the fewest pulls and at random.
Candidates(b) ==
    LET S == DOMAIN b.stat
    IN  IF \E a \in S : Stat(b, a).n = 0 THEN FirstUnplayed(b)
        ELSE FewestPulls(b, {a \in S : \A c \in S : Score(b, c) <= Score(b, a)})

Select ==
    /\ chosen' \in {[arm |-> a, of |-> bandit] : a \in Candidates(bandit)}
    /\ UNCHANGED <<rows, weights, bandit, basis>>

Update(r) ==
    /\ chosen.arm \in DOMAIN bandit.stat /\ bandit.pulls < MaxPulls
    /\ bandit' = Pulled(bandit, chosen.arm, r)
    /\ chosen' = Nothing
    /\ UNCHANGED <<rows, weights, basis>>

\* A start of the orchestrator.
Boot ==
    /\ bandit' = Loaded /\ chosen' = Nothing
    /\ UNCHANGED <<rows, weights, basis>>

\* Mutant of Reset: the number of pulls stays.
ResetArms ==
    /\ bandit' = [bandit EXCEPT !.stat = [a \in DOMAIN @ |-> Unplayed]]
    /\ chosen' = Nothing
    /\ UNCHANGED <<rows, weights, basis>>

\* reset() on drift: in memory only.
Reset ==
    /\ bandit' = Fresh(bandit.order, DOMAIN bandit.stat)
    /\ chosen' = Nothing
    /\ UNCHANGED <<rows, weights, basis>>

\* upsert_niche_arm() of one arm.
Upsert(a) ==
    /\ rows' = Over([c \in {a} |-> Stat(bandit, a)], rows)
    /\ Pulls(rows') <= MaxPulls
    /\ UNCHANGED <<weights, bandit, chosen, basis>>

\* optimize_niche_weights(): the table again, one simulated reward for each arm,
\* averages saved; the arms are not.
Optimize ==
    /\ LET arms == DOMAIN Loaded.stat
       IN  /\ Loaded.pulls + Cardinality(arms) <= MaxPulls
           /\ \E r \in [arms -> Rewards] : bandit' = PulledEach(Loaded, r)
    /\ weights' = Over([a \in DOMAIN bandit'.stat |-> Average(Stat(bandit', a))], weights)
    /\ basis' = Over(Loaded.stat, basis)
    /\ chosen' = Nothing
    /\ UNCHANGED rows

LearnNext == Select \/ Reset \/ \E r \in Rewards : Update(r)

NNext ==
    \/ LearnNext \/ Boot \/ Optimize
    \/ \E a \in ToSet(Niches) \cap DOMAIN bandit.stat : Upsert(a)
------------------------------------------------------------------------------
\* Rows written and read back one at a time, resets and reloads keep the counts of
\* the bandit together (ucb1_bandit.py:181-300, orchestrator.py:348-370): the total
\* is the sum over the arms, and no arm has more reward than pulls.  With rewards
\* clamped to [0, 1] select() is optimistic: what an arm that is passed over lacks
\* in pulls never outweighs a whole reward, and no arm that is as good and less
\* tried is passed over.  A weight is off the stored average by no more than the
\* one simulated reward (and an average by less than one, as it is a whole number here).
NichesLearn ==
    /\ bandit.pulls = Pulls(bandit.stat)
    /\ \A a \in DOMAIN bandit.stat : Stat(bandit, a).total \in 0 .. Top * Stat(bandit, a).n
    /\ chosen.arm # NoArm =>
        LET s == chosen.of.stat
            N == chosen.of.pulls
            c == chosen.arm
        IN  \A a \in DOMAIN s :
              /\ s[a].n = 0 => s[c].n = 0
              /\ s[c].n > 0 =>
                    /\ Bonus[N][s[a].n] <= Bonus[N][s[c].n] + 1000 * Top
                    /\ ~ (Average(s[a]) >= Average(s[c]) /\ s[a].n < s[c].n)
    /\ \A a \in DOMAIN basis :
          weights[a] * (basis[a].n + 1) - 1000 * basis[a].total
             \in - basis[a].n .. 1000 * Top
==============================================================================
