-------------------------- MODULE StatisticsProofs --------------------------
(***************************************************************************)
(* What holds of the counts, averages and weights of Learning for any arms, *)
(* rewards, runs, videos and processes.                                     *)
(***************************************************************************)
EXTENDS Learning, FiniteSums

(***************************************************************************)
(* The bandit                                                              *)
(***************************************************************************)

\* Statistics of arms: no more reward than pulls.
Rewarded(st) ==
    /\ IsFiniteSet(DOMAIN st)
    /\ st \in [DOMAIN st -> [n : Nat, total : Int]]
    /\ \A a \in DOMAIN st : st[a].total \in 0 .. Top * st[a].n

\* A bandit whose counts agree.
Tallied(b, most) ==
    /\ b = [order |-> b.order, stat |-> b.stat, pulls |-> b.pulls]
    /\ Rewarded(b.stat)
    /\ b.pulls = B!Pulls(b.stat)
    /\ b.pulls <= most

Most == IF part = "arms" THEN LearnPulls ELSE TablePulls

Weighed ==
    /\ DOMAIN basis \subseteq DOMAIN weights
    /\ \A a \in DOMAIN basis :
          weights[a] * (basis[a].n + 1) - 1000 * basis[a].total \in - basis[a].n .. 1000 * Top

BanditInv ==
    /\ Tallied(bandit, Most)
    /\ Rewarded(rows) /\ B!Pulls(rows) <= Most
    /\ chosen.arm # NoArm => Tallied(chosen.of, Most) /\ chosen.arm \in B!Candidates(chosen.of)
    /\ Weighed

Numbers(st) == [a \in DOMAIN st |-> st[a].n]

LEMMA PullsIs == \A st : B!Pulls(st) = SumOn(Numbers(st), DOMAIN st)
<1> SUFFICES ASSUME NEW st PROVE B!Pulls(st) = SumOn(Numbers(st), DOMAIN st)
  OBVIOUS
<1>1. \A f : B!Sum(f) = SumOn(f, DOMAIN f)
  BY DEF B!Sum, B!FoldFunction, B!FoldFunctionOnSet, B!MapThenFoldSet,
         SumOn, FoldOn, Folds, Join, First, Parts
<1>2. B!Pulls(st) = B!Sum(Numbers(st)) /\ DOMAIN Numbers(st) = DOMAIN st
  BY DEF B!Pulls, Numbers
<1> QED
  BY <1>1, <1>2

LEMMA NumbersAre ==
    ASSUME NEW st, Rewarded(st)
    PROVE  Numbers(st) \in [DOMAIN st -> Nat] /\ \A a \in DOMAIN st : Numbers(st)[a] = st[a].n
BY DEF Numbers, Rewarded

LEMMA PullsNat == ASSUME NEW st, Rewarded(st) PROVE B!Pulls(st) \in Nat
<1>1. IsFiniteSet(DOMAIN st) /\ \A a \in DOMAIN st : Numbers(st)[a] \in Nat
  BY NumbersAre DEF Rewarded
<1>2. SumOn(Numbers(st), DOMAIN st) \in Nat
  BY <1>1, SumOnPart
<1> QED
  BY <1>2, PullsIs

\* No arm has more pulls than there are in all.
LEMMA PullsCover == ASSUME NEW st, Rewarded(st), NEW a \in DOMAIN st PROVE st[a].n <= B!Pulls(st) /\ st[a].n \in Nat
<1> DEFINE f == Numbers(st)
<1>1. IsFiniteSet(DOMAIN st) /\ f[a] = st[a].n /\ \A x \in DOMAIN st : f[x] \in Nat
  BY NumbersAre DEF Rewarded
<1> HIDE DEF f
<1>2. SumOn(f, {a}) <= SumOn(f, DOMAIN st)
  <2>1. {a} \subseteq DOMAIN st
    OBVIOUS
  <2> QED
    BY <1>1, <2>1, SumOnPart
<1>3. SumOn(f, {a}) = f[a]
  <2>1. IsFiniteSet({a}) /\ IsFiniteSet({}) /\ {a} \ {a} = {}
    BY FS_Singleton, FS_EmptySet
  <2>2. SumOn(f, {a}) = f[a] + SumOn(f, {a} \ {a})
    <3>1. a \in {a} /\ \A x \in {a} : f[x] \in Int
      BY <1>1
    <3> QED
      BY <2>1, <3>1, SumOnTake
  <2>3. SumOn(f, {}) = 0
    BY <2>1, SumOnFirst
  <2> QED
    BY <1>1, <2>1, <2>2, <2>3
<1> QED
  BY <1>1, <1>2, <1>3, PullsIs DEF f

LEMMA FreshTallied ==
    ASSUME NEW order, NEW arms, IsFiniteSet(arms), NEW most \in Nat
    PROVE  Tallied(B!Fresh(order, arms), most)
<1> DEFINE st == [a \in arms |-> [n |-> 0, total |-> 0]]
<1>1. Rewarded(st)
  <2>1. \A a \in arms : st[a] \in [n : Nat, total : Int] /\ st[a].total = 0 /\ st[a].n = 0 /\ 0 \in 0 .. Top * 0
    BY LearningAssumption DEF B!NicheAssumption
  <2>2. DOMAIN st = arms
    OBVIOUS
  <2> HIDE DEF st
  <2>3. st = [a \in arms |-> st[a]]
    BY DEF st
  <2> QED
    BY <2>1, <2>2, <2>3 DEF Rewarded
<1>2. B!Pulls(st) = 0
  <2> DEFINE none == {}
  <2>1. Numbers(st) = [x \in arms |-> IF x \in none THEN 1 ELSE 0] /\ DOMAIN st = arms
    BY DEF Numbers
  <2>2. Cardinality(arms \cap none) = 0
    BY FS_EmptySet
  <2> HIDE DEF st, none
  <2>3. ASSUME NEW m \in Int
        PROVE  SumOn([x \in arms |-> IF x \in none THEN m ELSE 0], arms) = m * Cardinality(arms \cap none)
    BY SumOnCount
  <2>4. SumOn([x \in arms |-> IF x \in none THEN 1 ELSE 0], arms) = 1 * Cardinality(arms \cap none)
    BY <2>3
  <2> QED
    BY <2>1, <2>2, <2>4, PullsIs
<1>3. B!Fresh(order, arms) = [order |-> order, stat |-> st, pulls |-> 0]
  BY DEF B!Fresh, B!Unplayed
<1> HIDE DEF st
<1> QED
  BY <1>1, <1>2, <1>3 DEF Tallied

LEMMA ClampedIs == \A r \in Int : B!Clamped(r) \in 0 .. Top
BY LearningAssumption DEF B!NicheAssumption, B!Clamped

LEMMA PulledTallied ==
    ASSUME NEW b, NEW most \in Nat, Tallied(b, most), b.pulls < most, NEW a \in DOMAIN b.stat, NEW r \in Int
    PROVE  Tallied(B!Pulled(b, a, r), most)
<1> DEFINE x == B!Clamped(r)
           st == b.stat
           t == [st EXCEPT ![a] = [n |-> st[a].n + 1, total |-> st[a].total + x]]
<1>1. x \in 0 .. Top /\ Top \in Nat
  BY ClampedIs, LearningAssumption DEF B!NicheAssumption
<1>2. Rewarded(st) /\ st[a] = [n |-> st[a].n, total |-> st[a].total] /\ st[a].n \in Nat /\ st[a].total \in Int
  BY DEF Tallied, Rewarded
<1>3. B!Pulled(b, a, r) = [order |-> b.order, stat |-> t, pulls |-> b.pulls + 1]
  BY DEF B!Pulled
<1> HIDE DEF x
<1>4. Rewarded(t)
  <2>1. DOMAIN t = DOMAIN st /\ t[a].n = st[a].n + 1 /\ t[a].total = st[a].total + x
    BY <1>2
  <2>2. st[a].total <= Top * st[a].n /\ st[a].total >= 0
    BY <1>2 DEF Rewarded
  <2>3. Top * (st[a].n + 1) = Top * st[a].n + Top
    BY <1>1, <1>2
  <2>4. t[a].total \in 0 .. Top * t[a].n
    BY <1>1, <1>2, <2>1, <2>2, <2>3
  <2>5. t[a] \in [n : Nat, total : Int] /\ \A c \in DOMAIN st : c # a => t[c] = st[c]
    BY <1>1, <1>2
  <2>6. t = [c \in DOMAIN st |-> t[c]]
    OBVIOUS
  <2> HIDE DEF t
  <2> QED
    BY <1>2, <2>1, <2>4, <2>5, <2>6 DEF Rewarded
<1>5. B!Pulls(t) = B!Pulls(st) + 1
  <2> DEFINE f == Numbers(st)
  <2>1. f \in [DOMAIN st -> Int] /\ IsFiniteSet(DOMAIN st) /\ DOMAIN t = DOMAIN st /\ 1 \in Int
    BY <1>2, NumbersAre DEF Rewarded
  <2>2. Numbers(t) = [f EXCEPT ![a] = @ + 1]
    BY <1>2 DEF Numbers
  <2> HIDE DEF f, t
  <2>3. SumOn([f EXCEPT ![a] = @ + 1], DOMAIN st) = SumOn(f, DOMAIN st) + 1
    BY <2>1, SumOnMore
  <2> QED
    BY <2>1, <2>2, <2>3, PullsIs DEF f
<1>6. B!Pulls(st) \in Nat /\ b.pulls = B!Pulls(st)
  BY <1>2, PullsNat DEF Tallied
<1> HIDE DEF t
<1> QED
  BY <1>3, <1>4, <1>5, <1>6 DEF Tallied

LEMMA PulledEachTallied ==
    ASSUME NEW b, NEW most \in Nat, Tallied(b, most), b.pulls + Cardinality(DOMAIN b.stat) <= most,
           NEW r, \A a \in DOMAIN b.stat : r[a] \in Int
    PROVE  Tallied(B!PulledEach(b, r), most)
<1> DEFINE st == b.stat
           arms == DOMAIN st
           x(a) == B!Clamped(r[a])
           t == [a \in arms |-> [n |-> st[a].n + 1, total |-> st[a].total + x(a)]]
<1>1. Top \in Nat /\ \A a \in arms : x(a) \in 0 .. Top
  BY ClampedIs, LearningAssumption DEF B!NicheAssumption
<1>2. Rewarded(st) /\ \A a \in arms : st[a].n \in Nat /\ st[a].total \in Int
  BY DEF Tallied, Rewarded
<1>3. B!PulledEach(b, r) = [order |-> b.order, stat |-> t, pulls |-> b.pulls + Cardinality(arms)]
  <2>1. B!Cardinality(arms) = Cardinality(arms)
    BY DEF B!Cardinality, Cardinality
  <2> QED
    BY <2>1 DEF B!PulledEach, B!Stat
<1> HIDE DEF x
<1>4. Rewarded(t)
  <2>1. ASSUME NEW a \in arms
        PROVE  /\ t[a] \in [n : Nat, total : Int]
               /\ t[a].total \in 0 .. Top * t[a].n
    <3>1. st[a].total <= Top * st[a].n /\ st[a].total >= 0
      BY <1>2 DEF Rewarded
    <3>2. Top * (st[a].n + 1) = Top * st[a].n + Top
      BY <1>1, <1>2
    <3>3. t[a] = [n |-> st[a].n + 1, total |-> st[a].total + x(a)]
      OBVIOUS
    <3> HIDE DEF t
    <3> QED
      BY <1>1, <1>2, <3>1, <3>2, <3>3
  <2>2. DOMAIN t = arms /\ t = [a \in arms |-> t[a]]
    OBVIOUS
  <2> HIDE DEF t
  <2> QED
    BY <1>2, <2>1, <2>2 DEF Rewarded
<1>5. B!Pulls(t) = B!Pulls(st) + Cardinality(arms)
  <2> DEFINE f == Numbers(st)
             g == Numbers(t)
             one == [a \in arms |-> IF a \in arms THEN 1 ELSE 0]
  <2>1. DOMAIN t = arms /\ \A a \in arms : f[a] \in Int /\ g[a] = f[a] + 1 /\ one[a] = 1 /\ g[a] \in Int
    BY <1>2 DEF Numbers
  <2>2. IsFiniteSet(arms) /\ Cardinality(arms) \in Nat
    BY <1>2, FS_CardinalityType DEF Rewarded
  <2> HIDE DEF f, g, t
  <2>3. SumOn(g, arms) = SumOn(f, arms) + SumOn(one, arms)
    <3> HIDE DEF one
    <3> QED
      BY <2>1, <2>2, SumOnAdd
  <2>4. SumOn(one, arms) = Cardinality(arms)
    <3>1. ASSUME NEW m \in Int
          PROVE  SumOn([a \in arms |-> IF a \in arms THEN m ELSE 0], arms) = m * Cardinality(arms \cap arms)
      BY <2>2, SumOnCount
    <3>2. SumOn([a \in arms |-> IF a \in arms THEN 1 ELSE 0], arms) = 1 * Cardinality(arms)
      BY <3>1
    <3> QED
      BY <2>2, <3>2
  <2> QED
    BY <2>1, <2>3, <2>4, PullsIs DEF f, g
<1>6. B!Pulls(st) \in Nat /\ b.pulls = B!Pulls(st) /\ Cardinality(arms) \in Nat
  BY <1>2, PullsNat, FS_CardinalityType DEF Tallied, Rewarded
<1> HIDE DEF t, arms
<1> QED
  BY <1>3, <1>4, <1>5, <1>6 DEF Tallied, arms

\* What select() prefers.
LEMMA Optimism ==
    ASSUME NEW b, NEW most \in Nat, Tallied(b, most),
           \A N, k \in 1 .. most : Bonus[N][k] \in Nat,
           \A N, k, l \in 1 .. most : k <= l => Bonus[N][l] <= Bonus[N][k],
           NEW c \in B!Candidates(b), NEW a \in DOMAIN b.stat
    PROVE  /\ b.stat[a].n = 0 => b.stat[c].n = 0
           /\ b.stat[c].n > 0 =>
                 /\ Bonus[b.pulls][b.stat[a].n] <= Bonus[b.pulls][b.stat[c].n] + 1000 * Top
                 /\ ~ (B!Average(b.stat[a]) >= B!Average(b.stat[c]) /\ b.stat[a].n < b.stat[c].n)
<1> DEFINE st == b.stat
<1>1. Rewarded(st) /\ b.pulls = B!Pulls(st) /\ b.pulls <= most
  BY DEF Tallied
<1>2. CASE \E d \in DOMAIN st : st[d].n = 0
  <2>1. c \in B!FirstUnplayed(b)
    BY <1>2 DEF B!Candidates, B!Stat
  <2>2. st[c].n = 0
    BY <2>1 DEF B!FirstUnplayed, B!Stat
  <2> QED
    BY <2>2
<1>3. CASE ~ \E d \in DOMAIN st : st[d].n = 0
  <2> DEFINE best == {d \in DOMAIN st : \A e \in DOMAIN st : B!Score(b, e) <= B!Score(b, d)}
  <2>1. c \in B!FewestPulls(b, best)
    BY <1>3 DEF B!Candidates, B!Stat
  <2>2. c \in best /\ \A d \in best : st[c].n <= st[d].n
    BY <2>1 DEF B!FewestPulls, B!Stat
  <2>3. ASSUME NEW d \in DOMAIN st
        PROVE  /\ B!Score(b, d) = B!Average(st[d]) + Bonus[b.pulls][st[d].n]
               /\ B!Average(st[d]) \in 0 .. 1000 * Top
               /\ b.pulls \in 1 .. most /\ st[d].n \in 1 .. most
               /\ Bonus[b.pulls][st[d].n] \in Nat
    <3>1. st[d].n \in Nat \ {0} /\ st[d].n <= b.pulls /\ b.pulls \in Nat /\ st[d].total \in 0 .. Top * st[d].n
      BY <1>1, <1>3, PullsCover, PullsNat DEF Rewarded
    <3>2. Top \in Nat
      BY LearningAssumption DEF B!NicheAssumption
    <3> DEFINE k == st[d].n
               y == st[d].total * 1000
               q == y \div k
    <3>3. y \in Nat /\ y <= k * (1000 * Top)
      <4>1. Top * k * 1000 = k * (1000 * Top) /\ Top * k \in Nat
        BY <3>1, <3>2
      <4> QED
        BY <3>1, <3>2, <4>1
    <3>4. q \in Nat /\ k * q <= y
      BY <3>1, <3>3, DivIs
    <3>5. B!Average(st[d]) = q
      BY <3>1 DEF B!Average
    <3> HIDE DEF q, y
    <3>6. q <= 1000 * Top
      <4>1. CASE q > 1000 * Top
        <5>1. q >= 1000 * Top + 1 /\ 1000 * Top + 1 \in Int
          BY <3>2, <3>4, <4>1
        <5>2. k * (1000 * Top + 1) <= k * q
          BY <3>1, <3>4, <5>1, ProductsOrdered
        <5>3. k * (1000 * Top + 1) = k * (1000 * Top) + k /\ k * (1000 * Top) \in Int /\ k * q \in Int
          BY <3>1, <3>2, <3>4
        <5> QED
          BY <3>1, <3>3, <3>4, <5>2, <5>3
      <4> QED
        BY <3>2, <3>4, <4>1
    <3>7. b.pulls \in 1 .. most /\ k \in 1 .. most
      BY <1>1, <3>1
    <3> QED
      BY <3>1, <3>2, <3>4, <3>5, <3>6, <3>7 DEF B!Score, B!Stat
  <2>4. c \in DOMAIN st /\ B!Score(b, a) <= B!Score(b, c) /\ st[a].n > 0
    BY <1>3, <2>2, <2>3
  <2>5. Bonus[b.pulls][st[a].n] <= Bonus[b.pulls][st[c].n] + 1000 * Top
    <3>1. Top \in Nat
      BY LearningAssumption DEF B!NicheAssumption
    <3> QED
      BY <2>3, <2>4, <3>1
  <2>6. ~ (B!Average(st[a]) >= B!Average(st[c]) /\ st[a].n < st[c].n)
    <3> SUFFICES ASSUME B!Average(st[a]) >= B!Average(st[c]), st[a].n < st[c].n PROVE FALSE
      OBVIOUS
    <3>1. Bonus[b.pulls][st[c].n] <= Bonus[b.pulls][st[a].n]
      BY <2>3, <2>4
    <3>2. /\ B!Score(b, a) = B!Average(st[a]) + Bonus[b.pulls][st[a].n]
          /\ B!Score(b, c) = B!Average(st[c]) + Bonus[b.pulls][st[c].n]
          /\ {B!Average(st[a]), B!Average(st[c]), Bonus[b.pulls][st[a].n], Bonus[b.pulls][st[c].n]} \subseteq Int
      BY <2>3, <2>4
    <3>3. B!Score(b, a) = B!Score(b, c)
      <4>1. \A i, j, k, l \in Int : i >= j /\ k >= l /\ i + k <= j + l => i + k = j + l
        OBVIOUS
      <4> DEFINE x == B!Score(b, a)
                 y == B!Score(b, c)
                 i == B!Average(st[a])
                 j == B!Average(st[c])
                 k == Bonus[b.pulls][st[a].n]
                 l == Bonus[b.pulls][st[c].n]
      <4>2. x <= y /\ i >= j /\ k >= l /\ x = i + k /\ y = j + l
        BY <2>4, <3>1, <3>2
      <4>3. i \in Int /\ j \in Int /\ k \in Int /\ l \in Int
        BY <3>2
      <4> HIDE DEF x, y, i, j, k, l
      <4>4. x = y
        BY <4>1, <4>2, <4>3
      <4> QED
        BY <4>4 DEF x, y
    <3>4. a \in best
      BY <2>2, <3>3
    <3> QED
      BY <2>2, <2>3, <2>4, <3>4
  <2> QED
    BY <2>4, <2>5, <2>6
<1> QED
  BY <1>2, <1>3

\* Learning alone and learning with the tables is done by one class.
LEMMA OneBandit ==
    /\ T!Loaded = B!Loaded /\ T!Nothing = B!Nothing
    /\ \A st : T!Pulls(st) = B!Pulls(st) /\ T!Average(st) = B!Average(st)
    /\ \A b : T!Candidates(b) = B!Candidates(b)
    /\ \A b, a, r : T!Pulled(b, a, r) = B!Pulled(b, a, r) /\ T!Stat(b, a) = B!Stat(b, a)
    /\ \A b, r : T!PulledEach(b, r) = B!PulledEach(b, r)
    /\ \A order, arms : T!Fresh(order, arms) = B!Fresh(order, arms)
<1>1. \A st : T!Pulls(st) = B!Pulls(st)
  BY DEF T!Pulls, B!Pulls, T!Sum, B!Sum, T!FoldFunction, B!FoldFunction,
         T!FoldFunctionOnSet, B!FoldFunctionOnSet, T!MapThenFoldSet, B!MapThenFoldSet
<1>2. \A order, arms : T!Fresh(order, arms) = B!Fresh(order, arms)
  BY DEF T!Fresh, B!Fresh, T!Unplayed, B!Unplayed
<1>3. T!Loaded = B!Loaded
  BY <1>1, <1>2 DEF T!Loaded, B!Loaded, T!ToSet, B!ToSet
<1>4. \A b, a, r : T!Pulled(b, a, r) = B!Pulled(b, a, r) /\ T!Stat(b, a) = B!Stat(b, a)
  BY DEF T!Pulled, B!Pulled, T!Stat, B!Stat, T!Clamped, B!Clamped
<1>5. \A b, r : T!PulledEach(b, r) = B!PulledEach(b, r)
  <2>1. \A S : T!Cardinality(S) = B!Cardinality(S)
    BY DEF T!Cardinality, B!Cardinality
  <2> QED
    BY <2>1 DEF T!PulledEach, B!PulledEach, T!Stat, B!Stat, T!Clamped, B!Clamped
<1>6. \A st : T!Average(st) = B!Average(st)
  BY DEF T!Average, B!Average
<1>7. \A b : T!Candidates(b) = B!Candidates(b)
  BY <1>6 DEF T!Candidates, B!Candidates, T!FirstUnplayed, B!FirstUnplayed, T!FewestPulls, B!FewestPulls,
              T!Score, B!Score, T!Stat, B!Stat
<1>8. T!Nothing = B!Nothing
  BY DEF T!Nothing, B!Nothing
<1> QED
  BY <1>1, <1>2, <1>3, <1>4, <1>5, <1>6, <1>7, <1>8

LEMMA LoadedTallied ==
    ASSUME NEW most \in Nat, Rewarded(rows), B!Pulls(rows) <= most PROVE Tallied(B!Loaded, most)
<1>1. CASE DOMAIN rows = {}
  <2>1. IsFiniteSet(B!ToSet(Fallback))
    <3>1. Fallback \in Seq(B!Arms)
      BY LearningAssumption DEF B!NicheAssumption
    <3>2. B!ToSet(Fallback) = {Fallback[i] : i \in 1 .. Len(Fallback)} /\ Len(Fallback) \in Nat
      BY <3>1 DEF B!ToSet
    <3>3. IsFiniteSet({Fallback[i] : i \in 1 .. Len(Fallback)})
      BY <3>2, FiniteImage
    <3> QED
      BY <3>2, <3>3
  <2> QED
    BY <1>1, <2>1, FreshTallied DEF B!Loaded
<1>2. CASE DOMAIN rows # {}
  <2>1. B!Loaded = [order |-> Niches, stat |-> rows, pulls |-> B!Pulls(rows)]
    BY <1>2 DEF B!Loaded
  <2> QED
    BY <2>1 DEF Tallied
<1> QED
  BY <1>1, <1>2

LEMMA PullLimits ==
    /\ Most \in Nat
    /\ part \in {"arms", "table"} =>
          /\ \A N, k \in 1 .. Most : Bonus[N][k] \in Nat
          /\ \A N, k, l \in 1 .. Most : k <= l => Bonus[N][l] <= Bonus[N][k]
BY LearningAssumption DEF B!NicheAssumption, T!NicheAssumption, Most

Learners == {"arms", "table"}

LEMMA BanditInit == LInit /\ part \in Learners => BanditInv
<1> SUFFICES ASSUME LInit PROVE BanditInv
  OBVIOUS
<1>1. rows = <<>> /\ weights = <<>> /\ basis = <<>> /\ bandit = B!Loaded /\ chosen.arm = NoArm
  BY DEF LInit, B!NInit, B!Nothing
<1>2. DOMAIN rows = {} /\ DOMAIN basis = {} /\ DOMAIN weights = {}
  BY <1>1
<1>3. Rewarded(rows)
  <2>1. rows = [a \in {} |-> rows[a]]
    BY <1>1, <1>2
  <2>2. rows \in [DOMAIN rows -> [n : Nat, total : Int]]
    BY <1>2, <2>1
  <2> QED
    BY <1>2, <2>2, FS_EmptySet DEF Rewarded
<1>4. B!Pulls(rows) = 0
  BY <1>2, FS_EmptySet, PullsIs, SumOnFirst
<1>5. Tallied(bandit, Most)
  BY <1>1, <1>3, <1>4, LoadedTallied, PullLimits
<1> QED
  BY <1>1, <1>2, <1>3, <1>4, <1>5, PullLimits DEF BanditInv, Weighed

LEMMA NicheMoves ==
    ASSUME [LNext]_lvars
    PROVE  /\ part' = part
           /\ \/ UNCHANGED niches
              \/ part = "arms" /\ B!LearnNext
              \/ part = "table" /\ T!NNext
BY DEF LNext, lvars

LEMMA WeightNear ==
    ASSUME NEW k \in Nat, NEW y \in Nat, NEW x \in 0 .. Top, NEW w,
           w = B!Average([n |-> k + 1, total |-> y + x])
    PROVE  w * (k + 1) - 1000 * y \in - k .. 1000 * Top
<1>1. Top \in Nat
  BY LearningAssumption DEF B!NicheAssumption
<1> DEFINE d == k + 1
           z == (y + x) * 1000
<1>2. d \in Nat \ {0} /\ z \in Nat /\ z = 1000 * y + 1000 * x
  BY <1>1
<1>3. w = z \div d
  BY <1>2 DEF B!Average
<1> HIDE DEF z, d
<1>4. w \in Nat /\ d * w <= z /\ z < d * w + d
  <2>1. /\ z \div d \in Nat
        /\ d * (z \div d) <= z
        /\ z < d * (z \div d) + d
    BY <1>2, DivIs
  <2> QED
    BY <1>3, <2>1
<1>5. w * d = d * w /\ d * w \in Int
  BY <1>2, <1>4
<1> DEFINE v == d * w
<1>6. v \in Int /\ v <= z /\ z < v + d /\ w * d = v
  BY <1>4, <1>5
<1> HIDE DEF v
<1>7. v - 1000 * y \in - k .. 1000 * Top
  BY <1>1, <1>2, <1>6 DEF d
<1> QED
  BY <1>6, <1>7 DEF d

\* One row more, or one replaced.
LEMMA RowTallied ==
    ASSUME NEW st, Rewarded(st), NEW b, Rewarded(b.stat), NEW a \in DOMAIN b.stat
    PROVE  Rewarded(B!Over([c \in {a} |-> b.stat[a]], st))
<1> DEFINE t == B!Over([c \in {a} |-> b.stat[a]], st)
<1>1. t = [c \in {a} \cup DOMAIN st |-> IF c \in {a} THEN b.stat[a] ELSE st[c]]
  BY DEF B!Over
<1>2. IsFiniteSet({a} \cup DOMAIN st)
  BY FS_Singleton, FS_Union DEF Rewarded
<1>3. \A c \in {a} \cup DOMAIN st : t[c] \in [n : Nat, total : Int] /\ t[c].total \in 0 .. Top * t[c].n
  <2> SUFFICES ASSUME NEW c \in {a} \cup DOMAIN st
               PROVE  t[c] \in [n : Nat, total : Int] /\ t[c].total \in 0 .. Top * t[c].n
    OBVIOUS
  <2>1. CASE c = a
    <3>1. t[c] = b.stat[a]
      BY <1>1, <2>1
    <3> QED
      BY <3>1 DEF Rewarded
  <2>2. CASE c # a
    <3>1. t[c] = st[c] /\ c \in DOMAIN st
      BY <1>1, <2>2
    <3> QED
      BY <3>1 DEF Rewarded
  <2> QED
    BY <2>1, <2>2
<1>4. DOMAIN t = {a} \cup DOMAIN st /\ t = [c \in {a} \cup DOMAIN st |-> t[c]]
  BY <1>1
<1> HIDE DEF t
<1>5. Rewarded(t)
  BY <1>2, <1>3, <1>4 DEF Rewarded
<1> QED
  BY <1>5 DEF t

\* What optimize_niche_weights() writes.
LEMMA OptimizedWeighed ==
    ASSUME NEW b, Rewarded(b.stat), NEW r, \A a \in DOMAIN b.stat : r[a] \in Int, Weighed,
           NEW st, st = B!PulledEach(b, r).stat,
           weights' = B!Over([a \in DOMAIN st |-> B!Average(st[a])], weights),
           basis' = B!Over(b.stat, basis)
    PROVE  Weighed'
<1>1. st = [a \in DOMAIN b.stat |-> [n |-> b.stat[a].n + 1, total |-> b.stat[a].total + B!Clamped(r[a])]]
  BY DEF B!PulledEach, B!Stat
<1>2. DOMAIN st = DOMAIN b.stat
  BY <1>1
<1>3. weights' = [a \in DOMAIN b.stat \cup DOMAIN weights |->
                    IF a \in DOMAIN b.stat THEN B!Average(st[a]) ELSE weights[a]]
  BY <1>2 DEF B!Over
<1>4. basis' = [a \in DOMAIN b.stat \cup DOMAIN basis |-> IF a \in DOMAIN b.stat THEN b.stat[a] ELSE basis[a]]
  BY DEF B!Over
<1>5. DOMAIN basis' \subseteq DOMAIN weights'
  BY <1>3, <1>4 DEF Weighed
<1>6. ASSUME NEW a \in DOMAIN basis'
      PROVE  weights'[a] * (basis'[a].n + 1) - 1000 * basis'[a].total \in - basis'[a].n .. 1000 * Top
  <2>1. CASE a \in DOMAIN b.stat
    <3> DEFINE k == b.stat[a].n
               y == b.stat[a].total
               x == B!Clamped(r[a])
    <3>1. k \in Nat /\ y \in Nat
      BY <2>1, LearningAssumption DEF Rewarded, B!NicheAssumption
    <3>2. x \in 0 .. Top
      BY <2>1, ClampedIs
    <3>3. basis'[a].n = k /\ basis'[a].total = y
      BY <1>4, <2>1
    <3>4. weights'[a] = B!Average([n |-> k + 1, total |-> y + x])
      BY <1>1, <1>3, <2>1
    <3> HIDE DEF k, y, x
    <3> QED
      BY <3>1, <3>2, <3>3, <3>4, WeightNear
  <2>2. CASE a \notin DOMAIN b.stat
    <3>1. a \in DOMAIN basis /\ basis'[a] = basis[a] /\ weights'[a] = weights[a]
      BY <1>3, <1>4, <2>2 DEF Weighed
    <3> QED
      BY <3>1 DEF Weighed
  <2> QED
    BY <2>1, <2>2
<1> QED
  BY <1>5, <1>6 DEF Weighed

LEMMA BanditKept == ASSUME part \in Learners, BanditInv, [LNext]_lvars PROVE BanditInv'
<1>1. part' = part /\ Most' = Most /\ Most \in Nat
  BY NicheMoves, PullLimits DEF Most
<1>2. /\ Tallied(bandit, Most) /\ Rewarded(bandit.stat) /\ Rewarded(rows) /\ B!Pulls(rows) <= Most
      /\ Weighed
      /\ chosen.arm # NoArm => Tallied(chosen.of, Most) /\ chosen.arm \in B!Candidates(chosen.of)
  BY DEF BanditInv, Tallied
<1>3. CASE UNCHANGED niches
  BY <1>1, <1>2, <1>3 DEF niches, BanditInv, Weighed
<1>4. CASE B!Select \/ T!Select
  <2>1. /\ chosen' \in {[arm |-> a, of |-> bandit] : a \in B!Candidates(bandit)}
        /\ UNCHANGED <<rows, weights, bandit, basis>>
    BY <1>4, OneBandit DEF B!Select, T!Select
  <2>2. chosen'.of = bandit /\ chosen'.arm \in B!Candidates(bandit)
    BY <2>1
  <2> QED
    BY <1>1, <1>2, <2>1, <2>2 DEF BanditInv, Weighed
<1>5. ASSUME NEW r \in Int, (part = "arms" /\ B!Update(r)) \/ (part = "table" /\ T!Update(r)) PROVE BanditInv'
  <2>1. /\ chosen.arm \in DOMAIN bandit.stat /\ bandit.pulls < Most
        /\ bandit' = B!Pulled(bandit, chosen.arm, r)
        /\ chosen' = B!Nothing
        /\ UNCHANGED <<rows, weights, basis>>
    BY <1>5, OneBandit DEF B!Update, T!Update, Most
  <2>2. Tallied(bandit', Most)
    BY <1>1, <1>2, <2>1, PulledTallied
  <2>3. chosen'.arm = NoArm
    BY <2>1 DEF B!Nothing
  <2> QED
    BY <1>1, <1>2, <2>1, <2>2, <2>3 DEF BanditInv, Weighed
<1>6. CASE B!Reset \/ T!Reset
  <2>1. /\ bandit' = B!Fresh(bandit.order, DOMAIN bandit.stat)
        /\ chosen' = B!Nothing
        /\ UNCHANGED <<rows, weights, basis>>
    BY <1>6, OneBandit DEF B!Reset, T!Reset
  <2>2. Tallied(bandit', Most)
    <3>1. IsFiniteSet(DOMAIN bandit.stat)
      BY <1>2 DEF Rewarded
    <3> QED
      BY <1>1, <2>1, <3>1, FreshTallied
  <2>3. chosen'.arm = NoArm
    BY <2>1 DEF B!Nothing
  <2> QED
    BY <1>1, <1>2, <2>1, <2>2, <2>3 DEF BanditInv, Weighed
<1>7. CASE T!Boot
  <2>1. bandit' = B!Loaded /\ chosen' = B!Nothing /\ UNCHANGED <<rows, weights, basis>>
    BY <1>7, OneBandit DEF T!Boot
  <2>2. Tallied(bandit', Most) /\ chosen'.arm = NoArm
    BY <1>1, <1>2, <2>1, LoadedTallied DEF B!Nothing
  <2> QED
    BY <1>1, <1>2, <2>1, <2>2 DEF BanditInv, Weighed
<1>8. CASE part = "table" /\ T!Optimize
  <2> DEFINE b == B!Loaded
  <2>1. PICK r \in [DOMAIN b.stat -> TableRewards] : bandit' = B!PulledEach(b, r)
    BY <1>8, OneBandit DEF T!Optimize
  <2>2. /\ b.pulls + Cardinality(DOMAIN b.stat) <= Most
        /\ weights' = B!Over([a \in DOMAIN bandit'.stat |-> B!Average(bandit'.stat[a])], weights)
        /\ basis' = B!Over(b.stat, basis)
        /\ chosen' = B!Nothing /\ rows' = rows
    <3>1. T!Cardinality(DOMAIN b.stat) = Cardinality(DOMAIN b.stat)
      BY DEF T!Cardinality, Cardinality
    <3>2. \A g, f : T!Over(g, f) = B!Over(g, f)
      BY DEF T!Over, B!Over
    <3>3. \A c, a : T!Stat(c, a) = c.stat[a]
      BY DEF T!Stat
    <3>4. T!Loaded = B!Loaded /\ T!Nothing = B!Nothing /\ \A st : T!Average(st) = B!Average(st)
      BY OneBandit
    <3> QED
      BY <1>8, <3>1, <3>2, <3>3, <3>4 DEF T!Optimize, Most
  <2>3. \A a \in DOMAIN b.stat : r[a] \in Int
    BY <2>1, LearningAssumption DEF T!NicheAssumption
  <2>4. Tallied(b, Most) /\ Rewarded(b.stat)
    BY <1>1, <1>2, LoadedTallied DEF Tallied
  <2> HIDE DEF b
  <2>5. Tallied(bandit', Most)
    BY <1>1, <2>1, <2>2, <2>3, <2>4, PulledEachTallied
  <2>6. Weighed'
    BY <1>2, <2>1, <2>2, <2>3, <2>4, OptimizedWeighed
  <2>7. chosen'.arm = NoArm
    BY <2>2 DEF B!Nothing
  <2> QED
    BY <1>1, <1>2, <2>2, <2>5, <2>6, <2>7 DEF BanditInv
<1>9. ASSUME part = "table", NEW a \in DOMAIN bandit.stat, T!Upsert(a) PROVE BanditInv'
  <2>1. /\ rows' = B!Over([c \in {a} |-> bandit.stat[a]], rows)
        /\ B!Pulls(rows') <= Most
        /\ UNCHANGED <<weights, bandit, chosen, basis>>
    BY <1>9, OneBandit DEF T!Upsert, T!Over, B!Over, T!Stat, Most
  <2>2. Rewarded(rows')
    BY <1>2, <2>1, RowTallied
  <2> QED
    BY <1>1, <1>2, <2>1, <2>2 DEF BanditInv, Weighed
<1>10. CASE part = "arms" /\ B!LearnNext
  <2>1. LearnRewards \subseteq Int
    BY LearningAssumption DEF B!NicheAssumption
  <2>2. ASSUME NEW r \in LearnRewards, B!Update(r) PROVE BanditInv'
    <3>1. r \in Int /\ part = "arms"
      BY <1>10, <2>1
    <3> QED
      BY <1>5, <2>2, <3>1
  <2>3. B!Select \/ B!Reset \/ \E r \in LearnRewards : B!Update(r)
    BY <1>10 DEF B!LearnNext
  <2> QED
    BY <1>4, <1>6, <2>2, <2>3
<1>11. CASE part = "table" /\ T!NNext
  <2>1. TableRewards \subseteq Int
    BY LearningAssumption DEF T!NicheAssumption
  <2>2. T!LearnNext => BanditInv'
    BY <1>4, <1>5, <1>6, <1>11, <2>1 DEF T!LearnNext
  <2> QED
    BY <1>7, <1>8, <1>9, <1>11, <2>2 DEF T!NNext
<1> QED
  BY <1>3, <1>10, <1>11, NicheMoves

LEMMA BanditLearns == part \in Learners /\ BanditInv => B!NichesLearn
<1> SUFFICES ASSUME part \in Learners, BanditInv PROVE B!NichesLearn
  OBVIOUS
<1>1. Tallied(bandit, Most) /\ Rewarded(bandit.stat) /\ bandit.pulls = B!Pulls(bandit.stat) /\ Weighed
  BY DEF BanditInv, Tallied
<1>2. \A a \in DOMAIN bandit.stat : B!Stat(bandit, a).total \in 0 .. Top * B!Stat(bandit, a).n
  BY <1>1 DEF Rewarded, B!Stat
<1>3. ASSUME chosen.arm # NoArm, NEW a \in DOMAIN chosen.of.stat
      PROVE  /\ chosen.of.stat[a].n = 0 => chosen.of.stat[chosen.arm].n = 0
             /\ chosen.of.stat[chosen.arm].n > 0 =>
                  /\ Bonus[chosen.of.pulls][chosen.of.stat[a].n]
                       <= Bonus[chosen.of.pulls][chosen.of.stat[chosen.arm].n] + 1000 * Top
                  /\ ~ (/\ B!Average(chosen.of.stat[a]) >= B!Average(chosen.of.stat[chosen.arm])
                        /\ chosen.of.stat[a].n < chosen.of.stat[chosen.arm].n)
  <2> DEFINE b == chosen.of
             c == chosen.arm
  <2>1. Tallied(b, Most) /\ c \in B!Candidates(b)
    BY <1>3 DEF BanditInv
  <2>2. Most \in Nat /\ (\A N, k \in 1 .. Most : Bonus[N][k] \in Nat)
        /\ \A N, k, l \in 1 .. Most : k <= l => Bonus[N][l] <= Bonus[N][k]
    BY PullLimits DEF Learners
  <2> HIDE DEF b, c
  <2>3. a \in DOMAIN b.stat
    BY DEF b
  <2>4. /\ b.stat[a].n = 0 => b.stat[c].n = 0
        /\ b.stat[c].n > 0 =>
             /\ Bonus[b.pulls][b.stat[a].n] <= Bonus[b.pulls][b.stat[c].n] + 1000 * Top
             /\ ~ (B!Average(b.stat[a]) >= B!Average(b.stat[c]) /\ b.stat[a].n < b.stat[c].n)
    BY <2>1, <2>2, <2>3, Optimism
  <2> QED
    BY <2>4 DEF b, c
<1> QED
  BY <1>1, <1>2, <1>3 DEF B!NichesLearn, Weighed

(***************************************************************************)
(* Weights of niches, moved by scorers of several processes                *)
(***************************************************************************)

\* v is 20 % for each of u updates away from b, or less.
Within(b, v, u) == b * Power(8)[u] <= v * Power(10)[u] /\ v * Power(10)[u] <= b * Power(12)[u]

Near(f, from, moves) ==
    \A k \in DOMAIN f :
       k \in B!Arms /\ f[k] \in Nat /\ \E b \in from[k] : Within(b, f[k], moves[k])

ScorerInv ==
    /\ updates = [k \in B!Arms |-> updates[k]] /\ bases = [k \in B!Arms |-> bases[k]]
    /\ cached = [p \in Scorers |-> cached[p]]
    /\ \A k \in B!Arms : updates[k] \in Nat /\ bases[k] \in SUBSET Nat /\ 1000 \in bases[k]
    /\ Near(table, bases, updates) /\ \A p \in Scorers : Near(cached[p], bases, updates)

LEMMA WithinSelf == ASSUME NEW b \in Nat, NEW u \in Nat PROVE Within(b, b, u)
<1>1. /\ Power(8)[u] \in Nat /\ Power(10)[u] \in Nat /\ Power(12)[u] \in Nat
      /\ Power(8)[u] <= Power(10)[u] /\ Power(10)[u] <= Power(12)[u]
  BY PowerPositive, PowerInBase
<1>2. b * Power(8)[u] <= b * Power(10)[u] /\ b * Power(10)[u] <= b * Power(12)[u]
  BY <1>1, ProductsOrdered
<1> QED
  BY <1>2 DEF Within

LEMMA WithinMoved ==
    ASSUME NEW b \in Nat, NEW v \in Nat, NEW u \in Nat, Within(b, v, u), NEW w \in Nat,
           8 * v <= 10 * w, 10 * w <= 12 * v
    PROVE  Within(b, w, u + 1)
<1> DEFINE p == Power(8)[u]
           q == Power(10)[u]
           r == Power(12)[u]
<1>1. p \in Nat /\ q \in Nat /\ r \in Nat
  BY PowerPositive
<1>2. Power(8)[u + 1] = 8 * p /\ Power(10)[u + 1] = 10 * q /\ Power(12)[u + 1] = 12 * r
  BY PowerIs
<1>3. b * p <= v * q /\ v * q <= b * r
  BY DEF Within
<1> HIDE DEF p, q, r
<1>4. q * (8 * v) <= q * (10 * w) /\ q * (10 * w) <= q * (12 * v)
  BY <1>1, ProductsOrdered
<1>5. /\ b * (8 * p) = 8 * (b * p) /\ w * (10 * q) = q * (10 * w) /\ b * (12 * r) = 12 * (b * r)
      /\ q * (8 * v) = 8 * (v * q) /\ q * (12 * v) = 12 * (v * q)
      /\ {b * p, v * q, b * r, q * (10 * w)} \subseteq Int
  BY <1>1
<1>6. \A i, j, k, m \in Int : i <= j /\ j <= k /\ 8 * j <= m /\ m <= 12 * j => 8 * i <= m /\ m <= 12 * k
  OBVIOUS
<1>7. b * (8 * p) <= w * (10 * q) /\ w * (10 * q) <= b * (12 * r)
  BY <1>3, <1>4, <1>5, <1>6
<1> QED
  BY <1>2, <1>7 DEF Within

LEMMA BoundedIs ==
    ASSUME NEW old \in Nat, NEW signal \in Nat
    PROVE  /\ F!Bounded(old, signal) \in Nat
           /\ 8 * old <= 10 * F!Bounded(old, signal) /\ 10 * F!Bounded(old, signal) <= 12 * old
BY DEF F!Bounded, F!Clip

LEMMA OverNear ==
    ASSUME NEW f, NEW g, NEW from, NEW moves, Near(f, from, moves), Near(g, from, moves)
    PROVE  Near(F!Over(g, f), from, moves)
<1> DEFINE h == F!Over(g, f)
<1>1. h = [k \in DOMAIN g \cup DOMAIN f |-> IF k \in DOMAIN g THEN g[k] ELSE f[k]]
  BY DEF F!Over
<1> HIDE DEF h
<1>2. DOMAIN h = DOMAIN g \cup DOMAIN f /\ \A k \in DOMAIN h : h[k] = IF k \in DOMAIN g THEN g[k] ELSE f[k]
  BY <1>1
<1>3. Near(h, from, moves)
  BY <1>2 DEF Near
<1> QED
  BY <1>3 DEF h

LEMMA UpdateKept ==
    ASSUME ScorerInv, NEW p \in Scorers, NEW k \in B!Arms, NEW x \in Nat, F!UpdateWeight(p, k, x)
    PROVE  ScorerInv'
<1> DEFINE old == F!Old(p, k)
           new == F!Bounded(old, x)
           g == F!Over([c \in {k} |-> new], cached[p])
<1>1. /\ updates' = [updates EXCEPT ![k] = @ + 1] /\ bases' = bases
      /\ cached' = [cached EXCEPT ![p] = g]
      /\ table' = F!Over(cached'[p], table)
  BY DEF F!UpdateWeight
<1>2. /\ updates = [c \in B!Arms |-> updates[c]] /\ bases = [c \in B!Arms |-> bases[c]]
      /\ cached = [q \in Scorers |-> cached[q]]
      /\ \A c \in B!Arms : updates[c] \in Nat /\ bases[c] \in SUBSET Nat /\ 1000 \in bases[c]
      /\ Near(table, bases, updates) /\ \A q \in Scorers : Near(cached[q], bases, updates)
  BY DEF ScorerInv
<1>3. old \in Nat /\ \E b \in bases[k] : b \in Nat /\ Within(b, old, updates[k])
  <2>1. CASE k \in DOMAIN cached[p]
    <3>1. old = cached[p][k]
      BY <2>1 DEF F!Old
    <3> HIDE DEF old
    <3> QED
      BY <1>2, <2>1, <3>1 DEF Near
  <2>2. CASE k \notin DOMAIN cached[p]
    <3>1. old = 1000
      BY <2>2 DEF F!Old
    <3> HIDE DEF old
    <3>2. Within(1000, old, updates[k])
      BY <1>2, <3>1, WithinSelf
    <3> QED
      BY <1>2, <3>1, <3>2
  <2> QED
    BY <2>1, <2>2
<1> HIDE DEF old
<1>4. new \in Nat /\ 8 * old <= 10 * new /\ 10 * new <= 12 * old
  BY <1>3, BoundedIs
<1> HIDE DEF new
<1>5. \E b \in bases[k] : Within(b, new, updates[k] + 1)
  BY <1>2, <1>3, <1>4, WithinMoved
<1>6. updates'[k] = updates[k] + 1 /\ \A c \in B!Arms : c # k => updates'[c] = updates[c]
  BY <1>1, <1>2
\* What was near stays near when its niche was updated once more.
<1>7. ASSUME NEW f, Near(f, bases, updates), NEW c \in DOMAIN f
      PROVE  c \in B!Arms /\ f[c] \in Nat /\ \E b \in bases'[c] : Within(b, f[c], updates'[c])
  <2>1. PICK b \in bases[c] : Within(b, f[c], updates[c])
    BY <1>7 DEF Near
  <2>2. c \in B!Arms /\ f[c] \in Nat /\ b \in Nat /\ updates[c] \in Nat
    BY <1>2, <1>7 DEF Near
  <2>3. CASE c = k
    <3>1. 8 * f[c] <= 10 * f[c] /\ 10 * f[c] <= 12 * f[c]
      BY <2>2
    <3>2. Within(b, f[c], updates[c] + 1)
      BY <2>1, <2>2, <3>1, WithinMoved
    <3> QED
      BY <1>1, <1>6, <2>2, <2>3, <3>2
  <2>4. CASE c # k
    BY <1>1, <1>6, <2>1, <2>2, <2>4
  <2> QED
    BY <2>3, <2>4
<1>8. \A f : Near(f, bases, updates) => Near(f, bases', updates')
  BY <1>7 DEF Near
<1>9. Near(g, bases', updates')
  <2>1. g = [c \in {k} \cup DOMAIN cached[p] |-> IF c \in {k} THEN new ELSE cached[p][c]]
    BY DEF F!Over
  <2> HIDE DEF g
  <2>2. ASSUME NEW c \in DOMAIN g
        PROVE  c \in B!Arms /\ g[c] \in Nat /\ \E b \in bases'[c] : Within(b, g[c], updates'[c])
    <3>1. CASE c = k
      <4>1. g[c] = new
        BY <2>1, <3>1
      <4> QED
        BY <1>1, <1>4, <1>5, <1>6, <3>1, <4>1
    <3>2. CASE c # k
      <4>1. g[c] = cached[p][c] /\ c \in DOMAIN cached[p]
        BY <2>1, <3>2
      <4>2. Near(cached[p], bases', updates')
        BY <1>2, <1>8
      <4> QED
        BY <4>1, <4>2 DEF Near
    <3> QED
      BY <3>1, <3>2
  <2> QED
    BY <2>2 DEF Near
<1>10. cached'[p] = g /\ cached' = [q \in Scorers |-> cached'[q]] /\ \A q \in Scorers : q # p => cached'[q] = cached[q]
  BY <1>1, <1>2
<1> HIDE DEF g
<1>11. Near(table', bases', updates')
  BY <1>1, <1>2, <1>8, <1>9, <1>10, OverNear
<1>12. \A q \in Scorers : Near(cached'[q], bases', updates')
  BY <1>2, <1>8, <1>9, <1>10
<1>13. updates' = [c \in B!Arms |-> updates'[c]] /\ \A c \in B!Arms : updates'[c] \in Nat
  BY <1>1, <1>2
<1> QED
  BY <1>1, <1>2, <1>10, <1>11, <1>12, <1>13 DEF ScorerInv

LEMMA SaveKept ==
    ASSUME ScorerInv, NEW x \in Nat, F!SaveNicheWeights([k \in B!Arms |-> x])
    PROVE  ScorerInv'
<1> DEFINE f == [k \in B!Arms |-> x]
<1>1. /\ table' = F!Over(f, table) /\ bases' = [k \in B!Arms |-> bases[k] \cup {f[k]}]
      /\ cached' = cached /\ updates' = updates
  BY DEF F!SaveNicheWeights
<1>2. /\ \A k \in B!Arms : updates[k] \in Nat /\ bases[k] \in SUBSET Nat /\ 1000 \in bases[k]
      /\ Near(table, bases, updates) /\ \A q \in Scorers : Near(cached[q], bases, updates)
  BY DEF ScorerInv
<1>3. \A k \in B!Arms : bases'[k] = bases[k] \cup {x} /\ Within(x, x, updates'[k])
  BY <1>1, <1>2, WithinSelf
<1>4. \A g : Near(g, bases, updates) => Near(g, bases', updates')
  BY <1>1, <1>3 DEF Near
<1>5. Near(f, bases', updates')
  BY <1>3 DEF Near
<1>6. Near(table', bases', updates')
  BY <1>1, <1>2, <1>4, <1>5, OverNear
<1>7. /\ bases' = [k \in B!Arms |-> bases'[k]]
      /\ \A k \in B!Arms : updates'[k] \in Nat /\ bases'[k] \in SUBSET Nat /\ 1000 \in bases'[k]
  BY <1>1, <1>2, <1>3
<1> QED
  BY <1>1, <1>2, <1>4, <1>6, <1>7 DEF ScorerInv

LEMMA LoadKept == ASSUME ScorerInv, NEW p \in Scorers, F!LoadWeights(p) PROVE ScorerInv'
<1>1. cached' = [cached EXCEPT ![p] = table] /\ UNCHANGED <<table, updates, bases>>
  BY DEF F!LoadWeights
<1>2. cached = [q \in Scorers |-> cached[q]]
  BY DEF ScorerInv
<1>3. \A q \in Scorers : cached'[q] = IF q = p THEN table ELSE cached[q]
  BY <1>1, <1>2
<1>4. cached' = [q \in Scorers |-> cached'[q]]
  BY <1>1, <1>2
<1> QED
  BY <1>1, <1>3, <1>4 DEF ScorerInv

LEMMA ScorerInit == LInit => ScorerInv
<1> SUFFICES ASSUME LInit PROVE ScorerInv
  OBVIOUS
<1>1. /\ table = <<>> /\ cached = [p \in Scorers |-> <<>>]
      /\ updates = [k \in B!Arms |-> 0] /\ bases = [k \in B!Arms |-> {1000}]
  BY DEF LInit, F!BInit
<1>2. Near(<<>>, bases, updates)
  BY DEF Near
<1>3. (\A k \in B!Arms : updates[k] = 0 /\ bases[k] = {1000}) /\ \A p \in Scorers : cached[p] = <<>>
  BY <1>1
<1>4. \A k \in B!Arms : updates[k] \in Nat /\ bases[k] \in SUBSET Nat /\ 1000 \in bases[k]
  BY <1>3
<1>5. Near(table, bases, updates) /\ \A p \in Scorers : Near(cached[p], bases, updates)
  BY <1>1, <1>2, <1>3
<1>6. /\ updates = [k \in B!Arms |-> updates[k]] /\ bases = [k \in B!Arms |-> bases[k]]
      /\ cached = [p \in Scorers |-> cached[p]]
  BY <1>1
<1> QED
  BY <1>4, <1>5, <1>6 DEF ScorerInv

LEMMA ScorerKept == ASSUME part = "scorer", ScorerInv, [LNext]_lvars PROVE ScorerInv'
<1>1. F!ScorerNext \/ UNCHANGED scoring
  BY DEF LNext, lvars, feedback
<1>2. CASE UNCHANGED scoring
  BY <1>2 DEF scoring, ScorerInv
<1>3. CASE F!ScorerNext
  <2>1. ASSUME NEW x \in Averages, F!SaveNicheWeights([k \in B!Arms |-> x]) PROVE ScorerInv'
    <3>1. x \in Nat
      BY LearningAssumption DEF F!FeedbackAssumption
    <3> QED
      BY <2>1, <3>1, SaveKept
  <2>2. ASSUME NEW p \in Scorers, NEW k \in B!Arms, NEW x \in Signals, F!UpdateWeight(p, k, x)
        PROVE  ScorerInv'
    <3>1. x \in Nat
      BY LearningAssumption DEF F!FeedbackAssumption
    <3> QED
      BY <2>2, <3>1, UpdateKept
  <2>3. \/ \E p \in Scorers : F!LoadWeights(p)
        \/ \E p \in Scorers : \E k \in B!Arms, x \in Signals : F!UpdateWeight(p, k, x)
        \/ \E x \in Averages : F!SaveNicheWeights([k \in B!Arms |-> x])
    BY <1>3 DEF F!ScorerNext
  <2> QED
    BY <2>1, <2>2, <2>3, LoadKept
<1> QED
  BY <1>1, <1>2, <1>3

LEMMA ScorerBounded == ScorerInv => F!WeightsBounded
<1>1. \A b : F!Power(b) = Power(b)
  BY DEF F!Power, Power
<1> QED
  BY <1>1 DEF ScorerInv, Near, Within, F!WeightsBounded

\* Counts, choices and weights of the bandit, and the weights of the scorers.
LearnersInv == (part \in Learners => BanditInv) /\ (part = "scorer" => ScorerInv)

\* NichesLearn in every reachable state.
THEOREM NichesLearnHolds == LSpec => []NichesLearn
<1>1. LInit => LearnersInv
  BY BanditInit, ScorerInit DEF LearnersInv
<1>2. LearnersInv /\ [LNext]_lvars => LearnersInv'
  BY BanditKept, ScorerKept, NicheMoves DEF LearnersInv
<1>3. LearnersInv => NichesLearn
  BY BanditLearns, ScorerBounded DEF LearnersInv, NichesLearn, Learners
<1> QED
  BY <1>1, <1>2, <1>3, PTL DEF LSpec

(***************************************************************************)
(* Experiments                                                             *)
(***************************************************************************)

Side == [variant : Variants, impressions : Nat, clicks : Nat]

\* A variant is counted in one place.
Counted(q) ==
    /\ q \in Seq(Side)
    /\ \A i, j \in 1 .. Len(q) : q[i].variant = q[j].variant => i = j

\* A row of ab_tests is justified by its counts.
Fair(row) ==
    \A a, b \in row.of : a # b =>
       a.impressions >= MinImpressions /\ (row.winner = a.variant => a.clicks * b.impressions > b.clicks * a.impressions)

FairRows == {row \in [winner : Variants \cup {Inconclusive}, of : SUBSET Side] : Fair(row)}

TesterInv == Counted(tally) /\ results \in Seq(FairRows)

\* Neither order of the two variants gives the lesser rate the win.
LEMMA WinnerIsBetter ==
    ASSUME NEW a \in Side, NEW b \in Side, a.variant # b.variant
    PROVE  /\ F!Winner(a, b) = a.variant => a.clicks * b.impressions > b.clicks * a.impressions
           /\ F!Winner(a, b) = b.variant => b.clicks * a.impressions > a.clicks * b.impressions
<1> DEFINE p == a.clicks * b.impressions
           q == b.clicks * a.impressions
<1>1. /\ a.variant \in Variants /\ b.variant \in Variants
      /\ a.clicks \in Nat /\ b.clicks \in Nat /\ a.impressions \in Nat /\ b.impressions \in Nat
  BY DEF Side
<1>2. Inconclusive # a.variant /\ Inconclusive # b.variant
  BY <1>1, LearningAssumption DEF F!FeedbackAssumption
<1>3. a.clicks * F!Misses(b) - b.clicks * F!Misses(a) = p - q
  <2>1. /\ a.clicks * (b.impressions - b.clicks) = p - a.clicks * b.clicks
        /\ b.clicks * (a.impressions - a.clicks) = q - b.clicks * a.clicks
        /\ a.clicks * b.clicks = b.clicks * a.clicks /\ a.clicks * b.clicks \in Int
        /\ p \in Int /\ q \in Int
    BY <1>1
  <2> HIDE DEF p, q
  <2> QED
    BY <2>1 DEF F!Misses
<1>4. F!Significant(a, b) => p # q
  <2>1. CASE p = q
    <3>1. F!Abs(p - q) = 0
      <4>1. p - q = 0
        BY <1>1, <2>1
      <4> HIDE DEF p, q
      <4> QED
        BY <4>1 DEF F!Abs
    <3>2. F!Significant(a, b) => 2 * F!Abs(p - q) - (a.impressions + b.impressions) > 0
      BY <1>3 DEF F!Significant
    <3> HIDE DEF p, q
    <3> QED
      BY <1>1, <3>1, <3>2
  <2> QED
    BY <2>1
<1>5. p \in Int /\ q \in Int
  BY <1>1
<1>6. F!Winner(a, b) = IF ~ F!Significant(a, b) THEN Inconclusive ELSE IF p > q THEN a.variant ELSE b.variant
  BY DEF F!Winner
<1> HIDE DEF p, q
<1>7. /\ F!Winner(a, b) = a.variant => p > q
      /\ F!Winner(a, b) = b.variant => q > p
  BY <1>2, <1>4, <1>5, <1>6
<1> QED
  BY <1>7 DEF p, q

\* record_impression() and record_click(): a new variant, and a count that goes up.
LEMMA EnsuredCounted ==
    ASSUME Counted(tally), NEW v \in Variants
    PROVE  Counted(F!Ensured(v)) /\ F!At(F!Ensured(v), v) \in 1 .. Len(F!Ensured(v))
<1> DEFINE q == F!Ensured(v)
<1>1. /\ tally \in Seq(Side) /\ Len(tally) \in Nat /\ DOMAIN tally = 1 .. Len(tally)
      /\ \A i, j \in 1 .. Len(tally) : tally[i].variant = tally[j].variant => i = j
  BY DEF Counted
<1>2. Counted(q) /\ \E i \in 1 .. Len(q) : q[i].variant = v
  <2>1. CASE F!Known(v)
    <3>1. q = tally
      BY <2>1 DEF F!Ensured
    <3>2. \E i \in 1 .. Len(tally) : tally[i].variant = v
      BY <1>1, <2>1 DEF F!Known
    <3> HIDE DEF q
    <3> QED
      BY <3>1, <3>2
  <2>2. CASE ~ F!Known(v)
    <3> DEFINE new == [variant |-> v, impressions |-> 0, clicks |-> 0]
    <3>1. q = Append(tally, new) /\ \A i \in 1 .. Len(tally) : tally[i].variant # v
      BY <1>1, <2>2 DEF F!Ensured, F!Known
    <3>2. new \in Side /\ new.variant = v
      BY DEF Side
    <3> HIDE DEF q, new
    <3>3. /\ q \in Seq(Side) /\ Len(q) = Len(tally) + 1 /\ q[Len(tally) + 1] = new
          /\ \A i \in 1 .. Len(tally) : q[i] = tally[i]
      BY <1>1, <3>1, <3>2
    <3>4. \A i, j \in 1 .. Len(q) : q[i].variant = q[j].variant => i = j
      BY <1>1, <3>1, <3>2, <3>3
    <3> QED
      BY <1>1, <3>2, <3>3, <3>4 DEF Counted
  <2> QED
    BY <2>1, <2>2
<1>3. DOMAIN q = 1 .. Len(q)
  BY <1>2 DEF Counted
<1>4. F!At(q, v) = CHOOSE i \in 1 .. Len(q) : q[i].variant = v
  BY <1>3 DEF F!At
<1> HIDE DEF q
<1>5. F!At(q, v) \in 1 .. Len(q)
  BY <1>2, <1>4
<1> QED
  BY <1>2, <1>5 DEF q

LEMMA CountedMore ==
    ASSUME NEW q, Counted(q), NEW i \in 1 .. Len(q), NEW side \in Side, side.variant = q[i].variant
    PROVE  Counted([q EXCEPT ![i] = side])
<1> DEFINE r == [q EXCEPT ![i] = side]
<1>1. /\ q \in Seq(Side) /\ Len(q) \in Nat /\ DOMAIN q = 1 .. Len(q)
      /\ \A k, j \in 1 .. Len(q) : q[k].variant = q[j].variant => k = j
  BY DEF Counted
<1>2. r \in Seq(Side) /\ Len(r) = Len(q) /\ \A k \in 1 .. Len(q) : r[k] = IF k = i THEN side ELSE q[k]
  BY <1>1
<1> HIDE DEF r
<1>3. \A k \in 1 .. Len(q) : r[k].variant = q[k].variant
  BY <1>2
<1>4. Counted(r)
  BY <1>1, <1>2, <1>3 DEF Counted
<1> QED
  BY <1>4 DEF r

LEMMA AnalyzedFair ==
    ASSUME Counted(tally), F!Analyze, results \in Seq(FairRows) PROVE results' \in Seq(FairRows) /\ tally' = tally
<1> DEFINE a == tally[1]
           b == tally[2]
           row == [winner |-> F!Winner(a, b), of |-> {a, b}]
<1>1. tally \in Seq(Side) /\ Len(tally) >= 2 /\ F!Enough(a, b) /\ results' = Append(results, row) /\ tally' = tally
  BY DEF F!Analyze, F!SaveAbTest, Counted
<1>2. a \in Side /\ b \in Side /\ a.variant # b.variant
  <2>1. 1 \in 1 .. Len(tally) /\ 2 \in 1 .. Len(tally)
    BY <1>1
  <2> QED
    BY <1>1, <2>1 DEF Counted
<1>3. /\ F!Winner(a, b) = a.variant => a.clicks * b.impressions > b.clicks * a.impressions
      /\ F!Winner(a, b) = b.variant => b.clicks * a.impressions > a.clicks * b.impressions
  BY <1>2, WinnerIsBetter
<1>4. F!Winner(a, b) \in Variants \cup {Inconclusive}
  BY <1>2 DEF F!Winner, Side
<1>5. a.impressions >= MinImpressions /\ b.impressions >= MinImpressions
  BY <1>1 DEF F!Enough
<1> HIDE DEF a, b
<1>6. row \in FairRows
  BY <1>2, <1>3, <1>4, <1>5 DEF FairRows, Fair
<1> HIDE DEF row
<1> QED
  BY <1>1, <1>6

LEMMA TesterInit == LInit => TesterInv
BY DEF LInit, F!BInit, TesterInv, Counted

LEMMA TesterKept == ASSUME part = "tester", TesterInv, [LNext]_lvars PROVE TesterInv'
<1>1. F!TesterNext \/ UNCHANGED testing
  BY DEF LNext, lvars, feedback
<1>2. Counted(tally) /\ results \in Seq(FairRows)
  BY DEF TesterInv
<1>3. FairRows' = FairRows /\ \A q : Counted(q)' <=> Counted(q)
  BY DEF FairRows, Fair, Counted, Side
<1>4. CASE UNCHANGED testing
  BY <1>2, <1>4 DEF testing, TesterInv, Counted
<1>5. ASSUME NEW v \in Variants, F!RecordImpressions(v) \/ F!RecordClicks(v) PROVE TesterInv'
  <2> DEFINE q == F!Ensured(v)
             i == F!At(q, v)
  <2>1. Counted(q) /\ i \in 1 .. Len(q)
    BY <1>2, EnsuredCounted
  <2>2. /\ results' = results
        /\ \/ tally' = [q EXCEPT ![i].impressions = @ + 6]
           \/ tally' = [q EXCEPT ![i].clicks = @ + 6]
    BY <1>5 DEF F!RecordImpressions, F!RecordClicks
  <2> HIDE DEF q, i
  <2>3. q \in Seq(Side) /\ q[i] \in Side
    BY <2>1 DEF Counted
  <2> DEFINE x == [q[i] EXCEPT !.impressions = q[i].impressions + 6]
             y == [q[i] EXCEPT !.clicks = q[i].clicks + 6]
  <2>4. tally' = [q EXCEPT ![i] = x] \/ tally' = [q EXCEPT ![i] = y]
    BY <2>2
  <2>5. x \in Side /\ x.variant = q[i].variant /\ y \in Side /\ y.variant = q[i].variant
    <3> DEFINE r == q[i]
    <3>1. /\ r = [variant |-> r.variant, impressions |-> r.impressions, clicks |-> r.clicks]
          /\ r.variant \in Variants /\ r.impressions \in Nat /\ r.clicks \in Nat
      BY <2>3 DEF Side
    <3> HIDE DEF r
    <3>2. /\ [r EXCEPT !.impressions = r.impressions + 6]
                = [variant |-> r.variant, impressions |-> r.impressions + 6, clicks |-> r.clicks]
          /\ [r EXCEPT !.clicks = r.clicks + 6]
                = [variant |-> r.variant, impressions |-> r.impressions, clicks |-> r.clicks + 6]
      BY <3>1
    <3>3. x = [r EXCEPT !.impressions = r.impressions + 6] /\ y = [r EXCEPT !.clicks = r.clicks + 6]
      BY DEF r
    <3> HIDE DEF x, y
    <3> QED
      BY <3>1, <3>2, <3>3 DEF Side, r
  <2> HIDE DEF x, y
  <2>6. Counted(tally')
    <3>1. Counted([q EXCEPT ![i] = x]) /\ Counted([q EXCEPT ![i] = y])
      BY <2>1, <2>5, CountedMore
    <3> QED
      BY <2>4, <3>1
  <2> QED
    BY <1>2, <2>2, <2>6 DEF TesterInv, Counted
<1>6. CASE F!Analyze
  <2>1. results' \in Seq(FairRows) /\ tally' = tally
    BY <1>2, <1>6, AnalyzedFair
  <2> QED
    BY <1>2, <2>1 DEF TesterInv, Counted
<1>7. CASE F!Restart
  BY <1>2, <1>7 DEF F!Restart, TesterInv, Counted
<1> QED
  BY <1>1, <1>4, <1>5, <1>6, <1>7 DEF F!TesterNext

LEMMA TesterFair == TesterInv => F!WinnersWin
BY DEF TesterInv, FairRows, Fair, F!WinnersWin

(***************************************************************************)
(* Moving averages and videos                                              *)
(***************************************************************************)

\* A moving average stays between the least and the greatest sample.
LEMMA MeanBetween ==
    ASSUME NEW k \in Nat \ {0}, NEW w \in 0 .. k, NEW lo \in Nat, NEW hi \in Nat, NEW x \in lo .. hi, NEW c \in lo .. hi
    PROVE  (w * x + (k - w) * c) \div k \in lo .. hi
<1> DEFINE u == k - w
           y == w * x + u * c
           q == y \div k
<1>1. w \in Nat /\ u \in Nat /\ k = w + u /\ x \in Nat /\ c \in Nat
  OBVIOUS
<1> HIDE DEF u
<1>2. w * lo <= w * x /\ w * x <= w * hi /\ u * lo <= u * c /\ u * c <= u * hi
  BY <1>1, ProductsOrdered
<1>3. k * lo = w * lo + u * lo /\ k * hi = w * hi + u * hi
  BY <1>1
<1>4. {w * lo, w * hi, w * x, u * lo, u * hi, u * c} \subseteq Nat
  BY <1>1
<1>5. y \in Nat /\ k * lo <= y /\ y <= k * hi
  <2> DEFINE a1 == w * lo
             a2 == w * hi
             a3 == w * x
             b1 == u * lo
             b2 == u * hi
             b3 == u * c
  <2>1. y = a3 + b3 /\ k * lo = a1 + b1 /\ k * hi = a2 + b2
    BY <1>3
  <2>2. {a1, a2, a3, b1, b2, b3} \subseteq Nat /\ a1 <= a3 /\ a3 <= a2 /\ b1 <= b3 /\ b3 <= b2
    BY <1>2, <1>4
  <2> HIDE DEF a1, a2, a3, b1, b2, b3, y
  <2> QED
    BY <2>1, <2>2
<1> HIDE DEF y
<1>6. q \in Nat /\ k * q <= y /\ y < k * q + k
  BY <1>5, DivIs
<1> HIDE DEF q
<1>7. lo <= q
  <2>1. CASE q + 1 <= lo
    <3>1. k * (q + 1) <= k * lo /\ k * (q + 1) = k * q + k /\ k * q \in Int /\ k * lo \in Int
      BY <1>6, <2>1, ProductsOrdered
    <3> QED
      BY <1>5, <1>6, <3>1
  <2> QED
    BY <1>6, <2>1
<1>8. q <= hi
  <2>1. CASE hi + 1 <= q
    <3>1. k * (hi + 1) <= k * q /\ k * (hi + 1) = k * hi + k /\ k * q \in Int /\ k * hi \in Int
      BY <1>6, <2>1, ProductsOrdered
    <3> QED
      BY <1>5, <1>6, <3>1
  <2> QED
    BY <1>6, <2>1
<1>9. q \in lo .. hi
  BY <1>6, <1>7, <1>8
<1> QED
  BY <1>9 DEF q, y, u

Line == [video : Videos, at : Nat, views : Nat, since : Nat, empty : BOOLEAN]

\* What was fetched of a video, and what is shown.
Ranged(S, shown) == \E lo, hi \in S : shown \in lo .. hi /\ \A x \in S : lo <= x /\ x <= hi

\* Reported, of what was seen then.
Views(saw, v, since, at) ==
    Cardinality({i \in DOMAIN saw[v] : saw[v][i] \in V!Date(since) .. V!Date(at)})

Grown(q, at, saw) ==
    /\ q \in Seq(Line)
    /\ \A i \in 1 .. Len(q) : q[i].at <= at /\ q[i].views <= Views(saw, q[i].video, q[i].since, q[i].at)
    /\ \A i, j \in 1 .. Len(q) : i < j /\ q[i].video = q[j].video =>
          /\ q[i].at < q[j].at
          /\ q[i].since = q[j].since => q[j].empty \/ q[i].views <= q[j].views

\* An attempt, after all rows; its snapshot, with no fewer views than they have.
Trying(x, q, saw, line) ==
    /\ x \in [step : {"none", "asked", "fetched"}, at : Nat, views : Nat, empty : BOOLEAN]
    /\ x.step # "none" => line # <<>> /\ \A i \in 1 .. Len(q) : q[i].at <= x.at
    /\ x.step = "asked" => x.views = 0
    /\ x.step = "fetched" =>
          /\ x.views <= Views(saw, Head(line).video, Head(line).since, x.at)
          /\ \A i \in 1 .. Len(q) : q[i].video = Head(line).video /\ q[i].since = Head(line).since =>
                x.empty \/ q[i].views <= x.views

VideosInv ==
    /\ time \in Nat /\ seen \in [Videos -> Seq(Nat)]
    /\ DOMAIN published \subseteq Videos /\ IsFiniteSet(DOMAIN published)
    /\ \A v \in DOMAIN published : published[v] \in Nat
    /\ todo \in Seq([video : Videos, since : Nat])
    /\ Grown(metrics, time, seen)
    /\ Trying(attempt, metrics, seen, todo) /\ attempt.at <= time
    /\ rates \in [Videos -> SUBSET Nat]
    /\ \A v \in Videos : (v \in DOMAIN cache <=> rates[v] # {}) /\ (rates[v] # {} => Ranged(rates[v], cache[v]))

LEMMA NotTrying == \A q, saw, line : Trying(V!NoAttempt, q, saw, line) /\ V!NoAttempt.at = 0
BY DEF Trying, V!NoAttempt

LEMMA VideosInit == LInit => VideosInv
<1> SUFFICES ASSUME LInit PROVE VideosInv
  OBVIOUS
<1>1. /\ time = 0 /\ published = <<>> /\ metrics = <<>> /\ seen = [v \in Videos |-> <<>>]
      /\ todo = <<>> /\ attempt = V!NoAttempt /\ cache = <<>> /\ rates = [v \in Videos |-> {}]
  BY DEF LInit, V!VMInit
<1>2. DOMAIN published = {} /\ DOMAIN cache = {} /\ Grown(<<>>, time, seen)
  BY <1>1 DEF Grown
<1> QED
  BY <1>1, <1>2, NotTrying, FS_EmptySet DEF VideosInv

\* Dates are in the order of the clock.
LEMMA DatesInOrder == \A a, b \in Nat : a <= b => V!Date(a) \in Nat /\ V!Date(b) \in Nat /\ V!Date(a) <= V!Date(b)
<1> SUFFICES ASSUME NEW a \in Nat, NEW b \in Nat, a <= b
             PROVE  V!Date(a) \in Nat /\ V!Date(b) \in Nat /\ V!Date(a) <= V!Date(b)
  OBVIOUS
<1> DEFINE i == a \div Day
           j == b \div Day
<1>1. Day \in Nat \ {0}
  BY LearningAssumption DEF V!VideoAssumption
<1>2. i \in Nat /\ Day * i <= a /\ j \in Nat /\ b < Day * j + Day
  BY <1>1, DivIs
<1> HIDE DEF i, j
<1>3. i <= j
  <2>1. CASE j + 1 <= i
    <3> DEFINE x == Day * i
               y == Day * j
    <3>1. Day * (j + 1) <= x /\ Day * (j + 1) = y + Day /\ x \in Int /\ y \in Int
      BY <1>1, <1>2, <2>1, ProductsOrdered
    <3>2. x <= a /\ b < y + Day /\ a <= b
      BY <1>2
    <3> HIDE DEF x, y
    <3>3. y + Day <= x
      BY <3>1
    <3> QED
      BY <1>1, <3>1, <3>2, <3>3
  <2> QED
    BY <1>2, <2>1
<1> QED
  BY <1>2, <1>3 DEF V!Date, i, j

Longer(saw, more) ==
    \A v \in Videos : /\ DOMAIN saw[v] \subseteq DOMAIN more[v]
                      /\ \A i \in DOMAIN saw[v] : more[v][i] = saw[v][i]

LEMMA ViewsGrow ==
    ASSUME NEW saw \in [Videos -> Seq(Nat)], NEW more \in [Videos -> Seq(Nat)], Longer(saw, more),
           NEW v \in Videos, NEW since \in Nat, NEW at \in Nat, NEW later \in Nat, at <= later
    PROVE  /\ Views(saw, v, since, at) \in Nat /\ Views(more, v, since, later) \in Nat
           /\ Views(saw, v, since, at) <= Views(more, v, since, later)
           /\ Views(saw, v, since, at) <= Len(saw[v])
<1> DEFINE ones == {i \in DOMAIN saw[v] : saw[v][i] \in V!Date(since) .. V!Date(at)}
           all == {i \in DOMAIN more[v] : more[v][i] \in V!Date(since) .. V!Date(later)}
<1>1. saw[v] \in Seq(Nat) /\ more[v] \in Seq(Nat)
  OBVIOUS
<1>2. DOMAIN saw[v] = 1 .. Len(saw[v]) /\ DOMAIN more[v] = 1 .. Len(more[v]) /\ Len(saw[v]) \in Nat /\ Len(more[v]) \in Nat
  BY <1>1
<1>3. \A i \in DOMAIN saw[v] : saw[v][i] \in Nat
  BY <1>1
<1>4. V!Date(since) \in Nat /\ V!Date(at) \in Nat /\ V!Date(later) \in Nat /\ V!Date(at) <= V!Date(later)
  BY DatesInOrder
<1>5. ones \subseteq all
  BY <1>3, <1>4 DEF Longer
<1>6. /\ IsFiniteSet(1 .. Len(saw[v])) /\ IsFiniteSet(1 .. Len(more[v]))
      /\ Cardinality(1 .. Len(saw[v])) = Len(saw[v])
  <2>1. \A k \in Nat : IsFiniteSet(1 .. k) /\ Cardinality(1 .. k) = IF 1 > k THEN 0 ELSE k - 1 + 1
    BY FS_Interval
  <2>2. \A k \in Nat : (IF 1 > k THEN 0 ELSE k - 1 + 1) = k
    OBVIOUS
  <2> QED
    BY <1>2, <2>1, <2>2
<1>7. ones \subseteq 1 .. Len(saw[v]) /\ all \subseteq 1 .. Len(more[v])
  BY <1>2
<1> HIDE DEF ones, all
<1>8. IsFiniteSet(ones) /\ IsFiniteSet(all) /\ Cardinality(ones) <= Cardinality(all) /\ Cardinality(ones) <= Len(saw[v])
  BY <1>5, <1>6, <1>7, FS_Subset
<1>9. Cardinality(ones) \in Nat /\ Cardinality(all) \in Nat
  BY <1>8, FS_CardinalityType
<1> QED
  BY <1>8, <1>9 DEF Views, ones, all

LEMMA LongerSame == \A saw : Longer(saw, saw)
BY DEF Longer

LEMMA GrownLater ==
    ASSUME NEW q, NEW at \in Nat, NEW saw \in [Videos -> Seq(Nat)], Grown(q, at, saw),
           NEW later \in Nat, NEW more \in [Videos -> Seq(Nat)], at <= later, Longer(saw, more)
    PROVE  Grown(q, later, more)
<1>1. q \in Seq(Line) /\ \A i \in 1 .. Len(q) : q[i] \in Line
  BY DEF Grown
<1>2. ASSUME NEW i \in 1 .. Len(q) PROVE q[i].at <= later /\ q[i].views <= Views(more, q[i].video, q[i].since, q[i].at)
  <2>1. q[i].at \in Nat /\ q[i].views \in Nat /\ q[i].video \in Videos /\ q[i].since \in Nat
    BY <1>1 DEF Line
  <2>2. q[i].at <= at /\ q[i].views <= Views(saw, q[i].video, q[i].since, q[i].at)
    BY DEF Grown
  <2>3. q[i].at <= q[i].at
    BY <2>1
  <2>4. /\ Views(saw, q[i].video, q[i].since, q[i].at) \in Nat /\ Views(more, q[i].video, q[i].since, q[i].at) \in Nat
        /\ Views(saw, q[i].video, q[i].since, q[i].at) <= Views(more, q[i].video, q[i].since, q[i].at)
    BY <2>1, <2>3, ViewsGrow
  <2> QED
    BY <2>1, <2>2, <2>4
<1> QED
  BY <1>2 DEF Grown

LEMMA HeadTail == ASSUME NEW S, NEW q \in Seq(S), q # <<>> PROVE Head(q) \in S /\ Tail(q) \in Seq(S)
OBVIOUS

LEMMA TryingLater ==
    ASSUME NEW x, NEW q, NEW line \in Seq([video : Videos, since : Nat]), NEW saw \in [Videos -> Seq(Nat)],
           Trying(x, q, saw, line), NEW more \in [Videos -> Seq(Nat)], Longer(saw, more)
    PROVE  Trying(x, q, more, line)
<1>1. ASSUME x.step = "fetched" PROVE x.views <= Views(more, Head(line).video, Head(line).since, x.at)
  <2>1. Head(line) \in [video : Videos, since : Nat]
    <3>1. line # <<>>
      BY <1>1 DEF Trying
    <3> QED
      BY <3>1, HeadTail
  <2>2. Head(line).video \in Videos /\ Head(line).since \in Nat /\ x.at \in Nat /\ x.at <= x.at /\ x.views \in Nat
    BY <2>1 DEF Trying
  <2>3. /\ Views(saw, Head(line).video, Head(line).since, x.at) \in Nat
        /\ Views(more, Head(line).video, Head(line).since, x.at) \in Nat
        /\ Views(saw, Head(line).video, Head(line).since, x.at) <= Views(more, Head(line).video, Head(line).since, x.at)
    BY <2>2, ViewsGrow
  <2>4. x.views <= Views(saw, Head(line).video, Head(line).since, x.at)
    BY <1>1 DEF Trying
  <2> QED
    BY <2>2, <2>3, <2>4
<1> QED
  BY <1>1 DEF Trying

LEMMA GrownMore ==
    ASSUME NEW q, NEW at \in Nat, NEW saw \in [Videos -> Seq(Nat)], Grown(q, at, saw), NEW row \in Line,
           row.at <= at, row.views <= Views(saw, row.video, row.since, row.at),
           \A i \in 1 .. Len(q) : q[i].video = row.video =>
              /\ q[i].at < row.at
              /\ q[i].since = row.since => row.empty \/ q[i].views <= row.views
    PROVE  Grown(Append(q, row), at, saw)
<1> DEFINE r == Append(q, row)
           k == Len(q) + 1
<1>1. q \in Seq(Line) /\ Len(q) \in Nat /\ DOMAIN q = 1 .. Len(q)
  BY DEF Grown
<1>2. r \in Seq(Line) /\ Len(r) = k /\ r[k] = row /\ \A i \in 1 .. Len(q) : r[i] = q[i]
  BY <1>1
<1> HIDE DEF r
<1>3. ASSUME NEW i \in 1 .. k PROVE r[i].at <= at /\ r[i].views <= Views(saw, r[i].video, r[i].since, r[i].at)
  <2>1. CASE i = k
    BY <1>2, <2>1
  <2>2. CASE i # k
    <3>1. i \in 1 .. Len(q)
      BY <1>1, <2>2
    <3> QED
      BY <1>2, <3>1 DEF Grown
  <2> QED
    BY <2>1, <2>2
<1>4. ASSUME NEW i \in 1 .. k, NEW j \in 1 .. k, i < j, r[i].video = r[j].video
      PROVE  r[i].at < r[j].at /\ (r[i].since = r[j].since => r[j].empty \/ r[i].views <= r[j].views)
  <2>1. i \in 1 .. Len(q) /\ r[i] = q[i]
    BY <1>1, <1>2, <1>4
  <2>2. CASE j = k
    BY <1>2, <1>4, <2>1, <2>2
  <2>3. CASE j # k
    <3>1. j \in 1 .. Len(q) /\ r[j] = q[j]
      BY <1>1, <1>2, <2>3
    <3> QED
      BY <1>4, <2>1, <3>1 DEF Grown
  <2> QED
    BY <2>2, <2>3
<1>5. Grown(r, at, saw)
  BY <1>2, <1>3, <1>4 DEF Grown
<1> QED
  BY <1>5 DEF r

LEMMA StatsRanged ==
    ASSUME VideosInv, NEW v \in Videos, V!GetStats(v) PROVE VideosInv'
<1>1. PICK x \in Rates : /\ cache' = V!Over([w \in {v} |-> V!Smoothed(w, x)], cache)
                         /\ rates' = [rates EXCEPT ![v] = @ \cup {x}]
  BY DEF V!GetStats
<1>2. UNCHANGED <<time, published, metrics, seen, todo, attempt>>
  BY DEF V!GetStats
<1>3. x \in Nat /\ Weight \in 0 .. 10
  BY LearningAssumption DEF V!VideoAssumption
<1>4. /\ rates \in [Videos -> SUBSET Nat]
      /\ \A w \in Videos : (w \in DOMAIN cache <=> rates[w] # {}) /\ (rates[w] # {} => Ranged(rates[w], cache[w]))
  BY DEF VideosInv
<1> DEFINE y == V!Smoothed(v, x)
<1>5. cache' = [w \in {v} \cup DOMAIN cache |-> IF w \in {v} THEN y ELSE cache[w]]
  BY <1>1 DEF V!Over
<1>6. rates' \in [Videos -> SUBSET Nat] /\ rates'[v] = rates[v] \cup {x} /\ \A w \in Videos : w # v => rates'[w] = rates[w]
  BY <1>1, <1>3, <1>4
<1>7. Ranged(rates'[v], y)
  <2>1. CASE v \notin DOMAIN cache
    <3>1. y = x /\ rates'[v] = {x}
      BY <1>4, <1>6, <2>1 DEF V!Smoothed
    <3> QED
      BY <1>3, <3>1 DEF Ranged
  <2>2. CASE v \in DOMAIN cache
    <3>1. PICK lo \in rates[v], hi \in rates[v] : cache[v] \in lo .. hi /\ \A z \in rates[v] : lo <= z /\ z <= hi
      BY <1>4, <2>2 DEF Ranged
    <3>2. lo \in Nat /\ hi \in Nat /\ cache[v] \in Nat /\ rates[v] \subseteq Nat
      BY <1>4, <3>1
    <3> DEFINE l == IF x < lo THEN x ELSE lo
               h == IF x > hi THEN x ELSE hi
    <3>3. l \in Nat /\ h \in Nat /\ x \in l .. h /\ cache[v] \in l .. h
      BY <1>3, <3>1, <3>2
    <3>4. l \in rates'[v] /\ h \in rates'[v] /\ \A z \in rates'[v] : l <= z /\ z <= h
      BY <1>3, <1>6, <3>1, <3>2
    <3> HIDE DEF l, h
    <3>5. y = (Weight * x + (10 - Weight) * cache[v]) \div 10
      BY <2>2 DEF V!Smoothed
    <3>6. (Weight * x + (10 - Weight) * cache[v]) \div 10 \in l .. h
      BY <1>3, <3>3, MeanBetween
    <3> HIDE DEF y
    <3> QED
      BY <3>4, <3>5, <3>6 DEF Ranged
  <2> QED
    BY <2>1, <2>2
<1> HIDE DEF y
<1>8. ASSUME NEW w \in Videos
      PROVE  (w \in DOMAIN cache' <=> rates'[w] # {}) /\ (rates'[w] # {} => Ranged(rates'[w], cache'[w]))
  <2>1. CASE w = v
    <3>1. w \in DOMAIN cache' /\ cache'[w] = y /\ rates'[w] # {}
      BY <1>5, <1>6, <2>1
    <3> QED
      BY <1>7, <2>1, <3>1
  <2>2. CASE w # v
    <3>1. (w \in DOMAIN cache' <=> w \in DOMAIN cache) /\ (w \in DOMAIN cache => cache'[w] = cache[w])
      BY <1>5, <2>2
    <3> QED
      BY <1>4, <1>6, <2>2, <3>1
  <2> QED
    BY <2>1, <2>2
<1>9. /\ time' \in Nat /\ seen' \in [Videos -> Seq(Nat)]
      /\ DOMAIN published' \subseteq Videos /\ IsFiniteSet(DOMAIN published')
      /\ \A w \in DOMAIN published' : published'[w] \in Nat
      /\ todo' \in Seq([video : Videos, since : Nat])
      /\ Grown(metrics', time', seen')
      /\ Trying(attempt', metrics', seen', todo') /\ attempt'.at <= time'
  BY <1>2 DEF VideosInv
<1> QED
  BY <1>6, <1>8, <1>9 DEF VideosInv, Ranged, Grown, Trying, Views, V!Date, Line

LEMMA SavedGrown ==
    ASSUME VideosInv, attempt.step = "fetched",
           V!SaveMetrics([video |-> Head(todo).video, at |-> attempt.at, views |-> attempt.views,
                          since |-> Head(todo).since, empty |-> attempt.empty])
    PROVE  Grown(metrics', time, seen)
<1> DEFINE row == [video |-> Head(todo).video, at |-> attempt.at, views |-> attempt.views,
                   since |-> Head(todo).since, empty |-> attempt.empty]
<1>1. /\ time \in Nat /\ seen \in [Videos -> Seq(Nat)] /\ Grown(metrics, time, seen)
      /\ Trying(attempt, metrics, seen, todo) /\ attempt.at <= time
      /\ todo \in Seq([video : Videos, since : Nat])
  BY DEF VideosInv
<1>2. todo # <<>> /\ attempt \in [step : {"none", "asked", "fetched"}, at : Nat, views : Nat, empty : BOOLEAN]
  BY <1>1 DEF Trying
<1>3. Head(todo) \in [video : Videos, since : Nat]
  BY <1>1, <1>2, HeadTail
<1>4. /\ row \in Line /\ row.video = Head(todo).video /\ row.at = attempt.at /\ row.views = attempt.views
      /\ row.since = Head(todo).since /\ row.empty = attempt.empty
  BY <1>2, <1>3 DEF Line
<1>5. CASE \E i \in DOMAIN metrics : metrics[i].video = row.video /\ metrics[i].at = row.at
  <2>1. metrics' = metrics
    BY <1>5 DEF V!SaveMetrics
  <2> QED
    BY <1>1, <2>1
<1>6. CASE ~ \E i \in DOMAIN metrics : metrics[i].video = row.video /\ metrics[i].at = row.at
  <2>1. metrics' = Append(metrics, row)
    BY <1>6 DEF V!SaveMetrics
  <2> HIDE DEF row
  <2>2. row.at <= time /\ row.views <= Views(seen, row.video, row.since, row.at)
    BY <1>1, <1>4 DEF Trying
  <2>3. ASSUME NEW i \in 1 .. Len(metrics), metrics[i].video = row.video
        PROVE  /\ metrics[i].at < row.at
               /\ metrics[i].since = row.since => row.empty \/ metrics[i].views <= row.views
    <3>1. metrics \in Seq(Line) /\ DOMAIN metrics = 1 .. Len(metrics)
      BY <1>1 DEF Grown
    <3>2. metrics[i] \in Line
      BY <3>1
    <3>3. metrics[i].at \in Nat /\ row.at \in Nat /\ metrics[i].at <= row.at /\ metrics[i].at # row.at
      BY <1>1, <1>2, <1>4, <1>6, <2>3, <3>1, <3>2 DEF Line, Trying
    <3>4. metrics[i].since = row.since => row.empty \/ metrics[i].views <= row.views
      BY <1>1, <1>4, <2>3 DEF Trying
    <3> QED
      BY <3>3, <3>4
  <2> QED
    BY <1>1, <1>4, <2>1, <2>2, <2>3, GrownMore
<1> QED
  BY <1>5, <1>6

\* A list of published videos, newest first.
LEMMA ListedVideos ==
    ASSUME VideosInv, NEW q \in V!Listings
    PROVE  [i \in DOMAIN q |-> [video |-> q[i], since |-> published[q[i]]]] \in Seq([video : Videos, since : Nat])
<1> DEFINE n0 == Cardinality(DOMAIN published)
           list == [i \in DOMAIN q |-> [video |-> q[i], since |-> published[q[i]]]]
<1>1. DOMAIN published \subseteq Videos /\ IsFiniteSet(DOMAIN published) /\ \A v \in DOMAIN published : published[v] \in Nat
  BY DEF VideosInv
<1>2. n0 \in Nat
  BY <1>1, FS_CardinalityType
<1>3. V!Cardinality(DOMAIN published) = n0
  BY DEF V!Cardinality, Cardinality
<1> HIDE DEF n0
<1>4. PICK f \in [1 .. n0 -> DOMAIN published] : q = SubSeq(f, 1, IF Len(f) < Limit THEN Len(f) ELSE Limit)
  BY <1>3 DEF V!Listings
<1>5. f \in Seq(DOMAIN published) /\ Len(f) = n0
  BY <1>2, <1>4
<1>6. Limit \in Nat
  BY LearningAssumption DEF V!VideoAssumption
<1> DEFINE k == IF Len(f) < Limit THEN Len(f) ELSE Limit
<1>7. k \in 0 .. n0
  BY <1>2, <1>5, <1>6
<1> HIDE DEF k
<1>8. q \in Seq(DOMAIN published)
  <2>1. q = SubSeq(f, 1, k)
    BY <1>4 DEF k
  <2> QED
    BY <1>2, <1>5, <1>7, <2>1
<1>9. DOMAIN q = 1 .. Len(q) /\ Len(q) \in Nat /\ \A i \in 1 .. Len(q) : q[i] \in DOMAIN published
  BY <1>8
<1>10. list = [i \in 1 .. Len(q) |-> list[i]] /\ \A i \in 1 .. Len(q) : list[i] \in [video : Videos, since : Nat]
  BY <1>1, <1>9
<1> HIDE DEF list
<1>11. list \in Seq([video : Videos, since : Nat])
  BY <1>9, <1>10
<1> QED
  BY <1>11 DEF list

VideoParts == {"collector", "adapter"}

LEMMA VideosKept == ASSUME part \in VideoParts, VideosInv, [LNext]_lvars PROVE VideosInv'
<1>1. V!CollectorNext \/ V!AdapterNext \/ UNCHANGED videos
  BY DEF LNext, lvars, VideoParts
<1>2. /\ time \in Nat /\ seen \in [Videos -> Seq(Nat)]
      /\ DOMAIN published \subseteq Videos /\ IsFiniteSet(DOMAIN published)
      /\ \A v \in DOMAIN published : published[v] \in Nat
      /\ todo \in Seq([video : Videos, since : Nat])
      /\ Grown(metrics, time, seen)
      /\ Trying(attempt, metrics, seen, todo) /\ attempt.at <= time /\ attempt.at \in Nat
      /\ rates \in [Videos -> SUBSET Nat]
      /\ \A v \in Videos : (v \in DOMAIN cache <=> rates[v] # {}) /\ (rates[v] # {} => Ranged(rates[v], cache[v]))
  BY DEF VideosInv, Trying
\* What is left to show of a step of the collector.
<1>3. ASSUME time' \in Nat, seen' \in [Videos -> Seq(Nat)],
             DOMAIN published' \subseteq Videos, IsFiniteSet(DOMAIN published'),
             \A v \in DOMAIN published' : published'[v] \in Nat,
             todo' \in Seq([video : Videos, since : Nat]), Grown(metrics', time', seen'),
             Trying(attempt', metrics', seen', todo'), attempt'.at <= time',
             cache' = cache, rates' = rates
      PROVE  VideosInv'
  BY <1>2, <1>3 DEF VideosInv, Ranged, Grown, Trying, Views, V!Date, Line
<1>4. CASE UNCHANGED videos
  BY <1>2, <1>3, <1>4 DEF videos
<1>5. CASE V!PassTime
  <2>1. time' = time + 1 /\ UNCHANGED <<published, metrics, seen, todo, tries, attempt, cache, rates, fetches>>
    BY <1>5 DEF V!PassTime
  <2>2. Grown(metrics, time + 1, seen)
    <3>1. time + 1 \in Nat /\ time <= time + 1
      BY <1>2
    <3> QED
      BY <1>2, <3>1, GrownLater, LongerSame
  <2>3. attempt.at <= time + 1
    BY <1>2
  <2> QED
    BY <1>2, <1>3, <2>1, <2>2, <2>3
<1>6. ASSUME NEW v \in Videos, V!Watched(v) PROVE VideosInv'
  <2>1. PICK d \in 0 .. V!Date(time) : seen' = [seen EXCEPT ![v] = Append(@, d)]
    BY <1>6 DEF V!Watched
  <2>2. UNCHANGED <<time, published, metrics, todo, tries, attempt, cache, rates, fetches>>
    BY <1>6 DEF V!Watched
  <2>3. time <= time
    BY <1>2
  <2>4. d \in Nat
    BY <1>2, <2>3, DatesInOrder
  <2>5. seen' \in [Videos -> Seq(Nat)] /\ seen'[v] = Append(seen[v], d) /\ \A w \in Videos : w # v => seen'[w] = seen[w]
    BY <1>2, <2>1, <2>4
  <2>6. Longer(seen, seen')
    <3>1. seen[v] \in Seq(Nat) /\ DOMAIN seen[v] \subseteq DOMAIN Append(seen[v], d)
          /\ \A i \in DOMAIN seen[v] : Append(seen[v], d)[i] = seen[v][i]
      BY <1>2, <2>4
    <3> QED
      BY <2>5, <3>1 DEF Longer
  <2>7. Grown(metrics, time, seen') /\ Trying(attempt, metrics, seen', todo)
    BY <1>2, <2>3, <2>5, <2>6, GrownLater, TryingLater
  <2> QED
    BY <1>2, <1>3, <2>2, <2>5, <2>7
<1>7. ASSUME NEW v \in Videos, V!SaveVideo(v) PROVE VideosInv'
  <2>1. /\ published' = V!Over([w \in {v} |-> time], published)
        /\ UNCHANGED <<time, metrics, seen, todo, tries, attempt, cache, rates, fetches>>
    BY <1>7 DEF V!SaveVideo
  <2>2. published' = [w \in {v} \cup DOMAIN published |-> IF w \in {v} THEN time ELSE published[w]]
    BY <2>1 DEF V!Over
  <2>3. IsFiniteSet({v} \cup DOMAIN published)
    BY <1>2, FS_Singleton, FS_Union
  <2>4. /\ DOMAIN published' \subseteq Videos /\ IsFiniteSet(DOMAIN published')
        /\ \A w \in DOMAIN published' : published'[w] \in Nat
    BY <1>2, <2>2, <2>3
  <2> QED
    BY <1>2, <1>3, <2>1, <2>4
<1>8. CASE V!Collect
  <2>1. PICK q \in V!Listings : todo' = [i \in DOMAIN q |-> [video |-> q[i], since |-> published[q[i]]]]
    BY <1>8 DEF V!Collect
  <2>2. todo' \in Seq([video : Videos, since : Nat])
    BY <2>1, ListedVideos
  <2>3. todo = <<>> /\ UNCHANGED <<time, published, metrics, seen, tries, attempt, cache, rates, fetches>>
    BY <1>8 DEF V!Collect
  <2>4. Trying(attempt, metrics, seen, todo')
    BY <1>2, <2>3 DEF Trying
  <2> QED
    BY <1>2, <1>3, <2>2, <2>3, <2>4
\* Of a list that is not empty the rest is one, too.
<1>9. ASSUME todo # <<>> PROVE Head(todo) \in [video : Videos, since : Nat] /\ Tail(todo) \in Seq([video : Videos, since : Nat])
  BY <1>2, <1>9, HeadTail
<1>10. ASSUME todo # <<>>, V!NextVideo, UNCHANGED <<time, published, metrics, seen, cache, rates>> PROVE VideosInv'
  <2>1. Trying(attempt', metrics, seen, todo') /\ attempt'.at <= time
    BY <1>2, <1>10, NotTrying DEF V!NextVideo
  <2> QED
    BY <1>2, <1>3, <1>9, <1>10, <2>1 DEF V!NextVideo
<1>11. CASE V!Ask
  <2>1. todo # <<>> /\ UNCHANGED <<time, published, metrics, seen, cache, rates, fetches>>
    BY <1>11 DEF V!Ask
  <2>2. CASE V!NextVideo
    BY <1>10, <2>1, <2>2
  <2>3. CASE UNCHANGED todo /\ attempt' = [V!NoAttempt EXCEPT !.step = "asked", !.at = time]
    <3>1. attempt' = [step |-> "asked", at |-> time, views |-> 0, empty |-> FALSE]
      BY <2>3 DEF V!NoAttempt
    <3>2. Trying(attempt', metrics, seen, todo) /\ attempt'.at <= time
      BY <1>2, <2>1, <3>1 DEF Trying, Grown
    <3> QED
      BY <1>2, <1>3, <2>1, <2>3, <3>2
  <2> QED
    BY <1>11, <2>2, <2>3 DEF V!Ask
<1>12. CASE V!Fetch
  <2>1. attempt.step = "asked" /\ UNCHANGED <<time, published, metrics, seen, cache, rates, fetches>>
    BY <1>12 DEF V!Fetch
  <2>2. todo # <<>> /\ \A i \in 1 .. Len(metrics) : metrics[i].at <= attempt.at
    BY <1>2, <2>1 DEF Trying
  <2>3. Head(todo).video \in Videos /\ Head(todo).since \in Nat
    BY <1>9, <2>2
  <2> DEFINE k == V!Reported(Head(todo).video, Head(todo).since, attempt.at)
  <2>4. k = Views(seen, Head(todo).video, Head(todo).since, attempt.at)
    BY DEF V!Reported, Views, V!Cardinality, Cardinality
  <2>5. k \in Nat
    <3>1. attempt.at <= attempt.at
      BY <1>2
    <3> QED
      BY <1>2, <2>3, <2>4, <3>1, ViewsGrow, LongerSame
  <2> HIDE DEF k
  <2>6. CASE UNCHANGED todo /\ attempt' = [attempt EXCEPT !.step = "fetched", !.views = k]
    <3>1. attempt' = [step |-> "fetched", at |-> attempt.at, views |-> k, empty |-> attempt.empty]
          /\ attempt.empty \in BOOLEAN
      BY <1>2, <2>6 DEF Trying
    <3>2. ASSUME NEW i \in 1 .. Len(metrics), metrics[i].video = Head(todo).video, metrics[i].since = Head(todo).since
          PROVE  metrics[i].views <= k
      <4>1. metrics[i] \in Line /\ metrics[i].views <= Views(seen, metrics[i].video, metrics[i].since, metrics[i].at)
        BY <1>2 DEF Grown
      <4>2. metrics[i].at \in Nat /\ metrics[i].views \in Nat /\ metrics[i].at <= attempt.at
        BY <2>2, <4>1 DEF Line
      <4>3. /\ Views(seen, Head(todo).video, Head(todo).since, metrics[i].at) \in Nat
            /\ Views(seen, Head(todo).video, Head(todo).since, metrics[i].at) <= k
        BY <1>2, <2>3, <2>4, <4>2, ViewsGrow, LongerSame
      <4> QED
        BY <2>5, <3>2, <4>1, <4>2, <4>3
    <3>3. k <= k
      BY <2>5
    <3>4. Trying(attempt', metrics, seen, todo) /\ attempt'.at <= time
      BY <1>2, <2>2, <2>4, <2>5, <3>1, <3>2, <3>3 DEF Trying
    <3> QED
      BY <1>2, <1>3, <2>1, <2>6, <3>4
  <2>7. CASE UNCHANGED todo /\ attempt' = [attempt EXCEPT !.step = "fetched", !.empty = TRUE]
    <3>1. attempt' = [step |-> "fetched", at |-> attempt.at, views |-> attempt.views, empty |-> TRUE]
      BY <1>2, <2>7 DEF Trying
    <3>2. attempt.views = 0 /\ Views(seen, Head(todo).video, Head(todo).since, attempt.at) \in Nat
      BY <1>2, <2>1, <2>4, <2>5 DEF Trying
    <3>3. Trying(attempt', metrics, seen, todo) /\ attempt'.at <= time
      BY <1>2, <2>1, <2>2, <3>1, <3>2 DEF Trying
    <3> QED
      BY <1>2, <1>3, <2>1, <2>7, <3>3
  <2>8. CASE UNCHANGED todo /\ attempt' = V!NoAttempt
    <3>1. Trying(attempt', metrics, seen, todo) /\ attempt'.at <= time
      BY <1>2, <2>8, NotTrying
    <3> QED
      BY <1>2, <1>3, <2>1, <2>8, <3>1
  <2>9. CASE V!NextVideo
    BY <1>10, <2>1, <2>2, <2>9
  <2> QED
    BY <1>12, <2>6, <2>7, <2>8, <2>9 DEF V!Fetch, k
<1>13. CASE V!Keep
  <2>1. attempt.step = "fetched" /\ V!NextVideo /\ UNCHANGED <<time, published, seen, cache, rates, fetches>>
    BY <1>13 DEF V!Keep
  <2>2. todo # <<>>
    BY <1>2, <2>1 DEF Trying
  <2>3. Grown(metrics', time, seen)
    BY <1>2, <1>13, <2>1, SavedGrown DEF V!Keep
  <2>4. Trying(attempt', metrics', seen, todo') /\ attempt'.at <= time
    BY <1>2, <2>1, NotTrying DEF V!NextVideo
  <2> QED
    BY <1>2, <1>3, <1>9, <2>1, <2>2, <2>3, <2>4 DEF V!NextVideo
<1> QED
  BY <1>1, <1>4, <1>5, <1>6, <1>7, <1>8, <1>11, <1>12, <1>13, StatsRanged DEF V!CollectorNext, V!AdapterNext

\* A range, as the model finds it.
LEMMA RangeIs ==
    ASSUME NEW S \in SUBSET Nat, NEW shown, Ranged(S, shown)
    PROVE  shown \in V!Min(S) .. V!Max(S) /\ shown \in R!Min(S) .. R!Max(S)
<1>1. PICK lo \in S, hi \in S : shown \in lo .. hi /\ \A x \in S : lo <= x /\ x <= hi
  BY DEF Ranged
<1>2. lo = CHOOSE x \in S : \A y \in S : x <= y
  <2>1. \A x \in S : (\A y \in S : x <= y) <=> x = lo
    BY <1>1
  <2> QED
    BY <2>1
<1>3. hi = CHOOSE x \in S : \A y \in S : x >= y
  <2>1. \A x \in S : (\A y \in S : x >= y) <=> x = hi
    BY <1>1
  <2> QED
    BY <2>1
<1> QED
  BY <1>1, <1>2, <1>3 DEF V!Min, V!Max, R!Min, R!Max

LEMMA VideosTell == VideosInv => V!VideosTrue
<1> SUFFICES ASSUME VideosInv PROVE V!VideosTrue
  OBVIOUS
<1>1. metrics \in Seq(Line) /\ DOMAIN metrics = 1 .. Len(metrics) /\ Len(metrics) \in Nat /\ seen \in [Videos -> Seq(Nat)]
  BY DEF VideosInv, Grown
<1>2. \A i \in 1 .. Len(metrics) : metrics[i].at \in Nat /\ metrics[i].views \in Nat /\ metrics[i].since \in Nat
  <2>1. \A i \in 1 .. Len(metrics) : metrics[i] \in Line
    BY <1>1
  <2> QED
    BY <2>1 DEF Line
<1>3. /\ \A i \in 1 .. Len(metrics) : metrics[i].views <= Views(seen, metrics[i].video, metrics[i].since, metrics[i].at)
      /\ \A i, j \in 1 .. Len(metrics) : i < j /\ metrics[i].video = metrics[j].video =>
            /\ metrics[i].at < metrics[j].at
            /\ metrics[i].since = metrics[j].since => metrics[j].empty \/ metrics[i].views <= metrics[j].views
  BY DEF VideosInv, Grown
<1>4. ASSUME NEW v \in Videos, NEW i \in V!Latest(v), NEW j \in V!Rows(v)
      PROVE  /\ i \in 1 .. Len(metrics) /\ j \in 1 .. Len(metrics) /\ j <= i
  <2>1. /\ i \in 1 .. Len(metrics) /\ j \in 1 .. Len(metrics)
        /\ metrics[i].video = v /\ metrics[j].video = v /\ metrics[j].at <= metrics[i].at
    BY <1>1 DEF V!Latest, V!Rows
  <2> QED
    BY <1>2, <1>3, <2>1
<1>7. ASSUME NEW v \in Videos, NEW i \in V!Rows(v)
      PROVE  /\ metrics[i].views <= Len(seen[v])
             /\ \A j \in V!Rows(v) : metrics[i].since = metrics[j].since /\ metrics[i].at <= metrics[j].at =>
                   metrics[j].empty \/ metrics[i].views <= metrics[j].views
  <2>1. i \in 1 .. Len(metrics) /\ metrics[i].video = v
    BY <1>1 DEF V!Rows
  <2>2. metrics[i].at <= metrics[i].at
    BY <1>2, <2>1
  <2>3. /\ Views(seen, v, metrics[i].since, metrics[i].at) \in Nat
        /\ Views(seen, v, metrics[i].since, metrics[i].at) <= Len(seen[v])
    BY <1>1, <1>2, <2>1, <2>2, ViewsGrow, LongerSame
  <2>4. metrics[i].views <= Len(seen[v])
    <3>1. Len(seen[v]) \in Nat
      BY <1>1
    <3> QED
      BY <1>2, <1>3, <2>1, <2>3, <3>1
  <2>5. ASSUME NEW j \in V!Rows(v), metrics[i].since = metrics[j].since, metrics[i].at <= metrics[j].at
        PROVE  metrics[j].empty \/ metrics[i].views <= metrics[j].views
    <3>1. j \in 1 .. Len(metrics) /\ metrics[j].video = v
      BY <1>1 DEF V!Rows
    <3>2. CASE i = j
      BY <1>2, <2>1, <3>2
    <3>3. CASE i < j
      BY <1>3, <2>1, <2>5, <3>1, <3>3
    <3>4. CASE j < i
      BY <1>2, <1>3, <2>1, <2>5, <3>1, <3>4
    <3> QED
      BY <1>1, <2>1, <3>1, <3>2, <3>3, <3>4
  <2> QED
    BY <2>4, <2>5
<1>5. ASSUME NEW v \in Videos, NEW X PROVE V!Cardinality(V!Latest(v) \cap X) <= 1
  <2>1. V!Cardinality(V!Latest(v) \cap X) = Cardinality(V!Latest(v) \cap X)
    BY DEF V!Cardinality, Cardinality
  <2>2. CASE V!Latest(v) \cap X = {}
    BY <2>1, <2>2, FS_EmptySet
  <2>3. CASE V!Latest(v) \cap X # {}
    <3>1. PICK i : i \in V!Latest(v) \cap X
      BY <2>3
    <3>2. \A j \in V!Latest(v) : j \in V!Rows(v) /\ j \in 1 .. Len(metrics)
      BY <1>1 DEF V!Latest, V!Rows
    <3>3. \A j \in V!Latest(v) : j <= i /\ i <= j
      BY <1>4, <3>1, <3>2
    <3>4. V!Latest(v) \cap X = {i}
      BY <3>1, <3>2, <3>3
    <3>5. Cardinality({i}) = 1
      BY FS_Singleton
    <3> QED
      BY <2>1, <3>4, <3>5
  <2> QED
    BY <2>2, <2>3
<1>6. ASSUME NEW v \in Videos, rates[v] # {} PROVE V!Shown(v) \in V!Min(rates[v]) .. V!Max(rates[v])
  <2>1. v \in DOMAIN cache /\ Ranged(rates[v], cache[v]) /\ rates[v] \in SUBSET Nat
    BY <1>6 DEF VideosInv
  <2>2. cache[v] \in V!Min(rates[v]) .. V!Max(rates[v])
    BY <2>1, RangeIs
  <2> QED
    BY <2>1, <2>2 DEF V!Shown
<1> QED
  BY <1>5, <1>6, <1>7 DEF V!VideosTrue

(***************************************************************************)
(* Runs                                                                    *)
(***************************************************************************)

Result == [status : Statuses, uploads : BOOLEAN]
Tallies == [videos : Nat, errors : Nat, quota : Nat]
Exports == [runs : [Statuses -> Int], ctr : Nat, videos : Nat, errors : Nat, quota : Nat]

\* q holds the statuses of the last results of all.
LastOf(q, all) ==
    /\ q \in Seq(Result) /\ all \in Seq(Statuses)
    /\ Len(q) = IF Len(all) < WindowSize THEN Len(all) ELSE WindowSize
    /\ \A i \in 1 .. Len(q) : q[i].status = all[Len(all) - Len(q) + i]

Sampled(t, q) ==
    /\ t \in [value : Nat, n : Nat] /\ q \in Seq(Nat) /\ t.n = Len(q)
    /\ IF q = <<>> THEN t.value = 0 ELSE Ranged({q[i] : i \in 1 .. Len(q)}, t.value)

\* Trackers saved together agree on alpha, and those in use agree with the whole.
OneAlpha(mt, sv) ==
    /\ \A m \in DOMAIN mt.trackers : mt.trackers[m].alpha = mt.alpha
    /\ \A m, k \in DOMAIN sv : sv[m].alpha = sv[k].alpha

RunsInv ==
    /\ LastOf(window, runs)
    /\ Sampled(ctr, samples)
    /\ counts \in Tallies /\ exported \in Exports
    /\ counts.videos = ctr.n /\ counts.videos <= exported.videos
    /\ counts.quota \in {0, exported.quota}
    /\ OneAlpha(multi, saved)

LEMMA WindowIs == WindowSize \in Nat \ {0}
BY LearningAssumption DEF R!MetricsAssumption

LEMMA AppendIs ==
    ASSUME NEW S, NEW q \in Seq(S), NEW x \in S
    PROVE  /\ Append(q, x) \in Seq(S) /\ Append(q, x) # <<>> /\ Len(Append(q, x)) = Len(q) + 1 /\ Len(q) \in Nat
           /\ Append(q, x)[Len(q) + 1] = x
           /\ \A i \in 1 .. Len(q) : Append(q, x)[i] = q[i]
OBVIOUS

LEMMA TailIs ==
    ASSUME NEW S, NEW q \in Seq(S), Len(q) > 0
    PROVE  /\ Tail(q) \in Seq(S) /\ Len(Tail(q)) = Len(q) - 1
           /\ \A i \in 1 .. Len(q) - 1 : Tail(q)[i] = q[i + 1]
OBVIOUS

LEMMA PushLast ==
    ASSUME NEW q, NEW all, LastOf(q, all), NEW st \in Statuses, NEW x \in Result, x.status = st
    PROVE  LastOf(R!Push(q, x), Append(all, st))
<1> DEFINE p == R!Push(q, x)
           more == Append(all, st)
           k == Len(q)
           l == Len(all)
<1>1. /\ q \in Seq(Result) /\ all \in Seq(Statuses) /\ Len(q) = k /\ Len(all) = l /\ k \in Nat /\ l \in Nat
      /\ k = IF l < WindowSize THEN l ELSE WindowSize
      /\ \A i \in 1 .. k : q[i].status = all[l - k + i]
  BY DEF LastOf
<1> HIDE DEF k, l
<1>2. /\ more \in Seq(Statuses) /\ Len(more) = l + 1 /\ more[l + 1] = st
      /\ \A i \in 1 .. l : more[i] = all[i]
  BY <1>1, AppendIs
<1> HIDE DEF more
<1>3. CASE k < WindowSize
  <2>1. p = Append(q, x)
    BY <1>1, <1>3 DEF R!Push
  <2> HIDE DEF p
  <2>2. p \in Seq(Result) /\ Len(p) = k + 1 /\ p[k + 1] = x /\ \A i \in 1 .. k : p[i] = q[i]
    BY <1>1, <2>1, AppendIs
  <2>3. k = l /\ Len(p) = IF l + 1 < WindowSize THEN l + 1 ELSE WindowSize
    BY <1>1, <1>3, <2>2, WindowIs
  <2>4. ASSUME NEW i \in 1 .. k + 1 PROVE p[i].status = more[i]
    <3>1. CASE i = k + 1
      BY <1>2, <2>2, <2>3, <3>1
    <3>2. CASE i # k + 1
      <4>1. i \in 1 .. k /\ i \in 1 .. l /\ l - k + i = i
        BY <1>1, <2>3, <3>2
      <4> QED
        BY <1>1, <1>2, <2>2, <4>1
    <3> QED
      BY <3>1, <3>2
  <2>5. \A i \in 1 .. Len(p) : p[i].status = more[Len(more) - Len(p) + i]
    <3>1. Len(more) = Len(p) /\ Len(p) = k + 1
      BY <1>2, <2>2, <2>3
    <3>2. \A i \in 1 .. k + 1 : Len(more) - Len(p) + i = i
      BY <1>1, <3>1
    <3> QED
      BY <2>4, <3>1, <3>2
  <2>6. LastOf(p, more)
    BY <1>2, <2>2, <2>3, <2>5 DEF LastOf
  <2> QED
    BY <2>6 DEF p, more
<1>4. CASE ~ k < WindowSize
  <2>1. p = Append(Tail(q), x) /\ k = WindowSize /\ k > 0 /\ k <= l
    BY <1>1, <1>4, WindowIs DEF R!Push
  <2> HIDE DEF p
  <2>2. p \in Seq(Result) /\ Len(p) = k /\ p[k] = x /\ \A i \in 1 .. k - 1 : p[i] = q[i + 1]
    <3>1. Tail(q) \in Seq(Result) /\ Len(Tail(q)) = k - 1 /\ \A i \in 1 .. k - 1 : Tail(q)[i] = q[i + 1]
      BY <1>1, <2>1, TailIs
    <3>2. /\ p \in Seq(Result) /\ Len(p) = Len(Tail(q)) + 1 /\ p[Len(Tail(q)) + 1] = x
          /\ \A i \in 1 .. Len(Tail(q)) : p[i] = Tail(q)[i]
      BY <2>1, <3>1, AppendIs
    <3>3. k - 1 + 1 = k
      BY <1>1
    <3> QED
      BY <3>1, <3>2, <3>3
  <2>3. Len(p) = IF l + 1 < WindowSize THEN l + 1 ELSE WindowSize
    BY <1>1, <2>1, <2>2
  <2>4. ASSUME NEW i \in 1 .. k PROVE p[i].status = more[(l + 1) - k + i]
    <3>1. CASE i = k
      <4>1. (l + 1) - k + i = l + 1
        BY <1>1, <3>1
      <4> QED
        BY <1>2, <2>2, <3>1, <4>1
    <3>2. CASE i # k
      <4>1. i \in 1 .. k - 1 /\ i + 1 \in 1 .. k /\ l - k + (i + 1) \in 1 .. l
        BY <1>1, <2>1, <3>2
      <4>2. p[i].status = all[l - k + (i + 1)] /\ more[l - k + (i + 1)] = all[l - k + (i + 1)]
        BY <1>1, <1>2, <2>2, <4>1
      <4>3. l - k + (i + 1) = (l + 1) - k + i
        <5>1. i \in Int /\ k \in Int /\ l \in Int
          BY <1>1, <4>1
        <5> QED
          BY <5>1
      <4> QED
        BY <4>2, <4>3
    <3> QED
      BY <3>1, <3>2
  <2>5. \A i \in 1 .. Len(p) : p[i].status = more[Len(more) - Len(p) + i]
    <3>1. Len(more) = l + 1 /\ Len(p) = k
      BY <1>2, <2>2
    <3>2. \A i \in 1 .. k : p[i].status = more[(l + 1) - k + i]
      BY <2>4
    <3> QED
      BY <3>1, <3>2
  <2>6. LastOf(p, more)
    BY <1>2, <2>2, <2>3, <2>5 DEF LastOf
  <2> QED
    BY <2>6 DEF p, more
<1> QED
  BY <1>3, <1>4

LEMMA SmoothedSampled ==
    ASSUME NEW t, NEW q, Sampled(t, q), NEW x \in Nat
    PROVE  Sampled(R!Smoothed(t, x, RunAlpha), Append(q, x))
<1> DEFINE y == IF t.n = 0 THEN x ELSE (RunAlpha * x + (100 - RunAlpha) * t.value) \div 100
           p == Append(q, x)
           S == {q[i] : i \in 1 .. Len(q)}
           U == {p[i] : i \in 1 .. Len(p)}
<1>1. t.value \in Nat /\ t.n \in Nat /\ q \in Seq(Nat) /\ t.n = Len(q)
  BY DEF Sampled
<1>2. q # <<>> => Ranged(S, t.value) /\ S \in SUBSET Nat
  BY DEF Sampled
<1>3. R!Smoothed(t, x, RunAlpha) = [value |-> y, n |-> t.n + 1]
  BY DEF R!Smoothed
<1>4. p \in Seq(Nat) /\ Len(p) = Len(q) + 1 /\ p # <<>> /\ p[Len(q) + 1] = x /\ \A i \in 1 .. Len(q) : p[i] = q[i]
  BY <1>1, AppendIs
<1> HIDE DEF p
<1>5. U = S \cup {x}
  <2>1. 1 .. Len(p) = 1 .. Len(q) \cup {Len(q) + 1}
    BY <1>1, <1>4
  <2>2. ASSUME NEW z PROVE z \in U <=> z \in S \cup {x}
    <3>1. z \in U <=> \E i \in 1 .. Len(q) \cup {Len(q) + 1} : z = p[i]
      BY <2>1
    <3> QED
      BY <1>4, <3>1
  <2> HIDE DEF U, S
  <2> QED
    BY <2>2
<1> HIDE DEF S, U
<1>6. Ranged(U, y) /\ y \in Nat
  <2>1. CASE q = <<>>
    <3>1. y = x
      BY <1>1, <2>1
    <3>2. S = {}
      BY <2>1 DEF S
    <3> HIDE DEF y
    <3>3. U = {x}
      BY <1>5, <3>2
    <3> QED
      BY <3>1, <3>3 DEF Ranged
  <2>2. CASE q # <<>>
    <3>1. y = (RunAlpha * x + (100 - RunAlpha) * t.value) \div 100
      BY <1>1, <2>2
    <3>2. PICK lo \in S, hi \in S : t.value \in lo .. hi /\ \A z \in S : lo <= z /\ z <= hi
      BY <1>2, <2>2 DEF Ranged
    <3>3. lo \in Nat /\ hi \in Nat /\ S \subseteq Nat
      BY <1>2, <2>2, <3>2
    <3> DEFINE l == IF x < lo THEN x ELSE lo
               h == IF x > hi THEN x ELSE hi
    <3>4. l \in Nat /\ h \in Nat /\ x \in l .. h /\ t.value \in l .. h
      BY <1>1, <3>2, <3>3
    <3>5. l \in U /\ h \in U /\ \A z \in U : l <= z /\ z <= h
      BY <1>5, <3>2, <3>3
    <3> HIDE DEF l, h
    <3>6. (RunAlpha * x + (100 - RunAlpha) * t.value) \div 100 \in l .. h
      <4>1. RunAlpha \in 0 .. 100 /\ 100 \in Nat \ {0}
        BY LearningAssumption DEF R!MetricsAssumption
      <4> QED
        BY <3>4, <4>1, MeanBetween
    <3> HIDE DEF y
    <3>7. y \in l .. h
      BY <3>1, <3>6
    <3>8. y \in Nat
      BY <3>4, <3>7
    <3> QED
      BY <3>5, <3>7, <3>8 DEF Ranged
  <2> QED
    BY <2>1, <2>2
<1>7. Sampled([value |-> y, n |-> t.n + 1], p)
  <2> HIDE DEF y
  <2>1. [value |-> y, n |-> t.n + 1] \in [value : Nat, n : Nat]
    BY <1>1, <1>6
  <2>2. Ranged({p[i] : i \in 1 .. Len(p)}, y)
    BY <1>6 DEF U
  <2> QED
    BY <1>1, <1>4, <2>1, <2>2 DEF Sampled
<1> QED
  BY <1>3, <1>7 DEF p

LEMMA RunsInit == LInit => RunsInv
<1> SUFFICES ASSUME LInit PROVE RunsInv
  OBVIOUS
<1>1. /\ window = <<>> /\ ctr = [value |-> 0, n |-> 0] /\ samples = <<>> /\ runs = <<>> /\ saved = <<>>
      /\ multi = [alpha |-> RunAlpha, trackers |-> <<>>]
      /\ counts = [videos |-> 0, errors |-> 0, quota |-> 0]
      /\ exported = [runs |-> [st \in Statuses |-> 0], ctr |-> 0, videos |-> 0, errors |-> 0, quota |-> 0]
  BY DEF LInit, R!RMInit, R!NoSample, R!Zeros, R!NoExport
<1>2. LastOf(<<>>, <<>>)
  BY WindowIs DEF LastOf
<1>3. Sampled([value |-> 0, n |-> 0], <<>>)
  BY DEF Sampled
<1>4. counts \in Tallies /\ exported \in Exports /\ counts.videos = 0 /\ exported.videos = 0 /\ counts.quota = 0
  BY <1>1 DEF Tallies, Exports
<1>5. OneAlpha(multi, saved)
  BY <1>1 DEF OneAlpha
<1> QED
  BY <1>1, <1>2, <1>3, <1>4, <1>5 DEF RunsInv

\* What the exporter does to a counter or a gauge.
LEMMA ExportsAre ==
    ASSUME NEW e \in Exports
    PROVE  /\ \A st \in Statuses : R!ExportRun(e, st) \in Exports /\ R!ExportRun(e, st).videos = e.videos
                                   /\ R!ExportRun(e, st).quota = e.quota
           /\ R!ExportVideo(e) \in Exports /\ R!ExportVideo(e).videos = e.videos + 1 /\ R!ExportVideo(e).quota = e.quota
           /\ R!ExportError(e) \in Exports /\ R!ExportError(e).videos = e.videos /\ R!ExportError(e).quota = e.quota
           /\ \A x \in Nat : R!ExportCtr(e, x) \in Exports /\ R!ExportCtr(e, x).videos = e.videos
                             /\ R!ExportCtr(e, x).quota = e.quota
           /\ \A x \in Nat : R!ExportQuota(e, x) \in Exports /\ R!ExportQuota(e, x).videos = e.videos
                             /\ R!ExportQuota(e, x).quota = x
<1>1. /\ e = [runs |-> e.runs, ctr |-> e.ctr, videos |-> e.videos, errors |-> e.errors, quota |-> e.quota]
      /\ e.runs \in [Statuses -> Int] /\ e.ctr \in Nat /\ e.videos \in Nat /\ e.errors \in Nat /\ e.quota \in Nat
  BY DEF Exports
<1>2. ASSUME NEW st \in Statuses
      PROVE  /\ R!ExportRun(e, st) \in Exports /\ R!ExportRun(e, st).videos = e.videos
             /\ R!ExportRun(e, st).quota = e.quota
  <2> DEFINE r == [e.runs EXCEPT ![st] = e.runs[st] + 1]
  <2>1. r \in [Statuses -> Int]
    BY <1>1
  <2>2. R!ExportRun(e, st) = [e EXCEPT !.runs = r]
    BY DEF R!ExportRun
  <2> HIDE DEF r
  <2>3. R!ExportRun(e, st) = [runs |-> r, ctr |-> e.ctr, videos |-> e.videos, errors |-> e.errors, quota |-> e.quota]
    BY <1>1, <2>2
  <2> QED
    BY <1>1, <2>1, <2>3 DEF Exports
<1>3. R!ExportVideo(e) = [runs |-> e.runs, ctr |-> e.ctr, videos |-> e.videos + 1, errors |-> e.errors, quota |-> e.quota]
  BY <1>1 DEF R!ExportVideo
<1>4. R!ExportError(e) = [runs |-> e.runs, ctr |-> e.ctr, videos |-> e.videos, errors |-> e.errors + 1, quota |-> e.quota]
  BY <1>1 DEF R!ExportError
<1>5. \A x : R!ExportCtr(e, x) = [runs |-> e.runs, ctr |-> x, videos |-> e.videos, errors |-> e.errors, quota |-> e.quota]
  BY <1>1 DEF R!ExportCtr
<1>6. \A x : R!ExportQuota(e, x) = [runs |-> e.runs, ctr |-> e.ctr, videos |-> e.videos, errors |-> e.errors, quota |-> x]
  BY <1>1 DEF R!ExportQuota
<1> QED
  BY <1>1, <1>2, <1>3, <1>4, <1>5, <1>6 DEF Exports

LEMMA RunsKept == ASSUME part = "runs", RunsInv, [LNext]_lvars PROVE RunsInv'
<1>1. R!RMNext \/ UNCHANGED aggregator
  BY DEF LNext, lvars
<1>2. /\ LastOf(window, runs) /\ Sampled(ctr, samples)
      /\ counts \in Tallies /\ exported \in Exports
      /\ counts.videos = ctr.n /\ counts.videos <= exported.videos
      /\ counts.quota \in {0, exported.quota}
      /\ OneAlpha(multi, saved)
  BY DEF RunsInv
<1>3. /\ counts = [videos |-> counts.videos, errors |-> counts.errors, quota |-> counts.quota]
      /\ counts.videos \in Nat /\ counts.errors \in Nat /\ counts.quota \in Nat
      /\ exported.videos \in Nat /\ exported.quota \in Nat
  BY <1>2 DEF Tallies, Exports
\* What is left to show of a step.
<1>4. ASSUME LastOf(window', runs'), Sampled(ctr', samples'), counts' \in Tallies, exported' \in Exports,
             counts'.videos = ctr'.n, counts'.videos <= exported'.videos,
             counts'.quota \in {0, exported'.quota},
             OneAlpha(multi', saved')
      PROVE  RunsInv'
  BY <1>4 DEF RunsInv, LastOf, Sampled, Ranged, Tallies, Exports, Result, OneAlpha
<1>5. CASE UNCHANGED aggregator
  BY <1>2, <1>4, <1>5 DEF aggregator
<1>6. ASSUME NEW st \in Statuses, NEW up \in BOOLEAN, R!RecordRun(st, up) PROVE RunsInv'
  <2>1. /\ window' = R!Push(window, [status |-> st, uploads |-> up])
        /\ exported' = IF up THEN R!ExportVideo(R!ExportRun(exported, st)) ELSE R!ExportRun(exported, st)
        /\ runs' = Append(runs, st)
        /\ UNCHANGED <<ctr, counts, multi, saved, samples>>
    BY <1>6 DEF R!RecordRun
  <2>2. LastOf(window', runs')
    <3>1. [status |-> st, uploads |-> up] \in Result /\ [status |-> st, uploads |-> up].status = st
      BY DEF Result
    <3> QED
      BY <1>2, <2>1, <3>1, PushLast
  <2>3. exported' \in Exports /\ exported'.videos >= exported.videos /\ exported'.quota = exported.quota
    <3> DEFINE e == R!ExportRun(exported, st)
    <3>1. e \in Exports /\ e.videos = exported.videos /\ e.quota = exported.quota
      BY <1>2, ExportsAre
    <3>2. exported' = IF up THEN R!ExportVideo(e) ELSE e
      BY <2>1
    <3> HIDE DEF e
    <3>3. R!ExportVideo(e) \in Exports /\ R!ExportVideo(e).videos = e.videos + 1 /\ R!ExportVideo(e).quota = e.quota
      BY <3>1, ExportsAre
    <3> QED
      BY <1>3, <3>1, <3>2, <3>3
  <2>4. exported'.videos \in Nat
    BY <2>3 DEF Exports
  <2>5. counts'.videos <= exported'.videos
    BY <1>2, <1>3, <2>1, <2>3, <2>4
  <2> QED
    BY <1>2, <1>4, <2>1, <2>2, <2>3, <2>5
<1>7. ASSUME NEW x \in Values, R!RecordVideo(x, x) PROVE RunsInv'
  <2>1. /\ counts' = [counts EXCEPT !.videos = @ + 1]
        /\ ctr' = R!Smoothed(ctr, x, RunAlpha)
        /\ exported' = R!ExportCtr(R!ExportVideo(exported), x)
        /\ samples' = Append(samples, x)
        /\ UNCHANGED <<window, multi, saved, runs>>
    BY <1>7 DEF R!RecordVideo
  <2>2. x \in Nat
    BY LearningAssumption DEF R!MetricsAssumption
  <2>3. Sampled(ctr', samples')
    BY <1>2, <2>1, <2>2, SmoothedSampled
  <2>4. ctr'.n = ctr.n + 1
    BY <2>1 DEF R!Smoothed
  <2>5. counts' = [videos |-> counts.videos + 1, errors |-> counts.errors, quota |-> counts.quota]
    BY <1>3, <2>1
  <2>6. exported' \in Exports /\ exported'.videos = exported.videos + 1 /\ exported'.quota = exported.quota
    <3> DEFINE e == R!ExportVideo(exported)
    <3>1. e \in Exports /\ e.videos = exported.videos + 1 /\ e.quota = exported.quota
      BY <1>2, ExportsAre
    <3>2. exported' = R!ExportCtr(e, x)
      BY <2>1
    <3> HIDE DEF e
    <3> QED
      BY <2>2, <3>1, <3>2, ExportsAre
  <2>7. counts' \in Tallies /\ counts'.videos = counts.videos + 1 /\ counts'.quota = counts.quota
    BY <1>3, <2>5 DEF Tallies
  <2>8. counts'.videos <= exported'.videos
    BY <1>2, <1>3, <2>6, <2>7
  <2> QED
    BY <1>2, <1>4, <2>1, <2>3, <2>4, <2>6, <2>7, <2>8
<1>8. CASE R!RecordError
  <2>1. /\ counts' = [counts EXCEPT !.errors = @ + 1]
        /\ exported' = R!ExportError(exported)
        /\ UNCHANGED <<window, ctr, multi, saved, samples, runs>>
    BY <1>8 DEF R!RecordError
  <2>2. counts' = [videos |-> counts.videos, errors |-> counts.errors + 1, quota |-> counts.quota]
    BY <1>3, <2>1
  <2>3. counts' \in Tallies /\ counts'.videos = counts.videos /\ counts'.quota = counts.quota
    BY <1>3, <2>2 DEF Tallies
  <2>4. exported' \in Exports /\ exported'.videos = exported.videos /\ exported'.quota = exported.quota
    BY <1>2, <2>1, ExportsAre
  <2> QED
    BY <1>2, <1>4, <2>1, <2>3, <2>4
<1>9. CASE R!RecordQuota(1)
  <2>1. /\ counts' = [counts EXCEPT !.quota = @ + 1]
        /\ exported' = R!ExportQuota(exported, counts'.quota)
        /\ UNCHANGED <<window, ctr, multi, saved, samples, runs>>
    BY <1>9 DEF R!RecordQuota
  <2>2. counts' = [videos |-> counts.videos, errors |-> counts.errors, quota |-> counts.quota + 1]
    BY <1>3, <2>1
  <2>3. counts' \in Tallies /\ counts'.videos = counts.videos /\ counts'.quota \in Nat
    BY <1>3, <2>2 DEF Tallies
  <2>4. exported' \in Exports /\ exported'.videos = exported.videos /\ exported'.quota = counts'.quota
    BY <1>2, <2>1, <2>3, ExportsAre
  <2> QED
    BY <1>2, <1>4, <2>1, <2>3, <2>4
<1>10. CASE R!ResetMetrics
  <2>1. /\ window' = <<>> /\ ctr' = [value |-> 0, n |-> 0] /\ counts' = [videos |-> 0, errors |-> 0, quota |-> 0]
        /\ samples' = <<>> /\ runs' = <<>>
        /\ UNCHANGED <<exported, multi, saved>>
    BY <1>10 DEF R!ResetMetrics, R!NoSample, R!Zeros
  <2>2. LastOf(<<>>, <<>>)
    BY WindowIs DEF LastOf
  <2>3. Sampled([value |-> 0, n |-> 0], <<>>)
    BY DEF Sampled
  <2>4. counts' \in Tallies /\ counts'.videos = 0 /\ counts'.quota = 0 /\ ctr'.n = 0
    BY <2>1 DEF Tallies
  <2> QED
    BY <1>2, <1>3, <1>4, <2>1, <2>2, <2>3, <2>4
<1>11. CASE R!Save
  <2>1. saved' = multi.trackers /\ multi' = multi /\ UNCHANGED <<window, ctr, counts, exported, samples, runs>>
    BY <1>11 DEF R!Save, R!aggregator
  <2>2. OneAlpha(multi, multi.trackers)
    BY <1>2 DEF OneAlpha
  <2> QED
    BY <1>2, <1>4, <2>1, <2>2
<1>12. CASE R!Load
  <2>1. UNCHANGED <<window, ctr, counts, exported, saved, samples, runs>>
    BY <1>12 DEF R!Load, R!aggregator
  <2>2. OneAlpha(multi', saved)
    <3>1. CASE multi' = [alpha |-> RunDefault, trackers |-> <<>>]
      BY <1>2, <3>1 DEF OneAlpha
    <3>2. ASSUME NEW m \in DOMAIN saved, multi' = [alpha |-> saved[m].alpha, trackers |-> saved]
          PROVE  OneAlpha(multi', saved)
      BY <1>2, <3>2 DEF OneAlpha
    <3> QED
      BY <1>12, <3>1, <3>2 DEF R!Load
  <2> QED
    BY <1>2, <1>4, <2>1, <2>2
<1>13. ASSUME NEW m \in Names, NEW x \in Values, R!Track(m, x) PROVE RunsInv'
  <2> DEFINE t == IF m \in DOMAIN multi.trackers THEN multi.trackers[m]
                  ELSE [value |-> 0, n |-> 0, alpha |-> multi.alpha]
             y == R!Tracked(t, x)
  <2>1. /\ multi' = [multi EXCEPT !.trackers = R!Over([k \in {m} |-> y], multi.trackers)]
        /\ UNCHANGED <<window, ctr, counts, exported, saved, samples, runs>>
    BY <1>13 DEF R!Track, R!aggregator
  <2>2. t.alpha = multi.alpha
    BY <1>2 DEF OneAlpha
  <2>3. y.alpha = multi.alpha
    BY <2>2 DEF R!Tracked
  <2> HIDE DEF y
  <2>4. R!Over([k \in {m} |-> y], multi.trackers)
           = [k \in {m} \cup DOMAIN multi.trackers |-> IF k \in {m} THEN y ELSE multi.trackers[k]]
    BY DEF R!Over
  <2>5. OneAlpha(multi', saved)
    <3> DEFINE o == R!Over([k \in {m} |-> y], multi.trackers)
    <3>1. \A k \in DOMAIN o : o[k].alpha = multi.alpha
      BY <1>2, <2>3, <2>4 DEF OneAlpha
    <3> HIDE DEF o
    <3>2. multi'.trackers = o /\ multi'.alpha = multi.alpha
      BY <1>2, <2>1 DEF o
    <3> QED
      BY <1>2, <3>1, <3>2 DEF OneAlpha
  <2> QED
    BY <1>2, <1>4, <2>1, <2>5
<1> QED
  BY <1>1, <1>5, <1>6, <1>7, <1>8, <1>9, <1>10, <1>11, <1>12, <1>13 DEF R!RMNext

\* Results that are counted apart are no more than there are.
LEMMA StatsAddUp ==
    ASSUME RunsInv PROVE R!Stats.ok + R!Stats.error + R!Stats.dry <= R!Stats.total
<1> DEFINE k == Len(window)
           Among(S) == {i \in 1 .. k : window[i].status \in S}
           a == Among({"ok", "published", "success"})
           b == Among({"error"})
           c == Among({"dry_run"})
<1>1. k \in Nat /\ DOMAIN window = 1 .. k
  BY DEF RunsInv, LastOf
<1>2. \A S : R!Cardinality(S) = Cardinality(S)
  BY DEF R!Cardinality, Cardinality
<1>3. /\ R!Stats.ok = Cardinality(a) /\ R!Stats.error = Cardinality(b) /\ R!Stats.dry = Cardinality(c)
      /\ R!Stats.total = k
  BY <1>1, <1>2 DEF R!Stats, R!Share, R!Successes
<1>4. a \cap b = {} /\ (a \cup b) \cap c = {} /\ (a \cup b) \cup c \subseteq 1 .. k
  OBVIOUS
<1>5. IsFiniteSet(1 .. k) /\ Cardinality(1 .. k) = k
  <2> HIDE DEF k
  <2>1. IsFiniteSet(1 .. k) /\ Cardinality(1 .. k) = IF 1 > k THEN 0 ELSE k - 1 + 1
    BY <1>1, FS_Interval
  <2> QED
    BY <1>1, <2>1
<1>6. IsFiniteSet(a) /\ IsFiniteSet(b) /\ IsFiniteSet(c)
  <2>1. a \in SUBSET (1 .. k) /\ b \in SUBSET (1 .. k) /\ c \in SUBSET (1 .. k)
    OBVIOUS
  <2> HIDE DEF a, b, c, k
  <2> QED
    BY <1>5, <2>1, FS_Subset
<1> HIDE DEF a, b, c, k
<1>7. Cardinality(a) \in Nat /\ Cardinality(b) \in Nat /\ Cardinality(c) \in Nat
  BY <1>6, FS_CardinalityType
<1>8. IsFiniteSet(a \cup b) /\ Cardinality(a \cup b) = Cardinality(a) + Cardinality(b)
  <2>1. Cardinality(a \cup b) = Cardinality(a) + Cardinality(b) - Cardinality(a \cap b) /\ IsFiniteSet(a \cup b)
    BY <1>6, FS_Union
  <2>2. Cardinality(a \cap b) = 0
    BY <1>4, FS_EmptySet
  <2> QED
    BY <1>7, <2>1, <2>2
<1>9. Cardinality((a \cup b) \cup c) = Cardinality(a) + Cardinality(b) + Cardinality(c)
  <2>1. Cardinality((a \cup b) \cup c) = Cardinality(a \cup b) + Cardinality(c) - Cardinality((a \cup b) \cap c)
    BY <1>6, <1>8, FS_Union
  <2>2. Cardinality((a \cup b) \cap c) = 0
    BY <1>4, FS_EmptySet
  <2> QED
    BY <1>7, <1>8, <2>1, <2>2
<1>10. Cardinality((a \cup b) \cup c) <= k
  <2>1. (a \cup b) \cup c \in SUBSET (1 .. k)
    BY <1>4
  <2> QED
    BY <1>5, <2>1, FS_Subset
<1> QED
  BY <1>3, <1>9, <1>10

LEMMA RunsTell == RunsInv => R!RunsTrue
<1> SUFFICES ASSUME RunsInv PROVE R!RunsTrue
  OBVIOUS
<1>1. /\ LastOf(window, runs) /\ Sampled(ctr, samples)
      /\ counts \in Tallies /\ exported \in Exports
      /\ counts.videos = ctr.n /\ counts.videos <= exported.videos
      /\ counts.quota \in {0, exported.quota}
      /\ OneAlpha(multi, saved)
  BY DEF RunsInv
<1> DEFINE k == IF Len(runs) < WindowSize THEN Len(runs) ELSE WindowSize
<1>2. /\ runs \in Seq(Statuses) /\ Len(runs) \in Nat /\ Len(window) = k /\ DOMAIN window = 1 .. k
      /\ k \in 0 .. Len(runs)
      /\ \A i \in 1 .. k : window[i].status = runs[Len(runs) - k + i]
  <2>1. Len(window) = k /\ runs \in Seq(Statuses) /\ Len(runs) \in Nat /\ window \in Seq(Result)
    BY <1>1 DEF LastOf
  <2>2. \A i \in 1 .. Len(window) : window[i].status = runs[Len(runs) - Len(window) + i]
    BY <1>1 DEF LastOf
  <2>3. k \in 0 .. Len(runs)
    BY <2>1, WindowIs
  <2> HIDE DEF k
  <2> QED
    BY <2>1, <2>2, <2>3
<1>3. [i \in DOMAIN window |-> window[i].status] = R!Suffix(runs, k)
  <2> DEFINE from == Len(runs) - k + 1
  <2>1. R!Suffix(runs, k) = SubSeq(runs, from, Len(runs))
    BY DEF R!Suffix
  <2> HIDE DEF k
  <2>2. from \in Int /\ Len(runs) - from + 1 = k
    BY <1>2
  <2>3. \A i \in 1 .. k : from + i - 1 = Len(runs) - k + i
    BY <1>2
  <2>4. SubSeq(runs, from, Len(runs)) = [i \in 1 .. k |-> runs[Len(runs) - k + i]]
    BY <1>2, <2>2, <2>3
  <2> QED
    BY <1>2, <2>1, <2>4
<1>4. R!Snapshot.videos = counts.videos /\ R!Snapshot.quota = counts.quota
  BY DEF R!Snapshot
<1>5. ctr.n = Len(samples)
      /\ IF samples = <<>> THEN ctr.value = 0
         ELSE ctr.value \in R!Min(R!ToSet(samples)) .. R!Max(R!ToSet(samples))
  <2>1. samples \in Seq(Nat) /\ ctr.n = Len(samples)
    BY <1>1 DEF Sampled
  <2>2. R!ToSet(samples) = {samples[i] : i \in 1 .. Len(samples)} /\ R!ToSet(samples) \in SUBSET Nat
    BY <2>1 DEF R!ToSet
  <2>3. IF samples = <<>> THEN ctr.value = 0 ELSE Ranged(R!ToSet(samples), ctr.value)
    BY <1>1, <2>2 DEF Sampled
  <2> QED
    BY <2>1, <2>2, <2>3, RangeIs
<1>6. exported.videos >= counts.videos
  BY <1>1 DEF Exports, Tallies
<1> QED
  BY <1>1, <1>3, <1>4, <1>5, <1>6, StatsAddUp DEF R!RunsTrue, OneAlpha

(***************************************************************************)
(* The reward shaper                                                       *)
(***************************************************************************)

Squares(q) == [i \in DOMAIN q |-> q[i] * q[i]]

Spread(k, v, d, a, b) == k * v = d * d * (k * b - a * a)

\* The accumulators, of exact fractions.
Accumulated(q, k, d, m, v) ==
    /\ q \in Seq(0 .. 1000) /\ k = Len(q)
    /\ d \in Nat \ {0} /\ m \in 0 .. d * 1000 /\ v \in Nat
    /\ k = 0 => v = 0
    /\ k * m = d * F!Plus(q)
    /\ Spread(k, v, d, F!Plus(q), F!Plus(Squares(q)))

ShaperInv == Accumulated(rewards, n, scale, mean, s)

LEMMA PlusIs == \A q : F!Plus(q) = SumOn(q, DOMAIN q)
BY DEF F!Plus, F!FoldSeq, F!FoldFunction, F!FoldFunctionOnSet, F!MapThenFoldSet,
       SumOn, FoldOn, Folds, Join, First, Parts

\* One more number in a sequence, by what it adds.
LEMMA PlusLast ==
    ASSUME NEW q, NEW z, NEW l \in Nat, NEW x \in Int,
           DOMAIN q = 1 .. l, DOMAIN z = 1 .. l + 1, z[l + 1] = x,
           \A i \in 1 .. l : q[i] \in Int /\ z[i] = q[i]
    PROVE  F!Plus(z) = F!Plus(q) + x /\ F!Plus(q) \in Int
<1>1. F!Plus(z) = SumOn(z, 1 .. l + 1) /\ F!Plus(q) = SumOn(q, 1 .. l)
  BY PlusIs
<1>2. SumOn(z, 1 .. l + 1) = SumOn(z, 1 .. l) + z[l + 1] /\ SumOn(z, 1 .. l) \in Int
  <2>1. \A i \in 1 .. l + 1 : z[i] \in Int
    <3>1. \A i \in 1 .. l + 1 : i \in 1 .. l \/ i = l + 1
      OBVIOUS
    <3> QED
      BY <3>1
  <2> QED
    BY <2>1, SumOnLast
<1>3. SumOn(z, 1 .. l) = SumOn(q, 1 .. l)
  <2> DEFINE S == 1 .. l
  <2>1. IsFiniteSet(S) /\ \A i \in S : q[i] \in Int /\ z[i] = q[i]
    BY FS_Interval
  <2> HIDE DEF S
  <2>2. SumOn(z, S) = SumOn(q, S)
    BY <2>1, SumOnSame
  <2> QED
    BY <2>2 DEF S
<1> QED
  BY <1>1, <1>2, <1>3

LEMMA PlusNone == F!Plus(<<>>) = 0 /\ F!Plus(Squares(<<>>)) = 0
<1>1. DOMAIN <<>> = {} /\ DOMAIN Squares(<<>>) = {}
  BY DEF Squares
<1>2. \A q : SumOn(q, {}) = 0
  BY FS_EmptySet, SumOnFirst
<1> QED
  BY <1>1, <1>2, PlusIs

LEMMA PlusGrows ==
    ASSUME NEW q, NEW z, NEW l \in Nat, NEW x \in Int,
           DOMAIN q = 1 .. l, DOMAIN z = 1 .. l + 1, z[l + 1] = x,
           \A i \in 1 .. l : q[i] \in Int /\ z[i] = q[i]
    PROVE  /\ F!Plus(z) = F!Plus(q) + x /\ F!Plus(q) \in Int
           /\ F!Plus(Squares(z)) = F!Plus(Squares(q)) + x * x /\ F!Plus(Squares(q)) \in Int
<1>3. F!Plus(z) = F!Plus(q) + x /\ F!Plus(q) \in Int
  BY PlusLast
<1> DEFINE qq == Squares(q)
           zz == Squares(z)
<1>4. DOMAIN qq = 1 .. l /\ DOMAIN zz = 1 .. l + 1 /\ zz[l + 1] = x * x
  <2>1. l + 1 \in 1 .. l + 1
    OBVIOUS
  <2> QED
    BY <2>1 DEF Squares
<1>5. \A i \in 1 .. l : qq[i] \in Int /\ zz[i] = qq[i]
  <2>1. \A i \in 1 .. l : i \in 1 .. l + 1 /\ q[i] * q[i] \in Int
    OBVIOUS
  <2> QED
    BY <2>1 DEF Squares
<1> HIDE DEF qq, zz
<1>6. x * x \in Int
  OBVIOUS
<1>7. F!Plus(zz) = F!Plus(qq) + x * x /\ F!Plus(qq) \in Int
  <2> DEFINE y == x * x
  <2>1. zz[l + 1] = y /\ y \in Int
    BY <1>4, <1>6
  <2> HIDE DEF y
  <2>2. F!Plus(zz) = F!Plus(qq) + y /\ F!Plus(qq) \in Int
    <3>1. /\ DOMAIN qq = 1 .. l /\ DOMAIN zz = 1 .. l + 1 /\ zz[l + 1] = y
          /\ \A i \in 1 .. l : qq[i] \in Int /\ zz[i] = qq[i]
      BY <1>4, <1>5, <2>1
    <3> QED
      BY <2>1, <3>1, PlusLast, SMTT(30)
  <2> QED
    BY <2>2 DEF y
<1> QED
  BY <1>3, <1>7 DEF qq, zz

Off(k, u, d, a, x) == k * u = d * (k * x - a)
SpreadMore(k, v, u, d, a, b, x) ==
    (k + 1) * v + k * (u * u) = d * d * ((k + 1) * (b + x * x) - (a + x) * (a + x))

\* The identity behind the update of the variance.
LEMMA SpreadGrows ==
    \A k, v, u, d, a, b, x \in Int :
       k # 0 /\ Spread(k, v, d, a, b) /\ Off(k, u, d, a, x) => SpreadMore(k, v, u, d, a, b, x)
<1> SUFFICES ASSUME NEW k \in Int, NEW v \in Int, NEW u \in Int, NEW d \in Int, NEW a \in Int,
                    NEW b \in Int, NEW x \in Int,
                    k # 0, Spread(k, v, d, a, b), Off(k, u, d, a, x)
             PROVE  SpreadMore(k, v, u, d, a, b, x)
  OBVIOUS
<1>0. k * v = d * d * (k * b - a * a) /\ k * u = d * (k * x - a)
  BY DEF Spread, Off
<1>1. k * ((k + 1) * v + k * (u * u)) = (k + 1) * (k * v) + (k * u) * (k * u)
  OBVIOUS
<1>2. (k + 1) * (d * d * (k * b - a * a)) + (d * (k * x - a)) * (d * (k * x - a))
         = k * (d * d * ((k + 1) * (b + x * x) - (a + x) * (a + x)))
  OBVIOUS
<1> DEFINE p == (k + 1) * v + k * (u * u)
           q == d * d * ((k + 1) * (b + x * x) - (a + x) * (a + x))
<1>3. k * p = k * q
  BY <1>0, <1>1, <1>2
<1>4. p \in Int /\ q \in Int
  OBVIOUS
<1> HIDE DEF p, q
<1>5. p = q
  BY <1>3, <1>4
<1> QED
  BY <1>5 DEF p, q, SpreadMore

LEMMA ShapedIs == ASSUME NEW c \in Ratios, NEW r \in Ratios, NEW v \in LogViews PROVE F!Shaped(c, r, v) \in 0 .. 1000
<1>1. c \in Nat /\ r \in Nat /\ v \in Nat
  BY LearningAssumption DEF F!FeedbackAssumption
<1>2. (4 * c + 4 * r + 2 * v) \div 10 \in Int
  BY <1>1
<1> QED
  BY <1>2 DEF F!Shaped, F!Clip

LEMMA ShapeKeeps ==
    ASSUME ShaperInv, NEW x \in 0 .. 1000, F!Shape(x)
    PROVE  ShaperInv'
<1> DEFINE k == n
           d == scale
           u == x * d - mean
           a == F!Plus(rewards)
           b == F!Plus(Squares(rewards))
<1>1. /\ k \in Nat /\ d \in Nat \ {0} /\ mean \in 0 .. d * 1000 /\ mean \in Nat /\ s \in Nat
      /\ k = Len(rewards) /\ rewards \in Seq(0 .. 1000)
      /\ k * mean = d * a /\ Spread(k, s, d, a, b)
  BY DEF ShaperInv, Accumulated
<1>2. /\ n' = k + 1 /\ scale' = d * (k + 1) /\ rewards' = Append(rewards, x)
      /\ mean' = mean * (k + 1) + (x * (d * (k + 1)) - mean * (k + 1)) \div (k + 1)
      /\ s' = s * (k + 1) * (k + 1) + (x * (d * (k + 1)) - mean * (k + 1)) * (x * (d * (k + 1)) - mean')
  BY DEF F!Shape, F!Deviation
<1>3. /\ F!Plus(rewards') = a + x /\ a \in Int
      /\ F!Plus(Squares(rewards')) = b + x * x /\ b \in Int
  <2> DEFINE D == 0 .. 1000
  <2>1. rewards \in Seq(D) /\ x \in D /\ D \subseteq Int
    BY <1>1
  <2> HIDE DEF D, a, b
  <2>2. /\ DOMAIN rewards = 1 .. Len(rewards) /\ DOMAIN rewards' = 1 .. Len(rewards) + 1
        /\ rewards'[Len(rewards) + 1] = x /\ Len(rewards) \in Nat
        /\ \A i \in 1 .. Len(rewards) : rewards[i] \in D /\ rewards'[i] = rewards[i]
    BY <1>2, <2>1
  <2>3. x \in Int /\ \A i \in 1 .. Len(rewards) : rewards[i] \in Int /\ rewards'[i] = rewards[i]
    BY <2>1, <2>2
  <2> DEFINE q == rewards
             z == rewards'
             l == Len(rewards)
  <2>4. /\ DOMAIN q = 1 .. l /\ DOMAIN z = 1 .. l + 1 /\ z[l + 1] = x /\ l \in Nat
        /\ \A i \in 1 .. l : q[i] \in Int /\ z[i] = q[i]
    BY <2>2, <2>3
  <2> HIDE DEF q, z, l
  <2>5. /\ F!Plus(z) = F!Plus(q) + x /\ F!Plus(q) \in Int
        /\ F!Plus(Squares(z)) = F!Plus(Squares(q)) + x * x /\ F!Plus(Squares(q)) \in Int
    BY <2>3, <2>4, PlusGrows
  <2> QED
    BY <2>5 DEF a, b, q, z
<1>4. rewards' \in Seq(0 .. 1000) /\ n' = Len(rewards') /\ (k = 0 => rewards = <<>>)
  BY <1>1, <1>2
<1>5. u \in Int /\ x \in Int
  BY <1>1
<1> HIDE DEF k, d, a, b, u
<1>6. x * (d * (k + 1)) - mean * (k + 1) = (k + 1) * u
  BY <1>1, <1>5 DEF u
<1>7. ((k + 1) * u) \div (k + 1) = u
  <2> DEFINE m == k + 1
  <2>1. m \in Nat \ {0}
    BY <1>1
  <2> HIDE DEF m
  <2>2. m * u \in Int /\ u * m = m * u
    BY <1>5, <2>1
  <2>3. (m * u) \div m = u
    BY <1>5, <2>1
  <2> QED
    BY <2>3 DEF m
<1>8. mean' = mean * (k + 1) + u
  BY <1>2, <1>6, <1>7
<1>9. x * (d * (k + 1)) - mean' = k * u
  BY <1>1, <1>5, <1>8 DEF u
<1>10. s' = s * (k + 1) * (k + 1) + ((k + 1) * u) * (k * u)
  BY <1>2, <1>6, <1>9
<1>11. scale' \in Nat \ {0} /\ s' \in Nat
  <2>1. u * u \in Nat
    BY <1>5
  <2>2. ((k + 1) * u) * (k * u) = ((k + 1) * k) * (u * u)
    BY <1>1, <1>5
  <2>3. (k + 1) * k \in Nat /\ s * (k + 1) * (k + 1) \in Nat /\ d * (k + 1) \in Nat \ {0}
    BY <1>1
  <2>4. ((k + 1) * k) * (u * u) \in Nat
    BY <2>1, <2>3
  <2> QED
    BY <1>2, <1>10, <2>2, <2>3, <2>4
<1>12. mean' \in 0 .. scale' * 1000
  <2>1. mean' = mean * k + x * d
    BY <1>1, <1>5, <1>8 DEF u
  <2>2. mean * k \in Nat /\ mean * k <= (d * 1000) * k
    <3>1. mean \in Int /\ d * 1000 \in Int /\ mean <= d * 1000
      BY <1>1
    <3>2. k * mean <= k * (d * 1000)
      <4> DEFINE m == mean
                 e == d * 1000
      <4>1. m \in Int /\ e \in Int /\ m <= e /\ k \in Nat
        BY <1>1, <3>1
      <4> HIDE DEF m, e
      <4>2. k * m <= k * e
        BY <4>1, ProductsOrdered
      <4> QED
        BY <4>2 DEF m, e
    <3>3. k * mean = mean * k /\ k * (d * 1000) = (d * 1000) * k /\ mean * k \in Nat
      BY <1>1, <3>1
    <3> QED
      BY <3>2, <3>3
  <2>3. x * d \in Nat /\ x * d <= 1000 * d
    BY <1>1
  <2>4. scale' * 1000 = (d * 1000) * k + 1000 * d /\ (d * 1000) * k \in Nat /\ 1000 * d \in Nat
    BY <1>1, <1>2
  <2> QED
    BY <2>1, <2>2, <2>3, <2>4
<1>13. n' * mean' = scale' * F!Plus(rewards')
  <2>1. mean' = k * mean + x * d
    BY <1>1, <1>5, <1>8 DEF u
  <2>2. mean' = d * (a + x)
    <3>1. k * mean = d * a
      BY <1>1
    <3>2. d * (a + x) = d * a + x * d
      BY <1>1, <1>3, <1>5
    <3> QED
      BY <2>1, <3>1, <3>2
  <2>3. (k + 1) * (d * (a + x)) = (d * (k + 1)) * (a + x)
    BY <1>1, <1>3, <1>5
  <2> QED
    BY <1>2, <1>3, <2>2, <2>3
<1>14. Spread(n', s', scale', F!Plus(rewards'), F!Plus(Squares(rewards')))
  <2> DEFINE e == (k + 1) * s + k * (u * u)
             f == (k + 1) * (b + x * x) - (a + x) * (a + x)
  <2>1. e = d * d * f
    <3>1. CASE k = 0
      <4>1. rewards = <<>>
        BY <1>4, <3>1
      <4>2. a = 0 /\ b = 0
        BY <4>1, PlusNone DEF a, b
      <4>3. s = 0
        BY <3>1 DEF ShaperInv, Accumulated, k
      <4>4. (0 + 1) * 0 + 0 * (u * u) = d * d * ((0 + 1) * (0 + x * x) - (0 + x) * (0 + x))
        BY <1>1, <1>5
      <4> QED
        BY <3>1, <4>2, <4>3, <4>4
    <3>2. CASE k # 0
      <4>1. k * u = d * (k * x - a)
        <5>1. k * u = k * (x * d) - k * mean
          BY <1>1, <1>5 DEF u
        <5>2. k * (x * d) - d * a = d * (k * x - a)
          BY <1>1, <1>3, <1>5
        <5> QED
          BY <1>1, <5>1, <5>2
      <4>2. k \in Int /\ s \in Int /\ d \in Int
        BY <1>1
      <4>3. Spread(k, s, d, a, b) /\ Off(k, u, d, a, x)
        BY <1>1, <4>1 DEF Off
      <4>4. SpreadMore(k, s, u, d, a, b, x)
        BY <1>3, <1>5, <3>2, <4>2, <4>3, SpreadGrows
      <4> QED
        BY <4>4 DEF SpreadMore
    <3> QED
      BY <3>1, <3>2
  <2>2. n' * s' = (k + 1) * (k + 1) * e
    <3>1. (k + 1) * (s * (k + 1) * (k + 1) + ((k + 1) * u) * (k * u)) = (k + 1) * (k + 1) * ((k + 1) * s + k * (u * u))
      BY <1>1, <1>5
    <3>2. n' * s' = (k + 1) * (s * (k + 1) * (k + 1) + ((k + 1) * u) * (k * u))
      BY <1>2, <1>10
    <3> QED
      BY <3>1, <3>2
  <2>3. (k + 1) * (k + 1) * (d * d * f) = (d * (k + 1)) * (d * (k + 1)) * f
    <3>1. f \in Int
      BY <1>1, <1>3, <1>5
    <3> HIDE DEF f
    <3> QED
      BY <1>1, <3>1
  <2>4. n' * F!Plus(Squares(rewards')) - F!Plus(rewards') * F!Plus(rewards') = f
    BY <1>2, <1>3
  <2> HIDE DEF e, f
  <2> QED
    BY <1>2, <2>1, <2>2, <2>3, <2>4 DEF Spread
<1>15. n' # 0
  BY <1>1, <1>2
<1>16. Accumulated(rewards', n', scale', mean', s')
  BY <1>4, <1>11, <1>12, <1>13, <1>14, <1>15 DEF Accumulated
<1> QED
  BY <1>16 DEF ShaperInv

LEMMA ShaperInit == LInit => ShaperInv
<1> SUFFICES ASSUME LInit PROVE ShaperInv
  OBVIOUS
<1>1. n = 0 /\ mean = 0 /\ s = 0 /\ scale = 1 /\ rewards = <<>>
  BY DEF LInit, F!BInit
<1>2. /\ <<>> \in Seq(0 .. 1000) /\ 0 = Len(<<>>) /\ 1 \in Nat \ {0} /\ 0 \in 0 .. 1 * 1000 /\ 0 \in Nat
      /\ 0 * 0 = 1 * 0 /\ 0 * 0 = 1 * 1 * (0 * 0 - 0 * 0)
  OBVIOUS
<1>3. Accumulated(<<>>, 0, 1, 0, 0)
  BY <1>2, PlusNone DEF Accumulated, Spread
<1> QED
  BY <1>1, <1>3 DEF ShaperInv

LEMMA ShaperKept == ASSUME part = "shaper", ShaperInv, [LNext]_lvars PROVE ShaperInv'
<1>1. F!ShaperNext \/ UNCHANGED shaping
  BY DEF LNext, lvars, feedback
<1>2. CASE UNCHANGED shaping
  BY <1>2 DEF shaping, ShaperInv
<1>3. CASE F!ShaperNext
  <2>1. PICK c \in Ratios, r \in Ratios, v \in LogViews : F!Shape(F!Shaped(c, r, v))
    BY <1>3 DEF F!ShaperNext
  <2> DEFINE x == F!Shaped(c, r, v)
  <2>2. x \in 0 .. 1000 /\ F!Shape(x)
    BY <2>1, ShapedIs
  <2> HIDE DEF x
  <2> QED
    BY <2>2, ShapeKeeps
<1> QED
  BY <1>1, <1>2, <1>3

LEMMA ShaperTells == ShaperInv => F!ShapesTrue
<1> SUFFICES ASSUME ShaperInv PROVE F!ShapesTrue
  OBVIOUS
<1>1. Accumulated(rewards, n, scale, mean, s)
  BY DEF ShaperInv
<1>2. Squares(rewards) = [i \in DOMAIN rewards |-> rewards[i] * rewards[i]]
  BY DEF Squares
<1>3. n = Len(rewards) /\ n * mean = scale * F!Plus(rewards) /\ mean \in 0 .. scale * 1000 /\ s >= 0
  BY <1>1 DEF Accumulated
<1>4. n * s = scale * scale * (n * F!Plus(Squares(rewards)) - F!Plus(rewards) * F!Plus(rewards))
  BY <1>1 DEF Accumulated, Spread
<1> QED
  BY <1>2, <1>3, <1>4 DEF F!ShapesTrue

(***************************************************************************)
(* The sampler                                                             *)
(***************************************************************************)

LEMMA SampleCardinality == \A z : F!Cardinality(z) = Cardinality(z)
BY DEF F!Cardinality, Cardinality

LEMMA SampleIsThat ==
    \A k, l, z : {f \in F!Draws(k, l) : F!ToSet(F!Reservoir(k, l, f)) = z} = Keeping(z, k, l)
<1> SUFFICES ASSUME NEW k, NEW l, NEW z
             PROVE  {f \in F!Draws(k, l) : F!ToSet(F!Reservoir(k, l, f)) = z} = Keeping(z, k, l)
  OBVIOUS
<1>1. F!Draws(k, l) = Draws(k, l)
  BY DEF F!Draws, Draws
<1>2. \A f : F!Reservoir(k, l, f) = Reservoir(k, l, f)
  BY DEF F!Reservoir, Reservoir
<1>3. \A q : F!ToSet(q) = Range(q)
  BY DEF F!ToSet, Range
<1> QED
  BY <1>1, <1>2, <1>3 DEF Keeping

\* Every sample of k is drawn in as many ways as any other, for streams of any length.
LEMMA SamplesUniform == F!SampleUniform
<1>1. SUFFICES ASSUME NEW len \in 1 .. MaxStream, NEW k \in 1 .. MaxStream
               PROVE  LET all == {Kept \in SUBSET (1 .. len) : Cardinality(Kept) = IF len < k THEN len ELSE k}
                      IN  \A Kept, Other \in all :
                            /\ Cardinality(Keeping(Kept, k, len)) = Cardinality(Keeping(Other, k, len))
                            /\ Cardinality(Keeping(Kept, k, len)) > 0
  <2> SUFFICES ASSUME NEW len \in 1 .. MaxStream, NEW k \in 1 .. MaxStream
               PROVE  \A Kept, Other \in {Some \in SUBSET (1 .. len) :
                                            F!Cardinality(Some) = IF len < k THEN len ELSE k} :
                            /\ F!Cardinality({f \in F!Draws(k, len) : F!ToSet(F!Reservoir(k, len, f)) = Kept})
                                 = F!Cardinality({f \in F!Draws(k, len) : F!ToSet(F!Reservoir(k, len, f)) = Other})
                            /\ F!Cardinality({f \in F!Draws(k, len) : F!ToSet(F!Reservoir(k, len, f)) = Kept}) > 0
    BY DEF F!SampleUniform
  <2>1. \A Kept : F!Cardinality({f \in F!Draws(k, len) : F!ToSet(F!Reservoir(k, len, f)) = Kept})
                    = Cardinality(Keeping(Kept, k, len))
    BY SampleCardinality, SampleIsThat
  <2> DEFINE sizes == IF len < k THEN len ELSE k
             all == {Kept \in SUBSET (1 .. len) : Cardinality(Kept) = sizes}
             same == {Some \in SUBSET (1 .. len) : F!Cardinality(Some) = sizes}
  <2>2. same = all
    <3> HIDE DEF sizes
    <3> QED
      BY SampleCardinality
  <2>3. \A Kept, Other \in all :
           /\ Cardinality(Keeping(Kept, k, len)) = Cardinality(Keeping(Other, k, len))
           /\ Cardinality(Keeping(Kept, k, len)) > 0
    BY <1>1
  <2> HIDE DEF all, same
  <2>4. \A Kept, Other \in same :
           /\ F!Cardinality({f \in F!Draws(k, len) : F!ToSet(F!Reservoir(k, len, f)) = Kept})
                = F!Cardinality({f \in F!Draws(k, len) : F!ToSet(F!Reservoir(k, len, f)) = Other})
           /\ F!Cardinality({f \in F!Draws(k, len) : F!ToSet(F!Reservoir(k, len, f)) = Kept}) > 0
    <3> DEFINE ways(z) == F!Cardinality({f \in F!Draws(k, len) : F!ToSet(F!Reservoir(k, len, f)) = z})
    <3>1. \A z : ways(z) = Cardinality(Keeping(z, k, len))
      BY <2>1
    <3> HIDE DEF ways
    <3>2. \A Kept, Other \in same : ways(Kept) = ways(Other) /\ ways(Kept) > 0
      BY <2>2, <2>3, <3>1
    <3> QED
      BY <3>2 DEF ways
  <2> QED
    BY <2>4 DEF same
<1>2. len \in Nat /\ k \in Nat
  BY LearningAssumption DEF F!FeedbackAssumption
<1> DEFINE all == {Kept \in SUBSET (1 .. len) : Cardinality(Kept) = IF len < k THEN len ELSE k}
<1>3. CASE len < k
  <2>1. len \in 0 .. k
    BY <1>2, <1>3
  <2>2. \A Kept \in all : Cardinality(Keeping(Kept, k, len)) = 1
    BY <1>2, <1>3, <2>1, OneWay
  <2> HIDE DEF all
  <2>3. \A Kept, Other \in all : /\ Cardinality(Keeping(Kept, k, len)) = Cardinality(Keeping(Other, k, len))
                               /\ Cardinality(Keeping(Kept, k, len)) > 0
    BY <2>2
  <2> QED
    BY <2>3 DEF all
<1>4. CASE ~ len < k
  <2>1. k <= len
    BY <1>2, <1>4
  <2>2. PICK c \in Nat \ {0} : SameWays(k, len, c)
    BY <1>2, <2>1, WaysAlike
  <2>3. \A Kept \in all : Cardinality(Keeping(Kept, k, len)) = c
    BY <1>4, <2>2 DEF SameWays
  <2> HIDE DEF all
  <2>4. \A Kept, Other \in all : /\ Cardinality(Keeping(Kept, k, len)) = Cardinality(Keeping(Other, k, len))
                               /\ Cardinality(Keeping(Kept, k, len)) > 0
    BY <2>2, <2>3
  <2> QED
    BY <2>4 DEF all
<1> QED
  BY <1>3, <1>4

\* Runs, videos, experiments and shaped rewards.
MeasuresInv ==
    /\ part = "runs" => RunsInv
    /\ part \in VideoParts => VideosInv
    /\ part = "tester" => TesterInv
    /\ part = "shaper" => ShaperInv

\* Numbers are those of what was recorded (aggregator.py:279-540, metrics_collector.py:139-207,
\* sqlite.py:530-629, ab_tester.py:50-101, reward_shaper.py:100-155, drift_detector.py:97-110): the window
\* is the last results and averages lie between the samples; a video is ranked once, no
\* row has more views than were reported, and of two rows asked from the same date the
\* later has no fewer, unless it is the zero snapshot of an answer without rows; a winner
\* is better and was shown enough; mean and variance are those of the rewards; every
\* sample is drawn in as many ways as any other.
THEOREM MetricsTrueHolds == LSpec => []MetricsTrue
<1>1. LInit => MeasuresInv
  BY RunsInit, VideosInit, TesterInit, ShaperInit DEF MeasuresInv
<1>2. MeasuresInv /\ [LNext]_lvars => MeasuresInv'
  BY RunsKept, VideosKept, TesterKept, ShaperKept, NicheMoves DEF MeasuresInv
<1>3. MeasuresInv => MetricsTrue
  BY RunsTell, VideosTell, TesterFair, ShaperTells, SamplesUniform DEF MeasuresInv, MetricsTrue, VideoParts
<1> QED
  BY <1>1, <1>2, <1>3, PTL DEF LSpec
=============================================================================
