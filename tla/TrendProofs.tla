---------------------------- MODULE TrendProofs ----------------------------
(***************************************************************************)
(* What holds of the cache and of the trend sources for every value of the  *)
(* constants: the cache driven by fetch() and by clients of its own.        *)
(***************************************************************************)
EXTENDS MCProduction, TLAPS, FiniteSetTheorems, SequenceTheorems

\* The assumptions of the parts.
LEMMA Assumptions ==
    /\ A!MusicAssumption /\ P!FootageAssumption /\ V!AssemblyAssumption
    /\ CacheAssumption /\ SourcesAssumption
BY ProductionAssumption, CacheAssumption, SourcesAssumption

LEMMA TrendMoves ==
    ASSUME [MNext]_mvars
    PROVE  /\ part' = part
           /\ \/ UNCHANGED <<cvars, tvars>>
              \/ part = "cache" /\ CacheClient /\ UNCHANGED tvars
              \/ part = "trends" /\ TNext
BY DEF MNext, mvars, trends

(***************************************************************************)
(* Sorting                                                                 *)
(***************************************************************************)

\* Whoever is ahead of i is ahead of everyone behind i, so places differ and every
\* place is taken.
LEMMA Places ==
    ASSUME NEW key \in Seq(Int)
    PROVE  /\ \A i \in 1 .. Len(key) : Cardinality(Ahead(key, i)) \in 0 .. Len(key) - 1
           /\ \A i, j \in 1 .. Len(key) :
                 i \in Ahead(key, j) => Cardinality(Ahead(key, i)) < Cardinality(Ahead(key, j))
           /\ \A n \in 1 .. Len(key) : \E i \in 1 .. Len(key) : Cardinality(Ahead(key, i)) = n - 1
<1> DEFINE N == Len(key)
           put == [i \in 1 .. N |-> Cardinality(Ahead(key, i)) + 1]
<1>1. N \in Nat /\ \A i \in 1 .. N : key[i] \in Int
  OBVIOUS
<1>2. IsFiniteSet(1 .. N) /\ Cardinality(1 .. N) = N
  <2> HIDE DEF N
  <2>1. 1 \in Int /\ N \in Int /\ 1 <= N + 1 /\ (1 > N <=> N = 0) /\ N - 1 + 1 = N
    BY <1>1
  <2>2. IsFiniteSet(1 .. N) /\ Cardinality(1 .. N) = IF 1 > N THEN 0 ELSE N - 1 + 1
    BY <2>1, FS_Interval, Zenon
  <2> QED
    BY <2>1, <2>2
<1>3. \A i \in 1 .. N : Ahead(key, i) \subseteq 1 .. N /\ IsFiniteSet(Ahead(key, i))
                       /\ Cardinality(Ahead(key, i)) \in Nat
  <2> TAKE i \in 1 .. N
  <2>1. Ahead(key, i) \subseteq 1 .. N
    BY DEF Ahead
  <2>2. IsFiniteSet(Ahead(key, i))
    BY <2>1, <1>2, FS_Subset
  <2> QED
    BY <2>1, <2>2, FS_CardinalityType
<1>4. \A i \in 1 .. N : i \notin Ahead(key, i)
  BY <1>1 DEF Ahead
<1>5. ASSUME NEW i \in 1 .. N, NEW S \in SUBSET (1 .. N), IsFiniteSet(S),
             Ahead(key, i) \subseteq S, i \in S
      PROVE  Cardinality(Ahead(key, i)) < Cardinality(S)
  <2>1. Ahead(key, i) # S
    BY <1>4, <1>5
  <2>2. Cardinality(Ahead(key, i)) <= Cardinality(S)
    BY <1>5, FS_Subset
  <2>3. Cardinality(Ahead(key, i)) # Cardinality(S)
    BY <1>5, <2>1, FS_Subset
  <2> QED
    BY <1>3, <1>5, <2>2, <2>3, FS_CardinalityType
<1>6. \A i \in 1 .. N : Cardinality(Ahead(key, i)) \in 0 .. N - 1
  BY <1>1, <1>2, <1>3, <1>5
<1>7. \A i, j \in 1 .. N :
         i \in Ahead(key, j) => Cardinality(Ahead(key, i)) < Cardinality(Ahead(key, j))
  <2> SUFFICES ASSUME NEW i \in 1 .. N, NEW j \in 1 .. N, i \in Ahead(key, j)
               PROVE  Cardinality(Ahead(key, i)) < Cardinality(Ahead(key, j))
    OBVIOUS
  <2>1. Ahead(key, i) \subseteq Ahead(key, j)
    BY <1>1 DEF Ahead
  <2> QED
    BY <2>1, <1>3, <1>5
<1>8. \A i, j \in 1 .. N : i # j => i \in Ahead(key, j) \/ j \in Ahead(key, i)
  BY <1>1 DEF Ahead
<1>9. put \in [1 .. N -> 1 .. N]
  BY <1>1, <1>6
<1>10. \A i, j \in 1 .. N : put[i] = put[j] => i = j
  BY <1>3, <1>7, <1>8
<1>11. put \in Injection(1 .. N, 1 .. N)
  BY <1>9, <1>10 DEF Injection, IsInjective
<1>12. put \in Surjection(1 .. N, 1 .. N)
  BY <1>2, <1>11, FS_Injection
<1>13. \A n \in 1 .. N : \E i \in 1 .. N : put[i] = n
  BY <1>12 DEF Surjection
<1>14. \A n \in 1 .. N : \E i \in 1 .. N : Cardinality(Ahead(key, i)) = n - 1
  <2> TAKE n \in 1 .. N
  <2>1. PICK i \in 1 .. N : put[i] = n
    BY <1>13
  <2>2. Cardinality(Ahead(key, i)) + 1 = n
    BY <2>1
  <2>3. Cardinality(Ahead(key, i)) = n - 1
    BY <2>2, <1>3
  <2> QED
    BY <2>3
<1> QED
  BY <1>6, <1>7, <1>14

\* The order is one of all the items, the largest keys first.
LEMMA OrderSorts ==
    ASSUME NEW key \in Seq(Int)
    PROVE  /\ Order(key) \in [1 .. Len(key) -> 1 .. Len(key)]
           /\ \A i \in 1 .. Len(key) : \E n \in 1 .. Len(key) : Order(key)[n] = i
           /\ \A m, n \in 1 .. Len(key) :
                 /\ Order(key)[m] = Order(key)[n] => m = n
                 /\ m <= n => key[Order(key)[m]] >= key[Order(key)[n]]
<1> DEFINE N == Len(key)
           ahead(i) == Cardinality(Ahead(key, i))
<1>1. N \in Nat /\ \A i \in 1 .. N : key[i] \in Int /\ ahead(i) \in 0 .. N - 1
  BY Places
<1>2. \A n \in 1 .. N : Order(key)[n] \in 1 .. N /\ ahead(Order(key)[n]) = n - 1
  BY Places DEF Order
<1>3. \A i, j \in 1 .. N : i # j => i \in Ahead(key, j) \/ j \in Ahead(key, i)
  BY <1>1 DEF Ahead
<1>4. \A i, j \in 1 .. N : i \in Ahead(key, j) => ahead(i) < ahead(j)
  BY Places
<1>5. \A i, j \in 1 .. N : ahead(i) = ahead(j) => i = j
  <2> HIDE DEF ahead, N
  <2> SUFFICES ASSUME NEW i \in 1 .. N, NEW j \in 1 .. N, ahead(i) = ahead(j), i # j
               PROVE  FALSE
    OBVIOUS
  <2>1. ahead(i) < ahead(j) \/ ahead(j) < ahead(i)
    BY <1>3, <1>4
  <2> QED
    BY <1>1, <2>1
<1>6. \A i, j \in 1 .. N : key[i] > key[j] => i \in Ahead(key, j)
  BY DEF Ahead
<1> HIDE DEF ahead
<1>7. Order(key) \in [1 .. N -> 1 .. N]
  <2>1. DOMAIN Order(key) = 1 .. N /\ Order(key) = [n \in 1 .. N |-> Order(key)[n]]
    BY DEF Order
  <2> QED
    BY <1>2, <2>1
<1>8. ASSUME NEW i \in 1 .. N PROVE \E n \in 1 .. N : Order(key)[n] = i
  <2>1. ahead(i) + 1 \in 1 .. N
    BY <1>1
  <2>2. Order(key)[ahead(i) + 1] \in 1 .. N /\ ahead(Order(key)[ahead(i) + 1]) = ahead(i)
    BY <1>1, <1>2, <2>1
  <2> QED
    BY <1>5, <2>1, <2>2
<1>9. ASSUME NEW m \in 1 .. N, NEW n \in 1 .. N
      PROVE  /\ Order(key)[m] = Order(key)[n] => m = n
             /\ m <= n => key[Order(key)[m]] >= key[Order(key)[n]]
  <2> DEFINE i == Order(key)[m]
             j == Order(key)[n]
  <2>1. i \in 1 .. N /\ j \in 1 .. N /\ ahead(i) = m - 1 /\ ahead(j) = n - 1
    BY <1>2
  <2> HIDE DEF i, j
  <2>2. i = j => m = n
    BY <2>1
  <2>3. m <= n => key[i] >= key[j]
    <3>1. key[i] \in Int /\ key[j] \in Int
      BY <1>1, <2>1
    <3>2. key[j] > key[i] => ahead(j) < ahead(i)
      BY <1>4, <1>6, <2>1
    <3>3. key[j] > key[i] => n < m
      BY <2>1, <3>2
    <3> QED
      BY <3>1, <3>3
  <2> QED
    BY <2>2, <2>3 DEF i, j
<1> QED
  BY <1>7, <1>8, <1>9

(***************************************************************************)
(* The rolling window of the search's quota                                *)
(***************************************************************************)

\* A set of places has a first one.
LEMMA LeastPlace ==
    ASSUME NEW n \in Nat, NEW S \in SUBSET (1 .. n), S # {}
    PROVE  Min(S) \in S /\ \A i \in S : Min(S) <= i
<1> DEFINE before == {i \in 1 .. n : \A j \in 1 .. i : j \notin S}
           d == Cardinality(before)
<1>1. IsFiniteSet(1 .. n) /\ before \subseteq 1 .. n
  BY FS_Interval
<1>2. IsFiniteSet(before)
  BY <1>1, FS_Subset
<1>3. d \in Nat
  BY <1>2, FS_CardinalityType
<1>4. ASSUME NEW i \in before PROVE i <= d
  <2>1. i \in Nat /\ 1 .. i \subseteq before
    OBVIOUS
  <2>2. Cardinality(1 .. i) <= d
    BY <2>1, <1>2, FS_Subset
  <2>3. Cardinality(1 .. i) = i
    <3> i \in 1 .. n
      OBVIOUS
    <3>1. Cardinality(1 .. i) = IF 1 > i THEN 0 ELSE i - 1 + 1
      BY <2>1, FS_Interval
    <3> QED
      BY <3>1
  <2> QED
    BY <2>2, <2>3
<1>5. before \subseteq 1 .. d
  BY <1>3, <1>4
<1>6. IsFiniteSet(1 .. d) /\ Cardinality(1 .. d) = d
  BY <1>3, FS_Interval
<1>7. before = 1 .. d
  BY <1>5, <1>6, FS_Subset
<1>8. d + 1 \in S
  <2>1. PICK s \in S : TRUE
    OBVIOUS
  <2>2. s \in 1 .. n /\ s \notin before
    BY <2>1
  <2>3. d + 1 \in 1 .. n /\ d + 1 \notin before
    <3> HIDE DEF d, before
    <3>1. s \in Nat /\ ~ s <= d
      BY <2>2, <1>3, <1>7
    <3> QED
      BY <2>2, <3>1, <1>3, <1>7
  <2>4. PICK j \in 1 .. d + 1 : j \in S
    BY <2>3
  <2>5. j \notin 1 .. d
    BY <2>4, <1>7
  <2> HIDE DEF d
  <2>6. j = d + 1
    BY <2>4, <2>5, <1>3
  <2> QED
    BY <2>4, <2>6
<1>9. \A i \in S : d + 1 <= i
  <2> TAKE i \in S
  <2>1. i \notin before
    OBVIOUS
  <2> HIDE DEF d
  <2> QED
    BY <2>1, <1>3, <1>7
<1> HIDE DEF d
<1> QED
  BY <1>8, <1>9 DEF Min

\* How many searches the log no longer holds.
Evicted == Len(searches) - Len(log)

\* The log is the searches without the first ones, and these are out of every
\* window that is still open.
LogInv ==
    /\ now \in Nat
    /\ searches \in Seq(Nat) /\ log \in Seq(Nat) /\ Evicted \in Nat
    /\ \A i \in 1 .. Len(searches) :
          searches[i] <= now /\ \A j \in 1 .. i : searches[j] <= searches[i]
    /\ \A i \in 1 .. Len(log) : log[i] = searches[Evicted + i]
    /\ \A i \in 1 .. Evicted : searches[i] < now - Window
    /\ stage = "reply" => Len(log) < Budget

WindowInv == LogInv /\ SearchWindow

\* Eviction drops a first part of the log, all of it out of the window.
LEMMA RecentIsLast ==
    ASSUME LogInv
    PROVE  \E e \in 0 .. Len(log) :
              /\ Recent \in Seq(Nat) /\ Len(Recent) = Len(log) - e
              /\ \A i \in 1 .. Len(log) - e : Recent[i] = log[e + i]
              /\ \A i \in 1 .. e : log[i] < now - Window
<1> DEFINE kept == {i \in 1 .. Len(log) : log[i] >= now - Window}
<1>1. Len(log) \in Nat /\ log \in Seq(Nat) /\ now \in Nat /\ Window \in Nat
  BY Assumptions DEF LogInv, SourcesAssumption
<1>2. CASE kept = {}
  <2>1. Recent = <<>>
    BY <1>2 DEF Recent
  <2>2. \A i \in 1 .. Len(log) : log[i] < now - Window
    BY <1>1, <1>2
  <2> QED
    BY <1>1, <2>1, <2>2
<1>3. CASE kept # {}
  <2> DEFINE e == Min(kept) - 1
  <2>1. Min(kept) \in kept /\ \A i \in kept : Min(kept) <= i
    BY <1>1, <1>3, LeastPlace
  <2>2. Min(kept) \in 1 .. Len(log)
    BY <2>1
  <2>3. Recent = SubSeq(log, Min(kept), Len(log))
    BY <1>3 DEF Recent
  <2> HIDE DEF kept
  <2>4. Recent \in Seq(Nat) /\ Len(Recent) = Len(log) - e
        /\ \A i \in 1 .. Len(log) - e : Recent[i] = log[e + i]
    BY <1>1, <2>2, <2>3
  <2>5. \A i \in 1 .. e : log[i] < now - Window
    <3> TAKE i \in 1 .. e
    <3>1. i \in 1 .. Len(log) /\ i < Min(kept)
      BY <1>1, <2>2
    <3>2. i \notin kept
      BY <2>1, <2>2, <3>1
    <3> QED
      BY <1>1, <3>1, <3>2 DEF kept
  <2>6. e \in 0 .. Len(log)
    BY <1>1, <2>2
  <2> QED
    BY <2>4, <2>5, <2>6
<1> QED
  BY <1>2, <1>3

LEMMA WindowInit == MInit => WindowInv
<1> SUFFICES ASSUME MInit PROVE WindowInv
  OBVIOUS
<1>1. now = 0 /\ searches = <<>> /\ log = <<>> /\ stage = "idle"
  BY DEF MInit, TInit, CInit
<1>2. LogInv
  BY <1>1 DEF LogInv, Evicted
<1>3. SearchWindow
  <2>1. \A t \in 0 .. now : {i \in 1 .. Len(searches) : searches[i] \in t .. t + Window} = {}
    BY <1>1
  <2>2. 0 <= Budget
    BY Assumptions DEF SourcesAssumption
  <2>3. Cardinality({}) = 0
    BY FS_EmptySet
  <2> QED
    BY <2>1, <2>2, <2>3 DEF SearchWindow
<1> QED
  BY <1>2, <1>3 DEF WindowInv

\* The clock moves, and nothing else the log is about.
LEMMA WindowPasses ==
    ASSUME WindowInv, Pass, UNCHANGED tvars PROVE WindowInv'
<1>1. now' = now + 1 /\ now \in Nat /\ UNCHANGED <<searches, log, stage>>
  BY DEF WindowInv, LogInv, Pass, tvars
<1>2. Window \in Nat /\ Budget \in Nat
  BY Assumptions DEF SourcesAssumption
<1>3. LogInv'
  BY <1>1, <1>2 DEF WindowInv, LogInv, Evicted
<1>4. SearchWindow'
  <2> SUFFICES ASSUME NEW t \in 0 .. now'
               PROVE  Cardinality({i \in 1 .. Len(searches') : searches'[i] \in t .. t + Window})
                         <= Budget
    BY DEF SearchWindow
  <2>1. CASE t \in 0 .. now
    BY <1>1, <2>1 DEF WindowInv, SearchWindow
  <2>2. CASE t = now + 1
    <3>1. {i \in 1 .. Len(searches') : searches'[i] \in t .. t + Window} = {}
      BY <1>1, <2>2 DEF WindowInv, LogInv
    <3>2. Cardinality({}) = 0 /\ 0 <= Budget
      BY <1>2, FS_EmptySet
    <3> QED
      BY <3>1, <3>2, Zenon
  <2> QED
    BY <1>1, <2>1, <2>2
<1> QED
  BY <1>3, <1>4 DEF WindowInv

\* can_proceed(): the log loses records, and a search goes on only below the budget.
LEMMA WindowSearch ==
    ASSUME WindowInv, Search PROVE WindowInv'
<1>1. PICK e \in 0 .. Len(log) :
              /\ Recent \in Seq(Nat) /\ Len(Recent) = Len(log) - e
              /\ \A i \in 1 .. Len(log) - e : Recent[i] = log[e + i]
              /\ \A i \in 1 .. e : log[i] < now - Window
  BY RecentIsLast DEF WindowInv
<1>2. log' = Recent /\ UNCHANGED <<now, searches>>
  BY DEF Search, cvars
<1>3. stage' = "reply" => Len(Recent) + 1 <= Budget
  BY DEF Search
<1>4. SearchWindow'
  BY <1>2 DEF WindowInv, SearchWindow
<1>5. Evicted' = Evicted + e
  BY <1>1, <1>2 DEF WindowInv, LogInv, Evicted
<1>6. Len(log) \in Nat /\ Evicted \in Nat /\ Len(searches) = Evicted + Len(log)
      /\ Len(searches) \in Nat /\ Budget \in Nat /\ now \in Nat /\ Window \in Nat
  BY Assumptions DEF WindowInv, LogInv, Evicted, SourcesAssumption
<1>7. \A i \in 1 .. Len(log') : log'[i] = searches'[Evicted' + i]
  <2> TAKE i \in 1 .. Len(log')
  <2>1. i \in 1 .. Len(log) - e /\ e + i \in 1 .. Len(log)
    BY <1>1, <1>2, <1>6
  <2>2. log'[i] = log[e + i]
    BY <1>1, <1>2, <2>1
  <2>3. log[e + i] = searches[Evicted + (e + i)]
    BY <2>1 DEF WindowInv, LogInv
  <2>4. Evicted + (e + i) = Evicted' + i
    BY <1>5, <1>6, <2>1
  <2> QED
    BY <1>2, <2>2, <2>3, <2>4
<1>8. \A i \in 1 .. Evicted' : searches'[i] < now' - Window
  <2> TAKE i \in 1 .. Evicted'
  <2>1. CASE i \in 1 .. Evicted
    BY <1>2, <2>1 DEF WindowInv, LogInv
  <2>2. CASE i \notin 1 .. Evicted
    <3>1. i - Evicted \in 1 .. e /\ i - Evicted \in 1 .. Len(log)
      BY <1>5, <1>6, <2>2
    <3>2. log[i - Evicted] = searches[Evicted + (i - Evicted)]
      BY <3>1 DEF WindowInv, LogInv
    <3>3. Evicted + (i - Evicted) = i
      BY <1>6
    <3> QED
      BY <1>1, <1>2, <3>1, <3>2, <3>3
  <2> QED
    BY <2>1, <2>2
<1>9. LogInv'
  <2>1. stage' = "reply" => Len(log') < Budget
    BY <1>1, <1>2, <1>3, <1>6
  <2>2. Evicted' \in Nat /\ log' \in Seq(Nat)
    BY <1>1, <1>2, <1>5, <1>6
  <2> QED
    BY <1>2, <1>7, <1>8, <2>1, <2>2 DEF WindowInv, LogInv
<1> QED
  BY <1>4, <1>9 DEF WindowInv

\* record(): one search more, now.
LEMMA WindowRecords ==
    ASSUME WindowInv, stage = "reply", stage' # "reply", UNCHANGED now,
           log' = Append(log, now), searches' = Append(searches, now)
    PROVE  WindowInv'
<1> DEFINE n == Len(searches)
           In(t) == {i \in 1 .. Len(searches) : searches[i] \in t .. t + Window}
<1>1. /\ n \in Nat /\ Len(log) \in Nat /\ Evicted \in Nat /\ n = Evicted + Len(log)
      /\ Len(log) + 1 <= Budget /\ Budget \in Nat /\ now \in Nat /\ Window \in Nat
      /\ searches \in Seq(Nat) /\ log \in Seq(Nat)
  BY Assumptions DEF WindowInv, LogInv, Evicted, SourcesAssumption
<1>2. /\ Len(searches') = n + 1 /\ Len(log') = Len(log) + 1
      /\ searches' \in Seq(Nat) /\ log' \in Seq(Nat)
      /\ searches'[n + 1] = now /\ log'[Len(log) + 1] = now
      /\ \A i \in 1 .. n : searches'[i] = searches[i]
      /\ \A i \in 1 .. Len(log) : log'[i] = log[i]
  <2>1. ASSUME NEW s \in Seq(Nat), NEW t, t = Append(s, now)
        PROVE  /\ Len(t) = Len(s) + 1 /\ t \in Seq(Nat) /\ t[Len(s) + 1] = now
               /\ \A i \in 1 .. Len(s) : t[i] = s[i]
    BY <1>1, <2>1
  <2> QED
    BY <1>1, <2>1
<1>3. Evicted' = Evicted
  BY <1>1, <1>2 DEF Evicted
<1>4. LogInv'
  <2>1. \A i \in 1 .. n + 1 :
           searches'[i] <= now /\ \A j \in 1 .. i : searches'[j] <= searches'[i]
    <3>1. \A i \in 1 .. n : searches[i] <= now /\ \A j \in 1 .. i : searches[j] <= searches[i]
      BY DEF WindowInv, LogInv
    <3>2. \A i \in 1 .. n : searches[i] \in Nat
      BY <1>1
    <3> QED
      BY <1>1, <1>2, <3>1, <3>2
  <2>2. \A i \in 1 .. Len(log) + 1 : log'[i] = searches'[Evicted + i]
    <3>1. \A i \in 1 .. Len(log) : log[i] = searches[Evicted + i] /\ Evicted + i \in 1 .. n
      BY <1>1 DEF WindowInv, LogInv
    <3>2. Evicted + (Len(log) + 1) = n + 1
      BY <1>1
    <3> SUFFICES ASSUME NEW i \in 1 .. Len(log) + 1
                 PROVE  log'[i] = searches'[Evicted + i]
      OBVIOUS
    <3>3. CASE i \in 1 .. Len(log)
      BY <1>2, <3>1, <3>3
    <3>4. CASE i = Len(log) + 1
      BY <1>2, <3>2, <3>4
    <3>5. Len(log) \in Nat
      BY <1>1
    <3>6. i \in 1 .. Len(log) \/ i = Len(log) + 1
      BY <3>5
    <3> QED
      BY <3>3, <3>4, <3>6
  <2>3. \A i \in 1 .. Evicted : searches'[i] < now - Window
    BY <1>1, <1>2 DEF WindowInv, LogInv
  <2> QED
    BY <1>1, <1>2, <1>3, <2>1, <2>2, <2>3 DEF LogInv
<1>5. ASSUME NEW t \in 0 .. now PROVE Cardinality(In(t)') <= Budget
  <2>1. In(t) \subseteq 1 .. n /\ IsFiniteSet(1 .. n)
    BY <1>1, FS_Interval
  <2>2. IsFiniteSet(In(t))
    BY <2>1, FS_Subset
  <2>3. Cardinality(In(t)) \in Nat
    BY <2>2, FS_CardinalityType
  <2>4. CASE now \in t .. t + Window
    <3>1. In(t)' = In(t) \cup {n + 1}
      BY <1>1, <1>2, <2>4
    <3>2. Cardinality(In(t)') <= Cardinality(In(t)) + 1
      <4> HIDE DEF In
      <4>1. Cardinality(In(t) \cup {n + 1}) =
               IF n + 1 \in In(t) THEN Cardinality(In(t)) ELSE Cardinality(In(t)) + 1
        BY <2>2, FS_AddElement
      <4> QED
        BY <2>3, <3>1, <4>1
    <3>3. In(t) \subseteq Evicted + 1 .. n
      <4> SUFFICES ASSUME NEW i \in 1 .. n, searches[i] \in t .. t + Window
                   PROVE  i \in Evicted + 1 .. n
        OBVIOUS
      <4>1. searches[i] >= now - Window
        BY <1>1, <2>4
      <4>2. i \notin 1 .. Evicted
        BY <1>1, <4>1 DEF WindowInv, LogInv
      <4> QED
        <5>1. i \in Nat /\ i >= 1 /\ i <= n
          BY <1>1
        <5>2. Evicted \in Nat /\ n \in Nat
          BY <1>1
        <5> HIDE DEF n
        <5> QED
          BY <4>2, <5>1, <5>2
    <3>4. IsFiniteSet(Evicted + 1 .. n)
          /\ Cardinality(Evicted + 1 .. n) = IF Evicted + 1 > n THEN 0 ELSE n - (Evicted + 1) + 1
      <4>1. Evicted + 1 \in Int /\ n \in Int
        BY <1>1
      <4> QED
        BY <4>1, FS_Interval, Zenon
    <3>5. Cardinality(Evicted + 1 .. n) = Len(log)
      BY <1>1, <3>4
    <3>6. Cardinality(In(t)) <= Len(log)
      BY <3>3, <3>4, <3>5, FS_Subset
    <3>7. Cardinality(In(t)') \in Nat
      <4>1. IsFiniteSet(In(t) \cup {n + 1})
        BY <2>2, FS_AddElement
      <4> QED
        BY <3>1, <4>1, FS_CardinalityType
    <3> HIDE DEF In
    <3> QED
      BY <1>1, <2>3, <3>2, <3>6, <3>7
  <2>5. CASE now \notin t .. t + Window
    <3>1. In(t)' = In(t)
      BY <1>1, <1>2, <2>5, SMTT(30)
    <3> QED
      BY <3>1 DEF WindowInv, SearchWindow
  <2> QED
    BY <2>4, <2>5
<1> QED
  BY <1>4, <1>5 DEF WindowInv, SearchWindow

LEMMA WindowKept == WindowInv /\ [MNext]_mvars => WindowInv'
<1> SUFFICES ASSUME WindowInv, [MNext]_mvars PROVE WindowInv'
  OBVIOUS
<1>1. ASSUME UNCHANGED <<now, log, searches>>, stage' = "reply" => stage = "reply"
      PROVE  WindowInv'
  BY <1>1 DEF WindowInv, LogInv, Evicted, SearchWindow
<1>2. CASE UNCHANGED <<cvars, tvars>>
  BY <1>1, <1>2 DEF cvars, tvars
<1>3. CASE CacheClient /\ UNCHANGED tvars
  <2>1. Pass \/ UNCHANGED now
    BY <1>3 DEF CacheClient, Get, Hit, Miss, Put, Invalidate, Clear
  <2> QED
    BY <1>1, <1>3, <2>1, WindowPasses DEF tvars
<1>4. CASE TNext
  <2>1. CASE Fetch
    <3>1. UNCHANGED <<now, log, searches>> /\ stage = "idle" /\ stage' \in {"idle", "search"}
      BY <2>1 DEF Fetch, Hit, Miss
    <3> QED
      BY <3>1, <1>1
  <2>2. CASE Search
    BY <2>2, WindowSearch
  <2>3. CASE SearchFails
    BY <2>3, <1>1 DEF SearchFails, cvars
  <2>4. CASE SearchReplies
    <3>1. stage = "reply" /\ stage' = "google" /\ UNCHANGED now
          /\ \/ UNCHANGED <<log, searches>>
             \/ log' = Append(log, now) /\ searches' = Append(searches, now)
      BY <2>4 DEF SearchReplies, cvars
    <3> QED
      BY <3>1, <1>1, WindowRecords
  <2>5. CASE Google
    BY <2>5, <1>1 DEF Google, cvars
  <2>6. CASE Deduplicate
    BY <2>6, <1>1 DEF Deduplicate, cvars
  <2>7. CASE Merge
    <3>1. UNCHANGED <<now, log, searches>> /\ stage' = "idle"
      BY <2>7 DEF Merge, Put
    <3> QED
      BY <3>1, <1>1
  <2>8. CASE Pass /\ UNCHANGED tvars
    BY <2>8, WindowPasses
  <2> QED
    BY <1>4, <2>1, <2>2, <2>3, <2>4, <2>5, <2>6, <2>7, <2>8 DEF TNext, TStep
<1> QED
  BY <1>2, <1>3, <1>4, TrendMoves

\* For any budget, window, retries and delays: however long the answer takes between
\* can_proceed() and record(), and whichever records an attempt evicts, no window holds
\* more searches than the budget pays (youtube_search.py:74-89).
THEOREM SearchWindowHolds == MSpec => []SearchWindow
<1>1. WindowInv => SearchWindow
  BY DEF WindowInv
<1> QED
  BY <1>1, WindowInit, WindowKept, PTL DEF MSpec

(***************************************************************************)
(* Sequences that lose and gain elements                                   *)
(***************************************************************************)

\* t is s without the places in at, and e says where an item of t was.
Thins(e, t, s, at) ==
    /\ e \in [1 .. Len(t) -> 1 .. Len(s)]
    /\ \A i \in 1 .. Len(t) : t[i] = s[e[i]] /\ e[i] \notin at /\ i <= e[i]
    /\ \A i, j \in 1 .. Len(t) : i < j => e[i] < e[j]
    /\ \A m \in 1 .. Len(s) : m \in at \/ \E i \in 1 .. Len(t) : e[i] = m

\* What is left of a sequence that loses one element at most.
LEMMA LessIs ==
    ASSUME NEW S, NEW s \in Seq(S), NEW at \in SUBSET (1 .. Len(s)), \A i, j \in at : i = j
    PROVE  /\ Less(s, at) \in Seq(S)
           /\ Len(Less(s, at)) = IF at = {} THEN Len(s) ELSE Len(s) - 1
           /\ \E e : Thins(e, Less(s, at), s, at)
<1> DEFINE t == Less(s, at)
<1>1. CASE at = {}
  <2> DEFINE e == [i \in 1 .. Len(s) |-> i]
  <2>1. t = s
    BY <1>1 DEF Less
  <2>2. Thins(e, s, s, at)
    BY <1>1 DEF Thins
  <2> QED
    BY <1>1, <2>1, <2>2
<1>2. CASE at # {}
  <2>1. PICK p \in 1 .. Len(s) : at = {p}
    BY <1>2
  <2> DEFINE u == SubSeq(s, 1, p - 1)
             v == SubSeq(s, p + 1, Len(s))
             e == [i \in 1 .. Len(s) - 1 |-> IF i < p THEN i ELSE i + 1]
  <2>2. t = u \o v
    BY <2>1 DEF Less, RemoveAt
  <2>3. Len(s) \in Nat
    OBVIOUS
  <2>4. u \in Seq(S) /\ Len(u) = p - 1 /\ \A i \in 1 .. p - 1 : u[i] = s[i]
    BY <2>3
  <2>5. v \in Seq(S) /\ Len(v) = Len(s) - p /\ \A i \in 1 .. Len(s) - p : v[i] = s[p + i]
    BY <2>3
  <2> HIDE DEF t, u, v
  <2>6. t \in Seq(S) /\ Len(t) = Len(s) - 1
    <3>1. u \in Seq(S) /\ v \in Seq(S) /\ Len(u) = p - 1 /\ Len(v) = Len(s) - p
      BY <2>4, <2>5
    <3>2. t \in Seq(S) /\ Len(t) = Len(u) + Len(v)
      BY <2>2, <3>1, ConcatProperties
    <3> QED
      BY <2>3, <3>1, <3>2
  <2>7. \A i \in 1 .. Len(s) - 1 : t[i] = IF i < p THEN u[i] ELSE v[i - (p - 1)]
    BY <2>2, <2>3, <2>4, <2>5
  <2>8. \A i \in 1 .. Len(s) - 1 : t[i] = s[e[i]]
    <3> TAKE i \in 1 .. Len(s) - 1
    <3>1. CASE i < p
      <4>1. i \in 1 .. p - 1
        BY <2>3, <3>1
      <4> QED
        BY <2>4, <2>7, <3>1, <4>1
    <3>2. CASE ~ i < p
      <4>1. i - (p - 1) \in 1 .. Len(s) - p /\ p + (i - (p - 1)) = i + 1
        BY <2>3, <3>2
      <4> QED
        BY <2>5, <2>7, <3>2, <4>1
    <3> QED
      BY <3>1, <3>2
  <2>9. \A i \in 1 .. Len(s) - 1 : e[i] \in 1 .. Len(s) /\ e[i] # p /\ i <= e[i]
    BY <2>3
  <2>10. \A i, j \in 1 .. Len(s) - 1 : i < j => e[i] < e[j]
    BY <2>3
  <2>11. ASSUME NEW m \in 1 .. Len(s), m # p PROVE \E i \in 1 .. Len(s) - 1 : e[i] = m
    <3>1. CASE m < p
      <4>1. m \in 1 .. Len(s) - 1 /\ e[m] = m
        BY <2>3, <3>1
      <4> QED
        BY <4>1
    <3>2. CASE m > p
      <4>1. m - 1 \in 1 .. Len(s) - 1 /\ ~ m - 1 < p /\ m - 1 + 1 = m
        BY <2>3, <3>2
      <4>2. e[m - 1] = m
        BY <4>1
      <4> QED
        BY <4>1, <4>2
    <3> QED
      BY <2>11, <3>1, <3>2
  <2>12. e \in [1 .. Len(s) - 1 -> 1 .. Len(s)]
    BY <2>9
  <2> HIDE DEF e
  <2>13. Thins(e, t, s, at)
    BY <2>1, <2>6, <2>8, <2>9, <2>10, <2>11, <2>12 DEF Thins
  <2> QED
    BY <1>2, <2>6, <2>13 DEF t
<1> QED
  BY <1>1, <1>2

(***************************************************************************)
(* The cache                                                               *)
(***************************************************************************)

\* The cache with values of V.
CacheTypes(Vals) ==
    /\ CTypeOK
    /\ store \in Seq([key : Keys, value : Vals, at : Nat])
    /\ got \in [key : Keys \cup {NoValue}, value : Vals \cup {NoValue}]
    /\ latest \in [Keys -> [value : Vals \cup {NoValue}, at : Nat]]
    /\ touched \in Seq(Keys)
    /\ \A a, b \in 1 .. Len(touched) : touched[a] = touched[b] => a = b

CacheStep(Vals) ==
    \/ \E k \in Keys : Hit(k) \/ Miss(k) \/ Invalidate(k) \/ \E v \in Vals : Put(k, v)
    \/ Clear \/ Pass \/ UNCHANGED cvars

\* Entries s are the last values l that were put, their keys among the keys u
\* that were used.
Stored(s, u, l) ==
    \A i \in 1 .. Len(s) :
        /\ s[i].value = l[s[i].key].value /\ s[i].at = l[s[i].key].at
        /\ \E a \in 1 .. Len(u) : u[a] = s[i].key

\* The entries lie in the order in which their keys were used.
InOrder(s, u) ==
    \A i, j \in 1 .. Len(s), a, b \in 1 .. Len(u) :
        i < j /\ u[a] = s[i].key /\ u[b] = s[j].key => a < b

\* A young key without an entry was followed by as many others as there is room for.
Crowded(s, u, l, t) ==
    \A a \in 1 .. Len(u) :
        l[u[a]].value # NoValue /\ t - l[u[a]].at <= Ttl =>
            \/ \E i \in 1 .. Len(s) : s[i].key = u[a]
            \/ Len(u) - a >= Capacity

Serves == Stored(store, touched, latest) /\ InOrder(store, touched)
          /\ Crowded(store, touched, latest, now)

Answers ==
    got.value # NoValue =>
        /\ got.key \in Keys
        /\ got.value = latest[got.key].value /\ now - latest[got.key].at <= Ttl

LEMMA CacheFacts ==
    ASSUME NEW Vals, CacheTypes(Vals)
    PROVE  /\ Len(store) \in Nat /\ Len(store) <= Capacity /\ Len(touched) \in Nat
           /\ now \in 0 .. MaxTime /\ now \in Nat
           /\ Capacity \in Nat /\ Capacity > 0 /\ Ttl \in Nat /\ MaxTime \in Nat
           /\ \A i \in 1 .. Len(store) : /\ store[i] \in [key : Keys, value : Vals, at : Nat]
                                         /\ store[i].at \in 0 .. now
           /\ \A i, j \in 1 .. Len(store) : store[i].key = store[j].key => i = j
<1>1. IsInjective([i \in 1 .. Len(store) |-> store[i].key])
  BY DEF CacheTypes, CTypeOK
<1>2. \A i, j \in 1 .. Len(store) : store[i].key = store[j].key => i = j
  BY <1>1 DEF IsInjective
<1> QED
  <2>1. Capacity \in Nat /\ Capacity > 0 /\ Ttl \in Nat /\ MaxTime \in Nat
    BY Assumptions DEF CacheAssumption
  <2> DEFINE Held == [key : Keys, value : Vals, at : Nat]
  <2>a. store \in Seq(Held) /\ touched \in Seq(Keys)
    BY DEF CacheTypes
  <2> HIDE DEF Held
  <2>b. Len(store) \in Nat /\ Len(touched) \in Nat
        /\ \A i \in 1 .. Len(store) : store[i] \in Held
    BY <2>a
  <2>2. Len(store) \in Nat /\ Len(touched) \in Nat
        /\ \A i \in 1 .. Len(store) : store[i] \in [key : Keys, value : Vals, at : Nat]
    BY <2>b DEF Held
  <2>3. now \in 0 .. MaxTime /\ Len(store) <= Capacity
        /\ \A i \in 1 .. Len(store) : store[i].at \in 0 .. now
    BY DEF CacheTypes, CTypeOK
  <2> QED
    BY <1>2, <2>1, <2>2, <2>3

\* What is left when k's entry goes.
LEMMA WithoutIs ==
    ASSUME NEW Vals, CacheTypes(Vals), NEW k \in Keys
    PROVE  /\ Without(k) \in Seq([key : Keys, value : Vals, at : Nat])
           /\ Len(Without(k)) = IF Entries(k) = {} THEN Len(store) ELSE Len(store) - 1
           /\ \E e : Thins(e, Without(k), store, Entries(k))
<1>1. store \in Seq([key : Keys, value : Vals, at : Nat])
  BY DEF CacheTypes
<1>2. Entries(k) \in SUBSET (1 .. Len(store)) /\ \A i, j \in Entries(k) : i = j
  BY CacheFacts DEF Entries
<1> QED
  BY <1>1, <1>2, LessIs DEF Without

\* Using k moves it to the end of the keys used, and the others no nearer to it.
LEMMA TouchIs ==
    ASSUME NEW Vals, CacheTypes(Vals), NEW k \in Keys, Touch(k)
    PROVE  /\ touched' \in Seq(Keys)
           /\ Len(touched') \in Nat /\ Len(touched') > 0 /\ Len(touched') >= Len(touched)
           /\ touched'[Len(touched')] = k
           /\ \A a, b \in 1 .. Len(touched') : touched'[a] = touched'[b] => a = b
           /\ \E t, e : /\ Thins(e, t, touched, Uses(k))
                        /\ Len(t) = Len(touched') - 1
                        /\ \A a \in 1 .. Len(t) : touched'[a] = t[a]
<1> DEFINE t == Less(touched, Uses(k))
<1>1. touched \in Seq(Keys) /\ Len(touched) \in Nat
      /\ \A a, b \in 1 .. Len(touched) : touched[a] = touched[b] => a = b
  BY DEF CacheTypes
<1>2. Uses(k) \in SUBSET (1 .. Len(touched)) /\ \A i, j \in Uses(k) : i = j
  BY <1>1 DEF Uses
<1>3. \A m \in 1 .. Len(touched) : m \in Uses(k) <=> touched[m] = k
  BY DEF Uses
<1>4. t \in Seq(Keys) /\ Len(t) = IF Uses(k) = {} THEN Len(touched) ELSE Len(touched) - 1
  BY <1>1, <1>2, LessIs
<1>5. PICK e : Thins(e, t, touched, Uses(k))
  BY <1>1, <1>2, LessIs
<1>6. touched' = Append(t, k)
  BY DEF Touch
<1> HIDE DEF t
<1>7. touched' \in Seq(Keys) /\ Len(touched') = Len(t) + 1 /\ Len(t) \in Nat
      /\ touched'[Len(t) + 1] = k /\ \A a \in 1 .. Len(t) : touched'[a] = t[a]
  BY <1>4, <1>6
<1>8. Len(touched') >= Len(touched) /\ Len(touched') - 1 = Len(t)
  BY <1>1, <1>4, <1>7
<1>9. \A a \in 1 .. Len(t) : touched'[a] = touched[e[a]] /\ touched[e[a]] # k
  BY <1>3, <1>5, <1>7 DEF Thins
<1>10. \A a, b \in 1 .. Len(touched') : touched'[a] = touched'[b] => a = b
  <2> SUFFICES ASSUME NEW a \in 1 .. Len(touched'), NEW b \in 1 .. Len(touched'),
                      touched'[a] = touched'[b]
               PROVE  a = b
    OBVIOUS
  <2>1. a \in 1 .. Len(t) \/ a = Len(t) + 1
    BY <1>7
  <2>2. b \in 1 .. Len(t) \/ b = Len(t) + 1
    BY <1>7
  <2>3. CASE a \in 1 .. Len(t) /\ b \in 1 .. Len(t)
    <3>1. e[a] \in 1 .. Len(touched) /\ e[b] \in 1 .. Len(touched)
      BY <1>5, <2>3 DEF Thins
    <3>2. e[a] = e[b]
      BY <1>1, <1>9, <2>3, <3>1
    <3>3. ~ a < b /\ ~ b < a
      BY <1>5, <2>3, <3>1, <3>2 DEF Thins
    <3> QED
      BY <2>3, <3>3
  <2>4. a = Len(t) + 1 <=> b = Len(t) + 1
    BY <1>7, <1>9, <2>1, <2>2
  <2> QED
    BY <2>1, <2>2, <2>3, <2>4
<1> QED
  BY <1>5, <1>7, <1>8, <1>10

\* As many different places as there are items.
LEMMA Fits ==
    ASSUME NEW n \in Nat, NEW a \in Nat, NEW b \in Nat, a <= b,
           NEW g \in [1 .. n -> a + 1 .. b], \A i, j \in 1 .. n : g[i] = g[j] => i = j
    PROVE  n <= b - a
<1>1. IsFiniteSet(a + 1 .. b) /\ Cardinality(a + 1 .. b) = b - a
  <2>1. a + 1 \in Int /\ b \in Int
    OBVIOUS
  <2>2. IsFiniteSet(a + 1 .. b)
        /\ Cardinality(a + 1 .. b) = IF a + 1 > b THEN 0 ELSE b - (a + 1) + 1
    BY <2>1, FS_Interval, Zenon
  <2> QED
    BY <2>2
<1>2. Cardinality(1 .. n) = n
  BY FS_Interval
<1>3. g \in Injection(1 .. n, a + 1 .. b)
  BY DEF Injection, IsInjective
<1>4. Cardinality(1 .. n) <= Cardinality(a + 1 .. b)
  BY <1>1, <1>3, FS_Injection
<1> QED
  BY <1>1, <1>2, <1>4

\* u2 is u with k moved to the end, s2 is s with k's entry at the end and without
\* the first one of the others perhaps; f and e say where the items were.
Moved(f, u2, u, k) ==
    /\ Len(u2) \in Nat /\ Len(u) \in Nat /\ Len(u2) > 0 /\ Len(u) <= Len(u2)
    /\ f \in [1 .. Len(u2) - 1 -> 1 .. Len(u)]
    /\ u2[Len(u2)] = k
    /\ \A a \in 1 .. Len(u2) - 1 : u2[a] = u[f[a]] /\ u2[a] # k /\ a <= f[a]
    /\ \A a, b \in 1 .. Len(u2) - 1 : f[a] < f[b] => a < b
    /\ \A a \in 1 .. Len(u) : u[a] = k \/ \E b \in 1 .. Len(u2) - 1 : f[b] = a

Filled(e, s2, s, k) ==
    /\ Len(s2) \in Nat /\ Len(s) \in Nat /\ Len(s2) > 0 /\ Len(s2) <= Capacity
    /\ e \in [1 .. Len(s2) - 1 -> 1 .. Len(s)]
    /\ s2[Len(s2)].key = k
    /\ \A i \in 1 .. Len(s2) - 1 : s2[i] = s[e[i]] /\ s2[i].key # k
    /\ \A i, j \in 1 .. Len(s2) - 1 : i < j => e[i] < e[j]
    /\ \A m \in 1 .. Len(s) :
          \/ s[m].key = k \/ \E i \in 1 .. Len(s2) - 1 : e[i] = m
          \/ Len(s2) = Capacity /\ \A i \in 1 .. Len(s2) - 1 : m < e[i]

LEMMA LastOrNot ==
    ASSUME NEW n \in Nat, NEW i \in 1 .. n PROVE i \in 1 .. n - 1 \/ i = n
OBVIOUS

LEMMA UsesStored ==
    ASSUME NEW s, NEW s2, NEW u, NEW u2, NEW l, NEW l2, NEW e, NEW f, NEW k,
           Moved(f, u2, u, k), Filled(e, s2, s, k), Stored(s, u, l),
           \A i \in 1 .. Len(s2) - 1 : l2[s2[i].key] = l[s2[i].key],
           s2[Len(s2)].value = l2[k].value, s2[Len(s2)].at = l2[k].at
    PROVE  Stored(s2, u2, l2)
<1>1. SUFFICES ASSUME NEW i \in 1 .. Len(s2)
               PROVE  /\ s2[i].value = l2[s2[i].key].value /\ s2[i].at = l2[s2[i].key].at
                      /\ \E a \in 1 .. Len(u2) : u2[a] = s2[i].key
  BY DEF Stored
<1>2. i \in 1 .. Len(s2) - 1 \/ i = Len(s2)
  BY LastOrNot DEF Filled
<1>3. CASE i \in 1 .. Len(s2) - 1
  <2>1. s2[i] = s[e[i]] /\ e[i] \in 1 .. Len(s) /\ s2[i].key # k
    BY <1>3 DEF Filled
  <2>2. PICK a \in 1 .. Len(u) : u[a] = s2[i].key
    BY <2>1 DEF Stored
  <2>3. PICK b \in 1 .. Len(u2) - 1 : f[b] = a
    BY <2>1, <2>2 DEF Moved
  <2>4. u2[b] = s2[i].key
    BY <2>2, <2>3 DEF Moved
  <2>5. b \in 1 .. Len(u2)
    BY <2>3 DEF Moved
  <2>6. s2[i].value = l[s2[i].key].value /\ s2[i].at = l[s2[i].key].at
    BY <2>1 DEF Stored
  <2> QED
    BY <1>3, <2>4, <2>5, <2>6
<1>4. CASE i = Len(s2)
  <2>1. Len(u2) \in 1 .. Len(u2) /\ u2[Len(u2)] = k /\ s2[i].key = k
    BY <1>4 DEF Moved, Filled
  <2> QED
    BY <1>4, <2>1
<1> QED
  BY <1>2, <1>3, <1>4

\* Whatever of the others is where: an earlier one was earlier.
LEMMA UsedEarlier ==
    ASSUME NEW s, NEW s2, NEW u, NEW u2, NEW e, NEW f, NEW k,
           Moved(f, u2, u, k), Filled(e, s2, s, k), InOrder(s, u),
           NEW m \in 1 .. Len(s), NEW a \in 1 .. Len(u2) - 1, u[f[a]] = s[m].key,
           NEW j \in 1 .. Len(s2), NEW b \in 1 .. Len(u2), u2[b] = s2[j].key,
           j \in 1 .. Len(s2) - 1 => m < e[j]
    PROVE  a < b
<1>1. j \in 1 .. Len(s2) - 1 \/ j = Len(s2)
  BY LastOrNot DEF Filled
<1>2. b \in 1 .. Len(u2) - 1 \/ b = Len(u2)
  BY LastOrNot DEF Moved
<1>3. CASE j \in 1 .. Len(s2) - 1
  <2>1. s2[j] = s[e[j]] /\ e[j] \in 1 .. Len(s) /\ s2[j].key # k /\ m < e[j]
    BY <1>3 DEF Filled
  <2>2. b \in 1 .. Len(u2) - 1
    BY <1>2, <2>1 DEF Moved
  <2>3. f[a] \in 1 .. Len(u) /\ f[b] \in 1 .. Len(u) /\ u[f[b]] = s[e[j]].key
    BY <2>1, <2>2 DEF Moved
  <2>4. f[a] < f[b]
    BY <2>1, <2>3 DEF InOrder
  <2> QED
    BY <2>2, <2>4 DEF Moved
<1>4. CASE j = Len(s2)
  <2>1. u2[b] = k
    BY <1>4 DEF Filled
  <2>2. b = Len(u2)
    BY <1>2, <2>1 DEF Moved
  <2> QED
    BY <2>2 DEF Moved
<1> QED
  BY <1>1, <1>3, <1>4

LEMMA UsesInOrder ==
    ASSUME NEW s, NEW s2, NEW u, NEW u2, NEW e, NEW f, NEW k,
           Moved(f, u2, u, k), Filled(e, s2, s, k), InOrder(s, u)
    PROVE  InOrder(s2, u2)
<1> SUFFICES ASSUME NEW i \in 1 .. Len(s2), NEW j \in 1 .. Len(s2), i < j,
                    NEW a \in 1 .. Len(u2), NEW b \in 1 .. Len(u2),
                    u2[a] = s2[i].key, u2[b] = s2[j].key
             PROVE  a < b
  BY DEF InOrder
<1>1. i \in 1 .. Len(s2) - 1
  BY DEF Filled
<1>2. s2[i] = s[e[i]] /\ e[i] \in 1 .. Len(s) /\ s2[i].key # k
  BY <1>1 DEF Filled
<1>3. a \in 1 .. Len(u2) - 1 \/ a = Len(u2)
  BY LastOrNot DEF Moved
<1>4. a \in 1 .. Len(u2) - 1
  BY <1>2, <1>3 DEF Moved
<1>5. u[f[a]] = s[e[i]].key
  BY <1>2, <1>4 DEF Moved
<1>6. j \in 1 .. Len(s2) - 1 => e[i] < e[j]
  BY <1>1 DEF Filled
<1> QED
  BY <1>2, <1>4, <1>5, <1>6, UsedEarlier, SMTT(30)

LEMMA UsesCrowded ==
    ASSUME NEW s, NEW s2, NEW u, NEW u2, NEW l, NEW l2, NEW t, NEW e, NEW f, NEW k,
           Moved(f, u2, u, k), Filled(e, s2, s, k), Capacity \in Nat,
           InOrder(s, u), Stored(s2, u2, l2), Crowded(s, u, l, t),
           \A i, j \in 1 .. Len(s2) : s2[i].key = s2[j].key => i = j,
           \A a \in 1 .. Len(u2) - 1 : l2[u2[a]] = l[u2[a]]
    PROVE  Crowded(s2, u2, l2, t)
<1> SUFFICES ASSUME NEW a \in 1 .. Len(u2),
                    l2[u2[a]].value # NoValue, t - l2[u2[a]].at <= Ttl,
                    \A i \in 1 .. Len(s2) : s2[i].key # u2[a]
             PROVE  Len(u2) - a >= Capacity
  BY DEF Crowded
<1>1. Len(s2) \in 1 .. Len(s2) /\ s2[Len(s2)].key = k /\ u2[Len(u2)] = k
  BY DEF Filled, Moved
<1>2. a \in 1 .. Len(u2) - 1 \/ a = Len(u2)
  BY LastOrNot DEF Moved
<1>3. a \in 1 .. Len(u2) - 1 /\ u2[a] # k
  BY <1>1, <1>2
<1>4. u2[a] = u[f[a]] /\ f[a] \in 1 .. Len(u) /\ a <= f[a]
  BY <1>3 DEF Moved
<1>5. l2[u2[a]] = l[u[f[a]]]
  BY <1>3, <1>4
<1>6. \/ \E m \in 1 .. Len(s) : s[m].key = u[f[a]]
      \/ Len(u) - f[a] >= Capacity
  BY <1>4, <1>5 DEF Crowded
<1>7. CASE Len(u) - f[a] >= Capacity
  BY <1>3, <1>4, <1>7 DEF Moved
<1>8. CASE \E m \in 1 .. Len(s) : s[m].key = u[f[a]]
  <2>1. PICK m \in 1 .. Len(s) : s[m].key = u[f[a]]
    BY <1>8
  <2>2. \A i \in 1 .. Len(s2) - 1 : i \in 1 .. Len(s2)
    BY DEF Filled
  <2>3. ASSUME NEW i \in 1 .. Len(s2) - 1 PROVE e[i] # m
    <3>1. s2[i] = s[e[i]] /\ s2[i].key # u2[a]
      BY <2>2 DEF Filled
    <3> QED
      BY <1>4, <2>1, <3>1
  <2>4. Len(s2) = Capacity /\ \A i \in 1 .. Len(s2) - 1 : m < e[i]
    BY <1>3, <1>4, <2>1, <2>3 DEF Filled
  <2> DEFINE g == [i \in 1 .. Len(s2) |-> CHOOSE b \in 1 .. Len(u2) : u2[b] = s2[i].key]
  <2>5. \A i \in 1 .. Len(s2) : g[i] \in 1 .. Len(u2) /\ u2[g[i]] = s2[i].key
    BY DEF Stored
  <2>6. g = [i \in 1 .. Len(s2) |-> g[i]]
    OBVIOUS
  <2> HIDE DEF g
  <2>7. ASSUME NEW i \in 1 .. Len(s2) PROVE a < g[i]
    <3>1. i \in 1 .. Len(s2) - 1 => m < e[i]
      BY <2>4
    <3>2. g[i] \in 1 .. Len(u2) /\ u2[g[i]] = s2[i].key
      BY <2>5
    <3> QED
      BY <1>3, <2>1, <3>1, <3>2, UsedEarlier
  <2>8. Len(u2) \in Nat /\ a \in Nat /\ a <= Len(u2) /\ Len(s2) \in Nat
    BY DEF Moved, Filled
  <2>9. \A i \in 1 .. Len(s2) : g[i] \in a + 1 .. Len(u2)
    BY <2>5, <2>7, <2>8
  <2>10. g \in [1 .. Len(s2) -> a + 1 .. Len(u2)]
    BY <2>6, <2>9
  <2>11. \A i, j \in 1 .. Len(s2) : g[i] = g[j] => i = j
    BY <2>5
  <2>12. Len(s2) <= Len(u2) - a
    BY <2>8, <2>10, <2>11, Fits
  <2> QED
    BY <2>4, <2>8, <2>12
<1> QED
  BY <1>6, <1>7, <1>8

LEMMA TouchMoves ==
    ASSUME NEW Vals, CacheTypes(Vals), NEW k \in Keys, Touch(k)
    PROVE  \E f : Moved(f, touched', touched, k)
<1>1. PICK t, f : /\ Thins(f, t, touched, Uses(k))
                  /\ Len(t) = Len(touched') - 1
                  /\ \A a \in 1 .. Len(t) : touched'[a] = t[a]
  BY TouchIs
<1>2. /\ Len(touched') \in Nat /\ Len(touched) \in Nat
      /\ Len(touched') > 0 /\ Len(touched) <= Len(touched') /\ touched'[Len(touched')] = k
  BY TouchIs, CacheFacts
<1>3. \A a \in 1 .. Len(touched) : a \in Uses(k) <=> touched[a] = k
  BY DEF Uses
<1>4. f \in [1 .. Len(touched') - 1 -> 1 .. Len(touched)]
  BY <1>1 DEF Thins
<1>5. \A a \in 1 .. Len(touched') - 1 :
         touched'[a] = touched[f[a]] /\ touched'[a] # k /\ a <= f[a]
  BY <1>1, <1>3, <1>4 DEF Thins
<1>6. \A a, b \in 1 .. Len(touched') - 1 : f[a] < f[b] => a < b
  <2> SUFFICES ASSUME NEW a \in 1 .. Len(touched') - 1, NEW b \in 1 .. Len(touched') - 1,
                      ~ a < b
               PROVE  ~ f[a] < f[b]
    OBVIOUS
  <2>1. f[a] \in Int /\ f[b] \in Int /\ a \in Int /\ b \in Int
    BY <1>4
  <2>2. b < a => f[b] < f[a]
    BY <1>1 DEF Thins
  <2> QED
    BY <2>1, <2>2
<1>7. \A a \in 1 .. Len(touched) :
         touched[a] = k \/ \E b \in 1 .. Len(touched') - 1 : f[b] = a
  BY <1>1, <1>3 DEF Thins
<1> QED
  BY <1>2, <1>4, <1>5, <1>6, <1>7 DEF Moved

LEMMA UsesDiffer ==
    ASSUME NEW s, NEW s2, NEW e, NEW k, Filled(e, s2, s, k),
           \A i, j \in 1 .. Len(s) : s[i].key = s[j].key => i = j
    PROVE  \A i, j \in 1 .. Len(s2) : s2[i].key = s2[j].key => i = j
<1> SUFFICES ASSUME NEW i \in 1 .. Len(s2), NEW j \in 1 .. Len(s2), s2[i].key = s2[j].key
             PROVE  i = j
  OBVIOUS
<1>1. (i \in 1 .. Len(s2) - 1 \/ i = Len(s2)) /\ (j \in 1 .. Len(s2) - 1 \/ j = Len(s2))
  BY LastOrNot DEF Filled
<1>2. CASE i \in 1 .. Len(s2) - 1 /\ j \in 1 .. Len(s2) - 1
  <2>1. s2[i] = s[e[i]] /\ e[i] \in 1 .. Len(s) /\ s2[j] = s[e[j]] /\ e[j] \in 1 .. Len(s)
    BY <1>2 DEF Filled
  <2>2. e[i] = e[j]
    BY <2>1
  <2>3. (i < j => e[i] < e[j]) /\ (j < i => e[j] < e[i])
    BY <1>2 DEF Filled
  <2> QED
    BY <1>2, <2>1, <2>2, <2>3
<1>3. i = Len(s2) <=> j = Len(s2)
  <2>1. s2[Len(s2)].key = k
    BY DEF Filled
  <2>2. i \in 1 .. Len(s2) - 1 => s2[i].key # k
    BY DEF Filled
  <2>3. j \in 1 .. Len(s2) - 1 => s2[j].key # k
    BY DEF Filled
  <2> QED
    BY <1>1, <2>1, <2>2, <2>3
<1> QED
  BY <1>1, <1>2, <1>3

\* A hit or a put: k's entry comes last, and of the others the front one goes at
\* most, when the cache is full.
LEMMA CacheUses ==
    ASSUME NEW Vals, CacheTypes(Vals), Serves, NEW k \in Keys, Touch(k), now' = now,
           NEW e, Filled(e, store', store, k),
           store' \in Seq([key : Keys, value : Vals, at : Nat]),
           store'[Len(store')].at \in 0 .. now,
           store'[Len(store')].value = latest'[k].value,
           store'[Len(store')].at = latest'[k].at,
           latest' \in [Keys -> [value : Vals \cup {NoValue}, at : Nat]],
           \A x \in Keys : x # k => latest'[x] = latest[x],
           got' \in [key : Keys \cup {NoValue}, value : Vals \cup {NoValue}]
    PROVE  CacheTypes(Vals)' /\ Serves'
<1>1. PICK f : Moved(f, touched', touched, k)
  BY TouchMoves
<1>2. \A i \in 1 .. Len(store') : i \in 1 .. Len(store') - 1 \/ i = Len(store')
  BY LastOrNot DEF Filled
<1>3. \A i \in 1 .. Len(store') - 1 :
         /\ e[i] \in 1 .. Len(store) /\ store'[i] = store[e[i]] /\ store'[i].key # k
  BY DEF Filled
<1>4. /\ \A i \in 1 .. Len(store) : store[i].key \in Keys /\ store[i].at \in 0 .. now
      /\ \A i, j \in 1 .. Len(store) : store[i].key = store[j].key => i = j
  BY CacheFacts
<1>5. \A i, j \in 1 .. Len(store') : store'[i].key = store'[j].key => i = j
  BY <1>4, UsesDiffer
<1>6. CacheTypes(Vals)'
  <2>1. IsInjective([i \in 1 .. Len(store') |-> store'[i].key])
    BY <1>5 DEF IsInjective
  <2>2. store'[Len(store')].key = k /\ Len(store') <= Capacity
    BY DEF Filled
  <2>3. \A i \in 1 .. Len(store') : store'[i].key \in Keys /\ store'[i].at \in 0 .. now
    <3> TAKE i \in 1 .. Len(store')
    <3>1. CASE i \in 1 .. Len(store') - 1
      BY <1>3, <1>4, <3>1
    <3>2. CASE i = Len(store')
      BY <2>2, <3>2
    <3> QED
      BY <1>2, <3>1, <3>2
  <2>4. now \in 0 .. MaxTime
    BY CacheFacts
  <2>5. CTypeOK'
    BY <2>1, <2>2, <2>3, <2>4 DEF CTypeOK
  <2>6. touched' \in Seq(Keys) /\ \A a, b \in 1 .. Len(touched') : touched'[a] = touched'[b] => a = b
    BY TouchIs
  <2> QED
    BY <2>5, <2>6 DEF CacheTypes
<1>7. \A i \in 1 .. Len(store') - 1 : latest'[store'[i].key] = latest[store'[i].key]
  <2> TAKE i \in 1 .. Len(store') - 1
  <2>1. store'[i].key \in Keys /\ store'[i].key # k
    BY <1>3, <1>4
  <2> QED
    BY <2>1
<1>8. Stored(store', touched', latest')
  BY <1>1, <1>7, UsesStored DEF Serves
<1>9. InOrder(store', touched')
  BY <1>1, UsesInOrder DEF Serves
<1>10. \A a \in 1 .. Len(touched') - 1 : latest'[touched'[a]] = latest[touched'[a]]
  <2>1. touched' \in Seq(Keys)
    BY TouchIs
  <2>2. \A a \in 1 .. Len(touched') : touched'[a] \in Keys
    BY <2>1
  <2>3. \A a \in 1 .. Len(touched') - 1 : a \in 1 .. Len(touched')
    BY <2>1
  <2>4. \A a \in 1 .. Len(touched') - 1 : touched'[a] # k
    BY <1>1 DEF Moved
  <2> QED
    BY <2>2, <2>3, <2>4
<1>11. Crowded(store', touched', latest', now')
  <2>1. Capacity \in Nat
    BY CacheFacts
  <2> QED
    BY <1>1, <1>5, <1>8, <1>10, <2>1, UsesCrowded DEF Serves
<1> QED
  BY <1>6, <1>8, <1>9, <1>11 DEF Serves

LEMMA FilledFrom ==
    ASSUME NEW n \in Nat, NEW s, NEW s2, NEW e, NEW k, Len(s2) = n + 1, n + 1 <= Capacity,
           Len(s) \in Nat, e \in [1 .. n -> 1 .. Len(s)], s2[n + 1].key = k,
           \A i \in 1 .. n : s2[i] = s[e[i]] /\ s2[i].key # k,
           \A i, j \in 1 .. n : i < j => e[i] < e[j],
           \A m \in 1 .. Len(s) :
              \/ s[m].key = k \/ \E i \in 1 .. n : e[i] = m
              \/ n + 1 = Capacity /\ \A i \in 1 .. n : m < e[i]
    PROVE  Filled(e, s2, s, k)
<1>1. n = Len(s2) - 1
  OBVIOUS
<1>2. Len(s2) \in Nat /\ Len(s2) > 0 /\ Len(s2) <= Capacity /\ s2[Len(s2)].key = k
  OBVIOUS
<1>3. e \in [1 .. Len(s2) - 1 -> 1 .. Len(s)]
  BY <1>1, Zenon
<1>4. /\ \A i \in 1 .. Len(s2) - 1 : s2[i] = s[e[i]] /\ s2[i].key # k
      /\ \A i, j \in 1 .. Len(s2) - 1 : i < j => e[i] < e[j]
  BY <1>1, Zenon
<1>5. \A m \in 1 .. Len(s) :
              \/ s[m].key = k \/ \E i \in 1 .. Len(s2) - 1 : e[i] = m
              \/ Len(s2) = Capacity /\ \A i \in 1 .. Len(s2) - 1 : m < e[i]
  BY <1>1, Zenon
<1> QED
  BY <1>2, <1>3, <1>4, <1>5, Zenon DEF Filled

\* What put() keeps, and a hit.
Trimmed(t) == IF Len(t) > Capacity THEN Tail(t) ELSE t

\* What a hit or a put leaves of the others.
LEMMA Fills ==
    ASSUME NEW S, NEW s, NEW w \in Seq(S), NEW x \in S, NEW s2, NEW e, NEW at,
           Thins(e, w, s, at), \A m \in 1 .. Len(s) : m \in at => s[m].key = x.key,
           \A m \in 1 .. Len(s) : s[m].key = x.key => m \in at,
           Len(s) \in Nat, Capacity \in Nat \ {0}, Len(w) <= Capacity,
           s2 = Trimmed(Append(w, x))
    PROVE  s2 \in Seq(S) /\ s2[Len(s2)] = x /\ \E d : Filled(d, s2, s, x.key)
<1> DEFINE n == Len(w)
           k == x.key
           t == Append(w, x)
<1>1. n \in Nat
  OBVIOUS
<1>2. t \in Seq(S) /\ Len(t) = n + 1 /\ t[n + 1] = x /\ \A i \in 1 .. n : t[i] = w[i]
  OBVIOUS
<1>3. /\ e \in [1 .. n -> 1 .. Len(s)]
      /\ \A i \in 1 .. n : w[i] = s[e[i]] /\ w[i].key # k
      /\ \A i, j \in 1 .. n : i < j => e[i] < e[j]
      /\ \A m \in 1 .. Len(s) : s[m].key = k \/ \E i \in 1 .. n : e[i] = m
  <2>1. /\ e \in [1 .. n -> 1 .. Len(s)]
        /\ \A i \in 1 .. n : w[i] = s[e[i]] /\ e[i] \notin at
        /\ \A i, j \in 1 .. n : i < j => e[i] < e[j]
        /\ \A m \in 1 .. Len(s) : m \in at \/ \E i \in 1 .. n : e[i] = m
    BY DEF Thins
  <2> HIDE DEF n
  <2>2. \A i \in 1 .. n : e[i] \in 1 .. Len(s)
    BY <2>1
  <2> QED
    BY <2>1, <2>2
<1> HIDE DEF n, t
<1>4. CASE n + 1 <= Capacity
  <2>1. s2 = t
    BY <1>1, <1>2, <1>4 DEF t, Trimmed
  <2>2. s2 \in Seq(S) /\ Len(s2) = n + 1 /\ s2[n + 1] = x /\ \A i \in 1 .. n : s2[i] = w[i]
    BY <1>2, <2>1
  <2>3. \A i \in 1 .. n : s2[i] = s[e[i]] /\ s2[i].key # k
    BY <1>3, <2>2
  <2>4. Filled(e, s2, s, k)
    BY <1>1, <1>3, <1>4, <2>2, <2>3, FilledFrom
  <2> QED
    BY <2>2, <2>4
<1>5. CASE ~ n + 1 <= Capacity
  <2>1. n = Capacity /\ n > 0 /\ n - 1 \in Nat
    BY <1>1, <1>5 DEF n
  <2>2. s2 = Tail(t)
    BY <1>1, <1>2, <1>5, <2>1 DEF t, Trimmed
  <2>3. s2 \in Seq(S) /\ Len(s2) = n /\ \A i \in 1 .. n : s2[i] = t[i + 1]
    <3>1. t \in Seq(S) /\ Len(t) = n + 1 /\ n + 1 > 0
      BY <1>2, <2>1
    <3>2. t # <<>>
      BY <3>1
    <3>3. Tail(t) \in Seq(S) /\ Len(Tail(t)) = Len(t) - 1
          /\ \A i \in 1 .. Len(Tail(t)) : Tail(t)[i] = t[i + 1]
      BY <3>1, <3>2, HeadTailProperties
    <3>4. Len(t) - 1 = n
      BY <2>1, <3>1
    <3> QED
      BY <2>2, <3>3, <3>4
  <2>4. \A i \in 1 .. n - 1 : i \in 1 .. n /\ i + 1 \in 1 .. n
    BY <2>1
  <2>5. s2[n] = x /\ \A i \in 1 .. n - 1 : s2[i] = w[i + 1]
    BY <1>2, <2>1, <2>3, <2>4
  <2> DEFINE d == [i \in 1 .. n - 1 |-> e[i + 1]]
  <2>6. d \in [1 .. n - 1 -> 1 .. Len(s)]
    <3>1. \A i \in 1 .. n - 1 : e[i + 1] \in 1 .. Len(s)
      BY <1>3, <2>4
    <3> QED
      BY <3>1
  <2>7. \A i \in 1 .. n - 1 : s2[i] = s[d[i]] /\ s2[i].key # k
    <3> TAKE i \in 1 .. n - 1
    <3>1. s2[i] = w[i + 1] /\ i + 1 \in 1 .. n
      BY <2>4, <2>5
    <3>2. d[i] = e[i + 1]
      OBVIOUS
    <3> QED
      BY <1>3, <3>1, <3>2
  <2>8. \A i, j \in 1 .. n - 1 : i < j => d[i] < d[j]
    <3> SUFFICES ASSUME NEW i \in 1 .. n - 1, NEW j \in 1 .. n - 1, i < j PROVE d[i] < d[j]
      OBVIOUS
    <3>1. i + 1 < j + 1
      BY <2>1
    <3> QED
      BY <1>3, <2>4, <3>1
  <2>9. ASSUME NEW m \in 1 .. Len(s)
        PROVE  \/ s[m].key = k \/ \E i \in 1 .. n - 1 : d[i] = m
               \/ \A i \in 1 .. n - 1 : m < d[i]
    <3>1. s[m].key = k \/ \E i \in 1 .. n : e[i] = m
      BY <1>3
    <3>2. ASSUME NEW i \in 1 .. n, e[i] = m, i # 1 PROVE \E j \in 1 .. n - 1 : d[j] = m
      <4>1. i - 1 \in 1 .. n - 1 /\ (i - 1) + 1 = i
        BY <2>1, <3>2
      <4>2. d[i - 1] = m
        BY <3>2, <4>1
      <4> QED
        BY <4>1, <4>2
    <3>3. ASSUME e[1] = m PROVE \A i \in 1 .. n - 1 : m < d[i]
      <4>1. 1 \in 1 .. n /\ \A i \in 1 .. n - 1 : 1 < i + 1
        BY <2>1
      <4>2. \A i \in 1 .. n - 1 : e[1] < e[i + 1]
        BY <1>3, <2>4, <4>1
      <4> QED
        BY <3>3, <4>2
    <3> QED
      BY <3>1, <3>2, <3>3
  <2> HIDE DEF d
  <2>10. Filled(d, s2, s, k)
    <3>1. Len(s2) = n /\ s2[n].key = k /\ n \in Nat /\ n > 0 /\ n <= Capacity
      BY <2>1, <2>3, <2>5
    <3>2. Len(s2) \in Nat /\ Len(s2) > 0 /\ Len(s2) <= Capacity /\ s2[Len(s2)].key = k
      BY <3>1
    <3>3. d \in [1 .. Len(s2) - 1 -> 1 .. Len(s)]
      BY <2>6, <3>1, Zenon
    <3>4. /\ \A i \in 1 .. Len(s2) - 1 : s2[i] = s[d[i]] /\ s2[i].key # k
          /\ \A i, j \in 1 .. Len(s2) - 1 : i < j => d[i] < d[j]
      BY <2>7, <2>8, <3>1, Zenon
    <3>5. \A m \in 1 .. Len(s) :
             \/ s[m].key = k \/ \E i \in 1 .. Len(s2) - 1 : d[i] = m
             \/ Len(s2) = Capacity /\ \A i \in 1 .. Len(s2) - 1 : m < d[i]
      BY <2>1, <2>9, <3>1, Zenon
    <3> QED
      BY <3>2, <3>3, <3>4, <3>5, Zenon DEF Filled
  <2> QED
    BY <2>3, <2>5, <2>10
<1> QED
  BY <1>4, <1>5

LEMMA EntryIs ==
    ASSUME NEW Vals, CacheTypes(Vals), NEW k \in Keys, Entries(k) # {}
    PROVE  \E m \in 1 .. Len(store) : store[m] = Entry(k) /\ store[m].key = k
BY DEF Entries, Entry

LEMMA UseServes ==
    ASSUME NEW Vals, CacheTypes(Vals), Serves, NEW k \in Keys, Touch(k), now' = now,
           NEW x \in [key : Keys, value : Vals, at : Nat], x.key = k, x.at <= now,
           store' = Trimmed(Append(Without(k), x)),
           x.value = latest'[k].value, x.at = latest'[k].at,
           latest' \in [Keys -> [value : Vals \cup {NoValue}, at : Nat]],
           \A y \in Keys : y # k => latest'[y] = latest[y],
           got' \in [key : Keys \cup {NoValue}, value : Vals \cup {NoValue}]
    PROVE  CacheTypes(Vals)' /\ Serves'
<1> DEFINE Held == [key : Keys, value : Vals, at : Nat]
<1>1. Without(k) \in Seq(Held)
      /\ Len(Without(k)) = IF Entries(k) = {} THEN Len(store) ELSE Len(store) - 1
  BY WithoutIs
<1>2. PICK e : Thins(e, Without(k), store, Entries(k))
  BY WithoutIs
<1>3. \A m \in 1 .. Len(store) : m \in Entries(k) <=> store[m].key = k
  BY DEF Entries
<1>4. Len(store) \in Nat /\ Capacity \in Nat \ {0} /\ Len(store) <= Capacity /\ now \in Nat
  BY CacheFacts
<1>5. Len(Without(k)) <= Capacity
  BY <1>1, <1>4
<1> HIDE DEF Held
<1>6. x \in Held
  BY DEF Held
<1>8. store' \in Seq(Held) /\ store'[Len(store')] = x /\ \E d : Filled(d, store', store, k)
  <2>1. \A m \in 1 .. Len(store) : m \in Entries(k) => store[m].key = x.key
    BY <1>3
  <2>2. \A m \in 1 .. Len(store) : store[m].key = x.key => m \in Entries(k)
    BY <1>3
  <2>3. store' = Trimmed(Append(Without(k), x)) /\ Without(k) \in Seq(Held)
    BY <1>1
  <2>4. store' \in Seq(Held) /\ store'[Len(store')] = x /\ \E d : Filled(d, store', store, x.key)
    BY <1>2, <1>4, <1>5, <1>6, <2>1, <2>2, <2>3, Fills
  <2> QED
    BY <2>4
<1>9. PICK d : Filled(d, store', store, k)
  BY <1>8
<1>10. x.at \in 0 .. now
  BY <1>4
<1>11. /\ store'[Len(store')].at \in 0 .. now
       /\ store'[Len(store')].value = latest'[k].value
       /\ store'[Len(store')].at = latest'[k].at
  BY <1>8, <1>10, Zenon
<1>12. store' \in Seq([key : Keys, value : Vals, at : Nat])
  BY <1>8 DEF Held
<1> QED
  BY <1>9, <1>11, <1>12, CacheUses

\* get() of an entry that is young enough.
LEMMA HitServes ==
    ASSUME NEW Vals, CacheTypes(Vals), Serves, NEW k \in Keys, Hit(k)
    PROVE  CacheTypes(Vals)' /\ Serves' /\ Answers' /\ got'.value \in Vals
<1>1. PICK m \in 1 .. Len(store) : store[m] = Entry(k) /\ store[m].key = k
  BY EntryIs DEF Hit
<1> DEFINE x == Entry(k)
           Held == [key : Keys, value : Vals, at : Nat]
<1>2. x \in Held /\ x.at \in 0 .. now /\ Len(store) \in Nat /\ Len(store) <= Capacity
      /\ Capacity \in Nat /\ now \in Nat
  BY <1>1, CacheFacts
<1>3. x.value = latest[k].value /\ x.at = latest[k].at
  BY <1>1 DEF Serves, Stored
<1>4. /\ Touch(k) /\ now' = now /\ latest' = latest
      /\ got' = [key |-> k, value |-> x.value]
      /\ store' = Append(Without(k), x) /\ Entries(k) # {} /\ now - x.at <= Ttl
  <2>1. Expired(k) <=> now - x.at > Ttl
    BY DEF Expired
  <2>2. Ttl \in Nat /\ x.at \in Nat
    BY <1>2, CacheFacts
  <2>3. /\ Touch(k) /\ now' = now /\ latest' = latest /\ ~ Expired(k)
        /\ got' = [key |-> k, value |-> x.value]
        /\ store' = Append(Without(k), x) /\ Entries(k) # {}
    BY DEF Hit
  <2> QED
    BY <1>2, <2>1, <2>2, <2>3
<1>5. store' = Trimmed(Append(Without(k), x))
  <2>1. Without(k) \in Seq(Held) /\ Len(Without(k)) = Len(store) - 1
    BY <1>4, WithoutIs
  <2> HIDE DEF x, Held
  <2>2. Len(Append(Without(k), x)) = Len(Without(k)) + 1
    BY <2>1
  <2> QED
    BY <1>2, <1>4, <2>1, <2>2 DEF Trimmed
<1>6. got' \in [key : Keys \cup {NoValue}, value : Vals \cup {NoValue}] /\ got'.value \in Vals
  BY <1>2, <1>4
<1>7. latest' \in [Keys -> [value : Vals \cup {NoValue}, at : Nat]]
  BY <1>4 DEF CacheTypes
<1>8. CacheTypes(Vals)' /\ Serves'
  <2>1. x \in [key : Keys, value : Vals, at : Nat] /\ x.key = k /\ x.at <= now
    BY <1>1, <1>2
  <2>2. /\ Touch(k) /\ now' = now /\ x.value = latest'[k].value /\ x.at = latest'[k].at
        /\ \A y \in Keys : y # k => latest'[y] = latest[y]
    BY <1>3, <1>4
  <2> HIDE DEF x
  <2> QED
    BY <1>5, <1>6, <1>7, <2>1, <2>2, UseServes
<1>9. Answers'
  BY <1>3, <1>4 DEF Answers
<1> QED
  BY <1>6, <1>8, <1>9

LEMMA PutServes ==
    ASSUME NEW Vals, CacheTypes(Vals), Serves, NEW k \in Keys, NEW v \in Vals, Put(k, v)
    PROVE  CacheTypes(Vals)' /\ Serves' /\ Answers'
<1> DEFINE x == [key |-> k, value |-> v, at |-> now]
<1>1. /\ Touch(k) /\ now' = now
      /\ store' = Trimmed(Append(Without(k), x))
      /\ latest' = [latest EXCEPT ![k] = [value |-> v, at |-> now]]
      /\ got' = [got EXCEPT !.value = NoValue]
  BY DEF Put, Forget, Trimmed
<1>2. now \in Nat
  BY CacheFacts
<1>3. x \in [key : Keys, value : Vals, at : Nat] /\ x.key = k /\ x.at <= now
  BY <1>2
<1>4. /\ latest' \in [Keys -> [value : Vals \cup {NoValue}, at : Nat]]
      /\ latest'[k] = [value |-> v, at |-> now]
      /\ \A y \in Keys : y # k => latest'[y] = latest[y]
  BY <1>1, <1>2 DEF CacheTypes
<1>5. x.value = latest'[k].value /\ x.at = latest'[k].at
  BY <1>4
<1>6. got' \in [key : Keys \cup {NoValue}, value : Vals \cup {NoValue}] /\ got'.value = NoValue
  BY <1>1 DEF CacheTypes
<1>7. CacheTypes(Vals)' /\ Serves'
  <2> HIDE DEF x
  <2> QED
    BY <1>1, <1>3, <1>4, <1>5, <1>6, UseServes
<1>8. Answers'
  BY <1>6 DEF Answers
<1> QED
  BY <1>7, <1>8

\* An entry goes: the others stay in order, and k is none that must be held.
LEMMA DropServes ==
    ASSUME NEW s, NEW s2, NEW u, NEW l, NEW l2, NEW t, NEW e, NEW at, NEW k,
           Thins(e, s2, s, at), Len(s2) \in Nat, \A m \in 1 .. Len(s) : m \in at <=> s[m].key = k,
           Stored(s, u, l), InOrder(s, u), Crowded(s, u, l, t),
           \A i \in 1 .. Len(s) : s[i].key # k => l2[s[i].key] = l[s[i].key],
           \A a \in 1 .. Len(u) : u[a] # k => l2[u[a]] = l[u[a]],
           \/ l2[k].value = NoValue
           \/ ~ t - l2[k].at <= Ttl
           \/ l2[k] = l[k] /\ at = {}
    PROVE  Stored(s2, u, l2) /\ InOrder(s2, u) /\ Crowded(s2, u, l2, t)
<1>1. \A i \in 1 .. Len(s2) : e[i] \in 1 .. Len(s) /\ s2[i] = s[e[i]] /\ s2[i].key # k
  BY DEF Thins
<1>2. Stored(s2, u, l2)
  <2> SUFFICES ASSUME NEW i \in 1 .. Len(s2)
               PROVE  /\ s2[i].value = l2[s2[i].key].value /\ s2[i].at = l2[s2[i].key].at
                      /\ \E a \in 1 .. Len(u) : u[a] = s2[i].key
    BY DEF Stored
  <2>1. l2[s2[i].key] = l[s2[i].key] /\ s2[i] = s[e[i]] /\ e[i] \in 1 .. Len(s)
    BY <1>1
  <2> QED
    BY <2>1 DEF Stored
<1>3. InOrder(s2, u)
  <2> SUFFICES ASSUME NEW i \in 1 .. Len(s2), NEW j \in 1 .. Len(s2), i < j,
                      NEW a \in 1 .. Len(u), NEW b \in 1 .. Len(u),
                      u[a] = s2[i].key, u[b] = s2[j].key
               PROVE  a < b
    BY DEF InOrder
  <2>1. e[i] < e[j]
    BY DEF Thins
  <2>2. e[i] \in 1 .. Len(s) /\ e[j] \in 1 .. Len(s) /\ s2[i] = s[e[i]] /\ s2[j] = s[e[j]]
    BY <1>1
  <2> QED
    BY <2>1, <2>2, SMTT(30) DEF InOrder
<1>4. Crowded(s2, u, l2, t)
  <2> SUFFICES ASSUME NEW a \in 1 .. Len(u),
                      l2[u[a]].value # NoValue, t - l2[u[a]].at <= Ttl
               PROVE  (\E i \in 1 .. Len(s2) : s2[i].key = u[a]) \/ Len(u) - a >= Capacity
    BY DEF Crowded
  <2>1. l2[u[a]] = l[u[a]] /\ (u[a] = k => at = {})
    BY Zenon
  <2>2. (\E m \in 1 .. Len(s) : s[m].key = u[a]) \/ Len(u) - a >= Capacity
    BY <2>1 DEF Crowded
  <2>3. ASSUME NEW m \in 1 .. Len(s), s[m].key = u[a]
        PROVE  \E i \in 1 .. Len(s2) : s2[i].key = u[a]
    <3>1. m \notin at
      BY <2>1, <2>3
    <3>2. PICK i \in 1 .. Len(s2) : e[i] = m
      BY <3>1 DEF Thins
    <3> QED
      BY <1>1, <2>3, <3>2
  <2> QED
    BY <2>2, <2>3
<1> QED
  BY <1>2, <1>3, <1>4

\* get() of a missing or expired entry, and invalidate().
LEMMA RemovalServes ==
    ASSUME NEW Vals, CacheTypes(Vals), Serves, NEW k \in Keys, Miss(k) \/ Invalidate(k)
    PROVE  CacheTypes(Vals)' /\ Serves' /\ Answers'
<1>1. /\ store' = Without(k) /\ UNCHANGED <<now, touched>> /\ got'.value = NoValue
      /\ got' \in [key : Keys \cup {NoValue}, value : Vals \cup {NoValue}]
  <2>1. got \in [key : Keys \cup {NoValue}, value : Vals \cup {NoValue}]
    BY DEF CacheTypes
  <2>2. CASE Miss(k)
    BY <2>2 DEF Miss
  <2>3. CASE Invalidate(k)
    BY <2>1, <2>3 DEF Invalidate, Forget
  <2> QED
    BY <2>2, <2>3
<1>2. PICK e : Thins(e, store', store, Entries(k))
  BY <1>1, WithoutIs
<1>3. \A m \in 1 .. Len(store) : m \in Entries(k) <=> store[m].key = k
  BY DEF Entries
<1>4. /\ latest' \in [Keys -> [value : Vals \cup {NoValue}, at : Nat]]
      /\ \A y \in Keys : y # k => latest'[y] = latest[y]
      /\ \/ latest'[k].value = NoValue
         \/ ~ now - latest'[k].at <= Ttl
         \/ latest'[k] = latest[k] /\ Entries(k) = {}
  <2>1. CASE Invalidate(k)
    BY <2>1 DEF Invalidate, CacheTypes
  <2>2. CASE Miss(k)
    <3>1. latest' = latest /\ (Entries(k) # {} => Expired(k))
      BY <2>2 DEF Miss
    <3>2. CASE Entries(k) # {}
      <4>1. PICK m \in 1 .. Len(store) : store[m] = Entry(k) /\ store[m].key = k
        BY <3>2, EntryIs
      <4>2. Entry(k).at = latest[k].at
        BY <4>1 DEF Serves, Stored
      <4>3. now - latest[k].at > Ttl /\ Ttl \in Nat /\ now \in Nat /\ latest[k].at \in Nat
        BY <3>1, <3>2, <4>2, CacheFacts DEF Expired, CacheTypes
      <4> QED
        BY <3>1, <4>3 DEF CacheTypes
    <3> QED
      BY <3>1, <3>2 DEF CacheTypes
  <2> QED
    BY <2>1, <2>2
<1>5. /\ \A i \in 1 .. Len(store) : store[i].key \in Keys /\ store[i].at \in 0 .. now
      /\ \A i, j \in 1 .. Len(store) : store[i].key = store[j].key => i = j
      /\ Len(store) \in Nat /\ Len(store) <= Capacity /\ now \in 0 .. MaxTime /\ Capacity \in Nat
  BY CacheFacts
<1>6. \A a \in 1 .. Len(touched) : touched[a] \in Keys
  BY DEF CacheTypes
<1>7. /\ store' \in Seq([key : Keys, value : Vals, at : Nat])
      /\ Len(store') \in Nat /\ Len(store') <= Len(store)
  <2>1. /\ store' \in Seq([key : Keys, value : Vals, at : Nat])
        /\ Len(store') = IF Entries(k) = {} THEN Len(store) ELSE Len(store) - 1
    BY <1>1, WithoutIs
  <2>2. Entries(k) # {} => Len(store) > 0
    BY <1>5 DEF Entries
  <2> QED
    BY <1>5, <2>1, <2>2
<1>8. Serves'
  <2>1. /\ Stored(store', touched, latest') /\ InOrder(store', touched)
        /\ Crowded(store', touched, latest', now)
    <3>1. /\ \A i \in 1 .. Len(store) :
                store[i].key # k => latest'[store[i].key] = latest[store[i].key]
          /\ \A a \in 1 .. Len(touched) : touched[a] # k => latest'[touched[a]] = latest[touched[a]]
      BY <1>4, <1>5, <1>6
    <3>2. Stored(store, touched, latest) /\ InOrder(store, touched)
          /\ Crowded(store, touched, latest, now)
      BY DEF Serves
    <3>3. \/ latest'[k].value = NoValue
          \/ ~ now - latest'[k].at <= Ttl
          \/ latest'[k] = latest[k] /\ Entries(k) = {}
      BY <1>4
    <3>4. Len(store') \in Nat
      BY <1>7
    <3> QED
      BY <1>2, <1>3, <3>1, <3>2, <3>3, <3>4, DropServes
  <2> QED
    BY <1>1, <2>1 DEF Serves
<1>9. CacheTypes(Vals)'
  <2>1. \A i \in 1 .. Len(store') : e[i] \in 1 .. Len(store) /\ store'[i] = store[e[i]]
    BY <1>2 DEF Thins
  <2>2. \A i, j \in 1 .. Len(store') : store'[i].key = store'[j].key => i = j
    <3> SUFFICES ASSUME NEW i \in 1 .. Len(store'), NEW j \in 1 .. Len(store'),
                        store'[i].key = store'[j].key
                 PROVE  i = j
      OBVIOUS
    <3>0. store[e[i]].key = store[e[j]].key /\ e[i] \in 1 .. Len(store) /\ e[j] \in 1 .. Len(store)
      BY <2>1
    <3>1. e[i] = e[j] /\ e[i] \in Int
      BY <1>5, <3>0
    <3>2. (i < j => e[i] < e[j]) /\ (j < i => e[j] < e[i])
      BY <1>2 DEF Thins
    <3> QED
      BY <1>7, <3>1, <3>2
  <2>3. IsInjective([i \in 1 .. Len(store') |-> store'[i].key])
    BY <2>2 DEF IsInjective
  <2>4. CTypeOK'
    BY <1>1, <1>5, <1>7, <2>1, <2>3, SMTT(30) DEF CTypeOK
  <2> QED
    BY <1>1, <1>4, <1>7, <2>4 DEF CacheTypes
<1>10. Answers'
  BY <1>1 DEF Answers
<1> QED
  BY <1>8, <1>9, <1>10

LEMMA ClearServes ==
    ASSUME NEW Vals, CacheTypes(Vals), Serves, Clear
    PROVE  CacheTypes(Vals)' /\ Serves' /\ Answers'
<1>1. /\ store' = <<>> /\ UNCHANGED <<now, touched>> /\ got'.value = NoValue
      /\ got' \in [key : Keys \cup {NoValue}, value : Vals \cup {NoValue}]
  BY DEF Clear, Forget, CacheTypes
<1>2. /\ latest' \in [Keys -> [value : Vals \cup {NoValue}, at : Nat]]
      /\ \A y \in Keys : latest'[y].value = NoValue
  <2>1. latest' = [k \in Keys |-> [latest[k] EXCEPT !.value = NoValue]]
    BY DEF Clear
  <2>2. \A y \in Keys : latest[y] \in [value : Vals \cup {NoValue}, at : Nat]
    BY DEF CacheTypes
  <2>3. \A y \in Keys : latest'[y] \in [value : Vals \cup {NoValue}, at : Nat]
                        /\ latest'[y].value = NoValue
    BY <2>1, <2>2
  <2> QED
    BY <2>1, <2>3
<1>3. \A a \in 1 .. Len(touched) : touched[a] \in Keys
  BY DEF CacheTypes
<1>4. Serves'
  BY <1>1, <1>2, <1>3 DEF Serves, Stored, InOrder, Crowded
<1>5. CTypeOK'
  BY <1>1, CacheFacts DEF CTypeOK, IsInjective
<1>6. CacheTypes(Vals)'
  BY <1>1, <1>2, <1>5 DEF CacheTypes
<1> QED
  BY <1>1, <1>4, <1>6 DEF Answers

LEMMA PassServes ==
    ASSUME NEW Vals, CacheTypes(Vals), Serves, Pass
    PROVE  CacheTypes(Vals)' /\ Serves' /\ Answers'
<1>1. /\ UNCHANGED <<store, latest, touched>> /\ now' = now + 1 /\ now < MaxTime
      /\ got' \in [key : Keys \cup {NoValue}, value : Vals \cup {NoValue}] /\ got'.value = NoValue
  BY DEF Pass, Forget, CacheTypes
<1>2. now \in Nat /\ MaxTime \in Nat /\ Ttl \in Nat
      /\ \A i \in 1 .. Len(store) : store[i].at \in 0 .. now
  BY CacheFacts
<1>3. \A a \in 1 .. Len(touched) : touched[a] \in Keys /\ latest[touched[a]].at \in Nat
  BY DEF CacheTypes
<1>4. Crowded(store, touched, latest, now + 1)
  BY <1>2, <1>3 DEF Serves, Crowded
<1>5. CTypeOK'
  BY <1>1, <1>2 DEF CTypeOK, CacheTypes
<1> QED
  BY <1>1, <1>4, <1>5 DEF Serves, CacheTypes, Answers

(***************************************************************************)
(* The signals                                                             *)
(***************************************************************************)

LEMMA SignalFacts ==
    /\ Top \in Nat /\ Top > 0 /\ MaxRetries \in Nat /\ CacheKey \in Keys
    /\ \A source \in {"youtube", "google"} : Weight[source] \in Nat
    /\ \A x : x \in Signal => x.score \in 0 .. Top /\ x.score \in Int
    /\ Synthetic \in Seq(Signal)
<1>1. Top \in Nat /\ Top > 0 /\ MaxRetries \in Nat /\ CacheKey \in Keys
  BY Assumptions DEF SourcesAssumption
<1>2. \A source \in {"youtube", "google"} : Weight[source] \in Nat
  BY Assumptions DEF SourcesAssumption
<1>3. [title |-> "synthetic", score |-> Top] \in Signal
  BY <1>1 DEF Signal
<1>4. Synthetic \in Seq(Signal)
  BY <1>3 DEF Synthetic
<1> QED
  BY <1>1, <1>2, <1>4 DEF Signal

\* A weighted signal is one, and no larger than Top.
LEMMA WeightedIs ==
    ASSUME NEW source \in {"youtube", "google"}, NEW s \in Seq(Signal)
    PROVE  Weighted(source, s) \in Seq(Signal)
<1> DEFINE w == Weight[source]
           score(x) == IF w = 2 THEN x.score ELSE Min({(x.score * w) \div 2, Top})
<1>1. ASSUME NEW x \in Signal PROVE [x EXCEPT !.score = score(x)] \in Signal
  <2>1. w \in Nat /\ x.score \in 0 .. Top /\ Top \in Nat
    BY SignalFacts
  <2>2. x.score * w \in Nat
    <3> HIDE DEF w
    <3> QED
      BY <2>1
  <2> DEFINE y == (x.score * w) \div 2
  <2>3. y \in Nat
    <3> DEFINE z == x.score * w
    <3>1. z \in Nat
      BY <2>2
    <3> HIDE DEF z
    <3>2. z \div 2 \in Nat
      BY <3>1
    <3> QED
      BY <3>2 DEF z
  <2> HIDE DEF y
  <2>4. Min({y, Top}) \in {y, Top} /\ Min({y, Top}) <= Top
    <3>1. \E m \in {y, Top} : \A n \in {y, Top} : m <= n
      BY <2>1, <2>3
    <3> QED
      BY <2>1, <2>3, <3>1 DEF Min
  <2>5. Min({y, Top}) \in 0 .. Top
    BY <2>1, <2>3, <2>4
  <2>6. score(x) \in 0 .. Top
    BY <2>1, <2>5 DEF y
  <2> HIDE DEF score
  <2> QED
    BY <2>6 DEF Signal
<1> HIDE DEF score
<1>2. \A i \in 1 .. Len(s) : s[i] \in Signal /\ Len(s) \in Nat
  OBVIOUS
<1>3. Weighted(source, s) = [i \in 1 .. Len(s) |-> [s[i] EXCEPT !.score = score(s[i])]]
  BY DEF Weighted, score
<1>4. \A i \in 1 .. Len(s) : [s[i] EXCEPT !.score = score(s[i])] \in Signal
  BY <1>1, <1>2
<1> QED
  BY <1>3, <1>4

LEMMA RankedIs ==
    ASSUME NEW titles \in TitleSeqs PROVE Ranked(titles) \in Seq(Signal)
<1>1. PICK n \in 0 .. 2 : titles \in [1 .. n -> Titles]
  BY DEF TitleSeqs
<1>2. Len(titles) = n
  BY <1>1
<1>3. ASSUME NEW i \in 1 .. n
      PROVE  Top - ((i - 1) * Top) \div n \in 0 .. Top
  <2>1. Top \in Nat
    BY SignalFacts
  <2>2. CASE i = 1
    <3>1. (i - 1) * Top = 0
      BY <2>1, <2>2
    <3>2. ((i - 1) * Top) \div n = 0
      BY <3>1
    <3> QED
      BY <2>1, <3>2
  <2>3. CASE i = 2 /\ n = 2
    <3>1. (i - 1) * Top = Top
      BY <2>1, <2>3
    <3>2. Top \div 2 \in 0 .. Top
      BY <2>1
    <3> QED
      BY <2>1, <2>3, <3>1, <3>2
  <2> QED
    BY <2>2, <2>3
<1>4. \A i \in 1 .. n : [title |-> titles[i], score |-> Top - ((i - 1) * Top) \div n] \in Signal
  BY <1>1, <1>3 DEF Signal
<1> QED
  BY <1>2, <1>4 DEF Ranked

\* b has every title of the first d signals of s once, with its best score.
Deduped(b, s, d) ==
    /\ \A i, j \in 1 .. Len(b) : b[i].title = b[j].title => i = j
    /\ \A j \in 1 .. Len(b) : \E i \in 1 .. d : b[j] = s[i]
    /\ \A i \in 1 .. d : \E j \in 1 .. Len(b) : b[j].title = s[i].title /\ b[j].score >= s[i].score

SignalTypes ==
    /\ stage \in {"idle", "search", "reply", "google", "merge"}
    /\ attempt \in 0 .. MaxRetries /\ fetches \in Nat
    /\ signals \in Seq(Signal) /\ best \in Seq(Signal) /\ rest \in Seq(Signal)
    /\ answer \in Seq(Signal)

Done == Len(signals) - Len(rest)

MergeInv ==
    /\ stage = "merge" =>
          /\ Done \in Nat /\ Deduped(best, signals, Done)
          /\ \A i \in 1 .. Len(rest) : rest[i] = signals[Done + i]
    /\ MergedIsBest
    /\ stage # "idle" => fetches > 0
    /\ part = "trends" => \A i \in 1 .. Len(store) :
          store[i].key = CacheKey /\ store[i].value = answer /\ fetches > 0

\* One turn of the loop takes one more signal in.
LEMMA KeepDedupes ==
    ASSUME NEW d \in Nat, best \in Seq(Signal), signals \in Seq(Signal),
           d + 1 <= Len(signals), Deduped(best, signals, d)
    PROVE  /\ Keep(signals[d + 1]) \in Seq(Signal)
           /\ Deduped(Keep(signals[d + 1]), signals, d + 1)
<1> DEFINE x == signals[d + 1]
           n == Len(best)
           k == Keep(x)
<1>1. /\ n \in Nat /\ x \in Signal /\ x.score \in Int
      /\ \A i \in 1 .. n : best[i] \in Signal /\ best[i].score \in Int
  BY SignalFacts
<1>2. /\ \A i, j \in 1 .. n : best[i].title = best[j].title => i = j
      /\ \A j \in 1 .. n : \E i \in 1 .. d : best[j] = signals[i]
      /\ \A i \in 1 .. d : \E j \in 1 .. n :
            best[j].title = signals[i].title /\ best[j].score >= signals[i].score
  BY DEF Deduped
<1>3. \A i \in 1 .. d + 1 : i \in 1 .. d \/ i = d + 1
  OBVIOUS
<1>4. d + 1 \in 1 .. d + 1 /\ \A i \in 1 .. d : i \in 1 .. d + 1
  OBVIOUS
<1>5. \A i \in 1 .. d + 1 : signals[i].score \in Int
  BY SignalFacts
<1>6. CASE Same(x) = {}
  <2>1. k = Append(best, x)
    BY <1>6 DEF Keep
  <2>2. \A i \in 1 .. n : best[i].title # x.title
    BY <1>6 DEF Same
  <2> HIDE DEF x, n, k
  <2>3. k \in Seq(Signal) /\ Len(k) = n + 1 /\ k[n + 1] = x /\ \A i \in 1 .. n : k[i] = best[i]
    BY <1>1, <2>1 DEF n
  <2>4. \A i \in 1 .. n + 1 : i \in 1 .. n \/ i = n + 1
    BY <1>1
  <2>5. n + 1 \in 1 .. n + 1 /\ \A i \in 1 .. n : i \in 1 .. n + 1
    BY <1>1
  <2>6. \A i, j \in 1 .. n + 1 : k[i].title = k[j].title => i = j
    BY <1>2, <2>2, <2>3, <2>4
  <2>7. \A j \in 1 .. n + 1 : \E i \in 1 .. d + 1 : k[j] = signals[i]
    <3> TAKE j \in 1 .. n + 1
    <3>1. CASE j \in 1 .. n
      <4>1. PICK i \in 1 .. d : best[j] = signals[i]
        BY <1>2, <3>1
      <4> QED
        BY <1>4, <2>3, <3>1, <4>1
    <3>2. CASE j = n + 1
      BY <1>4, <2>3, <3>2 DEF x
    <3> QED
      BY <2>4, <3>1, <3>2
  <2>8. ASSUME NEW i \in 1 .. d + 1
        PROVE  \E j \in 1 .. n + 1 : k[j].title = signals[i].title /\ k[j].score >= signals[i].score
    <3>1. CASE i \in 1 .. d
      BY <1>2, <2>3, <2>5, <3>1
    <3>2. CASE i = d + 1
      BY <1>1, <2>3, <2>5, <3>2 DEF x
    <3> QED
      BY <1>3, <3>1, <3>2
  <2>9. Deduped(k, signals, d + 1)
    BY <2>3, <2>6, <2>7, <2>8 DEF Deduped
  <2> QED
    BY <2>3, <2>9 DEF k, x
<1>7. CASE Same(x) # {}
  <2>1. PICK m \in Same(x) : TRUE
    BY <1>7
  <2>2. m \in 1 .. n /\ best[m].title = x.title /\ m \in Nat
    BY <2>1, <1>1 DEF Same
  <2>3. Same(x) = {m}
    BY <1>2, <2>1, <2>2 DEF Same
  <2>4. Max(Same(x)) = m
    BY <2>2, <2>3 DEF Max
  <2>5. k = IF x.score > best[m].score THEN [best EXCEPT ![m] = x] ELSE best
    BY <1>7, <2>4 DEF Keep
  <2>6. \A i \in 1 .. n : i # m => best[i].title # x.title
    BY <1>2, <2>2
  <2> HIDE DEF x, n, k
  <2>7. CASE x.score > best[m].score
    <3>1. k = [best EXCEPT ![m] = x]
      BY <2>5, <2>7
    <3>2. k \in Seq(Signal) /\ Len(k) = n /\ k[m] = x /\ \A i \in 1 .. n : i # m => k[i] = best[i]
      BY <1>1, <2>2, <3>1 DEF n
    <3>3. \A i \in 1 .. n : k[i].title = best[i].title
      BY <2>2, <3>2
    <3>4. \A i, j \in 1 .. n : k[i].title = k[j].title => i = j
      BY <1>2, <3>3
    <3>5. \A j \in 1 .. n : \E i \in 1 .. d + 1 : k[j] = signals[i]
      <4> TAKE j \in 1 .. n
      <4>1. CASE j = m
        BY <1>4, <3>2, <4>1 DEF x
      <4>2. CASE j # m
        <5>1. PICK i \in 1 .. d : best[j] = signals[i]
          BY <1>2
        <5> QED
          BY <1>4, <3>2, <4>2, <5>1
      <4> QED
        BY <4>1, <4>2
    <3>6. ASSUME NEW i \in 1 .. d + 1
          PROVE  \E j \in 1 .. n : k[j].title = signals[i].title /\ k[j].score >= signals[i].score
      <4>1. CASE i \in 1 .. d
        <5>1. PICK j \in 1 .. n : best[j].title = signals[i].title /\ best[j].score >= signals[i].score
          BY <1>2, <4>1
        <5>2. CASE j = m
          <6>1. x.score >= signals[i].score
            BY <1>1, <1>5, <2>7, <5>1, <5>2
          <6> QED
            BY <2>2, <3>2, <5>1, <5>2, <6>1
        <5>3. CASE j # m
          BY <3>2, <5>1, <5>3
        <5> QED
          BY <5>2, <5>3
      <4>2. CASE i = d + 1
        BY <1>1, <2>2, <3>2, <4>2 DEF x
      <4> QED
        BY <1>3, <4>1, <4>2
    <3>7. Deduped(k, signals, d + 1)
      BY <3>2, <3>4, <3>5, <3>6 DEF Deduped
    <3> QED
      BY <3>2, <3>7 DEF k, x
  <2>8. CASE ~ x.score > best[m].score
    <3>1. k = best
      BY <2>5, <2>8
    <3>2. \A i \in 1 .. d + 1 : \E j \in 1 .. n :
             best[j].title = signals[i].title /\ best[j].score >= signals[i].score
      <4> TAKE i \in 1 .. d + 1
      <4>1. CASE i \in 1 .. d
        BY <1>2, <4>1
      <4>2. CASE i = d + 1
        <5>1. best[m].score >= x.score
          BY <1>1, <2>2, <2>8
        <5> QED
          BY <2>2, <4>2, <5>1 DEF x
      <4> QED
        BY <1>3, <4>1, <4>2
    <3>3. Deduped(best, signals, d + 1)
      BY <1>2, <1>4, <3>2 DEF Deduped, n
    <3> QED
      BY <3>1, <3>3 DEF k, x
  <2> QED
    BY <2>7, <2>8
<1> QED
  BY <1>6, <1>7

\* The merged list: every title once, the best first.
LEMMA SortedIs ==
    ASSUME best \in Seq(Signal), signals \in Seq(Signal), Deduped(best, signals, Len(signals))
    PROVE  /\ Sorted \in Seq(Signal) /\ Len(Sorted) = Len(best)
           /\ \A i, j \in 1 .. Len(best) : Sorted[i].title = Sorted[j].title => i = j
           /\ \A i, j \in 1 .. Len(best) : i <= j => Sorted[i].score >= Sorted[j].score
           /\ Deduped(Sorted, signals, Len(signals))
<1> DEFINE key == [i \in 1 .. Len(best) |-> best[i].score]
           n == Len(best)
           o == Order(key)
<1>1. n \in Nat /\ \A i \in 1 .. n : best[i] \in Signal /\ best[i].score \in Int
  BY SignalFacts
<1>2. key \in Seq(Int) /\ Len(key) = n
  BY <1>1
<1>3. /\ o \in [1 .. n -> 1 .. n]
      /\ \A i \in 1 .. n : \E m \in 1 .. n : o[m] = i
      /\ \A i, j \in 1 .. n : o[i] = o[j] => i = j
      /\ \A i, j \in 1 .. n : i <= j => key[o[i]] >= key[o[j]]
  BY <1>2, OrderSorts
<1>4. Sorted = [i \in 1 .. n |-> best[o[i]]]
  BY DEF Sorted
<1>5. \A i \in 1 .. n : key[i] = best[i].score
  OBVIOUS
<1> HIDE DEF key, n, o
<1>6. /\ Sorted \in Seq(Signal) /\ Len(Sorted) = n
      /\ \A i \in 1 .. n : Sorted[i] = best[o[i]] /\ o[i] \in 1 .. n
  <2>1. \A i \in 1 .. n : o[i] \in 1 .. n
    BY <1>3
  <2>2. \A i \in 1 .. n : best[o[i]] \in Signal
    BY <1>1, <2>1
  <2> QED
    BY <1>1, <1>4, <2>1, <2>2
<1>7. /\ \A i, j \in 1 .. n : best[i].title = best[j].title => i = j
      /\ \A j \in 1 .. n : \E i \in 1 .. Len(signals) : best[j] = signals[i]
      /\ \A i \in 1 .. Len(signals) : \E j \in 1 .. n :
            best[j].title = signals[i].title /\ best[j].score >= signals[i].score
  BY DEF Deduped, n
<1>8. \A i, j \in 1 .. n : Sorted[i].title = Sorted[j].title => i = j
  <2> SUFFICES ASSUME NEW i \in 1 .. n, NEW j \in 1 .. n, Sorted[i].title = Sorted[j].title
               PROVE  i = j
    OBVIOUS
  <2>1. best[o[i]].title = best[o[j]].title /\ o[i] \in 1 .. n /\ o[j] \in 1 .. n
    BY <1>6
  <2>2. o[i] = o[j]
    BY <1>7, <2>1
  <2> QED
    BY <1>3, <2>2
<1>9. \A i, j \in 1 .. n : i <= j => Sorted[i].score >= Sorted[j].score
  <2> SUFFICES ASSUME NEW i \in 1 .. n, NEW j \in 1 .. n, i <= j
               PROVE  Sorted[i].score >= Sorted[j].score
    OBVIOUS
  <2>1. key[o[i]] >= key[o[j]]
    BY <1>3
  <2> QED
    BY <1>5, <1>6, <2>1
<1>10. \A j \in 1 .. n : \E i \in 1 .. Len(signals) : Sorted[j] = signals[i]
  <2> TAKE j \in 1 .. n
  <2>1. Sorted[j] = best[o[j]] /\ o[j] \in 1 .. n
    BY <1>6
  <2> QED
    BY <1>7, <2>1
<1>11. \A i \in 1 .. Len(signals) : \E j \in 1 .. n :
          Sorted[j].title = signals[i].title /\ Sorted[j].score >= signals[i].score
  <2> TAKE i \in 1 .. Len(signals)
  <2>1. PICK j \in 1 .. n : best[j].title = signals[i].title /\ best[j].score >= signals[i].score
    BY <1>7
  <2>2. PICK m \in 1 .. n : o[m] = j
    BY <1>3
  <2> QED
    BY <1>6, <2>1, <2>2
<1>12. Deduped(Sorted, signals, Len(signals))
  BY <1>6, <1>8, <1>10, <1>11 DEF Deduped
<1> QED
  BY <1>6, <1>8, <1>9, <1>12 DEF n

\* What the answer a must be of the signals s.
IsMerged(a, s) ==
    LET Said(t) == {s[i].score : i \in {j \in 1 .. Len(s) : s[j].title = t}}
    IN  /\ IsInjective([i \in 1 .. Len(a) |-> a[i].title])
        /\ \A i \in 1 .. Len(a) : \A j \in 1 .. i : a[j].score >= a[i].score
        /\ IF s = <<>> THEN a = Synthetic
           ELSE /\ {a[i].title : i \in 1 .. Len(a)} = {s[i].title : i \in 1 .. Len(s)}
                /\ \A i \in 1 .. Len(a) : a[i].score = Max(Said(a[i].title))

LEMMA AnswerIsBest ==
    ASSUME signals \in Seq(Signal), NEW a \in Seq(Signal),
           IF signals = <<>> THEN a = Synthetic
           ELSE /\ Deduped(a, signals, Len(signals))
                /\ \A i, j \in 1 .. Len(a) : i <= j => a[i].score >= a[j].score
    PROVE  IsMerged(a, signals)
<1> USE DEF IsMerged
<1> DEFINE Said(t) == {signals[i].score : i \in {j \in 1 .. Len(signals) : signals[j].title = t}}
<1>1. CASE signals = <<>>
  <2>1. Len(a) = 1 /\ a[1].score = Top /\ Top \in Int
    BY <1>1, SignalFacts DEF Synthetic
  <2> QED
    BY <1>1, <2>1 DEF IsInjective
<1>2. CASE signals # <<>>
  <2>1. /\ \A i, j \in 1 .. Len(a) : a[i].title = a[j].title => i = j
        /\ \A j \in 1 .. Len(a) : \E i \in 1 .. Len(signals) : a[j] = signals[i]
        /\ \A i \in 1 .. Len(signals) : \E j \in 1 .. Len(a) :
              a[j].title = signals[i].title /\ a[j].score >= signals[i].score
    BY <1>2 DEF Deduped
  <2>2. \A i, j \in 1 .. Len(a) : i <= j => a[i].score >= a[j].score
    BY <1>2
  <2>3. /\ \A i \in 1 .. Len(a) : a[i].score \in Int
        /\ \A i \in 1 .. Len(signals) : signals[i].score \in Int
        /\ Len(a) \in Nat
    BY SignalFacts
  <2>4. IsInjective([i \in 1 .. Len(a) |-> a[i].title])
    BY <2>1 DEF IsInjective
  <2>5. {a[i].title : i \in 1 .. Len(a)} = {signals[i].title : i \in 1 .. Len(signals)}
    <3>1. ASSUME NEW i \in 1 .. Len(a)
          PROVE  \E m \in 1 .. Len(signals) : a[i].title = signals[m].title
      BY <2>1
    <3>2. ASSUME NEW m \in 1 .. Len(signals)
          PROVE  \E i \in 1 .. Len(a) : a[i].title = signals[m].title
      BY <2>1
    <3> DEFINE L == {a[i].title : i \in 1 .. Len(a)}
               R == {signals[i].title : i \in 1 .. Len(signals)}
    <3>3. L \subseteq R
      BY <3>1
    <3>4. R \subseteq L
      BY <3>2
    <3> HIDE DEF L, R
    <3>5. L = R
      BY <3>3, <3>4
    <3> QED
      BY <3>5 DEF L, R
  <2>6. ASSUME NEW i \in 1 .. Len(a) PROVE a[i].score = Max(Said(a[i].title))
    <3> DEFINE S == Said(a[i].title)
    <3>1. a[i].score \in S
      BY <2>1
    <3>2. ASSUME NEW y \in S PROVE y \in Int /\ a[i].score >= y
      <4>1. PICK m \in 1 .. Len(signals) : signals[m].title = a[i].title /\ y = signals[m].score
        OBVIOUS
      <4>2. PICK j \in 1 .. Len(a) : a[j].title = signals[m].title /\ a[j].score >= signals[m].score
        BY <2>1
      <4>3. j = i
        BY <2>1, <4>1, <4>2
      <4> QED
        BY <2>3, <4>1, <4>2, <4>3
    <3> HIDE DEF S
    <3>3. Max(S) \in S /\ \A y \in S : Max(S) >= y
      BY <3>1, <3>2 DEF Max
    <3>4. a[i].score = Max(S)
      BY <2>3, <3>1, <3>2, <3>3
    <3> QED
      BY <3>4 DEF S
  <2>7. \A i \in 1 .. Len(a) : \A j \in 1 .. i : a[j].score >= a[i].score
    BY <2>2, <2>3
  <2> QED
    BY <1>2, <2>4, <2>5, <2>6, <2>7
<1> QED
  BY <1>1, <1>2

(***************************************************************************)
(* The cache and the signals together                                      *)
(***************************************************************************)

CacheInv(Vals) == CacheTypes(Vals) /\ Serves /\ Answers

TrendInv ==
    /\ SignalTypes /\ MergeInv
    /\ part = "trends" => CacheInv(Seq(Signal))
    /\ part # "trends" => CacheInv(1 .. MaxPuts)

LEMMA TrendInit == MInit => TrendInv
<1> SUFFICES ASSUME MInit PROVE TrendInv
  OBVIOUS
<1>1. /\ now = 0 /\ store = <<>> /\ got = [key |-> NoValue, value |-> NoValue]
      /\ latest = [k \in Keys |-> [value |-> NoValue, at |-> 0]] /\ touched = <<>>
      /\ stage = "idle" /\ attempt = 0
      /\ signals = <<>> /\ best = <<>> /\ rest = <<>> /\ answer = <<>> /\ fetches = 0
  BY DEF MInit, TInit, CInit
<1>2. SignalTypes
  BY <1>1, SignalFacts DEF SignalTypes
<1>3. MergeInv
  BY <1>1 DEF MergeInv, MergedIsBest
<1>4. ASSUME NEW Vals PROVE CacheInv(Vals)
  <2>1. Capacity \in Nat /\ MaxTime \in Nat
    BY Assumptions DEF CacheAssumption
  <2>2. CTypeOK
    BY <1>1, <2>1 DEF CTypeOK, IsInjective
  <2>3. CacheTypes(Vals)
    BY <1>1, <2>2 DEF CacheTypes
  <2>4. Serves /\ Answers
    BY <1>1 DEF Serves, Stored, InOrder, Crowded, Answers
  <2> QED
    BY <2>3, <2>4 DEF CacheInv
<1> QED
  BY <1>2, <1>3, <1>4 DEF TrendInv

LEMMA CacheStays ==
    ASSUME NEW Vals, CacheInv(Vals), UNCHANGED cvars PROVE CacheInv(Vals)'
<1> USE DEF cvars
<1>1. CTypeOK'
  BY DEF CacheInv, CacheTypes, CTypeOK
<1>2. CacheTypes(Vals)'
  BY <1>1 DEF CacheInv, CacheTypes
<1> QED
  BY <1>2 DEF CacheInv, Serves, Answers

\* Every operation of the cache.
LEMMA CacheKept ==
    ASSUME NEW Vals, CacheInv(Vals),
           \/ \E k \in Keys : Hit(k) \/ Miss(k) \/ Invalidate(k) \/ \E v \in Vals : Put(k, v)
           \/ Clear \/ Pass
    PROVE  CacheInv(Vals)'
<1>1. CacheTypes(Vals) /\ Serves
  BY DEF CacheInv
<1>2. ASSUME NEW k \in Keys, Hit(k) PROVE CacheInv(Vals)'
  BY <1>1, <1>2, HitServes DEF CacheInv
<1>3. ASSUME NEW k \in Keys, Miss(k) \/ Invalidate(k) PROVE CacheInv(Vals)'
  BY <1>1, <1>3, RemovalServes DEF CacheInv
<1>4. ASSUME NEW k \in Keys, NEW v \in Vals, Put(k, v) PROVE CacheInv(Vals)'
  BY <1>1, <1>4, PutServes DEF CacheInv
<1>5. ASSUME Clear PROVE CacheInv(Vals)'
  BY <1>1, <1>5, ClearServes DEF CacheInv
<1>6. ASSUME Pass PROVE CacheInv(Vals)'
  BY <1>1, <1>6, PassServes DEF CacheInv
<1> QED
  BY <1>2, <1>3, <1>4, <1>5, <1>6

LEMMA CollectIs ==
    ASSUME SignalTypes, NEW source \in {"youtube", "google"}, NEW s \in Seq(Signal),
           Collect(source, s)
    PROVE  signals' \in Seq(Signal)
<1>1. Weighted(source, s) \in Seq(Signal) /\ signals \in Seq(Signal)
  BY WeightedIs DEF SignalTypes
<1> QED
  BY <1>1, ConcatProperties DEF Collect

LEMMA MergedNext == IsMerged(answer', signals') => MergedIsBest'
BY DEF MergedIsBest, IsMerged

LEMMA MergedIdle == ~ (stage' = "idle" /\ fetches' > 0) => MergedIsBest'
BY DEF MergedIsBest

LEMMA MergedStays ==
    ASSUME MergedIsBest, stage = "idle", fetches > 0, UNCHANGED <<signals, answer>>
    PROVE  MergedIsBest'
<1>1. IsMerged(answer, signals)
  BY DEF MergedIsBest, IsMerged
<1>2. IsMerged(answer', signals')
  BY <1>1
<1> QED
  BY <1>2, MergedNext

\* While fetch() is at work the merged list is no matter, and the cache is left alone.
LEMMA SearchKept ==
    ASSUME TrendInv, part = "trends", part' = part, UNCHANGED cvars,
           UNCHANGED <<best, rest, answer, fetches>>,
           signals' \in Seq(Signal), attempt' \in 0 .. MaxRetries,
           stage # "idle", stage' \in {"search", "reply", "google"}
    PROVE  TrendInv'
<1>1. SignalTypes'
  BY DEF TrendInv, SignalTypes
<1>2. MergeInv'
  BY DEF TrendInv, MergeInv, MergedIsBest, cvars
<1>3. CacheInv(Seq(Signal))'
  BY CacheStays DEF TrendInv
<1> QED
  BY <1>1, <1>2, <1>3 DEF TrendInv

LEMMA TrendKept == TrendInv /\ [MNext]_mvars => TrendInv'
<1> SUFFICES ASSUME TrendInv, [MNext]_mvars PROVE TrendInv'
  OBVIOUS
<1>1. part' = part
  BY TrendMoves
<1>2. ASSUME UNCHANGED tvars PROVE SignalTypes' /\ MergedIsBest' /\ (UNCHANGED store => MergeInv')
  <2>1. SignalTypes'
    BY <1>2 DEF TrendInv, SignalTypes, tvars
  <2>2. MergedIsBest'
    <3>1. UNCHANGED <<signals, answer>> /\ stage' = stage /\ fetches' = fetches
      BY <1>2 DEF tvars
    <3>2. MergedIsBest
      BY DEF TrendInv, MergeInv
    <3>3. CASE stage = "idle" /\ fetches > 0
      BY <3>1, <3>2, <3>3, MergedStays
    <3>4. CASE ~ (stage = "idle" /\ fetches > 0)
      BY <3>1, <3>4, MergedIdle
    <3> QED
      BY <3>3, <3>4
  <2>3. UNCHANGED store => MergeInv'
    BY <1>1, <1>2, <2>2 DEF TrendInv, MergeInv, tvars, Done
  <2> QED
    BY <2>1, <2>2, <2>3
<1>3. CASE UNCHANGED <<cvars, tvars>>
  <2>1. SignalTypes' /\ MergeInv'
    BY <1>2, <1>3 DEF cvars
  <2>2. (part = "trends" => CacheInv(Seq(Signal))') /\ (part # "trends" => CacheInv(1 .. MaxPuts)')
    BY <1>3, CacheStays DEF TrendInv
  <2> QED
    BY <1>1, <2>1, <2>2 DEF TrendInv
<1>4. CASE part = "cache" /\ CacheClient /\ UNCHANGED tvars
  <2>1. CacheInv(1 .. MaxPuts)'
    BY <1>4, CacheKept DEF CacheClient, Get, TrendInv
  <2>2. SignalTypes'
    BY <1>2, <1>4
  <2>3. MergeInv'
    BY <1>1, <1>2, <1>4 DEF TrendInv, MergeInv, tvars, Done
  <2> QED
    BY <1>1, <1>4, <2>1, <2>2, <2>3 DEF TrendInv
<1>5. CASE part = "trends" /\ TNext
  <2>0. CacheInv(Seq(Signal)) /\ SignalTypes /\ MergeInv /\ CacheKey \in Keys
    BY <1>5, SignalFacts DEF TrendInv
  <2>1. CASE Fetch
    <3>1. /\ stage = "idle" /\ fetches' = fetches + 1 /\ attempt' = 0
          /\ UNCHANGED <<best, rest>>
          /\ \/ Hit(CacheKey) /\ answer' = got'.value /\ UNCHANGED <<stage, signals>>
             \/ Miss(CacheKey) /\ stage' = "search" /\ signals' = <<>> /\ UNCHANGED answer
      BY <2>1 DEF Fetch
    <3>2. CacheInv(Seq(Signal))'
      BY <2>0, <3>1, CacheKept
    <3>3. attempt' \in 0 .. MaxRetries /\ fetches' \in Nat /\ fetches' > 0
      BY <2>0, <3>1, SignalFacts DEF SignalTypes
    <3>4. CASE Hit(CacheKey) /\ answer' = got'.value /\ UNCHANGED <<stage, signals>>
      <4>1. CacheTypes(Seq(Signal)) /\ Serves
        BY <2>0 DEF CacheInv
      <4>2. PICK m \in 1 .. Len(store) : store[m] = Entry(CacheKey) /\ store[m].key = CacheKey
        BY <2>0, <3>4, <4>1, EntryIs DEF Hit
      <4>3. got'.value = Entry(CacheKey).value /\ store' = Append(Without(CacheKey), Entry(CacheKey))
        BY <3>4 DEF Hit
      <4>4. answer' = answer /\ fetches > 0
        BY <1>5, <2>0, <3>4, <4>2, <4>3 DEF MergeInv
      <4>5. SignalTypes'
        BY <2>0, <3>1, <3>3, <3>4, <4>4 DEF SignalTypes
      <4>6. MergedIsBest'
        BY <2>0, <3>1, <3>4, <4>4, MergedStays DEF MergeInv
      <4>7. \A i \in 1 .. Len(store') : store'[i].key = CacheKey /\ store'[i].value = answer'
        <5>1. PICK e : Thins(e, Without(CacheKey), store, Entries(CacheKey))
          BY <2>0, <4>1, WithoutIs
        <5>2. Without(CacheKey) \in Seq([key : Keys, value : Seq(Signal), at : Nat])
          BY <2>0, <4>1, WithoutIs
        <5>3. \A i \in 1 .. Len(Without(CacheKey)) : FALSE
          BY <1>5, <2>0, <5>1 DEF Thins, Entries, MergeInv
        <5>4. Len(Without(CacheKey)) \in Nat
          BY <5>2
        <5>5. Len(Without(CacheKey)) = 0
          BY <5>3, <5>4
        <5>6. store' = <<Entry(CacheKey)>>
          BY <4>3, <5>2, <5>5, EmptySeq
        <5> QED
          BY <1>5, <2>0, <4>2, <4>4, <5>6 DEF MergeInv
      <4>8. MergeInv'
        BY <3>1, <3>3, <3>4, <4>6, <4>7 DEF MergeInv
      <4> QED
        BY <1>1, <1>5, <3>2, <4>5, <4>8 DEF TrendInv
    <3>5. CASE Miss(CacheKey) /\ stage' = "search" /\ signals' = <<>> /\ UNCHANGED answer
      <4>1. SignalTypes'
        BY <2>0, <3>1, <3>3, <3>5 DEF SignalTypes
      <4>2. CacheTypes(Seq(Signal)) /\ store' = Without(CacheKey)
        BY <2>0, <3>5 DEF CacheInv, Miss
      <4>3. PICK e : Thins(e, Without(CacheKey), store, Entries(CacheKey))
        BY <2>0, <4>2, WithoutIs
      <4>4. \A i \in 1 .. Len(store') : FALSE
        BY <1>5, <2>0, <4>2, <4>3 DEF Thins, Entries, MergeInv
      <4>5. MergeInv'
        BY <3>1, <3>3, <3>5, <4>4 DEF MergeInv, MergedIsBest
      <4> QED
        BY <1>1, <1>5, <3>2, <4>1, <4>5 DEF TrendInv
    <3> QED
      BY <3>1, <3>4, <3>5
  <2>2. CASE Search
    <3>1. /\ stage = "search" /\ stage' \in {"reply", "google"}
          /\ UNCHANGED <<attempt, best, rest, answer, fetches>> /\ UNCHANGED cvars
          /\ signals' = signals \/ Collect("youtube", Synthetic)
      BY <2>2 DEF Search
    <3>2. signals' \in Seq(Signal) /\ attempt' \in 0 .. MaxRetries
      BY <2>0, <3>1, SignalFacts, CollectIs DEF SignalTypes
    <3> QED
      BY <1>1, <1>5, <3>1, <3>2, SearchKept
  <2>3. CASE SearchFails
    <3>1. /\ stage = "reply" /\ stage' \in {"search", "google"}
          /\ UNCHANGED <<signals, best, rest, answer, fetches>> /\ UNCHANGED cvars
          /\ \/ UNCHANGED attempt
             \/ attempt < MaxRetries /\ attempt' = attempt + 1
      BY <2>3 DEF SearchFails
    <3>2. signals' \in Seq(Signal) /\ attempt' \in 0 .. MaxRetries
      BY <2>0, <3>1, SignalFacts DEF SignalTypes
    <3> QED
      BY <1>1, <1>5, <3>1, <3>2, SearchKept
  <2>4. CASE SearchReplies
    <3>1. /\ stage = "reply" /\ stage' = "google"
          /\ UNCHANGED <<attempt, best, rest, answer, fetches>> /\ UNCHANGED cvars
          /\ \/ \E titles \in TitleSeqs : Collect("youtube", Ranked(titles))
             \/ Collect("youtube", Synthetic)
      BY <2>4 DEF SearchReplies
    <3>2. signals' \in Seq(Signal)
      BY <2>0, <3>1, SignalFacts, RankedIs, CollectIs
    <3>3. attempt' \in 0 .. MaxRetries
      BY <2>0, <3>1 DEF SignalTypes
    <3> QED
      BY <1>1, <1>5, <3>1, <3>2, <3>3, SearchKept
  <2>5. CASE Google
    <3>1. /\ stage = "google" /\ stage' = "merge" /\ best' = <<>> /\ rest' = signals'
          /\ UNCHANGED <<attempt, answer, fetches>> /\ UNCHANGED cvars
          /\ \/ \E t \in Titles, volume \in 0 .. Top :
                   Collect("google", <<[title |-> t, score |-> volume]>>)
             \/ UNCHANGED signals
      BY <2>5 DEF Google
    <3>2. signals' \in Seq(Signal)
      <4>1. ASSUME NEW t \in Titles, NEW volume \in 0 .. Top
            PROVE  <<[title |-> t, score |-> volume]>> \in Seq(Signal)
        <5>1. [title |-> t, score |-> volume] \in Signal
          BY DEF Signal
        <5> QED
          BY <5>1
      <4>2. ASSUME NEW t \in Titles, NEW volume \in 0 .. Top,
                   Collect("google", <<[title |-> t, score |-> volume]>>)
            PROVE  signals' \in Seq(Signal)
        BY <2>0, <4>1, <4>2, CollectIs
      <4> QED
        BY <2>0, <3>1, <4>2 DEF SignalTypes
    <3>3. SignalTypes'
      BY <2>0, <3>1, <3>2 DEF SignalTypes
    <3>4. Done' = 0
      <4>1. Len(signals') \in Nat
        BY <3>2
      <4> QED
        BY <3>1, <4>1 DEF Done
    <3>5. MergeInv'
      <4>1. Deduped(best', signals', 0)
        BY <3>1 DEF Deduped
      <4>2. \A i \in 1 .. Len(rest') : rest'[i] = signals'[0 + i]
        BY <3>1
      <4>3. MergedIsBest'
        BY <3>1 DEF MergedIsBest
      <4> QED
        BY <1>1, <2>0, <3>1, <3>4, <4>1, <4>2, <4>3 DEF MergeInv, cvars
    <3>6. CacheInv(Seq(Signal))'
      BY <2>0, <3>1, CacheStays
    <3> QED
      BY <1>1, <1>5, <3>3, <3>5, <3>6 DEF TrendInv
  <2>6. CASE Deduplicate
    <3>1. /\ stage = "merge" /\ rest # <<>> /\ best' = Keep(Head(rest)) /\ rest' = Tail(rest)
          /\ UNCHANGED <<stage, attempt, signals, answer, fetches>> /\ UNCHANGED cvars
      BY <2>6 DEF Deduplicate
    <3>2. /\ signals \in Seq(Signal) /\ best \in Seq(Signal) /\ rest \in Seq(Signal)
      BY <2>0 DEF SignalTypes
    <3>3. /\ Done \in Nat /\ Deduped(best, signals, Done)
          /\ \A i \in 1 .. Len(rest) : rest[i] = signals[Done + i]
      BY <2>0, <3>1 DEF MergeInv
    <3>4. /\ Tail(rest) \in Seq(Signal) /\ Len(Tail(rest)) = Len(rest) - 1
          /\ \A i \in 1 .. Len(Tail(rest)) : Tail(rest)[i] = rest[i + 1]
      BY <3>1, <3>2, HeadTailProperties
    <3>5. Len(rest) \in Nat /\ Len(rest) > 0 /\ Len(signals) \in Nat /\ Head(rest) = rest[1]
      BY <3>1, <3>2
    <3>6. Head(rest) = signals[Done + 1]
      BY <3>3, <3>5
    <3>7. Done + 1 <= Len(signals) /\ Done' = Done + 1
      BY <3>1, <3>4, <3>5 DEF Done
    <3>8. best' \in Seq(Signal) /\ Deduped(best', signals, Done + 1)
      BY <3>1, <3>2, <3>3, <3>6, <3>7, KeepDedupes
    <3>9. \A i \in 1 .. Len(rest') : rest'[i] = signals[(Done + 1) + i]
      <4> TAKE i \in 1 .. Len(rest')
      <4>1. i \in 1 .. Len(rest) - 1 /\ i + 1 \in 1 .. Len(rest) /\ Done + (i + 1) = (Done + 1) + i
        BY <3>1, <3>3, <3>4, <3>5
      <4>2. rest'[i] = rest[i + 1]
        BY <3>1, <3>4
      <4> QED
        BY <3>3, <4>1, <4>2
    <3>10. SignalTypes'
      BY <2>0, <3>1, <3>4, <3>8 DEF SignalTypes
    <3>11. MergedIsBest'
      BY <3>1 DEF MergedIsBest
    <3>12. MergeInv'
      <4>1. Done' \in Nat /\ Deduped(best', signals', Done')
            /\ \A i \in 1 .. Len(rest') : rest'[i] = signals'[Done' + i]
        BY <3>1, <3>3, <3>7, <3>8, <3>9
      <4>2. \A i \in 1 .. Len(store') :
               store'[i].key = CacheKey /\ store'[i].value = answer' /\ fetches' > 0
        BY <1>5, <2>0, <3>1 DEF MergeInv, cvars
      <4> QED
        BY <2>0, <3>1, <3>11, <4>1, <4>2 DEF MergeInv
    <3>13. CacheInv(Seq(Signal))'
      BY <2>0, <3>1, CacheStays
    <3> QED
      BY <1>1, <1>5, <3>10, <3>12, <3>13 DEF TrendInv
  <2>7. CASE Merge
    <3>1. /\ stage = "merge" /\ rest = <<>> /\ stage' = "idle" /\ answer' = Merged
          /\ Put(CacheKey, Merged)
          /\ UNCHANGED <<attempt, signals, best, rest, fetches>>
      BY <2>7 DEF Merge
    <3>2. signals \in Seq(Signal) /\ best \in Seq(Signal) /\ Len(signals) \in Nat
      BY <2>0 DEF SignalTypes
    <3>3. Done = Len(signals) /\ Deduped(best, signals, Len(signals)) /\ fetches > 0
      <4>1. Done = Len(signals)
        BY <3>1, <3>2 DEF Done
      <4> QED
        BY <2>0, <3>1, <4>1 DEF MergeInv
    <3>4. /\ Merged \in Seq(Signal)
          /\ IF signals = <<>> THEN Merged = Synthetic
             ELSE /\ Deduped(Merged, signals, Len(signals))
                  /\ \A i, j \in 1 .. Len(Merged) : i <= j => Merged[i].score >= Merged[j].score
      <4>1. CASE signals = <<>>
        BY <4>1, SignalFacts DEF Merged
      <4>2. CASE signals # <<>>
        <5>1. Merged = Sorted
          BY <4>2 DEF Merged
        <5> QED
          BY <3>2, <3>3, <4>2, <5>1, SortedIs
      <4> QED
        BY <4>1, <4>2
    <3>5. MergedIsBest'
      <4>1. IsMerged(Merged, signals)
        BY <3>2, <3>4, AnswerIsBest
      <4>2. IsMerged(answer', signals')
        BY <3>1, <4>1
      <4> QED
        BY <4>2, MergedNext
    <3>6. SignalTypes'
      BY <2>0, <3>1, <3>4 DEF SignalTypes
    <3>7. \A i \in 1 .. Len(store') : store'[i].key = CacheKey /\ store'[i].value = answer'
      <4> DEFINE x == [key |-> CacheKey, value |-> Merged, at |-> now]
                 w == Without(CacheKey)
      <4>1. CacheTypes(Seq(Signal))
        BY <2>0 DEF CacheInv
      <4>2. PICK e : Thins(e, w, store, Entries(CacheKey))
        BY <2>0, <4>1, WithoutIs
      <4>3. w \in Seq([key : Keys, value : Seq(Signal), at : Nat])
        BY <2>0, <4>1, WithoutIs
      <4>4. \A i \in 1 .. Len(w) : FALSE
        BY <1>5, <2>0, <4>2 DEF Thins, Entries, MergeInv
      <4>5. w = <<>>
        <5>1. Len(w) \in Nat
          BY <4>3
        <5>2. Len(w) = 0
          BY <4>4, <5>1
        <5> QED
          BY <4>3, <5>2, EmptySeq
      <4>6. store' = IF Len(Append(w, x)) > Capacity THEN Tail(Append(w, x)) ELSE Append(w, x)
        BY <3>1 DEF Put
      <4>7. Append(w, x) = <<x>> /\ Len(<<x>>) = 1
        BY <4>5
      <4>8. Capacity \in Nat /\ Capacity > 0
        BY <4>1, CacheFacts
      <4> HIDE DEF x, w
      <4>9. store' = <<x>>
        BY <4>6, <4>7, <4>8
      <4> QED
        BY <3>1, <4>9 DEF x
    <3>8. MergeInv'
      BY <3>1, <3>3, <3>5, <3>7 DEF MergeInv
    <3>9. CacheInv(Seq(Signal))'
      BY <2>0, <3>1, <3>4, CacheKept
    <3> QED
      BY <1>1, <1>5, <3>6, <3>8, <3>9 DEF TrendInv
  <2>8. CASE Pass /\ UNCHANGED tvars
    <3>1. CacheInv(Seq(Signal))'
      BY <2>0, <2>8, CacheKept
    <3>2. SignalTypes' /\ MergeInv'
      BY <1>2, <2>8 DEF Pass
    <3> QED
      BY <1>1, <1>5, <3>1, <3>2 DEF TrendInv
  <2> QED
    BY <1>5, <2>1, <2>2, <2>3, <2>4, <2>5, <2>6, <2>7, <2>8 DEF TNext, TStep
<1> QED
  BY <1>3, <1>4, <1>5, TrendMoves

\* The invariant is what the cache promises.
LEMMA ServesAll ==
    ASSUME NEW Vals, CacheInv(Vals) PROVE ServesLru
<1>1. /\ CacheTypes(Vals) /\ Stored(store, touched, latest) /\ Answers
      /\ Crowded(store, touched, latest, now)
  BY DEF CacheInv, Serves
<1>2. Len(store) <= Capacity /\ Capacity \in Nat /\ Len(touched) \in Nat
      /\ \A i, j \in 1 .. Len(store) : store[i].key = store[j].key => i = j
  BY <1>1, CacheFacts
<1>3. ASSUME NEW k \in Keys, latest[k].value # NoValue, now - latest[k].at <= Ttl,
             Contains(touched, k), Since(k) < Capacity
      PROVE  Entries(k) # {} /\ Entry(k).value = latest[k].value
  <2>1. PICK a \in 1 .. Len(touched) : touched[a] = k
    BY <1>3 DEF Contains
  <2> DEFINE later == {i \in 1 .. Len(touched) : \E j \in 1 .. i - 1 : touched[j] = k}
  <2>2. \A j \in 1 .. Len(touched) : touched[j] = k => j = a
    BY <1>1, <2>1 DEF CacheTypes
  <2>3. later = a + 1 .. Len(touched)
    <3>1. ASSUME NEW i \in later PROVE i \in a + 1 .. Len(touched)
      <4>1. PICK j \in 1 .. i - 1 : touched[j] = k
        OBVIOUS
      <4>2. j \in 1 .. Len(touched) /\ j < i
        BY <1>2
      <4>3. j = a
        BY <2>2, <4>1, <4>2
      <4> QED
        BY <1>2, <4>2, <4>3
    <3>2. ASSUME NEW i \in a + 1 .. Len(touched) PROVE i \in later
      <4>1. a \in 1 .. i - 1 /\ i \in 1 .. Len(touched)
        BY <1>2, <2>1
      <4> QED
        BY <2>1, <4>1
    <3> HIDE DEF later
    <3> QED
      BY <3>1, <3>2
  <2>4. Cardinality(a + 1 .. Len(touched)) = Len(touched) - a
    <3>1. a + 1 \in Int /\ Len(touched) \in Int
      BY <1>2, <2>1
    <3>2. Cardinality(a + 1 .. Len(touched)) =
             IF a + 1 > Len(touched) THEN 0 ELSE Len(touched) - (a + 1) + 1
      BY <3>1, FS_Interval, Zenon
    <3> QED
      BY <1>2, <2>1, <3>2
  <2>5. Len(touched) - a < Capacity
    BY <1>3, <2>3, <2>4 DEF Since
  <2>6. PICK i \in 1 .. Len(store) : store[i].key = k
    BY <1>1, <1>2, <1>3, <2>1, <2>5 DEF Crowded
  <2>7. Entries(k) = {i}
    BY <1>2, <2>6 DEF Entries
  <2>8. Entry(k) = store[i]
    BY <2>7 DEF Entry
  <2>9. store[i].value = latest[store[i].key].value
    BY <1>1, <2>6 DEF Stored
  <2> QED
    BY <2>6, <2>7, <2>8, <2>9
<1>4. \A k \in Keys : got.key = k /\ got.value # NoValue =>
         got.value = latest[k].value /\ now - latest[k].at <= Ttl
  BY <1>1 DEF Answers
<1> QED
  BY <1>2, <1>3, <1>4 DEF ServesLru

\* For any keys, capacity and time to live, and with fetch() or any other clients: what the
\* cache serves is the last value put and young, and what an LRU cache must still have
\* is there (cache.py:48-104).
THEOREM ServesLruHolds == MSpec => []ServesLru
<1>1. TrendInv => ServesLru
  BY ServesAll DEF TrendInv
<1> QED
  BY <1>1, TrendInit, TrendKept, PTL DEF MSpec

\* For any titles, scores and weights, and whether it is merged now or comes from the cache:
\* fetch() answers every title once with its best weighted score, the best first
\* (composite.py:114-182).
THEOREM MergedIsBestHolds == MSpec => []MergedIsBest
<1>1. TrendInv => MergedIsBest
  BY DEF TrendInv, MergeInv
<1> QED
  BY <1>1, TrendInit, TrendKept, PTL DEF MSpec
=============================================================================
