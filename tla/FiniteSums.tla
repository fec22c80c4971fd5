----------------------------- MODULE FiniteSums -----------------------------
(***************************************************************************)
(* Induction over finite sets, what FoldFunction computes when it adds or   *)
(* multiplies, powers and the arithmetic they need.  The library's induction *)
(* theorems have an operator for the predicate; here it is a set of         *)
(* counterexamples, of which there is a least one.                          *)
(***************************************************************************)
EXTENDS Integers, Sequences, Functions, Powers, Sampling, FiniteSetTheorems, FunctionTheorems, WellFoundedInduction, TLAPS

LEMMA Least == ASSUME NEW T \in SUBSET Nat, T # {} PROVE \E n \in T : \A m \in T : n <= m
<1>1. PICK n \in T : \A m \in T : ~ (<<m, n>> \in OpToRel(<, Nat))
  BY NatLessThanWellFounded, WFMin
<1>2. \A m \in T : ~ (m < n)
  BY <1>1 DEF OpToRel
<1> QED
  BY <1>2

\* Of the sets that go wrong there is one such that no smaller one does.
LEMMA LeastSet ==
    ASSUME NEW S, IsFiniteSet(S), NEW C \in SUBSET SUBSET S, C # {}
    PROVE  \E T \in C : \A U \in SUBSET T : U # T => U \notin C
<1>1. \A T \in C : IsFiniteSet(T) /\ Cardinality(T) \in Nat
  BY FS_Subset, FS_CardinalityType
<1> DEFINE sizes == {Cardinality(T) : T \in C}
<1>2. PICK n \in sizes : \A m \in sizes : n <= m
  <2>1. sizes \in SUBSET Nat /\ sizes # {}
    BY <1>1
  <2> HIDE DEF sizes
  <2> QED
    BY <2>1, Least
<1>3. PICK T \in C : Cardinality(T) = n
  OBVIOUS
<1>4. ASSUME NEW U \in SUBSET T, U # T PROVE U \notin C
  <2>1. IsFiniteSet(T) /\ Cardinality(T) \in Nat
    BY <1>1
  <2>2. IsFiniteSet(U) /\ Cardinality(U) <= Cardinality(T) /\ Cardinality(U) # Cardinality(T)
    BY <1>4, <2>1, FS_Subset
  <2>3. Cardinality(U) \in Nat
    BY <2>2, FS_CardinalityType
  <2>4. ~ n <= Cardinality(U)
    BY <1>3, <2>1, <2>2, <2>3
  <2> QED
    BY <1>2, <2>4
<1> QED
  BY <1>4

LEMMA FiniteImage == ASSUME NEW n \in Nat, NEW f PROVE IsFiniteSet({f[i] : i \in 1 .. n})
<1> DEFINE T == {f[i] : i \in 1 .. n}
           g == [i \in 1 .. n |-> f[i]]
<1>1. IsFiniteSet(1 .. n)
  BY FS_Interval
<1>2. g \in Surjection(1 .. n, T)
  BY DEF Surjection
<1> HIDE DEF T, g
<1>3. IsFiniteSet(T)
  BY <1>1, <1>2, FS_Surjection
<1> QED
  BY <1>3 DEF T
------------------------------------------------------------------------------
SumOf(f) == FoldFunction(+, 0, f)
ProductOf(b, f) == FoldFunction(LAMBDA x, y : x * y, b, f)

First(s) == CHOOSE x \in s : TRUE

Parts(S) == SUBSET S

\* Both at once: how says what is done with the numbers.
Join(how, x, y) == IF how = "sum" THEN x + y ELSE x * y

\* g folds f over the sets in D, from b on.
Folds(how, b, g, f, D) ==
    g = [s \in D |-> IF s = {} THEN b ELSE Join(how, f[First(s)], g[s \ {First(s)}])]

FoldOn(how, b, f, S) == (CHOOSE g : Folds(how, b, g, f, Parts(S)))[S]

SumOn(f, S) == FoldOn("sum", 0, f, S)
ProductOn(b, f, S) == FoldOn("product", b, f, S)

LEMMA SumOfIsSumOn == \A f : SumOf(f) = SumOn(f, DOMAIN f)
BY DEF SumOf, SumOn, FoldOn, FoldFunction, FoldFunctionOnSet, MapThenFoldSet, Folds, Join, First, Parts

LEMMA ProductOfIsProductOn == \A b, f : ProductOf(b, f) = ProductOn(b, f, DOMAIN f)
BY DEF ProductOf, ProductOn, FoldOn, FoldFunction, FoldFunctionOnSet, MapThenFoldSet, Folds, Join,
       First, Parts

LEMMA FirstIs == \A s : s # {} => First(s) \in s
BY DEF First

\* The fold over the sets of at most n elements, from that over those of fewer.
LEMMA FoldsExists == ASSUME NEW how, NEW b, NEW f, NEW S, IsFiniteSet(S) PROVE \E g : Folds(how, b, g, f, Parts(S))
<1> DEFINE Small(n) == {s \in SUBSET S : Cardinality(s) <= n}
<1>1. \A s \in SUBSET S : IsFiniteSet(s) /\ Cardinality(s) \in Nat
                          /\ Cardinality(s) <= Cardinality(S)
  BY FS_Subset, FS_CardinalityType
<1>2. \A s \in SUBSET S : s # {} =>
         s \ {First(s)} \in SUBSET S /\ Cardinality(s \ {First(s)}) = Cardinality(s) - 1
  BY <1>1, FirstIs, FS_RemoveElement
<1> DEFINE bad == {n \in Nat : ~ \E g : Folds(how, b, g, f, Small(n))}
<1>3. CASE bad = {}
  <2>1. Cardinality(S) \in Nat
    BY <1>1
  <2>2. Small(Cardinality(S)) = Parts(S)
    BY <1>1 DEF Parts
  <2>3. \E g : Folds(how, b, g, f, Small(Cardinality(S)))
    BY <1>3, <2>1
  <2> QED
    BY <2>2, <2>3
<1>4. CASE bad # {}
  <2>1. PICK n \in bad : \A m \in bad : n <= m
    <3>1. bad \in SUBSET Nat
      OBVIOUS
    <3> HIDE DEF bad
    <3> QED
      BY <1>4, <3>1, Least
  <2>2. CASE n = 0
    <3> DEFINE g == [s \in Small(0) |-> b]
    <3>1. \A s \in Small(0) : s = {}
      BY <1>1, FS_EmptySet
    <3>2. Folds(how, b, g, f, Small(0))
      BY <3>1 DEF Folds
    <3> QED
      BY <2>1, <2>2, <3>2
  <2>3. CASE n # 0
    <3>1. n \in Nat /\ n - 1 \in Nat /\ ~ n <= n - 1
      BY <2>3
    <3>2. PICK g : Folds(how, b, g, f, Small(n - 1))
      BY <2>1, <3>1
    <3> DEFINE h == [s \in Small(n) |-> IF s = {} THEN b ELSE Join(how, f[First(s)], g[s \ {First(s)}])]
    <3>3. \A s \in Small(n) : s # {} => s \ {First(s)} \in Small(n - 1)
      BY <1>1, <1>2, <3>1
    <3>4. \A s \in Small(n - 1) : s \in Small(n) /\ h[s] = g[s]
      <4> TAKE s \in Small(n - 1)
      <4>1. s \in Small(n)
        BY <1>1, <3>1
      <4> QED
        BY <3>2, <4>1 DEF Folds
    <3>5. h = [s \in Small(n) |-> IF s = {} THEN b ELSE Join(how, f[First(s)], h[s \ {First(s)}])]
      BY <3>3, <3>4
    <3>6. Folds(how, b, h, f, Small(n))
      BY <3>5 DEF Folds
    <3> QED
      BY <2>1, <3>6
  <2> QED
    BY <2>2, <2>3
<1> QED
  BY <1>3, <1>4

\* It does not matter in which set's subsets a set is folded.
LEMMA FoldsAlike ==
    ASSUME NEW how, NEW b, NEW f, NEW S, NEW T, IsFiniteSet(T), T \subseteq S,
           NEW g, Folds(how, b, g, f, Parts(S)), NEW h, Folds(how, b, h, f, Parts(T))
    PROVE  g[T] = h[T]
<1> DEFINE bad == {U \in SUBSET T : g[U] # h[U]}
<1>1. SUFFICES ASSUME bad # {} PROVE FALSE
  OBVIOUS
<1>2. PICK U \in bad : \A V \in SUBSET U : V # U => V \notin bad
  <2>1. bad \in SUBSET SUBSET T
    OBVIOUS
  <2> HIDE DEF bad
  <2> QED
    BY <1>1, <2>1, LeastSet
<1>3. U \in Parts(T) /\ U \in Parts(S) /\ g[U] # h[U]
  BY DEF Parts
<1>4. /\ U = {} => g[U] = b /\ h[U] = b
      /\ U # {} => /\ g[U] = Join(how, f[First(U)], g[U \ {First(U)}])
                   /\ h[U] = Join(how, f[First(U)], h[U \ {First(U)}])
  <2> HIDE DEF bad
  <2>1. /\ U = {} => g[U] = b
        /\ U # {} => g[U] = Join(how, f[First(U)], g[U \ {First(U)}])
    BY <1>3 DEF Folds
  <2>2. /\ U = {} => h[U] = b
        /\ U # {} => h[U] = Join(how, f[First(U)], h[U \ {First(U)}])
    BY <1>3 DEF Folds
  <2> QED
    BY <2>1, <2>2
<1>5. U # {}
  BY <1>3, <1>4
<1>6. U \ {First(U)} \in SUBSET T /\ U \ {First(U)} # U /\ U \ {First(U)} \in SUBSET U
  BY <1>3, <1>5, FirstIs DEF Parts
<1>7. g[U \ {First(U)}] = h[U \ {First(U)}]
  BY <1>2, <1>6
<1> QED
  BY <1>3, <1>4, <1>5, <1>7

LEMMA FoldOnFirst ==
    ASSUME NEW how, NEW b, NEW f, NEW S, IsFiniteSet(S)
    PROVE  /\ S = {} => FoldOn(how, b, f, S) = b
           /\ S # {} => FoldOn(how, b, f, S) = Join(how, f[First(S)], FoldOn(how, b, f, S \ {First(S)}))
<1> DEFINE g == CHOOSE g : Folds(how, b, g, f, Parts(S))
           T == S \ {First(S)}
           h == CHOOSE h : Folds(how, b, h, f, Parts(T))
<1>1. IsFiniteSet(T) /\ T \in SUBSET S /\ S \in SUBSET S
  BY FS_Subset
<1>2. Folds(how, b, g, f, Parts(S)) /\ Folds(how, b, h, f, Parts(T))
  BY <1>1, FoldsExists
<1>3. FoldOn(how, b, f, S) = g[S] /\ FoldOn(how, b, f, T) = h[T]
  BY DEF FoldOn
<1> HIDE DEF g, h, T
<1>4. g[T] = h[T]
  <2>1. T \subseteq S
    BY <1>1
  <2>2. IsFiniteSet(T)
    BY <1>1
  <2> QED
    BY <1>2, <2>1, <2>2, FoldsAlike
<1>5. (S = {} => g[S] = b) /\ (S # {} => g[S] = Join(how, f[First(S)], g[T]))
  <2>1. S \in Parts(S)
    BY DEF Parts
  <2> QED
    BY <1>2, <2>1 DEF T, Folds
<1> QED
  BY <1>3, <1>4, <1>5 DEF T

LEMMA SumOnFirst ==
    ASSUME NEW f, NEW S, IsFiniteSet(S)
    PROVE  /\ S = {} => SumOn(f, S) = 0
           /\ S # {} => SumOn(f, S) = f[First(S)] + SumOn(f, S \ {First(S)})
BY FoldOnFirst DEF SumOn, Join

LEMMA ProductOnFirst ==
    ASSUME NEW b, NEW f, NEW S, IsFiniteSet(S)
    PROVE  /\ S = {} => ProductOn(b, f, S) = b
           /\ S # {} => ProductOn(b, f, S) = f[First(S)] * ProductOn(b, f, S \ {First(S)})
BY FoldOnFirst DEF ProductOn, Join

LEMMA SumOnInt ==
    ASSUME NEW f, NEW S, IsFiniteSet(S), \A x \in S : f[x] \in Int
    PROVE  SumOn(f, S) \in Int
<1> DEFINE bad == {T \in SUBSET S : SumOn(f, T) \notin Int}
<1>1. SUFFICES ASSUME bad # {} PROVE FALSE
  OBVIOUS
<1>2. PICK T \in bad : \A U \in SUBSET T : U # T => U \notin bad
  <2>1. bad \in SUBSET SUBSET S
    OBVIOUS
  <2> HIDE DEF bad
  <2> QED
    BY <1>1, <2>1, LeastSet
<1>3. IsFiniteSet(T) /\ T \in SUBSET S
  BY FS_Subset
<1>4. T # {}
  <2>1. SumOn(f, T) \notin Int
    OBVIOUS
  <2>2. T = {} => SumOn(f, T) = 0
    BY <1>3, SumOnFirst
  <2> QED
    BY <2>1, <2>2
<1>5. SumOn(f, T \ {First(T)}) \in Int /\ f[First(T)] \in Int
  BY <1>2, <1>3, <1>4, FirstIs
<1> QED
  BY <1>3, <1>4, <1>5, SumOnFirst

\* Any element may be added last.
LEMMA SumOnTake ==
    ASSUME NEW f, NEW S, IsFiniteSet(S), \A x \in S : f[x] \in Int, NEW y \in S
    PROVE  SumOn(f, S) = f[y] + SumOn(f, S \ {y})
<1> DEFINE bad == {T \in SUBSET S : \E x \in T : SumOn(f, T) # f[x] + SumOn(f, T \ {x})}
<1>1. SUFFICES ASSUME bad # {} PROVE FALSE
  OBVIOUS
<1>2. PICK T \in bad : \A U \in SUBSET T : U # T => U \notin bad
  <2>1. bad \in SUBSET SUBSET S
    OBVIOUS
  <2> HIDE DEF bad
  <2> QED
    BY <1>1, <2>1, LeastSet
<1>3. IsFiniteSet(T) /\ T \in SUBSET S /\ \A x \in T : f[x] \in Int
  BY FS_Subset
<1>4. PICK x \in T : SumOn(f, T) # f[x] + SumOn(f, T \ {x})
  OBVIOUS
<1> DEFINE p == First(T)
<1>5. p \in T /\ SumOn(f, T) = f[p] + SumOn(f, T \ {p})
  BY <1>3, SumOnFirst, FirstIs
<1> HIDE DEF p
<1>6. p # x
  BY <1>4, <1>5
<1>7. SumOn(f, T \ {p}) = f[x] + SumOn(f, (T \ {p}) \ {x})
  <2>1. T \ {p} \notin bad /\ x \in T \ {p} /\ T \ {p} \in SUBSET S
    BY <1>2, <1>5, <1>6
  <2> QED
    BY <2>1
<1>8. SumOn(f, T \ {x}) = f[p] + SumOn(f, (T \ {x}) \ {p})
  <2>1. T \ {x} \notin bad /\ p \in T \ {x} /\ T \ {x} \in SUBSET S
    BY <1>2, <1>5, <1>6
  <2> QED
    BY <2>1
<1>9. (T \ {p}) \ {x} = (T \ {x}) \ {p}
  OBVIOUS
<1>10. SumOn(f, (T \ {x}) \ {p}) \in Int
  BY <1>3, FS_Subset, SumOnInt
<1>11. f[x] \in Int /\ f[p] \in Int
  BY <1>3, <1>5
<1>12. SumOn(f, T) = f[x] + SumOn(f, T \ {x})
  <2> DEFINE rest == SumOn(f, (T \ {x}) \ {p})
  <2>1. SumOn(f, T \ {p}) = f[x] + rest
    BY <1>7, <1>9
  <2>2. SumOn(f, T \ {x}) = f[p] + rest /\ rest \in Int
    BY <1>8, <1>10
  <2> HIDE DEF rest
  <2> QED
    BY <1>5, <1>11, <2>1, <2>2
<1> QED
  BY <1>4, <1>12

\* Sums compare as what they add up.
LEMMA SumOnCompare ==
    ASSUME NEW f, NEW g, NEW S, IsFiniteSet(S), NEW c \in Int, NEW d \in Int,
           \A x \in S : f[x] \in Int /\ g[x] \in Int /\ c * f[x] <= d * g[x]
    PROVE  c * SumOn(f, S) <= d * SumOn(g, S)
<1> DEFINE bad == {T \in SUBSET S : ~ c * SumOn(f, T) <= d * SumOn(g, T)}
<1>1. SUFFICES ASSUME bad # {} PROVE FALSE
  OBVIOUS
<1>2. PICK T \in bad : \A U \in SUBSET T : U # T => U \notin bad
  <2>1. bad \in SUBSET SUBSET S
    OBVIOUS
  <2> HIDE DEF bad
  <2> QED
    BY <1>1, <2>1, LeastSet
<1>3. IsFiniteSet(T) /\ T \in SUBSET S /\ ~ c * SumOn(f, T) <= d * SumOn(g, T)
  BY FS_Subset
<1>4. T # {}
  <2>1. T = {} => SumOn(f, T) = 0 /\ SumOn(g, T) = 0
    BY <1>3, SumOnFirst
  <2> QED
    BY <1>3, <2>1
<1> DEFINE p == First(T)
           U == T \ {p}
<1>5. p \in S /\ U \in SUBSET T /\ U # T /\ U \in SUBSET S
  BY <1>3, <1>4, FirstIs
<1>6. SumOn(f, T) = f[p] + SumOn(f, U) /\ SumOn(g, T) = g[p] + SumOn(g, U)
  BY <1>3, <1>4, SumOnFirst
<1>7. SumOn(f, U) \in Int /\ SumOn(g, U) \in Int
  <2>1. IsFiniteSet(U) /\ \A x \in U : f[x] \in Int /\ g[x] \in Int
    BY <1>5, FS_Subset
  <2> HIDE DEF U
  <2> QED
    BY <2>1, SumOnInt
<1>8. c * SumOn(f, U) <= d * SumOn(g, U)
  BY <1>2, <1>5
<1>9. f[p] \in Int /\ g[p] \in Int /\ c * f[p] <= d * g[p]
  BY <1>5
<1> HIDE DEF p, U
<1>10. ASSUME NEW a \in Int, NEW b \in Int PROVE c * (a + b) = c * a + c * b /\ d * (a + b) = d * a + d * b
  OBVIOUS
<1>11. /\ c * SumOn(f, T) = c * f[p] + c * SumOn(f, U)
       /\ d * SumOn(g, T) = d * g[p] + d * SumOn(g, U)
  BY <1>6, <1>7, <1>9, <1>10
<1>12. /\ c * f[p] \in Int /\ c * SumOn(f, U) \in Int
       /\ d * g[p] \in Int /\ d * SumOn(g, U) \in Int
  BY <1>7, <1>9
<1>13. c * SumOn(f, T) <= d * SumOn(g, T)
  BY <1>8, <1>9, <1>11, <1>12
<1> QED
  BY <1>3, <1>13

LEMMA SumOnSame ==
    ASSUME NEW f, NEW g, NEW S, IsFiniteSet(S), \A x \in S : f[x] \in Int /\ g[x] = f[x]
    PROVE  SumOn(g, S) = SumOn(f, S)
<1>1. SumOn(f, S) \in Int /\ SumOn(g, S) \in Int
  BY SumOnInt
<1>2. \A x \in S : f[x] \in Int /\ g[x] \in Int /\ 1 * f[x] <= 1 * g[x] /\ 1 * g[x] <= 1 * f[x]
  OBVIOUS
<1>3. 1 * SumOn(f, S) <= 1 * SumOn(g, S) /\ 1 * SumOn(g, S) <= 1 * SumOn(f, S)
  BY <1>2, SumOnCompare
<1> QED
  BY <1>1, <1>3

LEMMA SumOnPlus ==
    ASSUME NEW f, NEW g, NEW h, NEW S, IsFiniteSet(S),
           \A x \in S : f[x] \in Int /\ g[x] \in Int /\ h[x] \in Int /\ f[x] <= g[x] + h[x]
    PROVE  SumOn(f, S) <= SumOn(g, S) + SumOn(h, S)
<1> DEFINE bad == {T \in SUBSET S : ~ SumOn(f, T) <= SumOn(g, T) + SumOn(h, T)}
<1>1. SUFFICES ASSUME bad # {} PROVE FALSE
  OBVIOUS
<1>2. PICK T \in bad : \A U \in SUBSET T : U # T => U \notin bad
  <2>1. bad \in SUBSET SUBSET S
    OBVIOUS
  <2> HIDE DEF bad
  <2> QED
    BY <1>1, <2>1, LeastSet
<1>3. IsFiniteSet(T) /\ T \in SUBSET S /\ ~ SumOn(f, T) <= SumOn(g, T) + SumOn(h, T)
  BY FS_Subset
<1>4. T # {}
  <2>1. T = {} => SumOn(f, T) = 0 /\ SumOn(g, T) = 0 /\ SumOn(h, T) = 0
    BY <1>3, SumOnFirst
  <2> QED
    BY <1>3, <2>1
<1> DEFINE p == First(T)
           U == T \ {p}
<1>5. p \in S /\ U \in SUBSET T /\ U # T /\ U \in SUBSET S
  BY <1>3, <1>4, FirstIs
<1>6. /\ SumOn(f, T) = f[p] + SumOn(f, U) /\ SumOn(g, T) = g[p] + SumOn(g, U)
      /\ SumOn(h, T) = h[p] + SumOn(h, U)
  BY <1>3, <1>4, SumOnFirst
<1>7. SumOn(f, U) \in Int /\ SumOn(g, U) \in Int /\ SumOn(h, U) \in Int
  <2>1. IsFiniteSet(U) /\ \A x \in U : f[x] \in Int /\ g[x] \in Int /\ h[x] \in Int
    BY <1>5, FS_Subset
  <2> HIDE DEF U
  <2> QED
    BY <2>1, SumOnInt
<1>8. SumOn(f, U) <= SumOn(g, U) + SumOn(h, U)
  BY <1>2, <1>5
<1>9. f[p] \in Int /\ g[p] \in Int /\ h[p] \in Int /\ f[p] <= g[p] + h[p]
  BY <1>5
<1> HIDE DEF p, U
<1> QED
  BY <1>3, <1>6, <1>7, <1>8, <1>9

LEMMA SumOnAdd ==
    ASSUME NEW f, NEW g, NEW h, NEW S, IsFiniteSet(S),
           \A x \in S : f[x] \in Int /\ g[x] \in Int /\ h[x] \in Int /\ f[x] = g[x] + h[x]
    PROVE  SumOn(f, S) = SumOn(g, S) + SumOn(h, S)
<1> DEFINE bad == {T \in SUBSET S : SumOn(f, T) # SumOn(g, T) + SumOn(h, T)}
<1>1. SUFFICES ASSUME bad # {} PROVE FALSE
  OBVIOUS
<1>2. PICK T \in bad : \A U \in SUBSET T : U # T => U \notin bad
  <2>1. bad \in SUBSET SUBSET S
    OBVIOUS
  <2> HIDE DEF bad
  <2> QED
    BY <1>1, <2>1, LeastSet
<1>3. IsFiniteSet(T) /\ T \in SUBSET S /\ SumOn(f, T) # SumOn(g, T) + SumOn(h, T)
  BY FS_Subset
<1>4. T # {}
  <2>1. T = {} => SumOn(f, T) = 0 /\ SumOn(g, T) = 0 /\ SumOn(h, T) = 0
    BY <1>3, SumOnFirst
  <2> QED
    BY <1>3, <2>1
<1> DEFINE p == First(T)
           U == T \ {p}
<1>5. p \in S /\ U \in SUBSET T /\ U # T /\ U \in SUBSET S
  BY <1>3, <1>4, FirstIs
<1>6. /\ SumOn(f, T) = f[p] + SumOn(f, U) /\ SumOn(g, T) = g[p] + SumOn(g, U)
      /\ SumOn(h, T) = h[p] + SumOn(h, U)
  BY <1>3, <1>4, SumOnFirst
<1>7. SumOn(f, U) \in Int /\ SumOn(g, U) \in Int /\ SumOn(h, U) \in Int
  <2>1. IsFiniteSet(U) /\ \A x \in U : f[x] \in Int /\ g[x] \in Int /\ h[x] \in Int
    BY <1>5, FS_Subset
  <2> HIDE DEF U
  <2> QED
    BY <2>1, SumOnInt
<1>8. SumOn(f, U) = SumOn(g, U) + SumOn(h, U)
  BY <1>2, <1>5
<1>9. f[p] \in Int /\ g[p] \in Int /\ h[p] \in Int /\ f[p] = g[p] + h[p]
  BY <1>5
<1> HIDE DEF p, U
<1> QED
  BY <1>3, <1>6, <1>7, <1>8, <1>9

\* A sum that counts.
LEMMA SumOnCount ==
    ASSUME NEW S, IsFiniteSet(S), NEW F, NEW m \in Int
    PROVE  SumOn([x \in S |-> IF x \in F THEN m ELSE 0], S) = m * Cardinality(S \cap F)
<1> DEFINE f == [x \in S |-> IF x \in F THEN m ELSE 0]
           bad == {T \in SUBSET S : SumOn(f, T) # m * Cardinality(T \cap F)}
<1>1. SUFFICES ASSUME bad # {} PROVE FALSE
  OBVIOUS
<1>2. PICK T \in bad : \A U \in SUBSET T : U # T => U \notin bad
  <2>1. bad \in SUBSET SUBSET S
    OBVIOUS
  <2> HIDE DEF bad
  <2> QED
    BY <1>1, <2>1, LeastSet
<1>3. IsFiniteSet(T) /\ T \in SUBSET S /\ SumOn(f, T) # m * Cardinality(T \cap F)
  BY FS_Subset
<1>4. T # {}
  <2>1. T = {} => SumOn(f, T) = 0 /\ Cardinality(T \cap F) = 0
    BY <1>3, SumOnFirst, FS_EmptySet
  <2> QED
    BY <1>3, <2>1
<1> DEFINE p == First(T)
           U == T \ {p}
<1>5. p \in T /\ p \in S /\ U \in SUBSET T /\ U # T /\ U \in SUBSET S
  BY <1>3, <1>4, FirstIs
<1>6. SumOn(f, T) = f[p] + SumOn(f, U)
  BY <1>3, <1>4, SumOnFirst
<1>7. SumOn(f, U) = m * Cardinality(U \cap F)
  BY <1>2, <1>5
<1>8. f[p] = IF p \in F THEN m ELSE 0
  BY <1>5
<1>9. IsFiniteSet(T \cap F) /\ Cardinality(U \cap F) \in Nat
  BY <1>3, <1>5, FS_Subset, FS_CardinalityType
<1> HIDE DEF p, f
<1>10. CASE p \in F
  <2>1. Cardinality(U \cap F) = Cardinality(T \cap F) - 1 /\ Cardinality(T \cap F) \in Nat
    <3>1. U \cap F = (T \cap F) \ {p} /\ p \in T \cap F
      BY <1>5, <1>10
    <3>2. Cardinality(T \cap F) \in Nat
      BY <1>9, FS_CardinalityType
    <3>3. Cardinality((T \cap F) \ {p}) = Cardinality(T \cap F) - 1
      BY <1>9, <3>1, FS_RemoveElement
    <3> HIDE DEF U
    <3> QED
      BY <3>1, <3>2, <3>3
  <2> HIDE DEF U
  <2>2. m * Cardinality(T \cap F) = m + m * Cardinality(U \cap F)
    BY <1>9, <2>1
  <2> QED
    BY <1>3, <1>6, <1>7, <1>8, <1>10, <2>2
<1>11. CASE p \notin F
  <2>1. U \cap F = T \cap F
    BY <1>11
  <2>2. m * Cardinality(U \cap F) \in Int
    BY <1>9
  <2> HIDE DEF U
  <2>3. SumOn(f, T) = m * Cardinality(U \cap F)
    BY <1>6, <1>7, <1>8, <1>11, <2>2
  <2> QED
    BY <1>3, <2>1, <2>3
<1> QED
  BY <1>10, <1>11

\* A part of a sum of naturals.
LEMMA SumOnPart ==
    ASSUME NEW f, NEW S, IsFiniteSet(S), \A x \in S : f[x] \in Nat, NEW T, T \subseteq S
    PROVE  SumOn(f, T) \in Nat /\ SumOn(f, T) <= SumOn(f, S)
<1>1. ASSUME NEW U, U \subseteq S PROVE SumOn(f, U) \in Int
  BY <1>1, FS_Subset, SumOnInt
<1>2. ASSUME NEW U, U \subseteq S, NEW V, V \subseteq U PROVE SumOn(f, V) <= SumOn(f, U)
  <2> DEFINE bad == {X \in SUBSET U : V \subseteq X /\ ~ SumOn(f, V) <= SumOn(f, X)}
  <2>1. CASE bad = {}
    <3>1. U \notin bad
      BY <2>1
    <3> QED
      BY <1>2, <3>1
  <2>2. CASE bad # {}
    <3>1. PICK X \in bad : \A Y \in SUBSET X : Y # X => Y \notin bad
      <4>1. IsFiniteSet(U) /\ bad \in SUBSET SUBSET U
        BY <1>2, FS_Subset
      <4> HIDE DEF bad
      <4> QED
        BY <2>2, <4>1, LeastSet
    <3>2. X \subseteq U /\ X \subseteq S /\ V \subseteq X /\ ~ SumOn(f, V) <= SumOn(f, X)
      BY <1>2
    <3>3. X # V
      BY <1>1, <1>2, <3>2
    <3>4. PICK y \in X : y \notin V
      BY <3>2, <3>3
    <3>5. X \ {y} \notin bad
      BY <3>1, <3>4
    <3>6. SumOn(f, V) <= SumOn(f, X \ {y})
      BY <3>2, <3>4, <3>5
    <3>7. SumOn(f, X) = f[y] + SumOn(f, X \ {y})
      <4>1. IsFiniteSet(X) /\ \A x \in X : f[x] \in Int
        BY <3>2, FS_Subset
      <4> QED
        BY <4>1, SumOnTake
    <3>8. f[y] \in Nat /\ SumOn(f, X \ {y}) \in Int /\ SumOn(f, V) \in Int
      <4>1. X \ {y} \subseteq S /\ V \subseteq S
        BY <3>2
      <4> QED
        BY <1>1, <3>2, <4>1
    <3> QED
      BY <3>2, <3>6, <3>7, <3>8
  <2> QED
    BY <2>1, <2>2
<1>3. SumOn(f, {}) = 0
  BY FS_EmptySet, SumOnFirst
<1>4. SumOn(f, T) <= SumOn(f, S) /\ SumOn(f, {}) <= SumOn(f, T) /\ SumOn(f, T) \in Int
  BY <1>1, <1>2
<1> QED
  BY <1>3, <1>4

\* One more at the end of a sequence, and some more at a place.
LEMMA SumOnLast ==
    ASSUME NEW f, NEW n \in Nat, \A i \in 1 .. n + 1 : f[i] \in Int
    PROVE  SumOn(f, 1 .. n + 1) = SumOn(f, 1 .. n) + f[n + 1] /\ SumOn(f, 1 .. n) \in Int
<1>1. n + 1 \in 1 .. n + 1 /\ (1 .. n + 1) \ {n + 1} = 1 .. n
  OBVIOUS
<1>2. IsFiniteSet(1 .. n + 1) /\ IsFiniteSet(1 .. n)
  BY FS_Interval
<1>3. SumOn(f, 1 .. n + 1) = f[n + 1] + SumOn(f, 1 .. n)
  BY <1>1, <1>2, SumOnTake
<1>4. SumOn(f, 1 .. n) \in Int /\ f[n + 1] \in Int
  BY <1>2, SumOnInt
<1> QED
  BY <1>3, <1>4

LEMMA SumOnMore ==
    ASSUME NEW S, IsFiniteSet(S), NEW f \in [S -> Int], NEW y \in S, NEW r \in Int
    PROVE  SumOn([f EXCEPT ![y] = @ + r], S) = SumOn(f, S) + r
<1> DEFINE g == [f EXCEPT ![y] = @ + r]
           T == S \ {y}
<1>1. g \in [S -> Int] /\ g[y] = f[y] + r /\ \A x \in T : g[x] = f[x] /\ f[x] \in Int
  OBVIOUS
<1>2. IsFiniteSet(T) /\ f[y] \in Int
  BY FS_Subset
<1>3. SumOn(f, S) = f[y] + SumOn(f, T) /\ SumOn(g, S) = g[y] + SumOn(g, T)
  <2>1. \A x \in S : f[x] \in Int /\ g[x] \in Int
    BY <1>1
  <2> HIDE DEF g
  <2> QED
    BY <2>1, SumOnTake
<1> HIDE DEF g, T
<1>4. SumOn(g, T) = SumOn(f, T) /\ SumOn(f, T) \in Int
  BY <1>1, <1>2, SumOnSame, SumOnInt
<1> QED
  BY <1>1, <1>2, <1>3, <1>4 DEF g
------------------------------------------------------------------------------
\* p is the table of the powers of b up to n.
PowersUpTo(b, n, p) == p = [k \in 0 .. n |-> IF k = 0 THEN 1 ELSE b * p[k - 1]]

LEMMA PowersAt ==
    ASSUME NEW b \in Nat, NEW n \in Nat, NEW p, PowersUpTo(b, n, p)
    PROVE  DOMAIN p = 0 .. n /\ \A k \in 0 .. n : p[k] = IF k = 0 THEN 1 ELSE b * p[k - 1]
BY DEF PowersUpTo

LEMMA PowersExist == ASSUME NEW b \in Nat, NEW n \in Nat PROVE \E p : PowersUpTo(b, n, p)
<1> DEFINE bad == {m \in Nat : ~ \E p : PowersUpTo(b, m, p)}
<1>1. SUFFICES ASSUME bad # {} PROVE FALSE
  OBVIOUS
<1>2. PICK m \in bad : \A l \in bad : m <= l
  <2>1. bad \in SUBSET Nat
    OBVIOUS
  <2> HIDE DEF bad
  <2> QED
    BY <1>1, <2>1, Least
<1>3. CASE m = 0
  <2>1. PowersUpTo(b, 0, [k \in 0 .. 0 |-> 1])
    BY DEF PowersUpTo
  <2> QED
    BY <1>2, <1>3, <2>1
<1>4. CASE m # 0
  <2>1. m \in Nat /\ m - 1 \in Nat /\ ~ m <= m - 1
    BY <1>4
  <2>2. PICK p : PowersUpTo(b, m - 1, p)
    BY <1>2, <2>1
  <2> DEFINE q == [k \in 0 .. m |-> IF k = 0 THEN 1 ELSE b * p[k - 1]]
  <2>3. \A k \in 0 .. m - 1 : q[k] = p[k]
    <3>1. \A k \in 0 .. m - 1 : p[k] = IF k = 0 THEN 1 ELSE b * p[k - 1]
      BY <2>1, <2>2, PowersAt
    <3>2. 0 .. m - 1 \subseteq 0 .. m
      BY <2>1
    <3> QED
      BY <3>1, <3>2
  <2>4. q = [k \in 0 .. m |-> IF k = 0 THEN 1 ELSE b * q[k - 1]]
    <3>1. \A k \in 0 .. m : k # 0 => k - 1 \in 0 .. m - 1
      BY <2>1
    <3> QED
      BY <2>3, <3>1
  <2>5. PowersUpTo(b, m, q)
    BY <2>4 DEF PowersUpTo
  <2> QED
    BY <1>2, <2>5
<1> QED
  BY <1>3, <1>4

LEMMA PowersAgree ==
    ASSUME NEW b \in Nat, NEW n \in Nat, NEW p, PowersUpTo(b, n, p), NEW m \in Nat, NEW q, PowersUpTo(b, m, q),
           NEW k \in Nat, k <= n, k <= m
    PROVE  p[k] = q[k]
<1> DEFINE bad == {j \in 0 .. k : p[j] # q[j]}
<1>1. SUFFICES ASSUME bad # {} PROVE FALSE
  OBVIOUS
<1>2. PICK j \in bad : \A i \in bad : j <= i
  <2>1. bad \in SUBSET Nat
    OBVIOUS
  <2> HIDE DEF bad
  <2> QED
    BY <1>1, <2>1, Least
<1>3. j \in 0 .. n /\ j \in 0 .. m /\ j \in 0 .. k /\ p[j] # q[j]
  OBVIOUS
<1> HIDE DEF bad
<1>4. p[j] = IF j = 0 THEN 1 ELSE b * p[j - 1]
  BY <1>3, PowersAt
<1>5. q[j] = IF j = 0 THEN 1 ELSE b * q[j - 1]
  BY <1>3, PowersAt
<1>6. j # 0
  BY <1>3, <1>4, <1>5
<1>7. p[j - 1] = q[j - 1]
  <2>1. j - 1 \in 0 .. k /\ ~ j <= j - 1
    BY <1>3, <1>6
  <2> QED
    BY <1>2, <2>1 DEF bad
<1> QED
  BY <1>3, <1>6, <1>7, <1>4, <1>5

LEMMA PowerIs ==
    ASSUME NEW b \in Nat PROVE Power(b)[0] = 1 /\ \A k \in Nat : Power(b)[k + 1] = b * Power(b)[k]
<1> DEFINE upTo(k) == CHOOSE p : PowersUpTo(b, k, p)
           g == [k \in Nat |-> upTo(k)[k]]
           Is(p) == p = [k \in Nat |-> IF k = 0 THEN 1 ELSE b * p[k - 1]]
<1>1. \A k \in Nat : PowersUpTo(b, k, upTo(k))
  BY PowersExist
<1> HIDE DEF upTo
<1>2. g[0] = 1
  <2>1. PowersUpTo(b, 0, upTo(0)) /\ 0 \in 0 .. 0
    BY <1>1
  <2>2. upTo(0)[0] = 1
    BY <2>1, PowersAt
  <2> QED
    BY <2>2
<1>3. \A k \in Nat : k # 0 => g[k] = b * g[k - 1]
  <2> SUFFICES ASSUME NEW k \in Nat, k # 0 PROVE g[k] = b * g[k - 1]
    OBVIOUS
  <2>1. k - 1 \in Nat /\ k - 1 <= k /\ k - 1 <= k - 1
    OBVIOUS
  <2>2. upTo(k)[k] = b * upTo(k)[k - 1]
    BY <1>1, PowersAt
  <2>3. upTo(k)[k - 1] = upTo(k - 1)[k - 1]
    BY <1>1, <2>1, PowersAgree
  <2> QED
    BY <2>1, <2>2, <2>3
<1>4. Is(g)
  BY <1>2, <1>3
<1> HIDE DEF g
<1>5. Is(CHOOSE p : Is(p))
  BY <1>4
<1>6. Power(b) = CHOOSE p : Is(p)
  BY DEF Power
<1>7. Power(b) = [k \in Nat |-> IF k = 0 THEN 1 ELSE b * Power(b)[k - 1]]
  BY <1>5, <1>6
<1> HIDE DEF Is
<1>8. \A k \in Nat : Power(b)[k] = IF k = 0 THEN 1 ELSE b * Power(b)[k - 1]
  BY <1>7
<1>9. \A k \in Nat : k + 1 \in Nat /\ k + 1 # 0 /\ (k + 1) - 1 = k
  OBVIOUS
<1> QED
  BY <1>8, <1>9

LEMMA PowerPositive == ASSUME NEW b \in Nat \ {0}, NEW k \in Nat PROVE Power(b)[k] \in Nat \ {0}
<1> DEFINE bad == {j \in Nat : Power(b)[j] \notin Nat \ {0}}
<1>1. SUFFICES ASSUME bad # {} PROVE FALSE
  OBVIOUS
<1>2. PICK j \in bad : \A i \in bad : j <= i
  <2>1. bad \in SUBSET Nat
    OBVIOUS
  <2> HIDE DEF bad
  <2> QED
    BY <1>1, <2>1, Least
<1>3. j # 0
  BY PowerIs
<1>4. j - 1 \in Nat /\ (j - 1) + 1 = j /\ ~ j <= j - 1
  BY <1>3
<1>5. Power(b)[j - 1] \in Nat \ {0} /\ Power(b)[j] = b * Power(b)[j - 1]
  BY <1>2, <1>4, PowerIs
<1>6. \A x \in Nat \ {0} : b * x \in Nat \ {0}
  OBVIOUS
<1> QED
  BY <1>5, <1>6

LEMMA PowerInBase ==
    ASSUME NEW b \in Nat \ {0}, NEW c \in Nat \ {0}, b <= c, NEW k \in Nat PROVE Power(b)[k] <= Power(c)[k]
<1> DEFINE bad == {j \in Nat : ~ Power(b)[j] <= Power(c)[j]}
<1>1. SUFFICES ASSUME bad # {} PROVE FALSE
  OBVIOUS
<1>2. PICK j \in bad : \A i \in bad : j <= i
  <2>1. bad \in SUBSET Nat
    OBVIOUS
  <2> HIDE DEF bad
  <2> QED
    BY <1>1, <2>1, Least
<1>3. j # 0
  <2>1. Power(b)[0] = 1 /\ Power(c)[0] = 1
    BY PowerIs
  <2> QED
    BY <2>1
<1>4. j - 1 \in Nat /\ (j - 1) + 1 = j /\ ~ j <= j - 1
  BY <1>3
<1> DEFINE x == Power(b)[j - 1]
           y == Power(c)[j - 1]
<1>5. x <= y /\ Power(b)[j] = b * x /\ Power(c)[j] = c * y
  BY <1>2, <1>4, PowerIs
<1>6. x \in Nat /\ y \in Nat
  BY <1>4, PowerPositive
<1> HIDE DEF x, y
<1>7. b * x <= c * x /\ c * x <= c * y
  <2>1. \A m, n, z \in Nat : m <= n => m * z <= n * z /\ z * m <= z * n
    OBVIOUS
  <2> QED
    BY <1>5, <1>6, <2>1
<1>8. b * x \in Nat /\ c * x \in Nat /\ c * y \in Nat
  BY <1>6
<1> QED
  BY <1>5, <1>7, <1>8

\* The powers of two grow.
LEMMA PowerGrows ==
    ASSUME NEW k \in Nat, NEW n \in Nat, k < n PROVE 2 * Power(2)[k] <= Power(2)[n]
<1> DEFINE bad == {j \in Nat : k < j /\ ~ 2 * Power(2)[k] <= Power(2)[j]}
<1>1. SUFFICES ASSUME bad # {} PROVE FALSE
  OBVIOUS
<1>2. PICK j \in bad : \A i \in bad : j <= i
  <2>1. bad \in SUBSET Nat
    OBVIOUS
  <2> HIDE DEF bad
  <2> QED
    BY <1>1, <2>1, Least
<1>3. j - 1 \in Nat /\ (j - 1) + 1 = j /\ ~ j <= j - 1
  OBVIOUS
<1>4. Power(2)[j] = 2 * Power(2)[j - 1] /\ Power(2)[j - 1] \in Nat \ {0} /\ Power(2)[k] \in Nat \ {0}
  BY <1>3, PowerIs, PowerPositive
<1>5. j - 1 # k
  BY <1>3, <1>4
<1>6. 2 * Power(2)[k] <= Power(2)[j - 1]
  BY <1>2, <1>3, <1>5
<1> QED
  BY <1>2, <1>4, <1>6
------------------------------------------------------------------------------
\* Division and products.
LEMMA DivIs ==
    ASSUME NEW x \in Nat, NEW d \in Nat \ {0}
    PROVE  x \div d \in Nat /\ d * (x \div d) <= x /\ x < d * (x \div d) + d
OBVIOUS

LEMMA ProductsOrdered ==
    ASSUME NEW a \in Int, NEW b \in Int, NEW p \in Nat, a <= b
    PROVE  p * a <= p * b /\ p * a \in Int /\ p * b \in Int
<1>1. b = a + (b - a) /\ b - a \in Nat
  OBVIOUS
<1>2. \A k \in Nat : p * (a + k) = p * a + p * k /\ p * k \in Nat
  OBVIOUS
<1> QED
  BY <1>1, <1>2

LEMMA Cancel ==
    ASSUME NEW a \in Int, NEW b \in Int, NEW p \in Nat \ {0}, p * a < p * b
    PROVE  a < b
<1>1. CASE b <= a
  BY <1>1, ProductsOrdered
<1> QED
  BY <1>1

Fiber(X, h, y) == {x \in X : h[x] = y}

\* As many elements as their values have, times those of one value.
LEMMA FibersCount ==
    ASSUME NEW X, NEW Y, IsFiniteSet(Y), NEW h \in [X -> Y], NEW c \in Nat,
           \A y \in Y : IsFiniteSet(Fiber(X, h, y)) /\ Cardinality(Fiber(X, h, y)) = c
    PROVE  IsFiniteSet(X) /\ Cardinality(X) = c * Cardinality(Y)
<1> DEFINE Above(Some) == {x \in X : h[x] \in Some}
           Good(Some) == IsFiniteSet(Above(Some)) /\ Cardinality(Above(Some)) = c * Cardinality(Some)
           bad == {Some \in SUBSET Y : ~ Good(Some)}
<1>1. ASSUME bad # {} PROVE FALSE
  <2>1. PICK Some \in bad : \A Fewer \in SUBSET Some : Fewer # Some => Fewer \notin bad
    <3>1. bad \in SUBSET SUBSET Y
      OBVIOUS
    <3> HIDE DEF bad
    <3> QED
      BY <1>1, <3>1, LeastSet
  <2>2. Some \in SUBSET Y /\ ~ Good(Some)
    BY <2>1
  <2>3. CASE Some = {}
    <3>1. Above(Some) = {}
      BY <2>3
    <3>2. Cardinality({}) = 0 /\ IsFiniteSet({}) /\ c * 0 = 0
      BY FS_EmptySet
    <3> QED
      BY <2>2, <2>3, <3>1, <3>2
  <2>4. CASE Some # {}
    <3>1. PICK y \in Some : TRUE
      BY <2>4
    <3> DEFINE Fewer == Some \ {y}
               fiber == {x \in X : h[x] = y}
    <3>2. Good(Fewer)
      <4>1. Fewer \in SUBSET Some /\ Fewer # Some /\ Fewer \in SUBSET Y
        BY <2>2, <3>1
      <4> QED
        BY <2>1, <4>1
    <3>3. IsFiniteSet(Some) /\ Cardinality(Some) \in Nat /\ Cardinality(Fewer) = Cardinality(Some) - 1
      <4>1. IsFiniteSet(Some)
        BY <2>2, FS_Subset
      <4> QED
        BY <3>1, <4>1, FS_CardinalityType, FS_RemoveElement
    <3>4. IsFiniteSet(fiber) /\ Cardinality(fiber) = c
      BY <2>2, <3>1 DEF Fiber
    <3>5. Above(Some) = Above(Fewer) \cup fiber /\ Above(Fewer) \cap fiber = {}
      BY <3>1
    <3> DEFINE Lower == Above(Fewer)
               Most == Above(Some)
    <3>6. /\ IsFiniteSet(Lower) /\ IsFiniteSet(fiber) /\ Most = Lower \cup fiber /\ Lower \cap fiber = {}
          /\ Cardinality(Lower) = c * Cardinality(Fewer) /\ Cardinality(fiber) = c
      BY <3>2, <3>4, <3>5
    <3> HIDE DEF Lower, Most, fiber, Fewer
    <3>7. IsFiniteSet(Most) /\ Cardinality(Most) = Cardinality(Lower) + Cardinality(fiber) - Cardinality({})
      <4>1. /\ IsFiniteSet(Lower \cup fiber)
            /\ Cardinality(Lower \cup fiber)
                 = Cardinality(Lower) + Cardinality(fiber) - Cardinality(Lower \cap fiber)
        BY <3>6, FS_Union
      <4> QED
        BY <3>6, <4>1
    <3>8. Cardinality({}) = 0
      BY FS_EmptySet
    <3>9. c * (Cardinality(Some) - 1) + c - 0 = c * Cardinality(Some)
      BY <3>3
    <3>10. IsFiniteSet(Most) /\ Cardinality(Most) = c * Cardinality(Some)
      BY <3>3, <3>6, <3>7, <3>8, <3>9
    <3> QED
      BY <2>2, <3>10 DEF Most
  <2> QED
    BY <2>3, <2>4
<1>2. Good(Y)
  BY <1>1
<1>3. Above(Y) = X
  OBVIOUS
<1> QED
  BY <1>2, <1>3

\* Two sets with maps that undo one another.
LEMMA UndoCount ==
    ASSUME NEW X, IsFiniteSet(X), NEW Y, NEW g \in [X -> Y], NEW h \in [Y -> X],
           \A x \in X : h[g[x]] = x, \A y \in Y : g[h[y]] = y
    PROVE  IsFiniteSet(Y) /\ Cardinality(Y) = Cardinality(X)
<1>1. \A a, b \in X : g[a] = g[b] => a = b
  OBVIOUS
<1>2. \A y \in Y : \E x \in X : g[x] = y
  OBVIOUS
<1>3. g \in Bijection(X, Y)
  BY <1>1, <1>2, Fun_IsBij
<1> QED
  BY <1>3, FS_Bijection DEF ExistsBijection

(***************************************************************************)
(* Reservoir sampling                                                      *)
(***************************************************************************)

\* What one more element does to the sample.
Takes(k, f, i, q) ==
    IF i <= k THEN Append(q, i)
    ELSE IF f[i] < k THEN [q EXCEPT ![f[i] + 1] = i]
    ELSE q

Stage(k, f, i, r) == IF i = 0 THEN <<>> ELSE Takes(k, f, i, r[i - 1])
KeptUpTo(k, f, l, r) == r = [i \in 0 .. l |-> Stage(k, f, i, r)]

LEMMA KeptAt ==
    \A k, f, l, r : KeptUpTo(k, f, l, r) => \A i \in 0 .. l : r[i] = Stage(k, f, i, r)
<1> SUFFICES ASSUME NEW k, NEW f, NEW l, NEW r, KeptUpTo(k, f, l, r), NEW i \in 0 .. l
             PROVE  r[i] = Stage(k, f, i, r)
  OBVIOUS
<1> DEFINE w == [j \in 0 .. l |-> Stage(k, f, j, r)]
<1>1. r = w
  BY DEF KeptUpTo
<1>2. w[i] = Stage(k, f, i, r)
  OBVIOUS
<1> QED
  BY <1>1, <1>2

LEMMA KeptExists ==
    ASSUME NEW k, NEW f, NEW l \in Nat
    PROVE  \E r : KeptUpTo(k, f, l, r)
<1> DEFINE bad == {m \in Nat : ~ \E r : KeptUpTo(k, f, m, r)}
<1>1. SUFFICES ASSUME bad # {} PROVE FALSE
  OBVIOUS
<1>2. PICK m \in bad : \A j \in bad : m <= j
  <2>1. bad \in SUBSET Nat
    OBVIOUS
  <2> HIDE DEF bad
  <2> QED
    BY <1>1, <2>1, Least
<1>3. CASE m = 0
  <2> DEFINE r == [i \in 0 .. 0 |-> <<>>]
  <2>1. r = [i \in 0 .. 0 |-> Stage(k, f, i, r)]
    BY DEF Stage
  <2>2. KeptUpTo(k, f, 0, r)
    BY <2>1 DEF KeptUpTo
  <2> QED
    BY <1>2, <1>3, <2>2
<1>4. CASE m # 0
  <2>1. PICK j \in Nat : m = j + 1
    BY <1>2, <1>4
  <2>2. j \notin bad
    BY <1>2, <2>1
  <2>3. PICK r : KeptUpTo(k, f, j, r)
    BY <2>2
  <2> DEFINE G(i, g) == Stage(k, f, i, g)
             t == [i \in 0 .. j + 1 |-> G(i, r)]
  <2>4. ASSUME NEW i \in 0 .. j PROVE r[i] = t[i]
    <3>1. r[i] = G(i, r)
      BY <2>3, KeptAt
    <3>2. i \in 0 .. j + 1
      OBVIOUS
    <3> HIDE DEF G
    <3> QED
      BY <3>1, <3>2
  <2>5. ASSUME NEW i \in 0 .. j + 1 PROVE G(i, r) = G(i, t)
    <3>1. CASE i = 0
      BY <3>1 DEF Stage
    <3>2. CASE i # 0
      <4>1. i - 1 \in 0 .. j
        BY <3>2
      <4>2. r[i - 1] = t[i - 1]
        BY <2>4, <4>1
      <4> HIDE DEF t
      <4> QED
        BY <4>2 DEF Stage
    <3> QED
      BY <3>1, <3>2
  <2>6. t = [i \in 0 .. j + 1 |-> G(i, t)]
    <3> DEFINE w == [i \in 0 .. j + 1 |-> G(i, t)]
    <3>1. \A i \in 0 .. j + 1 : t[i] = w[i]
      <4> HIDE DEF G
      <4> QED
        BY <2>5
    <3>2. DOMAIN t = 0 .. j + 1 /\ DOMAIN w = 0 .. j + 1
      OBVIOUS
    <3>3. t = [i \in 0 .. j + 1 |-> t[i]] /\ w = [i \in 0 .. j + 1 |-> w[i]]
      OBVIOUS
    <3> HIDE DEF t, w
    <3>4. t = w
      BY <3>1, <3>3
    <3> QED
      BY <3>4 DEF w
  <2>7. KeptUpTo(k, f, j + 1, t)
    <3> HIDE DEF t
    <3> QED
      BY <2>6 DEF KeptUpTo
  <2> QED
    BY <1>2, <2>1, <2>7
<1> QED
  BY <1>3, <1>4

LEMMA KeptAgree ==
    \A k, l, m, j \in Nat : \A f, g, r, t :
       /\ KeptUpTo(k, f, l, r) /\ KeptUpTo(k, g, m, t) /\ j <= l /\ j <= m
       /\ \A i \in k + 1 .. j : f[i] = g[i]
       => r[j] = t[j]
<1> SUFFICES ASSUME NEW k \in Nat, NEW f, NEW l \in Nat, NEW r, KeptUpTo(k, f, l, r),
                    NEW g, NEW m \in Nat, NEW t, KeptUpTo(k, g, m, t),
                    NEW j \in Nat, j <= l, j <= m, \A i \in k + 1 .. j : f[i] = g[i]
             PROVE  r[j] = t[j]
  OBVIOUS
<1> DEFINE bad == {i \in 0 .. j : r[i] # t[i]}
<1>1. SUFFICES ASSUME bad # {} PROVE FALSE
  OBVIOUS
<1>2. PICK i \in bad : \A h \in bad : i <= h
  <2>1. bad \in SUBSET Nat
    OBVIOUS
  <2> HIDE DEF bad
  <2> QED
    BY <1>1, <2>1, Least
<1>3. i \in 0 .. l /\ i \in 0 .. m /\ i \in 0 .. j /\ r[i] # t[i]
  BY <1>2
<1>4. /\ r[i] = IF i = 0 THEN <<>> ELSE Takes(k, f, i, r[i - 1])
      /\ t[i] = IF i = 0 THEN <<>> ELSE Takes(k, g, i, t[i - 1])
  <2>1. r[i] = Stage(k, f, i, r) /\ t[i] = Stage(k, g, i, t)
    BY <1>3, KeptAt
  <2> QED
    BY <2>1 DEF Stage
<1>5. i # 0
  BY <1>3, <1>4
<1>6. r[i - 1] = t[i - 1]
  <2>1. i - 1 \in 0 .. j /\ ~ i <= i - 1
    BY <1>3, <1>5
  <2> QED
    BY <1>2, <2>1
<1>7. \A q : Takes(k, f, i, q) = Takes(k, g, i, q)
  <2>1. CASE i <= k
    BY <2>1 DEF Takes
  <2>2. CASE ~ i <= k
    <3>1. i \in k + 1 .. j
      BY <1>3, <2>2
    <3>2. f[i] = g[i]
      BY <3>1
    <3> QED
      BY <3>2 DEF Takes
  <2> QED
    BY <2>1, <2>2
<1> QED
  BY <1>3, <1>4, <1>5, <1>6, <1>7


LEMMA ReservoirIs ==
    ASSUME NEW k, NEW f, NEW l \in Nat
    PROVE  \E r : KeptUpTo(k, f, l, r) /\ Reservoir(k, l, f) = r[l]
<1> DEFINE Is(r) ==
        r = [i \in 0 .. l |->
               IF i = 0 THEN <<>>
               ELSE IF i <= k THEN Append(r[i - 1], i)
               ELSE IF f[i] < k THEN [r[i - 1] EXCEPT ![f[i] + 1] = i]
               ELSE r[i - 1]]
<1>1. \A r : KeptUpTo(k, f, l, r) <=> Is(r)
  BY DEF KeptUpTo, Takes, Stage
<1>2. \E r : Is(r)
  BY <1>1, KeptExists
<1> DEFINE kept == CHOOSE r : Is(r)
<1>3. Reservoir(k, l, f) = kept[l]
  BY DEF Reservoir
<1> HIDE DEF Is
<1>4. Is(kept)
  BY <1>2
<1> QED
  BY <1>1, <1>3, <1>4

\* The sample is made element by element.
LEMMA ReservoirMore ==
    ASSUME NEW k \in Nat, NEW f, NEW l \in Nat
    PROVE  /\ Reservoir(k, 0, f) = <<>>
           /\ Reservoir(k, l + 1, f) = Takes(k, f, l + 1, Reservoir(k, l, f))
<1>1. PICK r : KeptUpTo(k, f, 0, r) /\ Reservoir(k, 0, f) = r[0]
  BY ReservoirIs
<1>2. PICK t : KeptUpTo(k, f, l, t) /\ Reservoir(k, l, f) = t[l]
  BY ReservoirIs
<1>3. PICK u : KeptUpTo(k, f, l + 1, u) /\ Reservoir(k, l + 1, f) = u[l + 1]
  BY ReservoirIs
<1>4. r[0] = <<>>
  <2>1. 0 \in 0 .. 0
    OBVIOUS
  <2>2. r[0] = Stage(k, f, 0, r)
    BY <1>1, <2>1, KeptAt
  <2> QED
    BY <2>2 DEF Stage
<1>5. u[l + 1] = Takes(k, f, l + 1, u[l])
  <2>1. l + 1 \in 0 .. l + 1 /\ l + 1 # 0 /\ (l + 1) - 1 = l /\ l + 1 \in Nat
    OBVIOUS
  <2>2. u[l + 1] = Stage(k, f, l + 1, u)
    BY <1>3, <2>1, KeptAt
  <2> QED
    BY <2>1, <2>2 DEF Stage
<1>6. u[l] = t[l]
  <2>1. l <= l + 1 /\ l <= l /\ l + 1 \in Nat
    OBVIOUS
  <2> QED
    BY <1>2, <1>3, <2>1, KeptAgree
<1> QED
  BY <1>1, <1>2, <1>3, <1>4, <1>5, <1>6

LEMMA ReservoirSame ==
    ASSUME NEW k \in Nat, NEW l \in Nat, NEW f, NEW g, \A i \in k + 1 .. l : f[i] = g[i]
    PROVE  Reservoir(k, l, f) = Reservoir(k, l, g)
<1>1. PICK r : KeptUpTo(k, f, l, r) /\ Reservoir(k, l, f) = r[l]
  BY ReservoirIs
<1>2. PICK t : KeptUpTo(k, g, l, t) /\ Reservoir(k, l, g) = t[l]
  BY ReservoirIs
<1>3. l <= l
  OBVIOUS
<1>4. r[l] = t[l]
  BY <1>1, <1>2, <1>3, KeptAgree
<1> QED
  BY <1>1, <1>2, <1>4

Firsts(l) == [i \in 1 .. l |-> i]

LEMMA SampleFirst ==
    ASSUME NEW k \in Nat, NEW f, NEW l \in 0 .. k
    PROVE  Reservoir(k, l, f) = Firsts(l)
<1> DEFINE bad == {j \in 0 .. k : Reservoir(k, j, f) # Firsts(j)}
<1>1. SUFFICES ASSUME bad # {} PROVE FALSE
  OBVIOUS
<1>2. PICK j \in bad : \A h \in bad : j <= h
  <2>1. bad \in SUBSET Nat
    OBVIOUS
  <2> HIDE DEF bad
  <2> QED
    BY <1>1, <2>1, Least
<1>3. j \in 0 .. k /\ Reservoir(k, j, f) # Firsts(j)
  BY <1>2
<1>4. j # 0
  <2>1. Firsts(0) = <<>>
    BY DEF Firsts
  <2>2. Reservoir(k, 0, f) = <<>>
    <3>1. 0 \in Nat
      OBVIOUS
    <3> QED
      BY <3>1, ReservoirMore
  <2> QED
    BY <1>3, <2>1, <2>2
<1>5. PICK i \in Nat : j = i + 1
  BY <1>3, <1>4
<1>6. Reservoir(k, i, f) = Firsts(i)
  <2>1. i \in 0 .. k /\ ~ j <= i
    BY <1>3, <1>5
  <2> QED
    BY <1>2, <2>1
<1>7. Reservoir(k, j, f) = Append(Firsts(i), i + 1)
  <2>1. i + 1 <= k
    BY <1>3, <1>5
  <2> QED
    BY <1>5, <1>6, <2>1, ReservoirMore DEF Takes
<1>8. Append(Firsts(i), i + 1) = Firsts(i + 1)
  <2>1. Firsts(i) \in Seq(Nat) /\ Len(Firsts(i)) = i
    BY DEF Firsts
  <2> DEFINE q == Append(Firsts(i), i + 1)
  <2>2. DOMAIN q = 1 .. i + 1 /\ q \in Seq(Nat)
    BY <2>1
  <2>3. \A h \in 1 .. i + 1 : q[h] = h
    <3>1. q[i + 1] = i + 1
      BY <2>1
    <3>2. \A h \in 1 .. i : q[h] = Firsts(i)[h] /\ Firsts(i)[h] = h
      BY <2>1 DEF Firsts
    <3>3. \A h \in 1 .. i + 1 : h \in 1 .. i \/ h = i + 1
      OBVIOUS
    <3> QED
      BY <3>1, <3>2, <3>3
  <2>4. q = [h \in 1 .. i + 1 |-> q[h]]
    BY <2>2
  <2> HIDE DEF q
  <2>5. q = Firsts(i + 1)
    BY <2>3, <2>4 DEF Firsts
  <2> QED
    BY <2>5 DEF q
<1> QED
  BY <1>3, <1>5, <1>7, <1>8

Drawn(k, l, f) == \A i \in k + 1 .. l : f[i] \in Nat /\ f[i] < i

\* k of l elements, none of them twice.
OnceEach(q, k, l) == q \in [1 .. k -> 1 .. l] /\ \A a, b \in 1 .. k : q[a] = q[b] => a = b

\* What is kept after one more element, as a sequence.
LEMMA TakesIs ==
    ASSUME NEW k \in Nat, NEW l \in Nat, k <= l, NEW f, f[l + 1] \in Nat, NEW q, OnceEach(q, k, l)
    PROVE  LET p == Takes(k, f, l + 1, q)
               j == f[l + 1]
           IN  /\ OnceEach(p, k, l + 1)
               /\ j < k => /\ Range(p) = (Range(q) \ {q[j + 1]}) \cup {l + 1}
                           /\ q[j + 1] \in Range(q)
               /\ ~ j < k => p = q
<1> DEFINE p == Takes(k, f, l + 1, q)
           j == f[l + 1]
<1>0. q \in [1 .. k -> 1 .. l] /\ \A a, b \in 1 .. k : q[a] = q[b] => a = b
  BY DEF OnceEach
<1>1. ~ l + 1 <= k /\ j \in Nat
  OBVIOUS
<1>2. CASE ~ j < k
  <2>1. p = q
    BY <1>1, <1>2 DEF Takes
  <2>2. OnceEach(q, k, l + 1)
    BY <1>0 DEF OnceEach
  <2> QED
    BY <1>2, <2>1, <2>2
<1>3. CASE j < k
  <2>1. p = [q EXCEPT ![j + 1] = l + 1] /\ j + 1 \in 1 .. k
    BY <1>1, <1>3 DEF Takes
  <2> DEFINE x == j + 1
             m == l + 1
  <2>2. /\ p = [q EXCEPT ![x] = m] /\ x \in 1 .. k
        /\ \A a \in 1 .. k : q[a] # m
    BY <1>0, <2>1
  <2>3. p \in [1 .. k -> 1 .. l + 1] /\ p[x] = m /\ \A a \in 1 .. k : a # x => p[a] = q[a]
    <3> DEFINE D == 1 .. k
               M == 1 .. m
    <3>1. q \in [D -> M] /\ m \in M /\ x \in D
      BY <1>0, <2>1
    <3> HIDE DEF D, M, p, x, m
    <3>2. p = [q EXCEPT ![x] = m]
      BY <2>2
    <3>3. p \in [D -> M] /\ p[x] = m /\ \A a \in D : a # x => p[a] = q[a]
      BY <3>1, <3>2
    <3> QED
      BY <3>3 DEF D, M, m
  <2>4. \A a, b \in 1 .. k : p[a] = p[b] => a = b
    BY <1>0, <2>2, <2>3
  <2>5. DOMAIN p = 1 .. k /\ DOMAIN q = 1 .. k
    BY <1>0, <2>3
  <2>6. Range(p) = {p[a] : a \in 1 .. k} /\ Range(q) = {q[a] : a \in 1 .. k}
    BY <2>5 DEF Range
  <2>9. OnceEach(p, k, l + 1)
    BY <2>3, <2>4 DEF OnceEach
  <2> HIDE DEF p, x, m
  <2>7. {p[a] : a \in 1 .. k} = ({q[a] : a \in 1 .. k} \ {q[x]}) \cup {m}
    BY <1>0, <2>2, <2>3
  <2>8. q[x] \in {q[a] : a \in 1 .. k}
    BY <2>2
  <2> QED
    BY <1>3, <2>6, <2>7, <2>8, <2>9 DEF p, x, m
<1> QED
  BY <1>2, <1>3

\* A sample has k positions, and none of the stream twice.
LEMMA SampleIs ==
    ASSUME NEW k \in Nat, NEW l \in Nat, k <= l, NEW f, Drawn(k, l, f)
    PROVE  OnceEach(Reservoir(k, l, f), k, l)
<1> DEFINE Good(m) == OnceEach(Reservoir(k, m, f), k, m)
           bad == {m \in k .. l : ~ Good(m)}
<1>1. SUFFICES ASSUME bad # {} PROVE FALSE
  OBVIOUS
<1>2. PICK m \in bad : \A h \in bad : m <= h
  <2>1. bad \in SUBSET Nat
    OBVIOUS
  <2> HIDE DEF bad
  <2> QED
    BY <1>1, <2>1, Least
<1>3. CASE m = k
  <2>1. Reservoir(k, k, f) = Firsts(k)
    <3>1. k \in 0 .. k
      OBVIOUS
    <3> QED
      BY <3>1, SampleFirst
  <2>2. Good(k)
    BY <2>1 DEF Firsts, OnceEach
  <2> QED
    BY <1>2, <1>3, <2>2
<1>4. CASE m # k
  <2>1. PICK h \in Nat : m = h + 1 /\ h \in k .. l /\ k <= h
    BY <1>2, <1>4
  <2>2. Good(h)
    <3>1. ~ m <= h
      BY <2>1
    <3> QED
      BY <1>2, <2>1, <3>1
  <2> DEFINE q == Reservoir(k, h, f)
  <2>3. Reservoir(k, h + 1, f) = Takes(k, f, h + 1, q)
    BY ReservoirMore
  <2>4. f[h + 1] \in Nat
    <3>1. h + 1 \in k + 1 .. l
      BY <1>2, <2>1
    <3> QED
      BY <3>1 DEF Drawn
  <2>5. Good(h + 1)
    <3> HIDE DEF q
    <3>1. OnceEach(q, k, h)
      BY <2>2 DEF q
    <3>2. OnceEach(Takes(k, f, h + 1, q), k, h + 1)
      BY <2>1, <2>4, <3>1, TakesIs
    <3> QED
      BY <2>3, <3>2 DEF q
  <2> HIDE DEF Good
  <2> QED
    BY <1>2, <2>1, <2>5
<1> QED
  BY <1>3, <1>4

Wider(f, k, l, j) == [i \in k + 1 .. l + 1 |-> IF i = l + 1 THEN j ELSE f[i]]
Narrow(f, k, l) == [i \in k + 1 .. l |-> f[i]]

LEMMA DrawsIs ==
    ASSUME NEW k \in Nat, NEW l \in Nat, NEW f
    PROVE  f \in Draws(k, l) <=> f = [i \in k + 1 .. l |-> f[i]] /\ Drawn(k, l, f)
<1>1. ASSUME f \in Draws(k, l) PROVE f = [i \in k + 1 .. l |-> f[i]] /\ Drawn(k, l, f)
  <2>1. f \in [k + 1 .. l -> 0 .. l] /\ \A i \in k + 1 .. l : f[i] < i
    BY <1>1 DEF Draws
  <2> QED
    BY <2>1 DEF Drawn
<1>2. ASSUME f = [i \in k + 1 .. l |-> f[i]], Drawn(k, l, f) PROVE f \in Draws(k, l)
  <2>1. \A i \in k + 1 .. l : f[i] \in 0 .. l /\ f[i] < i
    BY <1>2 DEF Drawn
  <2>2. f \in [k + 1 .. l -> 0 .. l]
    BY <1>2, <2>1
  <2> QED
    BY <2>1, <2>2 DEF Draws
<1> QED
  BY <1>1, <1>2

LEMMA Widened ==
    ASSUME NEW k \in Nat, NEW l \in Nat, k <= l, NEW f \in Draws(k, l), NEW j \in 0 .. l
    PROVE  /\ Wider(f, k, l, j) \in Draws(k, l + 1) /\ Wider(f, k, l, j)[l + 1] = j
           /\ Narrow(Wider(f, k, l, j), k, l) = f
<1> DEFINE w == Wider(f, k, l, j)
<1>1. f = [i \in k + 1 .. l |-> f[i]] /\ Drawn(k, l, f)
  BY DrawsIs
<1>2. l + 1 \in k + 1 .. l + 1 /\ \A i \in k + 1 .. l : i \in k + 1 .. l + 1 /\ i # l + 1
  OBVIOUS
<1>3. w[l + 1] = j /\ (\A i \in k + 1 .. l : w[i] = f[i]) /\ w = [i \in k + 1 .. l + 1 |-> w[i]]
  BY <1>2 DEF Wider
<1>4. \A i \in k + 1 .. l + 1 : i = l + 1 \/ i \in k + 1 .. l
  OBVIOUS
<1> HIDE DEF w
<1>5. Drawn(k, l + 1, w)
  <2>1. j \in Nat /\ j < l + 1
    OBVIOUS
  <2> QED
    BY <1>1, <1>3, <1>4, <2>1 DEF Drawn
<1>6. w \in Draws(k, l + 1)
  <2>1. l + 1 \in Nat
    OBVIOUS
  <2> QED
    BY <1>3, <1>5, <2>1, DrawsIs
<1>7. Narrow(w, k, l) = f
  <2>1. Narrow(w, k, l) = [i \in k + 1 .. l |-> f[i]]
    BY <1>3 DEF Narrow
  <2> QED
    BY <1>1, <2>1
<1> QED
  BY <1>3, <1>6, <1>7 DEF w

LEMMA Narrowed ==
    ASSUME NEW k \in Nat, NEW l \in Nat, k <= l, NEW f \in Draws(k, l + 1)
    PROVE  /\ Narrow(f, k, l) \in Draws(k, l) /\ f[l + 1] \in 0 .. l
           /\ Wider(Narrow(f, k, l), k, l, f[l + 1]) = f
           /\ Reservoir(k, l, Narrow(f, k, l)) = Reservoir(k, l, f)
           /\ Drawn(k, l, f)
<1> DEFINE g == Narrow(f, k, l)
<1>1. f = [i \in k + 1 .. l + 1 |-> f[i]] /\ Drawn(k, l + 1, f)
  <2>1. l + 1 \in Nat
    OBVIOUS
  <2> QED
    BY <2>1, DrawsIs
<1>2. l + 1 \in k + 1 .. l + 1 /\ \A i \in k + 1 .. l : i \in k + 1 .. l + 1 /\ i # l + 1
  OBVIOUS
<1>3. (\A i \in k + 1 .. l : g[i] = f[i]) /\ g = [i \in k + 1 .. l |-> g[i]]
  BY DEF Narrow
<1> HIDE DEF g
<1>4. Drawn(k, l, f) /\ Drawn(k, l, g) /\ f[l + 1] \in 0 .. l
  <2>1. Drawn(k, l, f) /\ f[l + 1] \in Nat /\ f[l + 1] < l + 1
    BY <1>1, <1>2 DEF Drawn
  <2>2. Drawn(k, l, g)
    BY <1>3, <2>1 DEF Drawn
  <2> QED
    BY <2>1, <2>2
<1>5. g \in Draws(k, l)
  BY <1>3, <1>4, DrawsIs
<1>6. Wider(g, k, l, f[l + 1]) = f
  <2>1. \A i \in k + 1 .. l + 1 : i = l + 1 \/ i \in k + 1 .. l
    OBVIOUS
  <2>2. \A i \in k + 1 .. l + 1 : (IF i = l + 1 THEN f[l + 1] ELSE g[i]) = f[i]
    BY <1>3, <2>1
  <2>3. Wider(g, k, l, f[l + 1]) = [i \in k + 1 .. l + 1 |-> f[i]]
    BY <2>2 DEF Wider
  <2> QED
    BY <1>1, <2>3
<1>7. Reservoir(k, l, g) = Reservoir(k, l, f)
  BY <1>3, ReservoirSame
<1> QED
  BY <1>4, <1>5, <1>6, <1>7 DEF g

\* As many draws go on in a given way as there are.
LEMMA ExtensionsCount ==
    ASSUME NEW k \in Nat, NEW l \in Nat, k <= l, NEW W \in SUBSET Draws(k, l), IsFiniteSet(W),
           NEW p \in [W -> 0 .. l]
    PROVE  LET Z == {f \in Draws(k, l + 1) : Narrow(f, k, l) \in W /\ f[l + 1] = p[Narrow(f, k, l)]}
           IN  IsFiniteSet(Z) /\ Cardinality(Z) = Cardinality(W)
<1> DEFINE Z == {f \in Draws(k, l + 1) : Narrow(f, k, l) \in W /\ f[l + 1] = p[Narrow(f, k, l)]}
           g == [x \in W |-> Wider(x, k, l, p[x])]
           h == [f \in Z |-> Narrow(f, k, l)]
<1>1. ASSUME NEW x \in W PROVE Wider(x, k, l, p[x]) \in Z /\ Narrow(Wider(x, k, l, p[x]), k, l) = x
  <2>1. x \in Draws(k, l) /\ p[x] \in 0 .. l
    OBVIOUS
  <2> QED
    BY <2>1, Widened
<1>2. ASSUME NEW f \in Z PROVE Narrow(f, k, l) \in W /\ Wider(Narrow(f, k, l), k, l, p[Narrow(f, k, l)]) = f
  BY Narrowed
<1> HIDE DEF Z
<1>3. g \in [W -> Z] /\ h \in [Z -> W]
  BY <1>1, <1>2
<1>4. (\A x \in W : h[g[x]] = x) /\ \A f \in Z : g[h[f]] = f
  BY <1>1, <1>2
<1> HIDE DEF g, h
<1>5. IsFiniteSet(Z) /\ Cardinality(Z) = Cardinality(W)
  BY <1>3, <1>4, UndoCount
<1> QED
  BY <1>5 DEF Z

\* The draws that keep a given set.
Keeping(Kept, k, l) == {f \in Draws(k, l) : Range(Reservoir(k, l, f)) = Kept}

SameWays(k, l, c) ==
    \A Kept \in SUBSET (1 .. l) : Cardinality(Kept) = k =>
       IsFiniteSet(Keeping(Kept, k, l)) /\ Cardinality(Keeping(Kept, k, l)) = c

\* What a draw of one more keeps, by what it kept before.
LEMMA KeptMore ==
    ASSUME NEW k \in Nat, NEW l \in Nat, k <= l, NEW f \in Draws(k, l + 1)
    PROVE  LET q == Reservoir(k, l, f)
               z == Reservoir(k, l + 1, f)
               j == f[l + 1]
           IN  /\ q \in [1 .. k -> 1 .. l] /\ (\A a, b \in 1 .. k : q[a] = q[b] => a = b) /\ j \in 0 .. l
               /\ Range(q) = {q[a] : a \in 1 .. k}
               /\ j < k => /\ Range(z) = (Range(q) \ {q[j + 1]}) \cup {l + 1}
                           /\ q[j + 1] \in Range(q) /\ j + 1 \in 1 .. k
               /\ ~ j < k => Range(z) = Range(q)
<1> DEFINE q == Reservoir(k, l, f)
           z == Reservoir(k, l + 1, f)
           j == f[l + 1]
<1>1. Drawn(k, l, f) /\ j \in 0 .. l
  BY Narrowed
<1>0. OnceEach(q, k, l)
  BY <1>1, SampleIs
<1>2. q \in [1 .. k -> 1 .. l] /\ \A a, b \in 1 .. k : q[a] = q[b] => a = b
  <2> HIDE DEF q
  <2> QED
    BY <1>0 DEF OnceEach
<1>3. z = Takes(k, f, l + 1, q)
  BY ReservoirMore
<1>4. Range(q) = {q[a] : a \in 1 .. k}
  <2>1. DOMAIN q = 1 .. k
    BY <1>2
  <2> HIDE DEF q
  <2> QED
    BY <2>1 DEF Range
<1>5. j \in Nat /\ (j < k => j + 1 \in 1 .. k)
  BY <1>1
<1> HIDE DEF q, z
<1>6. /\ j < k => /\ Range(z) = (Range(q) \ {q[j + 1]}) \cup {l + 1}
                  /\ q[j + 1] \in Range(q)
      /\ ~ j < k => z = q
  <2>1. LET p == Takes(k, f, l + 1, q)
        IN  /\ j < k => /\ Range(p) = (Range(q) \ {q[j + 1]}) \cup {l + 1}
                        /\ q[j + 1] \in Range(q)
            /\ ~ j < k => p = q
    BY <1>0, <1>5, TakesIs
  <2> QED
    BY <1>3, <2>1
<1> QED
  BY <1>1, <1>2, <1>4, <1>5, <1>6 DEF q, z

\* The new element is left out: it may have drawn any number from k on.
LEMMA LeftOut ==
    ASSUME NEW k \in Nat, NEW l \in Nat, k <= l, NEW c \in Nat, SameWays(k, l, c),
           NEW Kept \in SUBSET (1 .. l), Cardinality(Kept) = k
    PROVE  /\ IsFiniteSet(Keeping(Kept, k, l + 1))
           /\ Cardinality(Keeping(Kept, k, l + 1)) = c * (l - k + 1)
<1> DEFINE X == Keeping(Kept, k, l + 1)
           W == Keeping(Kept, k, l)
           Y == k .. l
           h == [f \in X |-> f[l + 1]]
<1>1. W \in SUBSET Draws(k, l) /\ IsFiniteSet(W) /\ Cardinality(W) = c
  BY DEF SameWays, Keeping
<1>2. ASSUME NEW f \in X PROVE f[l + 1] \in Y /\ Narrow(f, k, l) \in W
  <2>1. f \in Draws(k, l + 1) /\ Range(Reservoir(k, l + 1, f)) = Kept
    BY DEF Keeping
  <2>2. ~ f[l + 1] < k
    <3>1. l + 1 \notin Kept
      OBVIOUS
    <3>2. f[l + 1] < k => Range(Reservoir(k, l + 1, f))
                            = (Range(Reservoir(k, l, f)) \ {Reservoir(k, l, f)[f[l + 1] + 1]}) \cup {l + 1}
      BY <2>1, KeptMore
    <3> QED
      BY <2>1, <3>1, <3>2
  <2>3. f[l + 1] \in 0 .. l /\ Range(Reservoir(k, l, f)) = Kept
    BY <2>1, <2>2, KeptMore
  <2>4. Narrow(f, k, l) \in Draws(k, l) /\ Reservoir(k, l, Narrow(f, k, l)) = Reservoir(k, l, f)
    BY <2>1, Narrowed
  <2> QED
    BY <2>2, <2>3, <2>4 DEF Keeping
<1>3. ASSUME NEW f \in Draws(k, l + 1), Narrow(f, k, l) \in W, f[l + 1] \in Y PROVE f \in X
  <2>1. Range(Reservoir(k, l, f)) = Kept
    BY <1>3, Narrowed DEF Keeping
  <2>2. ~ f[l + 1] < k
    BY <1>3
  <2> QED
    BY <2>1, <2>2, KeptMore DEF Keeping
<1>4. ASSUME NEW j \in Y
      PROVE  IsFiniteSet(Fiber(X, h, j)) /\ Cardinality(Fiber(X, h, j)) = c
  <2> DEFINE p == [x \in W |-> j]
             Z == {f \in Draws(k, l + 1) : Narrow(f, k, l) \in W /\ f[l + 1] = p[Narrow(f, k, l)]}
  <2>1. IsFiniteSet(Z) /\ Cardinality(Z) = c
    <3>1. p \in [W -> 0 .. l]
      OBVIOUS
    <3> HIDE DEF p, W
    <3> QED
      BY <1>1, <3>1, ExtensionsCount
  <2>2. ASSUME NEW f PROVE f \in Z <=> f \in X /\ h[f] = j
    <3>1. f \in Z <=> f \in Draws(k, l + 1) /\ Narrow(f, k, l) \in W /\ f[l + 1] = j
      <4> HIDE DEF W
      <4> QED
        OBVIOUS
    <3>2. f \in X => f \in Draws(k, l + 1)
      BY DEF Keeping
    <3> HIDE DEF Z, X, W
    <3> QED
      BY <1>2, <1>3, <3>1, <3>2
  <2>3. Z = Fiber(X, h, j)
    <3> HIDE DEF Z, X, h
    <3> QED
      BY <2>2 DEF Fiber
  <2> QED
    BY <2>1, <2>3
<1>5. h \in [X -> Y]
  <2> HIDE DEF X, Y
  <2> QED
    BY <1>2
<1>6. IsFiniteSet(Y) /\ Cardinality(Y) = l - k + 1
  BY FS_Interval
<1> HIDE DEF X, Y, h, W
<1>7. IsFiniteSet(X) /\ Cardinality(X) = c * Cardinality(Y)
  <2>1. c \in Nat /\ IsFiniteSet(Y) /\ h \in [X -> Y]
    BY <1>5, <1>6
  <2> QED
    BY <1>4, <2>1, FibersCount
<1> QED
  BY <1>6, <1>7 DEF X

\* The new element is kept: in the place of any of those that are not.
LEMMA TakenIn ==
    ASSUME NEW k \in Nat, NEW l \in Nat, k <= l, NEW c \in Nat, SameWays(k, l, c),
           NEW Kept \in SUBSET (1 .. l + 1), Cardinality(Kept) = k, l + 1 \in Kept
    PROVE  /\ IsFiniteSet(Keeping(Kept, k, l + 1))
           /\ Cardinality(Keeping(Kept, k, l + 1)) = c * (l - k + 1)
<1> DEFINE m == l + 1
           X == Keeping(Kept, k, m)
           Y == (1 .. l) \ Kept
           h == [f \in X |-> Reservoir(k, l, f)[f[m] + 1]]
           Was(e) == (Kept \ {m}) \cup {e}
<1>1. IsFiniteSet(1 .. l) /\ Cardinality(1 .. l) = l
  BY FS_Interval
<1>2. IsFiniteSet(Kept) /\ IsFiniteSet(Kept \ {m}) /\ Cardinality(Kept \ {m}) = k - 1
  <2>1. IsFiniteSet(1 .. l + 1)
    BY FS_Interval
  <2>2. IsFiniteSet(Kept)
    BY <2>1, FS_Subset
  <2> QED
    BY <2>2, FS_RemoveElement
<1>3. IsFiniteSet(Y) /\ Cardinality(Y) = l - k + 1
  <2>1. (1 .. l) \cap Kept = Kept \ {m}
    <3>1. \A i \in 1 .. l + 1 : i \in 1 .. l <=> i # l + 1
      OBVIOUS
    <3>2. \A i \in 1 .. l : i \in 1 .. l + 1
      OBVIOUS
    <3> QED
      BY <3>1, <3>2
  <2> DEFINE S1 == 1 .. l
  <2>2. IsFiniteSet(S1) /\ Cardinality(S1) = l /\ S1 \cap Kept = Kept \ {m}
    BY <1>1, <2>1
  <2> HIDE DEF S1
  <2>3. IsFiniteSet(S1 \ Kept) /\ Cardinality(S1 \ Kept) = l - (k - 1)
    <3>1. IsFiniteSet(S1 \ Kept) /\ Cardinality(S1 \ Kept) = Cardinality(S1) - Cardinality(S1 \cap Kept)
      BY <2>2, FS_Difference
    <3> HIDE DEF m
    <3> QED
      BY <1>2, <2>2, <3>1
  <2>4. l - (k - 1) = l - k + 1
    OBVIOUS
  <2> QED
    BY <2>3, <2>4 DEF S1
<1>4. ASSUME NEW e \in Y
      PROVE  /\ Was(e) \in SUBSET (1 .. l) /\ Cardinality(Was(e)) = k
             /\ Keeping(Was(e), k, l) \in SUBSET Draws(k, l)
             /\ IsFiniteSet(Keeping(Was(e), k, l)) /\ Cardinality(Keeping(Was(e), k, l)) = c
  <2>1. Was(e) \in SUBSET (1 .. l)
    <3>1. \A i \in 1 .. l + 1 : i # l + 1 => i \in 1 .. l
      OBVIOUS
    <3> QED
      BY <3>1
  <2>2. Cardinality(Was(e)) = k
    <3> DEFINE Rest == Kept \ {m}
    <3>1. IsFiniteSet(Rest) /\ Cardinality(Rest) = k - 1 /\ e \notin Rest
      BY <1>2
    <3> HIDE DEF Rest
    <3>2. Cardinality(Rest \cup {e}) = (k - 1) + 1
      BY <3>1, FS_AddElement
    <3> QED
      BY <3>2 DEF Rest
  <2> HIDE DEF Was
  <2> QED
    BY <2>1, <2>2 DEF SameWays, Keeping
<1>5. ASSUME NEW f \in Draws(k, m)
      PROVE  LET q == Reservoir(k, l, f)
                 e == q[f[m] + 1]
             IN  f \in X <=> f[m] < k /\ e \in Y /\ Range(q) = Was(e)
  <2> DEFINE q == Reservoir(k, l, f)
             e == q[f[m] + 1]
             z == Reservoir(k, m, f)
             Q1 == Range(q)
             Z1 == Range(z)
  <2>1. f \in X <=> Z1 = Kept
    BY DEF Keeping
  <2>2. /\ f[m] < k => Z1 = (Q1 \ {e}) \cup {m} /\ e \in Q1
        /\ ~ f[m] < k => Z1 = Q1
        /\ Q1 \subseteq 1 .. l
    <3>1. /\ q \in [1 .. k -> 1 .. l] /\ Q1 = {q[a] : a \in 1 .. k}
          /\ f[m] < k => Z1 = (Q1 \ {e}) \cup {m} /\ e \in Q1
          /\ ~ f[m] < k => Z1 = Q1
      BY KeptMore
    <3> HIDE DEF q, Q1, Z1, e
    <3>2. Q1 \subseteq 1 .. l
      BY <3>1
    <3> QED
      BY <3>1, <3>2
  <2>3. m \notin 1 .. l /\ m \in Kept
    OBVIOUS
  <2> DEFINE All == 1 .. l
  <2>4. m \notin All /\ Q1 \subseteq All /\ Y = All \ Kept
    BY <2>2, <2>3
  <2> HIDE DEF m, q, e, z, Q1, Z1, All, X, Y
  <2>5. ASSUME Z1 = Kept PROVE f[m] < k /\ e \in Y /\ Q1 = Was(e)
    <3>1. f[m] < k
      BY <2>2, <2>3, <2>4, <2>5
    <3>2. e \in Q1 /\ Kept = (Q1 \ {e}) \cup {m}
      BY <2>2, <2>5, <3>1
    <3> QED
      BY <2>4, <3>1, <3>2
  <2>6. ASSUME f[m] < k, e \in Y, Q1 = Was(e) PROVE Z1 = Kept
    BY <2>2, <2>3, <2>4, <2>6
  <2> QED
    BY <2>1, <2>5, <2>6 DEF q, e, Q1
<1>6. ASSUME NEW e \in Y
      PROVE  IsFiniteSet(Fiber(X, h, e)) /\ Cardinality(Fiber(X, h, e)) = c
  <2> DEFINE W == Keeping(Was(e), k, l)
             Place(x) == CHOOSE i \in 1 .. k : Reservoir(k, l, x)[i] = e
             p == [x \in W |-> Place(x) - 1]
             Z == {f \in Draws(k, m) : Narrow(f, k, l) \in W /\ f[m] = p[Narrow(f, k, l)]}
  <2>1. ASSUME NEW x \in W
        PROVE  /\ Place(x) \in 1 .. k /\ Reservoir(k, l, x)[Place(x)] = e
               /\ \A i \in 1 .. k : Reservoir(k, l, x)[i] = e => i = Place(x)
    <3> DEFINE q == Reservoir(k, l, x)
    <3>1. x \in Draws(k, l) /\ Range(q) = Was(e)
      BY DEF Keeping
    <3>2. q \in [1 .. k -> 1 .. l] /\ \A a, b \in 1 .. k : q[a] = q[b] => a = b
      BY <3>1, DrawsIs, SampleIs DEF OnceEach
    <3>3. e \in Range(q)
      BY <3>1
    <3> HIDE DEF q
    <3>4. \E i \in 1 .. k : q[i] = e
      BY <3>2, <3>3 DEF Range
    <3>5. Place(x) \in 1 .. k /\ q[Place(x)] = e
      BY <3>4 DEF q
    <3> HIDE DEF Place
    <3>6. \A i \in 1 .. k : q[i] = e => i = Place(x)
      BY <3>2, <3>5
    <3> QED
      BY <3>5, <3>6 DEF q
  <2>2. IsFiniteSet(Z) /\ Cardinality(Z) = c
    <3>1. p \in [W -> 0 .. l]
      <4>1. ASSUME NEW x \in W PROVE Place(x) - 1 \in 0 .. l
        <5>1. Place(x) \in 1 .. k
          BY <2>1
        <5> HIDE DEF Place
        <5> QED
          BY <5>1
      <4> HIDE DEF W, Place
      <4> QED
        BY <4>1
    <3>2. W \in SUBSET Draws(k, l) /\ IsFiniteSet(W) /\ Cardinality(W) = c
      BY <1>4
    <3> HIDE DEF p, W
    <3> QED
      BY <3>1, <3>2, ExtensionsCount
  <2>3. ASSUME NEW f \in Draws(k, m) PROVE f \in Z <=> f \in X /\ h[f] = e
    <3> DEFINE g == Narrow(f, k, l)
               q == Reservoir(k, l, f)
    <3>1. g \in Draws(k, l) /\ f[m] \in 0 .. l /\ Reservoir(k, l, g) = q
      BY Narrowed
    <3>2. g \in W <=> Range(q) = Was(e)
      BY <3>1 DEF Keeping
    <3>3. f \in X <=> f[m] < k /\ q[f[m] + 1] \in Y /\ Range(q) = Was(q[f[m] + 1])
      BY <1>5
    <3>4. f \in X => h[f] = q[f[m] + 1]
      <4> HIDE DEF X
      <4> QED
        OBVIOUS
    <3>5. ASSUME g \in W
          PROVE  /\ Place(g) \in 1 .. k /\ q[Place(g)] = e /\ p[g] = Place(g) - 1
                 /\ \A i \in 1 .. k : q[i] = e => i = Place(g)
      <4>1. p[g] = Place(g) - 1
        <5> HIDE DEF Place, W, g
        <5> QED
          BY <3>5
      <4> HIDE DEF Place, g, W, p, q
      <4> QED
        BY <2>1, <3>1, <3>5, <4>1
    <3>6. f \in Z <=> g \in W /\ f[m] = p[g]
      <4> HIDE DEF W, p
      <4> QED
        OBVIOUS
    <3>7. f[m] \in Int /\ (f[m] < k => f[m] + 1 \in 1 .. k)
      BY <3>1
    <3> DEFINE b == Place(g)
               a == f[m]
               o == q[a + 1]
    <3>8. g \in W => b \in 1 .. k /\ q[b] = e /\ p[g] = b - 1 /\ \A i \in 1 .. k : q[i] = e => i = b
      BY <3>5
    <3>9. f \in X <=> a < k /\ o \in Y /\ Range(q) = Was(o)
      BY <3>3
    <3>10. e \in Y
      OBVIOUS
    <3> HIDE DEF g, W, X, Y, h, Place, p, q, b, Z, Was, m
    <3>11. ASSUME f \in Z PROVE f \in X /\ h[f] = e
      <4>1. g \in W /\ a = b - 1 /\ b \in 1 .. k /\ q[b] = e
        BY <3>6, <3>8, <3>11
      <4>2. a + 1 = b /\ a < k
        BY <4>1
      <4>3. o = e
        BY <4>1, <4>2
      <4>4. Range(q) = Was(o)
        BY <3>2, <4>1, <4>3
      <4> QED
        BY <3>4, <3>9, <3>10, <4>2, <4>3, <4>4
    <3>12. ASSUME f \in X, h[f] = e PROVE f \in Z
      <4>1. a < k /\ o = e /\ Range(q) = Was(e)
        BY <3>4, <3>9, <3>12
      <4>2. g \in W
        BY <3>2, <4>1
      <4>3. a + 1 \in 1 .. k
        BY <3>7, <4>1
      <4>4. a + 1 = b
        BY <3>8, <4>1, <4>2, <4>3
      <4>5. a = b - 1
        BY <3>7, <4>4
      <4> QED
        BY <3>6, <3>8, <4>2, <4>5
    <3> QED
      BY <3>11, <3>12
  <2>4. Z = Fiber(X, h, e)
    <3>1. \A f \in X : f \in Draws(k, m)
      BY DEF Keeping
    <3>2. \A f \in Z : f \in Draws(k, m)
      <4> HIDE DEF W, p
      <4> QED
        OBVIOUS
    <3> HIDE DEF Z, X, h
    <3> QED
      BY <2>3, <3>1, <3>2 DEF Fiber
  <2> QED
    BY <2>2, <2>4
<1>7. h \in [X -> Y]
  <2>1. ASSUME NEW f \in X PROVE Reservoir(k, l, f)[f[m] + 1] \in Y
    <3>1. f \in Draws(k, m)
      BY DEF Keeping
    <3> QED
      BY <1>5, <3>1
  <2> HIDE DEF X, Y
  <2> QED
    BY <2>1
<1> HIDE DEF X, Y, h
<1>8. IsFiniteSet(X) /\ Cardinality(X) = c * Cardinality(Y)
  BY <1>3, <1>6, <1>7, FibersCount
<1> QED
  BY <1>3, <1>8 DEF X

\* Of a stream that is not longer than the sample there is one.
LEMMA OneWay ==
    ASSUME NEW k \in Nat, NEW l \in 0 .. k, NEW Kept \in SUBSET (1 .. l), Cardinality(Kept) = l
    PROVE  IsFiniteSet(Keeping(Kept, k, l)) /\ Cardinality(Keeping(Kept, k, l)) = 1
<1>1. Kept = 1 .. l
  <2> DEFINE All == 1 .. l
  <2>1. IsFiniteSet(All) /\ Cardinality(All) = l /\ Kept \in SUBSET All
    BY FS_Interval
  <2> HIDE DEF All
  <2>2. Kept = All
    BY <2>1, FS_Subset
  <2> QED
    BY <2>2 DEF All
<1> DEFINE none == [i \in k + 1 .. l |-> 0]
<1>2. k + 1 .. l = {}
  OBVIOUS
<1>3. \A f : Range(Reservoir(k, l, f)) = 1 .. l
  <2>1. Range(Firsts(l)) = 1 .. l
    BY DEF Range, Firsts
  <2> QED
    BY <2>1, SampleFirst
<1>4. ASSUME NEW f PROVE f \in Draws(k, l) <=> f = none
  <2>1. Drawn(k, l, f)
    BY <1>2 DEF Drawn
  <2>2. [i \in k + 1 .. l |-> f[i]] = none
    BY <1>2
  <2> QED
    BY <2>1, <2>2, DrawsIs
<1>5. Keeping(Kept, k, l) = {none}
  <2> HIDE DEF none
  <2> QED
    BY <1>1, <1>3, <1>4 DEF Keeping
<1> QED
  BY <1>5, FS_Singleton

LEMMA WaysAlike ==
    ASSUME NEW k \in Nat, NEW l \in Nat, k <= l
    PROVE  \E c \in Nat \ {0} : SameWays(k, l, c)
<1> DEFINE bad == {m \in k .. l : ~ \E c \in Nat \ {0} : SameWays(k, m, c)}
<1>1. SUFFICES ASSUME bad # {} PROVE FALSE
  OBVIOUS
<1>2. PICK m \in bad : \A h \in bad : m <= h
  <2>1. bad \in SUBSET Nat
    OBVIOUS
  <2> HIDE DEF bad
  <2> QED
    BY <1>1, <2>1, Least
<1>3. CASE m = k
  <2>1. k \in 0 .. k
    OBVIOUS
  <2>2. SameWays(k, k, 1)
    BY <2>1, OneWay DEF SameWays
  <2> QED
    BY <1>2, <1>3, <2>2
<1>4. CASE m # k
  <2>1. PICK h \in Nat : m = h + 1 /\ h \in k .. l /\ k <= h
    BY <1>2, <1>4
  <2>2. PICK c \in Nat \ {0} : SameWays(k, h, c)
    <3>1. ~ m <= h
      BY <2>1
    <3> QED
      BY <1>2, <2>1, <3>1
  <2>3. SameWays(k, h + 1, c * (h - k + 1))
    <3>1. SUFFICES ASSUME NEW Kept \in SUBSET (1 .. h + 1), Cardinality(Kept) = k
                   PROVE  /\ IsFiniteSet(Keeping(Kept, k, h + 1))
                          /\ Cardinality(Keeping(Kept, k, h + 1)) = c * (h - k + 1)
      BY DEF SameWays
    <3>2. CASE h + 1 \in Kept
      BY <2>1, <2>2, <3>1, <3>2, TakenIn
    <3>3. CASE h + 1 \notin Kept
      <4>1. Kept \in SUBSET (1 .. h)
        <5>1. \A i \in 1 .. h + 1 : i # h + 1 => i \in 1 .. h
          OBVIOUS
        <5> QED
          BY <3>3, <5>1
      <4> QED
        BY <2>1, <2>2, <3>1, <4>1, LeftOut
    <3> QED
      BY <3>2, <3>3
  <2>4. c * (h - k + 1) \in Nat \ {0}
    <3>1. h - k + 1 \in Nat \ {0}
      BY <2>1
    <3> QED
      BY <3>1
  <2> QED
    BY <1>2, <2>1, <2>3, <2>4
<1> QED
  BY <1>3, <1>4
=============================================================================
