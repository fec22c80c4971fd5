-------------------------- MODULE ProductionProofs --------------------------
(***************************************************************************)
(* What holds of the parts that produce a video's material for every value  *)
(* of the constants, and however the parts' steps are put together.         *)
(***************************************************************************)
EXTENDS TrendProofs, FiniteSums

(***************************************************************************)
(* Music                                                                   *)
(***************************************************************************)

\* What a step of the whole does to the chain of music adapters.
LEMMA MusicMoves ==
    ASSUME [MNext]_mvars PROVE A!MNext \/ UNCHANGED music
BY DEF MNext, mvars

Services == {"suno", "pixabay", "silent", "kling"}

\* The adapter at work is one of the chain; a generation that Suno accepted is
\* counted, wasted or the one under way, and where Suno is at work the counter
\* stands below the limit; Suno does not search, so a download after a search is
\* none of Suno's.
MusicInv ==
    /\ adapters \in Chains /\ adapters \in Seq(Services) /\ enabled \in BOOLEAN
    /\ A!MTypeOK /\ ordered \in Nat /\ wasted \in Nat
    /\ job # "none" => step \in {"poll", "download"}
    /\ ordered <= made + wasted + (IF job # "none" /\ adapters[turn] = "suno" THEN 1 ELSE 0)
    /\ step \in {"idle", "try", "submit", "poll", "search", "download", "write"}
    /\ step = "poll" => polls < MaxPolls
    /\ step = "search" => adapters[turn] = "pixabay"
    /\ refused => made = DailyLimit
    /\ step \in {"submit", "poll", "download"} /\ adapters[turn] = "suno" => made < DailyLimit

LEMMA MusicInit == MInit => MusicInv
<1> SUFFICES ASSUME MInit PROVE MusicInv
  OBVIOUS
<1>1. A!MInit
  BY DEF MInit
<1>2. adapters \in Seq(Services) /\ Len(adapters) > 0
  BY <1>1, Assumptions DEF A!MInit, A!MusicAssumption, Services
<1> QED
  BY <1>1, <1>2, Assumptions DEF A!MInit, A!MusicAssumption, MusicInv, A!MTypeOK

LEMMA MusicKept == MusicInv /\ [MNext]_mvars => MusicInv'
<1> SUFFICES ASSUME MusicInv, [MNext]_mvars PROVE MusicInv'
  OBVIOUS
<1>1. DailyLimit \in Nat /\ MaxPolls \in Nat \ {0}
  BY Assumptions DEF A!MusicAssumption
<1>2. CASE UNCHANGED music
  BY <1>2 DEF music, MusicInv, A!MTypeOK
<1>3. Len(adapters) \in Nat /\ turn \in 1 .. Len(adapters) /\ adapters[turn] \in Services
  BY DEF MusicInv, A!MTypeOK
<1>4. CASE A!Request
  BY <1>1, <1>3, <1>4 DEF MusicInv, A!MTypeOK, A!Request, A!Adapter
<1>5. CASE A!Try
  BY <1>1, <1>3, <1>5
  DEF MusicInv, A!MTypeOK, A!Try, A!Adapter, A!Available, A!Fails, A!Background, A!Paths, Services
<1>6. CASE A!Submit
  BY <1>1, <1>3, <1>6 DEF MusicInv, A!MTypeOK, A!Submit, A!Adapter, A!Fails, A!Paths
<1>7. CASE A!Poll
  <2>1. CASE job = "ready" /\ step' = "download" /\ UNCHANGED <<turn, polls, job, result, wasted>>
    BY <1>1, <1>3, <1>7, <2>1 DEF MusicInv, A!MTypeOK, A!Adapter, A!Poll
  <2>2. CASE A!Fails /\ UNCHANGED polls
    BY <1>1, <1>3, <1>7, <2>2 DEF MusicInv, A!MTypeOK, A!Adapter, A!Poll, A!Fails, A!Paths
  <2>3. CASE job = "running" /\ polls' = polls + 1 /\ polls + 1 = MaxPolls /\ A!Fails
    BY <1>1, <1>3, <1>7, <2>3 DEF MusicInv, A!MTypeOK, A!Adapter, A!Poll, A!Fails, A!Paths
  <2>4. CASE /\ job = "running" /\ polls' = polls + 1 /\ polls + 1 # MaxPolls
             /\ UNCHANGED <<step, turn, job, result, wasted>>
    BY <1>1, <1>3, <1>7, <2>4 DEF MusicInv, A!MTypeOK, A!Adapter, A!Poll
  <2> QED
    BY <1>7, <2>1, <2>2, <2>3, <2>4 DEF A!Poll
<1>8. CASE A!Search
  BY <1>1, <1>3, <1>8 DEF MusicInv, A!MTypeOK, A!Search, A!Adapter, A!Fails, A!Paths
<1>9. CASE A!Download
  BY <1>1, <1>3, <1>9
  DEF MusicInv, A!MTypeOK, A!Download, A!Adapter, A!Fails, A!Paths, A!Lost,
      A!Returns, A!WriteFails
<1>10. CASE A!WriteSilence
  BY <1>1, <1>3, <1>10
  DEF MusicInv, A!MTypeOK, A!WriteSilence, A!Adapter, A!Fails, A!Paths, A!Returns, A!WriteFails
<1>11. CASE A!Progress
  BY <1>1, <1>3, <1>11 DEF MusicInv, A!MTypeOK, A!Progress
<1> QED
  BY MusicMoves, <1>2, <1>4, <1>5, <1>6, <1>7, <1>8, <1>9, <1>10, <1>11 DEF A!MNext, A!MStep

\* In one process the generations that Suno accepted are no more than its limit and
\* those that came to no file, and Suno is not asked again once it has refused,
\* although the counter moves only after the file is there (suno.py:133-150, 233-235).
THEOREM SunoWithinLimitHolds == MSpec => []SunoWithinLimit
<1> DailyLimit \in Nat
  BY Assumptions DEF A!MusicAssumption
<1>1. MusicInv => SunoWithinLimit
  BY DEF MusicInv, A!MTypeOK, SunoWithinLimit, A!SunoWithinLimit, A!Adapter
<1> QED
  BY MusicInit, MusicKept, <1>1, PTL DEF MSpec

\* At both paths there is something that can be told apart, and a path returned
\* in this call was the last to be written.
MusicFiles ==
    /\ file \in [A!Paths -> Services \cup {"none", "empty", "part"}]
    /\ A!MusicIsWhole

LEMMA MusicFilesInit == MInit => MusicFiles
BY DEF MInit, A!MInit, MusicFiles, A!MusicIsWhole, A!Paths

LEMMA MusicFilesKept == MusicInv /\ MusicFiles /\ [MNext]_mvars => MusicFiles'
<1> SUFFICES ASSUME MusicInv, MusicFiles, [MNext]_mvars PROVE MusicFiles'
  OBVIOUS
<1>1. Len(adapters) \in Nat /\ turn \in 1 .. Len(adapters) /\ adapters[turn] \in Services
  BY DEF MusicInv, A!MTypeOK
<1>2. Services \cap {"none", "failed"} = {} /\ A!Paths \cap {"none", "failed"} = {}
  BY DEF Services, A!Paths
<1>3. \/ UNCHANGED <<file, wrote, result, adapters, enabled>>
      \/ result' \notin A!Paths /\ file' \in [A!Paths -> Services \cup {"none", "empty", "part"}]
      \/ /\ adapters[turn] = "kling" /\ ~ enabled /\ UNCHANGED <<adapters, enabled>>
         /\ result' = "asked" /\ file' = [file EXCEPT !["asked"] = "empty"]
      \/ \E p \in A!Paths : /\ result' = p /\ wrote' = adapters[turn]
                             /\ file' = [file EXCEPT ![p] = adapters[turn]]
  <2>1. CASE UNCHANGED music
    BY <2>1 DEF music
  <2>2. CASE A!Request
    BY <2>2, <1>2 DEF A!Request, MusicFiles
  <2>3. ASSUME A!Fails, step # "idle" PROVE result' \notin A!Paths
    BY <2>3, <1>2 DEF A!Fails, MusicInv, A!MTypeOK
  <2>4. CASE A!Try
    <3>1. CASE A!Fails /\ UNCHANGED file
      BY <3>1, <2>4, <2>3 DEF A!Try, MusicFiles
    <3> QED
      BY <2>4, <3>1 DEF A!Try, A!Adapter
  <2>5. CASE A!Submit
    BY <2>3, <2>5 DEF A!Submit, MusicFiles
  <2>6. CASE A!Poll
    BY <2>3, <2>6 DEF A!Poll, MusicFiles
  <2>7. CASE A!Search
    BY <2>3, <2>7 DEF A!Search, MusicFiles
  <2>8. ASSUME NEW p \in A!Paths, A!WriteFails(p), step # "idle"
        PROVE  result' \notin A!Paths /\ file' \in [A!Paths -> Services \cup {"none", "empty", "part"}]
    BY <2>8, <2>3 DEF A!WriteFails, MusicFiles
  <2>9. CASE A!Download
    <3>1. CASE A!Lost
      BY <2>9, <3>1, <2>3 DEF A!Download, A!Lost, MusicFiles
    <3>2. CASE A!Returns("asked")
      BY <2>9, <3>2 DEF A!Download, A!Returns, A!Adapter, A!Paths
    <3>3. CASE A!WriteFails("asked")
      BY <2>9, <3>3, <2>8 DEF A!Paths, A!Download
    <3> QED
      BY <2>9, <3>1, <3>2, <3>3 DEF A!Download
  <2>10. CASE A!WriteSilence
    <3>1. CASE A!Returns("wav")
      BY <3>1 DEF A!Returns, A!Adapter, A!Paths
    <3>2. CASE A!WriteFails("wav")
      BY <2>10, <3>2, <2>8 DEF A!Paths, A!WriteSilence
    <3> QED
      BY <2>10, <3>1, <3>2 DEF A!WriteSilence
  <2>11. CASE A!Progress
    BY <2>11 DEF A!Progress
  <2> QED
    BY MusicMoves, <2>1, <2>2, <2>4, <2>5, <2>6, <2>7, <2>9, <2>10, <2>11 DEF A!MNext, A!MStep
<1>4. adapters[turn] = "kling" => adapters = <<"kling">>
  BY <1>1, Assumptions DEF MusicInv, A!MusicAssumption
<1>5. "asked" \in A!Paths
  BY DEF A!Paths
<1> QED
  BY <1>1, <1>2, <1>3, <1>4, <1>5 DEF MusicFiles, A!MusicIsWhole

(***************************************************************************)
(* Footage                                                                 *)
(***************************************************************************)

LEMMA FootageMoves ==
    ASSUME [MNext]_mvars PROVE P!FNext \/ UNCHANGED footage
BY DEF MNext, mvars

Largest(s) == \A i, j \in 1 .. Len(s) : i <= j => Pixels[s[i]] >= Pixels[s[j]]

\* The paths are hits in their order, none of them still to do.
Gone == Len(hits) - Len(todo)
Chosen(at, p, h) ==
    \A i \in 1 .. Len(p) : p[i] = h[at[i]] /\ \A j \in 1 .. i - 1 : at[j] < at[i]
Selected(p, h, g) == \E at \in [1 .. Len(p) -> 1 .. g] : Chosen(at, p, h)

FootageOrder ==
    /\ hits \in Seq(P!Clips) /\ Len(hits) <= Count /\ Largest(hits)
    /\ todo \in Seq(P!Clips) /\ Len(todo) <= Len(hits)
    /\ \A i \in 1 .. Len(todo) : todo[i] = hits[Gone + i]
    /\ paths \in Seq(P!Clips) /\ Len(paths) <= Gone
    /\ Selected(paths, hits, Gone)

\* Only the clip that is being written or whose download broke off is there in part.
FootageFiles ==
    /\ disk \in [P!Clips -> {"absent", "part", "whole"}]
    /\ open # "none" => fetching /\ todo # <<>> /\ open = Head(todo) /\ disk[open] = "part"
    /\ \A c \in P!Clips : disk[c] = "part" => c \in broken \/ c = open
    /\ \A i \in 1 .. Len(paths) : disk[paths[i]] # "absent" /\ paths[i] # open

FootageInv == FootageOrder /\ FootageFiles

LEMMA FootageFacts ==
    /\ P!Clips = PexelsClips \cup PixabayClips /\ IsFiniteSet(P!Clips) /\ "none" \notin P!Clips
    /\ Pixels \in [P!Clips -> Nat] /\ Count \in Nat
<1>1. P!IsFiniteSet(P!Clips) <=> IsFiniteSet(P!Clips)
  BY DEF P!IsFiniteSet, IsFiniteSet
<1> QED
  BY <1>1, Assumptions DEF P!FootageAssumption, P!Clips

LEMMA SelectedNone == ASSUME NEW h, NEW g \in Nat PROVE Selected(<<>>, h, g)
<1> DEFINE at == [i \in 1 .. Len(<<>>) |-> 0]
<1>1. at \in [1 .. Len(<<>>) -> 1 .. g] /\ 1 .. Len(<<>>) = {}
  OBVIOUS
<1> QED
  BY <1>1 DEF Selected, Chosen

LEMMA SelectedSame ==
    ASSUME NEW p, NEW h, NEW g \in Nat, NEW k \in Nat, g <= k, Selected(p, h, g)
    PROVE  Selected(p, h, k)
<1>1. PICK at \in [1 .. Len(p) -> 1 .. g] : Chosen(at, p, h)
  BY DEF Selected
<1>2. at \in [1 .. Len(p) -> 1 .. k]
  OBVIOUS
<1> QED
  BY <1>1, <1>2 DEF Selected

LEMMA SelectedMore ==
    ASSUME NEW S, NEW p \in Seq(S), NEW h, NEW g \in Nat, h[g + 1] \in S, Selected(p, h, g)
    PROVE  Selected(Append(p, h[g + 1]), h, g + 1)
<1>1. PICK at \in [1 .. Len(p) -> 1 .. g] : Chosen(at, p, h)
  BY DEF Selected
<1> DEFINE n == Len(p)
           q == Append(p, h[g + 1])
           more == [i \in 1 .. n + 1 |-> IF i = n + 1 THEN g + 1 ELSE at[i]]
<1>2. n \in Nat /\ Len(q) = n + 1 /\ q[n + 1] = h[g + 1] /\ \A i \in 1 .. n : q[i] = p[i]
  OBVIOUS
<1>3. \A i \in 1 .. n : at[i] \in 1 .. g /\ more[i] = at[i] /\ i \in 1 .. n + 1
  BY <1>2
<1>4. more[n + 1] = g + 1
  BY <1>2
<1> HIDE DEF q
<1>5. more \in [1 .. n + 1 -> 1 .. g + 1]
  BY <1>2
<1> HIDE DEF more, n
<1>6. \A i \in 1 .. n + 1 : i \in 1 .. n \/ i = n + 1
  BY <1>2
<1>7. \A i \in 1 .. n + 1 : q[i] = h[more[i]]
  BY <1>1, <1>2, <1>3, <1>4, <1>6 DEF Chosen, n
<1>8. ASSUME NEW i \in 1 .. n + 1, NEW j \in 1 .. i - 1 PROVE more[j] < more[i]
  <2>1. j \in 1 .. n
    BY <1>2
  <2>2. CASE i \in 1 .. n
    BY <1>1, <1>3, <2>1, <2>2 DEF Chosen, n
  <2>3. CASE i = n + 1
    BY <1>3, <1>4, <2>1, <2>3
  <2> QED
    BY <1>6, <2>2, <2>3
<1>9. Chosen(more, q, h)
  BY <1>2, <1>7, <1>8 DEF Chosen
<1> QED
  BY <1>2, <1>5, <1>9 DEF Selected, q

LEMMA FootageInit == MInit => FootageInv
<1> SUFFICES ASSUME MInit PROVE FootageInv
  OBVIOUS
<1>1. /\ hits = <<>> /\ todo = <<>> /\ paths = <<>> /\ open = "none"
      /\ disk = [c \in P!Clips |-> "absent"]
  BY DEF MInit, P!FInit
<1>2. FootageFiles
  BY <1>1 DEF FootageFiles
<1>3. Gone = 0 /\ Len(paths) = 0 /\ Len(hits) = 0 /\ Len(todo) = 0
  BY <1>1 DEF Gone
<1>4. FootageOrder
  BY <1>1, <1>3, SelectedNone, FootageFacts DEF FootageOrder, Largest
<1> QED
  BY <1>2, <1>4 DEF FootageInv

\* What search() finds, sorted and cut.
LEMMA AnswersAreClips ==
    ASSUME NEW S \in SUBSET P!Clips, NEW key, NEW a \in P!Answers(S, key) PROVE a \in Seq(P!Clips)
<1>1. CASE a = <<>>
  BY <1>1
<1>2. ASSUME NEW T \in SUBSET S, a \in P!SetToSeqs(T) PROVE a \in Seq(P!Clips)
  <2>1. T \subseteq P!Clips /\ Cardinality(T) \in Nat
    BY FootageFacts, FS_Subset, FS_CardinalityType
  <2>2. P!Cardinality(T) = Cardinality(T)
    BY DEF P!Cardinality, Cardinality
  <2>3. a \in [1 .. Cardinality(T) -> T]
    BY <1>2, <2>2 DEF P!SetToSeqs
  <2> QED
    BY <2>1, <2>3
<1> QED
  BY <1>1, <1>2 DEF P!Answers

LEMMA BestIsSorted ==
    ASSUME NEW s \in Seq(P!Clips)
    PROVE  /\ P!Cut(P!Best(s)) \in Seq(P!Clips)
           /\ Len(P!Cut(P!Best(s))) <= Count
           /\ Largest(P!Cut(P!Best(s)))
<1> DEFINE key == [i \in 1 .. Len(s) |-> Pixels[s[i]]]
           found == P!Best(s)
<1>1. Len(s) \in Nat /\ \A i \in 1 .. Len(s) : s[i] \in P!Clips
  OBVIOUS
<1>2. key \in Seq(Int) /\ Len(key) = Len(s) /\ \A i \in 1 .. Len(s) : key[i] = Pixels[s[i]]
  <2>1. \A i \in 1 .. Len(s) : Pixels[s[i]] \in Int
    BY <1>1, FootageFacts
  <2> QED
    BY <1>1, <2>1
<1>3. P!Order(key) = Order(key)
  BY DEF P!Order, Order, P!Ahead, Ahead, P!Cardinality, Cardinality
<1> HIDE DEF key
<1>4. found = [n \in 1 .. Len(s) |-> s[Order(key)[n]]]
  BY <1>3 DEF P!Best, key
<1>5. /\ \A n \in 1 .. Len(s) : Order(key)[n] \in 1 .. Len(s)
      /\ \A m, n \in 1 .. Len(s) : m <= n => key[Order(key)[m]] >= key[Order(key)[n]]
  BY <1>2, OrderSorts
<1>6. found \in Seq(P!Clips) /\ Len(found) = Len(s) /\ Largest(found)
  <2> HIDE DEF found
  <2>1. \A n \in 1 .. Len(s) : s[Order(key)[n]] \in P!Clips
    BY <1>1, <1>5
  <2>2. found \in [1 .. Len(s) -> P!Clips]
    BY <1>4, <2>1
  <2>3. found \in Seq(P!Clips) /\ Len(found) = Len(s)
    BY <1>1, <2>2
  <2>4. \A n \in 1 .. Len(s) : Pixels[found[n]] = key[Order(key)[n]]
    BY <1>2, <1>4, <1>5
  <2> QED
    BY <1>5, <2>3, <2>4 DEF Largest
<1> HIDE DEF found
<1>7. CASE Len(found) > Count
  <2>1. P!Cut(found) = SubSeq(found, 1, Count) /\ Count \in Nat
    BY <1>7, FootageFacts DEF P!Cut
  <2>2. /\ P!Cut(found) \in Seq(P!Clips) /\ Len(P!Cut(found)) = Count
        /\ \A i \in 1 .. Count : P!Cut(found)[i] = found[i]
    BY <1>6, <1>7, <2>1
  <2> QED
    BY <1>6, <1>7, <2>1, <2>2, SMTT(30) DEF Largest, found
<1>8. CASE ~ (Len(found) > Count)
  BY <1>6, <1>8, FootageFacts DEF P!Cut, found
<1> QED
  BY <1>7, <1>8

LEMMA FootageKept == FootageInv /\ [MNext]_mvars => FootageInv'
<1> SUFFICES ASSUME FootageInv, [MNext]_mvars PROVE FootageInv'
  OBVIOUS
<1>1. /\ Len(hits) \in Nat /\ Len(todo) \in Nat /\ Len(paths) \in Nat /\ Gone \in Nat
      /\ Gone <= Len(hits)
      /\ \A i \in 1 .. Len(todo) : todo[i] \in P!Clips
      /\ \A i \in 1 .. Len(paths) : paths[i] \in P!Clips
  BY DEF FootageInv, FootageOrder, Gone
<1>2. ASSUME UNCHANGED <<hits, todo, paths>> PROVE FootageOrder'
  BY <1>2 DEF FootageInv, FootageOrder, Gone, Largest
<1>3. ASSUME todo # <<>>, todo' = Tail(todo), UNCHANGED hits
      PROVE  /\ todo' \in Seq(P!Clips) /\ Len(todo') = Len(todo) - 1 /\ Gone' = Gone + 1
             /\ Head(todo) \in P!Clips /\ Head(todo) = hits[Gone + 1]
             /\ \A i \in 1 .. Len(todo') : todo'[i] = hits'[Gone' + i]
  <2>1. /\ todo' \in Seq(P!Clips) /\ Len(todo') = Len(todo) - 1 /\ Head(todo) = todo[1]
        /\ Len(todo) >= 1 /\ \A i \in 1 .. Len(todo') : todo'[i] = todo[i + 1]
    BY <1>3 DEF FootageInv, FootageOrder
  <2>2. Gone' = Gone + 1
    BY <1>1, <1>3, <2>1 DEF Gone
  <2>3. \A i \in 1 .. Len(todo') : todo[i + 1] = hits[Gone + (i + 1)]
    BY <1>1, <2>1 DEF FootageInv, FootageOrder
  <2>4. todo[1] = hits[Gone + 1] /\ todo[1] \in P!Clips
    BY <1>1, <2>1 DEF FootageInv, FootageOrder
  <2> QED
    BY <1>1, <1>3, <2>1, <2>2, <2>3, <2>4
<1>4. ASSUME todo # <<>>, todo' = Tail(todo), UNCHANGED <<hits, paths>> PROVE FootageOrder'
  <2>1. Selected(paths, hits, Gone')
    BY <1>1, <1>3, <1>4, SelectedSame DEF FootageInv, FootageOrder
  <2>2. Len(todo') <= Len(hits) /\ Len(paths) <= Gone'
    BY <1>1, <1>3, <1>4 DEF FootageInv, FootageOrder
  <2> QED
    BY <1>3, <1>4, <2>1, <2>2 DEF FootageInv, FootageOrder, Largest
<1>5. ASSUME todo # <<>>, todo' = Tail(todo), UNCHANGED hits, paths' = Append(paths, Head(todo))
      PROVE  FootageOrder'
  <2>1. Head(todo) = hits[Gone + 1] /\ Head(todo) \in P!Clips
    BY <1>3, <1>5
  <2>2. Selected(paths', hits, Gone')
    BY <1>1, <1>3, <1>5, <2>1, SelectedMore DEF FootageInv, FootageOrder
  <2>3. paths' \in Seq(P!Clips) /\ Len(paths') = Len(paths) + 1
    BY <1>5, <2>1 DEF FootageInv, FootageOrder
  <2>4. Len(todo') <= Len(hits) /\ Len(paths') <= Gone'
    BY <1>1, <1>3, <1>5, <2>3 DEF FootageInv, FootageOrder
  <2> QED
    BY <1>3, <1>5, <2>2, <2>3, <2>4 DEF FootageInv, FootageOrder, Largest
<1>6. CASE UNCHANGED footage
  BY <1>2, <1>6 DEF footage, FootageInv, FootageFiles
<1>7. CASE P!FetchForPlan
  <2>1. PICK a \in P!Answers(PexelsClips, "pexels") :
           \E b \in IF Len(a) < Count THEN P!Answers(PixabayClips, "pixabay") ELSE {<<>>} :
              hits' = P!Cut(P!Best(a \o b)) /\ todo' = hits'
    BY <1>7 DEF P!FetchForPlan
  <2>2. PICK b \in P!Answers(PixabayClips, "pixabay") \cup {<<>>} :
              hits' = P!Cut(P!Best(a \o b)) /\ todo' = hits'
    BY <2>1
  <2>3. a \in Seq(P!Clips) /\ b \in Seq(P!Clips)
    <3>1. {PexelsClips, PixabayClips} \subseteq SUBSET P!Clips
      BY FootageFacts
    <3>2. a \in Seq(P!Clips)
      BY <3>1, AnswersAreClips
    <3>3. CASE b \in P!Answers(PixabayClips, "pixabay")
      BY <3>1, <3>2, <3>3, AnswersAreClips
    <3>4. CASE b = <<>>
      BY <3>2, <3>4
    <3> QED
      BY <3>3, <3>4
  <2>4. hits' \in Seq(P!Clips) /\ Len(hits') <= Count /\ Largest(hits')
    <3>1. a \o b \in Seq(P!Clips)
      BY <2>3
    <3> QED
      BY <2>2, <3>1, BestIsSorted
  <2>5. paths' = <<>> /\ todo' = hits' /\ UNCHANGED <<disk, open, broken>> /\ open = "none"
    BY <1>7, <2>2 DEF P!FetchForPlan, FootageInv, FootageFiles
  <2>6. Gone' = 0 /\ Len(hits') \in Nat
    BY <2>4, <2>5 DEF Gone
  <2>7. paths' \in Seq(P!Clips) /\ Len(paths') = 0 /\ Selected(paths', hits', Gone')
    BY <2>5, <2>6, SelectedNone
  <2>8. FootageOrder'
    BY <2>4, <2>5, <2>6, <2>7 DEF FootageOrder, Largest
  <2>9. FootageFiles'
    BY <2>5 DEF FootageInv, FootageFiles
  <2> QED
    BY <2>8, <2>9 DEF FootageInv
<1>8. CASE P!Cached
  <2>1. FootageOrder'
    BY <1>5, <1>8 DEF P!Cached, P!Due, P!Drop
  <2>2. FootageFiles'
    BY <1>1, <1>3, <1>8, FootageFacts DEF P!Cached, P!Due, P!Drop, FootageInv, FootageFiles
  <2> QED
    BY <2>1, <2>2 DEF FootageInv
<1>9. CASE P!Open
  <2>1. FootageOrder'
    BY <1>2, <1>4, <1>9 DEF P!Open, P!Due, P!Drop
  <2>2. Head(todo) \in P!Clips
    BY <1>1, <1>9 DEF P!Open, FootageInv, FootageOrder
  <2>3. FootageFiles'
    BY <1>1, <1>9, <2>2, FootageFacts DEF P!Open, P!Due, P!Drop, FootageInv, FootageFiles
  <2> QED
    BY <2>1, <2>3 DEF FootageInv
<1>10. CASE P!Stream
  <2>1. open = Head(todo) /\ todo # <<>> /\ disk[open] = "part" /\ open \in P!Clips
    BY <1>1, <1>10 DEF P!Stream, FootageInv, FootageFiles, FootageOrder
  <2>2. FootageOrder'
    BY <1>4, <1>5, <1>10, <2>1 DEF P!Stream, P!Drop
  <2>3. FootageFiles'
    <3>1. open' = "none" /\ todo' = Tail(todo) /\ open # "none"
      BY <1>10 DEF P!Stream, P!Drop
    <3>2. CASE disk' = [disk EXCEPT ![open] = "whole"] /\ paths' = Append(paths, open) /\ broken' = broken
      <4>1. /\ Len(paths') = Len(paths) + 1 /\ paths'[Len(paths) + 1] = open
            /\ \A i \in 1 .. Len(paths) : paths'[i] = paths[i]
        BY <3>2, <2>1 DEF FootageInv, FootageOrder
      <4>2. \A i \in 1 .. Len(paths') : disk'[paths'[i]] # "absent" /\ paths'[i] # open'
        BY <1>1, <2>1, <3>1, <3>2, <4>1, FootageFacts DEF FootageInv, FootageFiles
      <4> QED
        BY <2>1, <3>1, <3>2, <4>2 DEF FootageInv, FootageFiles
    <3>3. CASE broken' = broken \cup {open} /\ UNCHANGED <<disk, paths>>
      BY <1>1, <2>1, <3>1, <3>3, FootageFacts DEF FootageInv, FootageFiles
    <3> QED
      BY <1>10, <3>2, <3>3 DEF P!Stream
  <2> QED
    BY <2>2, <2>3 DEF FootageInv
<1>11. CASE P!Done
  BY <1>2, <1>11 DEF P!Done, FootageInv, FootageFiles
<1>12. CASE P!Stop
  <2>1. /\ todo' = <<>> /\ paths' = <<>> /\ hits' = hits /\ open' = "none" /\ disk' = disk
        /\ broken' = IF open = "none" THEN broken ELSE broken \cup {open}
    BY <1>12 DEF P!Stop
  <2>2. Gone' = Len(hits)
    BY <1>1, <2>1 DEF Gone
  <2>3. /\ paths' \in Seq(P!Clips) /\ Len(paths') = 0 /\ todo' \in Seq(P!Clips) /\ Len(todo') = 0
        /\ Selected(paths', hits', Gone')
    BY <1>1, <2>1, <2>2, SelectedNone
  <2>4. FootageOrder'
    BY <1>1, <2>1, <2>2, <2>3 DEF FootageInv, FootageOrder, Largest
  <2>5. FootageFiles'
    BY <2>1, FootageFacts DEF FootageInv, FootageFiles
  <2> QED
    BY <2>4, <2>5 DEF FootageInv
<1> QED
  BY FootageMoves, <1>6, <1>7, <1>8, <1>9, <1>10, <1>11, <1>12 DEF P!FNext, P!FStep

LEMMA FootageWhole == FootageInv => P!FootageIsWhole
<1> SUFFICES ASSUME FootageInv PROVE P!FootageIsWhole
  OBVIOUS
<1>1. /\ Len(hits) \in Nat /\ Len(paths) \in Nat /\ Gone \in Nat /\ Gone <= Len(hits)
      /\ Len(paths) <= Count
      /\ \A i \in 1 .. Len(paths) : paths[i] \in P!Clips
  BY FootageFacts DEF FootageInv, FootageOrder, Gone
<1>2. Selected(paths, hits, Len(hits))
  BY <1>1, SelectedSame DEF FootageInv, FootageOrder
<1>3. PICK at \in [1 .. Len(paths) -> 1 .. Len(hits)] : Chosen(at, paths, hits)
  BY <1>2 DEF Selected
<1>4. ASSUME NEW i \in 1 .. Len(paths), NEW j \in 1 .. i PROVE Pixels[paths[j]] >= Pixels[paths[i]]
  <2>1. j \in 1 .. Len(paths) /\ (j = i \/ j \in 1 .. i - 1)
    BY <1>1
  <2>2. /\ paths[i] = hits[at[i]] /\ paths[j] = hits[at[j]]
        /\ at[i] \in 1 .. Len(hits) /\ at[j] \in 1 .. Len(hits) /\ at[j] <= at[i]
    BY <1>3, <2>1 DEF Chosen
  <2> QED
    BY <2>2 DEF FootageInv, FootageOrder, Largest
<1>5. \A i \in 1 .. Len(paths) :
         disk[paths[i]] # "absent" /\ (disk[paths[i]] = "part" => paths[i] \in broken)
  BY <1>1 DEF FootageInv, FootageFiles
<1> QED
  BY <1>1, <1>3, <1>4, <1>5 DEF P!FootageIsWhole, Chosen

(***************************************************************************)
(* Videos                                                                  *)
(***************************************************************************)

LEMMA VideoMoves ==
    ASSUME [MNext]_mvars PROVE V!VNext \/ UNCHANGED videos
BY DEF MNext, mvars

\* What VideosAreWhole says of a job of run r and its file.
Sound(f, r) == f.by # {} /\ (f.state # "whole" => f.by # {r})
AllJobs     == jobs \cup {u.job : u \in uploaded}
Working(w)  == worker[w].at # "idle"
Begun(r)    == r \in Nat /\ r <= runs

VideoTypes ==
    /\ runs \in Nat /\ DOMAIN video = Plans /\ DOMAIN worker = Workers
    /\ \A w \in Workers : Working(w) => worker[w].plan \in Plans /\ Begun(worker[w].run)
    /\ \A r \in temps : Begun(r)
    /\ \A j \in AllJobs : j.plan \in Plans /\ Begun(j.run)

\* A run has one worker and, once it is delivered, none; a worker that writes to
\* the output finds it there, and one that renders to it made no temporary file.
RunApart(w) ==
    /\ \A v \in Workers : Working(v) /\ worker[v].run = worker[w].run => v = w
    /\ \A j \in AllJobs : j.run # worker[w].run
    /\ worker[w].at = "render" => worker[w].run \notin temps
    /\ worker[w].at \in {"render", "burn"} => video[worker[w].plan].by # {}

JobsSound ==
    /\ \A j \in jobs : Sound(video[j.plan], j.run)
    /\ \A u \in uploaded : Sound(u.file, u.job.run)
    /\ \A j \in AllJobs : j.run \notin temps

VideoInv == VideoTypes /\ (\A w \in Workers : Working(w) => RunApart(w)) /\ JobsSound

LEMMA VideoInit == MInit => VideoInv
BY DEF MInit, V!VInit, V!Absent, V!Resting, VideoInv, VideoTypes, Working, AllJobs, JobsSound

\* A worker that rests again and, unless it broke off, leaves a job for its run: what
\* is needed of the file.
LEMMA VideoRests ==
    ASSUME VideoInv, NEW w \in Workers, Working(w), ~ Working(w)', UNCHANGED <<runs, uploaded>>,
           DOMAIN worker' = Workers, \A v \in Workers \ {w} : worker'[v] = worker[v],
           DOMAIN video' = Plans, temps' \subseteq temps,
           \A p \in Plans : \/ video'[p] = video[p]
                            \/ video'[p].by # {} /\ video'[p].state = "whole"
                            \/ video'[p].by # {} /\ \A j \in AllJobs : video'[p].by # {j.run},
           \/ jobs' = jobs
           \/ /\ jobs' = jobs \cup {[plan |-> worker[w].plan, run |-> worker[w].run]}
              /\ Sound(video'[worker[w].plan], worker[w].run) /\ worker[w].run \notin temps'
    PROVE  VideoInv'
<1> DEFINE mine == [plan |-> worker[w].plan, run |-> worker[w].run]
<1>1. AllJobs' = AllJobs \/ (AllJobs' = AllJobs \cup {mine} /\ jobs' = jobs \cup {mine})
  BY DEF AllJobs
<1>2. /\ worker[w].plan \in Plans /\ Begun(worker[w].run)
      /\ mine.plan = worker[w].plan /\ mine.run = worker[w].run
  BY DEF VideoInv, VideoTypes
<1> HIDE DEF mine
<1>3. \A v \in Workers : Working(v)' => v # w /\ Working(v) /\ worker'[v] = worker[v]
  BY DEF Working
<1>4. VideoTypes'
  BY <1>1, <1>2, <1>3 DEF VideoInv, VideoTypes, Begun
<1>5. ASSUME NEW v \in Workers, Working(v)' PROVE RunApart(v)'
  <2>1. v # w /\ Working(v) /\ worker'[v] = worker[v] /\ RunApart(v)
    BY <1>3, <1>5 DEF VideoInv
  <2>2. \A z \in Workers : Working(z)' /\ worker'[z].run = worker'[v].run => z = v
    BY <1>3, <2>1 DEF RunApart
  <2>3. worker[w].run # worker[v].run
    BY <2>1 DEF RunApart
  <2>4. \A j \in AllJobs' : j.run # worker'[v].run
    BY <1>1, <1>2, <2>1, <2>3 DEF RunApart
  <2>5. worker'[v].at \in {"render", "burn"} => video'[worker'[v].plan].by # {}
    BY <2>1 DEF RunApart, VideoInv, VideoTypes
  <2> QED
    BY <2>1, <2>2, <2>4, <2>5 DEF RunApart
<1>6. JobsSound'
  <2>1. \A j \in jobs : j \in AllJobs /\ j.plan \in Plans
    BY DEF AllJobs, VideoInv, VideoTypes
  <2>2. \A j \in jobs : Sound(video'[j.plan], j.run)
    BY <2>1 DEF Sound, VideoInv, JobsSound
  <2>3. \/ jobs' = jobs /\ AllJobs' = AllJobs
        \/ /\ jobs' = jobs \cup {mine} /\ AllJobs' = AllJobs \cup {mine}
           /\ Sound(video'[mine.plan], mine.run) /\ mine.run \notin temps'
    BY <1>2 DEF mine, AllJobs
  <2>4. \A j \in jobs' : Sound(video'[j.plan], j.run)
    BY <2>2, <2>3
  <2>5. \A j \in AllJobs' : j.run \notin temps'
    BY <2>3 DEF VideoInv, JobsSound
  <2> QED
    BY <2>4, <2>5 DEF VideoInv, JobsSound
<1> QED
  BY <1>4, <1>5, <1>6 DEF VideoInv

\* A worker that goes on, or begins a new run.
LEMMA VideoGoesOn ==
    ASSUME VideoInv, NEW w \in Workers, Working(w)', UNCHANGED <<jobs, uploaded>>,
           runs' \in Nat, runs <= runs', worker'[w].run \in Nat, worker'[w].run <= runs',
           worker'[w].plan \in Plans,
           DOMAIN worker' = Workers, \A v \in Workers \ {w} : worker'[v] = worker[v],
           DOMAIN video' = Plans,
           \A p \in Plans : \/ video'[p] = video[p]
                            \/ video'[p].by # {} /\ worker'[w].run \in video'[p].by,
           \A r \in temps' : r \in temps \/ (r = worker'[w].run /\ worker'[w].at = "temp"),
           \A v \in Workers \ {w} : Working(v) => worker[v].run # worker'[w].run,
           \A j \in AllJobs : j.run # worker'[w].run,
           worker'[w].at = "render" => worker'[w].run \notin temps,
           worker'[w].at \in {"render", "burn"} => video'[worker'[w].plan].by # {}
    PROVE  VideoInv'
<1>1. AllJobs' = AllJobs
  BY DEF AllJobs
<1>2. \A v \in Workers \ {w} : (Working(v)' <=> Working(v)) /\ worker'[v] = worker[v]
  BY DEF Working
<1>3. \A r : Begun(r) => Begun(r)'
  BY DEF Begun, VideoInv, VideoTypes
<1>4. VideoTypes'
  <2>1. \A r : r \in Nat /\ r <= runs' => Begun(r)'
    BY DEF Begun
  <2>2. \A v \in Workers : Working(v)' => worker'[v].plan \in Plans /\ Begun(worker[v].run)'
    BY <1>2, <1>3, <2>1 DEF VideoInv, VideoTypes
  <2>3. \A r \in temps' : Begun(r)'
    BY <1>3, <2>1 DEF VideoInv, VideoTypes
  <2> QED
    BY <1>1, <1>3, <2>2, <2>3 DEF VideoInv, VideoTypes
<1>5. ASSUME NEW v \in Workers, Working(v)' PROVE RunApart(v)'
  <2>1. CASE v = w
    BY <1>1, <1>2, <2>1 DEF RunApart
  <2>2. CASE v # w
    <3>1. Working(v) /\ worker'[v] = worker[v] /\ RunApart(v) /\ worker[v].run # worker'[w].run
      BY <1>2, <1>5, <2>2 DEF VideoInv
    <3>2. worker[v].plan \in Plans
      BY <3>1 DEF VideoInv, VideoTypes
    <3> QED
      BY <1>1, <1>2, <3>1, <3>2 DEF RunApart
  <2> QED
    BY <2>1, <2>2
<1>6. JobsSound'
  <2>1. \A j \in jobs : j \in AllJobs /\ j.plan \in Plans
    BY DEF AllJobs, VideoInv, VideoTypes
  <2>2. \A j \in jobs : Sound(video'[j.plan], j.run)
    BY <2>1 DEF Sound, VideoInv, JobsSound
  <2>3. \A j \in AllJobs : j.run \notin temps'
    BY DEF VideoInv, JobsSound
  <2> QED
    BY <1>1, <2>2, <2>3 DEF VideoInv, JobsSound
<1> QED
  BY <1>4, <1>5, <1>6 DEF VideoInv

LEMMA VideoKept == VideoInv /\ [MNext]_mvars => VideoInv'
<1> SUFFICES ASSUME VideoInv, [MNext]_mvars PROVE VideoInv'
  OBVIOUS
<1>1. CASE UNCHANGED videos
  <2>1. UNCHANGED <<video, worker, temps, jobs, runs, uploaded>>
    BY <1>1 DEF videos
  <2> QED
    BY <2>1 DEF VideoInv, VideoTypes, JobsSound, RunApart, Working, AllJobs, Begun
<1>2. ASSUME NEW w \in Workers, NEW p \in Plans, V!Assemble(w, p) PROVE VideoInv'
  <2>1. /\ runs \in Nat /\ runs' = runs + 1 /\ runs' \in Nat /\ runs <= runs'
        /\ \A r : Begun(r) => r # runs'
    BY <1>2 DEF V!Assemble, VideoInv, VideoTypes, Begun
  <2>2. /\ DOMAIN worker' = Workers /\ \A v \in Workers \ {w} : worker'[v] = worker[v]
        /\ \/ /\ worker'[w] = [at |-> "render", plan |-> p, run |-> runs']
              /\ V!Open(p, runs') /\ UNCHANGED temps
           \/ /\ worker'[w] = [at |-> "temp", plan |-> p, run |-> runs']
              /\ temps' = temps \cup {runs'} /\ UNCHANGED video
    BY <1>2 DEF V!Assemble, VideoInv, VideoTypes
  <2>3. UNCHANGED <<jobs, uploaded>>
    BY <1>2 DEF V!Assemble
  <2>4. worker'[w].run = runs' /\ worker'[w].plan = p /\ Working(w)' /\ worker'[w].run \in Nat /\ worker'[w].run <= runs'
    BY <2>1, <2>2 DEF Working, Begun
  <2>5. DOMAIN video' = Plans
    BY <2>2 DEF V!Open, VideoInv, VideoTypes
  <2>6. V!Open(p, runs') => runs' \in video'[p].by /\ \A q \in Plans \ {p} : video'[q] = video[q]
    BY DEF V!Open, VideoInv, VideoTypes
  <2>7. /\ \A v \in Workers \ {w} : Working(v) => worker[v].run # runs'
        /\ \A j \in AllJobs : j.run # runs'
        /\ runs' \notin temps
    BY <2>1 DEF VideoInv, VideoTypes
  <2> QED
    BY <2>1, <2>2, <2>3, <2>4, <2>5, <2>6, <2>7, VideoGoesOn
<1>3. ASSUME NEW w \in Workers, V!BreakOff(w), Working(w) PROVE VideoInv'
  BY <1>3, VideoRests DEF V!BreakOff, VideoInv, VideoTypes, Working, V!Resting
<1>4. ASSUME NEW w \in Workers, V!BreakOff(w), ~ Working(w) PROVE VideoInv'
  <2>1. UNCHANGED <<video, temps, jobs, runs, uploaded>> /\ ~ Working(w)' /\ DOMAIN worker' = Workers
    BY <1>4 DEF V!BreakOff, VideoInv, VideoTypes, Working, V!Resting
  <2>2. \A v \in Workers \ {w} : worker'[v] = worker[v]
    BY <1>4 DEF V!BreakOff, VideoInv, VideoTypes
  <2>3. \A v \in Workers : Working(v)' => v # w /\ Working(v) /\ worker'[v] = worker[v]
    BY <2>1, <2>2 DEF Working
  <2> QED
    BY <2>1, <2>3 DEF VideoInv, VideoTypes, JobsSound, RunApart, AllJobs, Begun
<1>5. ASSUME NEW j \in jobs, V!UploadFile(j) PROVE VideoInv'
  <2> DEFINE new == [job |-> j, file |-> video[j.plan]]
  <2>1. /\ UNCHANGED <<video, worker, temps, runs>> /\ jobs' = jobs \ {j}
        /\ uploaded' = uploaded \cup {new} /\ new.job = j /\ new.file = video[j.plan]
    BY <1>5 DEF V!UploadFile
  <2> HIDE DEF new
  <2>2. AllJobs' = AllJobs
    BY <2>1 DEF AllJobs
  <2>3. JobsSound'
    BY <2>1, <2>2 DEF VideoInv, JobsSound
  <2> QED
    BY <2>1, <2>2, <2>3 DEF VideoInv, VideoTypes, RunApart, Working, Begun
<1>6. ASSUME NEW w \in Workers, V!RenderTemp(w) PROVE VideoInv'
  <2> DEFINE p == worker[w].plan
             r == worker[w].run
  <2>1. Working(w) /\ p \in Plans /\ Begun(r) /\ RunApart(w) /\ runs \in Nat
    BY <1>6 DEF V!RenderTemp, Working, VideoInv, VideoTypes
  <2>2. /\ worker'[w].at = "burn" /\ worker'[w].plan = p /\ worker'[w].run = r
        /\ DOMAIN worker' = Workers /\ \A v \in Workers \ {w} : worker'[v] = worker[v]
    BY <1>6 DEF V!RenderTemp, VideoInv, VideoTypes
  <2>3. UNCHANGED <<jobs, uploaded, temps, runs>>
    BY <1>6 DEF V!RenderTemp
  <2>7. V!Open(p, r) /\ p \in Plans /\ DOMAIN video = Plans
    BY <1>6, <2>1 DEF V!RenderTemp, VideoInv, VideoTypes
  <2> HIDE DEF p, r
  <2>4. DOMAIN video' = Plans /\ r \in video'[p].by /\ \A q \in Plans \ {p} : video'[q] = video[q]
    BY <2>7 DEF V!Open
  <2>5. Working(w)' /\ worker'[w].run \in Nat /\ worker'[w].run <= runs'
    BY <2>1, <2>2, <2>3 DEF Working, Begun, r
  <2>6. /\ \A v \in Workers \ {w} : Working(v) => worker[v].run # r
        /\ \A j \in AllJobs : j.run # r
    BY <2>1 DEF RunApart, r
  <2> QED
    BY <2>1, <2>2, <2>3, <2>4, <2>5, <2>6, VideoGoesOn
<1>7. ASSUME NEW w \in Workers, V!Render(w) \/ V!Burn(w) \/ V!FallBack(w) PROVE VideoInv'
  <2> DEFINE p == worker[w].plan
             r == worker[w].run
  <2>1. Working(w) /\ p \in Plans /\ Begun(r) /\ RunApart(w) /\ runs \in Nat
    BY <1>7 DEF V!Render, V!Burn, V!FallBack, Working, VideoInv, VideoTypes
  <2>2. /\ ~ Working(w)' /\ DOMAIN worker' = Workers
        /\ \A v \in Workers \ {w} : worker'[v] = worker[v]
        /\ jobs' = jobs \cup {[plan |-> p, run |-> r]} /\ UNCHANGED <<runs, uploaded>>
    BY <1>7 DEF V!Render, V!Burn, V!FallBack, V!Deliver, VideoInv, VideoTypes, Working, V!Resting
  <2>3. temps' \subseteq temps /\ r \notin temps'
    BY <1>7, <2>1 DEF V!Render, V!Burn, V!FallBack, RunApart
  <2>4. (V!Close(p, r) /\ video[p].by # {}) \/ V!Rename(p, r)
    BY <1>7, <2>1 DEF V!Render, V!Burn, V!FallBack, RunApart
  <2>5. \A j \in AllJobs : j.run # r
    BY <2>1 DEF RunApart
  <2> HIDE DEF p, r
  <2>6. /\ DOMAIN video' = Plans /\ \A q \in Plans \ {p} : video'[q] = video[q]
        /\ \/ video'[p] = video[p] /\ r \notin video[p].by /\ video[p].by # {}
           \/ video'[p].by = {r} /\ video'[p].state = "whole"
           \/ video'[p].by = video[p].by /\ r \in video[p].by /\ video[p].by # {r}
    <3>1. CASE V!Close(p, r) /\ video[p].by # {}
      <4> DEFINE f == video[p]
                 g == IF r \notin f.by THEN f
                      ELSE [f EXCEPT !.state = IF f.by = {r} THEN "whole" ELSE "mixed"]
      <4>1. video' = [video EXCEPT ![p] = g] /\ p \in DOMAIN video
        BY <3>1, <2>1 DEF V!Close, VideoInv, VideoTypes
      <4>2. video'[p] = g
        BY <4>1
      <4>3. CASE r \notin f.by
        BY <3>1, <4>1, <4>2, <4>3 DEF VideoInv, VideoTypes
      <4>4. CASE r \in f.by
        BY <3>1, <4>1, <4>2, <4>4 DEF VideoInv, VideoTypes
      <4> QED
        BY <4>3, <4>4
    <3>2. CASE V!Rename(p, r)
      BY <3>2, <2>1 DEF V!Rename, VideoInv, VideoTypes
    <3> QED
      BY <2>4, <3>1, <3>2
  <2>7. Sound(video'[p], r)
    BY <2>6 DEF Sound
  <2>8. \A q \in Plans : \/ video'[q] = video[q]
                         \/ video'[q].by # {} /\ video'[q].state = "whole"
                         \/ video'[q].by # {} /\ \A j \in AllJobs : video'[q].by # {j.run}
    BY <2>5, <2>6
  <2> QED
    BY <2>1, <2>2, <2>3, <2>6, <2>7, <2>8, VideoRests DEF p, r
<1> QED
  BY VideoMoves, <1>1, <1>2, <1>3, <1>4, <1>5, <1>6, <1>7 DEF V!VNext

LEMMA VideosSound == VideoInv => V!VideosAreWhole
BY DEF VideoInv, JobsSound, Sound, AllJobs, V!VideosAreWhole

\* generate() of the music returns a path at which is what the adapter that returned it
\* wrote (audio_chain.py:210-233), fetch_for_plan() hands out the largest clips found, each
\* whole unless a download of it broke off (pexels.py:195-236), and a queued job names a
\* file that is whole unless another run wrote to it (assembler.py:139-160).
THEOREM FilesAreWholeHolds == MSpec => []FilesAreWhole
<1>1. MInit => MusicInv /\ MusicFiles /\ FootageInv /\ VideoInv
  BY MusicInit, MusicFilesInit, FootageInit, VideoInit
<1>2. MusicInv /\ MusicFiles /\ FootageInv /\ VideoInv /\ [MNext]_mvars
         => MusicInv' /\ MusicFiles' /\ FootageInv' /\ VideoInv'
  BY MusicKept, MusicFilesKept, FootageKept, VideoKept
<1>3. MusicInv /\ MusicFiles /\ FootageInv /\ VideoInv => FilesAreWhole
  BY FootageWhole, VideosSound DEF MusicFiles, FilesAreWhole
<1> QED
  BY <1>1, <1>2, <1>3, PTL DEF MSpec

(***************************************************************************)
(* Scripts                                                                 *)
(***************************************************************************)

LEMMA ScriptMoves ==
    ASSUME [MNext]_mvars PROVE W!WNext \/ UNCHANGED script
BY DEF MNext, mvars

LlmAdapters == {"groq", "gemini", "ollama"}

LEMMA WriterFacts ==
    /\ Sections \in Seq(W!Names) /\ Len(Sections) \in Nat \ {0}
    /\ IsFiniteSet(W!Names) /\ IsFiniteSet(W!Words)
    /\ \A i, j \in 1 .. Len(Sections) : Sections[i] = Sections[j] => i = j
    /\ SectionWeight \in [W!Names -> Nat \ {0}]
    /\ Totals \subseteq Nat /\ MinTokens \in Nat /\ Lengths \subseteq Nat /\ MinWords \in Nat
    /\ LlmRetries \in [LlmAdapters -> Nat]
<1>1. W!WriterAssumption
  BY ProductionAssumption
<1>2. /\ Sections \in Seq(W!Names) /\ W!IsInjective(Sections) /\ Len(Sections) > 0
      /\ SectionWeight \in [W!Names -> Nat \ {0}]
      /\ Totals \subseteq Nat /\ MinTokens \in Nat
      /\ Keywords \in Seq(W!Words)
      /\ Lengths \subseteq Nat /\ MinWords \in Nat
      /\ LlmRetries \in [LlmAdapters -> Nat]
  BY <1>1 DEF W!WriterAssumption, LlmAdapters
<1>3. Len(Sections) \in Nat \ {0} /\ Len(Keywords) \in Nat
  BY <1>2
<1>4. IsFiniteSet(W!Names) /\ IsFiniteSet(W!Words)
  BY <1>3, FiniteImage DEF W!Names, W!Words
<1>5. \A i, j \in 1 .. Len(Sections) : Sections[i] = Sections[j] => i = j
  BY <1>2 DEF W!IsInjective
<1> QED
  BY <1>2, <1>3, <1>4, <1>5

LEMMA SumIs == \A f : W!Sum(f) = SumOn(f, DOMAIN f)
BY DEF W!Sum, W!FoldFunction, W!FoldFunctionOnSet, W!MapThenFoldSet,
       SumOn, FoldOn, Folds, Join, First, Parts

\* What the attempts at the first n adapters of a chain may come to.
Attempts(c, n) == SumOn([i \in 1 .. Len(c) |-> 1 + LlmRetries[c[i]]], 1 .. n)

LEMMA AttemptsGrow ==
    ASSUME NEW c \in Seq(LlmAdapters), NEW n \in 1 .. Len(c)
    PROVE  /\ Attempts(c, n) = Attempts(c, n - 1) + 1 + LlmRetries[c[n]]
           /\ LlmRetries[c[n]] \in Nat
           /\ Attempts(c, n - 1) \in Nat /\ Attempts(c, n) <= Attempts(c, Len(c))
           /\ Attempts(c, Len(c)) \in Nat
<1> DEFINE cost == [i \in 1 .. Len(c) |-> 1 + LlmRetries[c[i]]]
<1>1. Len(c) \in Nat /\ \A i \in 1 .. Len(c) : cost[i] \in Nat /\ c[i] \in LlmAdapters
  <2>1. \A i \in 1 .. Len(c) : c[i] \in LlmAdapters
    OBVIOUS
  <2> QED
    BY <2>1, WriterFacts
<1>2. cost[n] = 1 + LlmRetries[c[n]] /\ LlmRetries[c[n]] \in Nat
  BY <1>1, WriterFacts
<1>3. n - 1 \in Nat /\ n - 1 + 1 = n /\ 1 .. n - 1 \subseteq 1 .. Len(c)
      /\ 1 .. n \subseteq 1 .. Len(c)
  BY <1>1
<1> HIDE DEF cost
<1>4. SumOn(cost, 1 .. n) = SumOn(cost, 1 .. n - 1) + cost[n]
  <2>1. \A i \in 1 .. (n - 1) + 1 : cost[i] \in Int
    BY <1>1, <1>3
  <2>2. SumOn(cost, 1 .. (n - 1) + 1) = SumOn(cost, 1 .. n - 1) + cost[(n - 1) + 1]
    BY <1>3, <2>1, SumOnLast
  <2> QED
    BY <1>3, <2>2
<1>5. IsFiniteSet(1 .. Len(c))
  BY <1>1, FS_Interval
<1>6. /\ SumOn(cost, 1 .. n - 1) \in Nat
      /\ SumOn(cost, 1 .. n) <= SumOn(cost, 1 .. Len(c))
      /\ SumOn(cost, 1 .. Len(c)) \in Nat
  BY <1>1, <1>3, <1>5, SumOnPart
<1>7. /\ Attempts(c, n) = SumOn(cost, 1 .. n) /\ Attempts(c, n - 1) = SumOn(cost, 1 .. n - 1)
      /\ Attempts(c, Len(c)) = SumOn(cost, 1 .. Len(c))
  BY DEF Attempts, cost
<1> HIDE DEF Attempts
<1> QED
  BY <1>2, <1>4, <1>6, <1>7

LEMMA Products ==
    ASSUME NEW a \in Nat, NEW b \in Nat, a <= b, NEW p \in Nat
    PROVE  /\ a * p \in Nat /\ b * p \in Nat /\ a * p <= b * p
           /\ (a + 1) * p = a * p + p
<1>1. b = a + (b - a) /\ b - a \in Nat
  OBVIOUS
<1>2. \A k \in Nat : (a + k) * p = a * p + k * p /\ k * p \in Nat
  OBVIOUS
<1>3. b * p = a * p + (b - a) * p /\ (b - a) * p \in Nat
  BY <1>1, <1>2
<1>4. a * p \in Nat /\ (a + 1) * p = a * p + p
  OBVIOUS
<1> QED
  BY <1>3, <1>4

SectionIs == [name : W!Names, keywords : SUBSET W!Words,
              text : [words : Nat, says : SUBSET W!Words]]

\* The sections written so far are the first ones and each has its keywords; a request under
\* way is one of those that the sections before, the adapters before and the tries
\* before leave; the tokens were shared out by the first call.
WriterInv ==
    /\ chain \in Seq(LlmAdapters) /\ total \in Totals /\ scripts \in Nat
    /\ status \in {"idle", "asking", "done", "failed"}
    /\ written \in Seq(SectionIs) /\ Len(written) <= Len(Sections)
    /\ \A i \in 1 .. Len(written) :
          written[i].name = Sections[i] /\ written[i].keywords \subseteq written[i].text.says
    /\ status = "done" => Len(written) = Len(Sections) /\ ~ W!WordsOf(written) < MinWords
    /\ status = "failed" /\ Len(written) = Len(Sections) => W!WordsOf(written) < MinWords
    /\ requests \in Nat /\ requests <= Len(Sections) * Attempts(chain, Len(chain))
    /\ status = "asking" =>
          /\ Len(written) < Len(Sections) /\ place \in 1 .. Len(chain)
          /\ try \in Nat /\ try <= LlmRetries[chain[place]]
          /\ requests <= Len(written) * Attempts(chain, Len(chain))
                         + Attempts(chain, place - 1) + try
    /\ scripts > 0 => allocations = W!Allocation(total)

LEMMA NoAttempts ==
    ASSUME NEW c \in Seq(LlmAdapters)
    PROVE  /\ Attempts(c, 0) = 0 /\ Attempts(c, Len(c)) \in Nat
           /\ c # <<>> => Len(c) > 0
<1>1. Attempts(c, 0) = 0
  <2>1. 1 .. 0 = {} /\ IsFiniteSet({})
    BY FS_EmptySet
  <2> QED
    BY <2>1, SumOnFirst DEF Attempts
<1>2. Len(c) \in Nat /\ (c # <<>> => Len(c) > 0) /\ (Len(c) = 0 \/ Len(c) \in 1 .. Len(c))
  OBVIOUS
<1>3. CASE Len(c) = 0
  BY <1>1, <1>2, <1>3
<1>4. CASE Len(c) \in 1 .. Len(c)
  BY <1>1, <1>2, <1>4, AttemptsGrow
<1> QED
  BY <1>2, <1>3, <1>4

LEMMA WriterInit == MInit => WriterInv
<1> SUFFICES ASSUME MInit PROVE WriterInv
  OBVIOUS
<1>1. W!WInit
  BY DEF MInit
<1>2. PICK given \in SUBSET LlmAdapters : chain = W!ChainOf(given)
  BY <1>1 DEF W!WInit, LlmAdapters
<1>3. \A a \in LlmAdapters : W!Configured(a, given) \in Seq(LlmAdapters)
  BY DEF W!Configured
<1>4. chain \in Seq(LlmAdapters)
  BY <1>2, <1>3 DEF W!ChainOf, LlmAdapters
<1>5. 0 <= Len(Sections) * Attempts(chain, Len(chain))
  BY <1>4, NoAttempts, WriterFacts, Products
<1> QED
  BY <1>1, <1>4, <1>5, WriterFacts DEF W!WInit, WriterInv

\* What an answer may leave, and what a request that failed may.
LEMMA PickedFinite ==
    ASSUME NEW n, NEW ks \in W!Picks(n) PROVE ks \in SUBSET W!Words
<1>1. W!WriterAssumption
  BY ProductionAssumption
<1>2. Len(Keywords) \in Nat /\ MaxPerSection \in Nat
  BY <1>1 DEF W!WriterAssumption
<1> QED
  BY <1>2 DEF W!Picks, W!Words

LEMMA CardinalityAlike == \A T : W!Cardinality(T) = Cardinality(T)
BY DEF W!Cardinality, Cardinality

LEMMA InjectIs ==
    ASSUME NEW words \in Nat, NEW says \in SUBSET W!Words, NEW ks \in SUBSET W!Words
    PROVE  /\ W!Inject(words, says, ks) \in [words : Nat, says : SUBSET W!Words]
           /\ ks \subseteq W!Inject(words, says, ks).says
<1>1. Cardinality(ks \ says) \in Nat
  BY WriterFacts, FS_Subset, FS_CardinalityType
<1>2. words + Cardinality(ks \ says) \in Nat /\ says \cup ks \in SUBSET W!Words
  BY <1>1
<1>3. W!Inject(words, says, ks) = [words |-> words + Cardinality(ks \ says), says |-> says \cup ks]
  BY CardinalityAlike DEF W!Inject
<1> QED
  BY <1>2, <1>3

LEMMA GenerateKept == WriterInv /\ W!Generate => WriterInv'
<1> SUFFICES ASSUME WriterInv, W!Generate PROVE WriterInv'
  OBVIOUS
<1> DEFINE all == Attempts(chain, Len(chain))
<1>1. /\ chain' = chain /\ total' = total /\ status' = "asking" /\ scripts' = scripts + 1
      /\ written' = <<>> /\ requests' = 0 /\ allocations' = W!Allocation(total)
      /\ place' = 1 /\ try' = 0 /\ chain # <<>>
  BY DEF W!Generate
<1>2. W!Allocation(total)' = W!Allocation(total)
  BY <1>1 
<1>3. /\ all \in Nat /\ Attempts(chain, 0) = 0 /\ 1 \in 1 .. Len(chain) /\ chain \in Seq(LlmAdapters)
      /\ LlmRetries[chain[1]] \in Nat
  <2>1. chain \in Seq(LlmAdapters) /\ Len(chain) > 0
    BY <1>1, NoAttempts DEF WriterInv
  <2>2. 1 \in 1 .. Len(chain)
    BY <2>1
  <2> QED
    BY <2>1, <2>2, NoAttempts, AttemptsGrow
<1>4. 0 <= Len(Sections) * all /\ 0 * all = 0
  BY <1>3, WriterFacts, Products
<1> HIDE DEF all
<1>5. written' \in Seq(SectionIs) /\ Len(written') = 0
  BY <1>1
<1>6. /\ requests' <= Len(Sections) * all
      /\ requests' <= Len(written') * all + Attempts(chain, place' - 1) + try'
  BY <1>1, <1>3, <1>4, <1>5
<1> QED
  BY <1>1, <1>2, <1>3, <1>5, <1>6, WriterFacts DEF WriterInv, all

LEMMA AnswerKept == WriterInv /\ W!Answer => WriterInv'
<1> SUFFICES ASSUME WriterInv, W!Answer PROVE WriterInv'
  OBVIOUS
<1> DEFINE all == Attempts(chain, Len(chain))
<1>1. /\ UNCHANGED <<chain, total, allocations, scripts>> /\ status = "asking"
      /\ requests' = requests + 1 /\ place' = 1 /\ try' = 0
      /\ status' = IF Len(written') < Len(Sections) THEN "asking"
                   ELSE IF W!WordsOf(written') < MinWords THEN "failed" ELSE "done"
  BY DEF W!Answer
<1>2. PICK words \in Lengths, says \in SUBSET W!Words, ks \in W!Picks(W!Here) :
         written' = Append(written,
            [name |-> W!Here, keywords |-> ks,
             text |-> W!Inject(words, IF words = 0 THEN {} ELSE says, ks)])
  BY DEF W!Answer
<1> DEFINE new == [name |-> W!Here, keywords |-> ks,
                   text |-> W!Inject(words, IF words = 0 THEN {} ELSE says, ks)]
<1>3. Len(written) \in Nat /\ Len(written) + 1 \in 1 .. Len(Sections)
  <2>1. written \in Seq(SectionIs) /\ Len(written) < Len(Sections)
    BY <1>1 DEF WriterInv
  <2>2. Len(Sections) \in Nat
    BY WriterFacts
  <2> QED
    BY <2>1, <2>2
<1>4. new \in SectionIs /\ new.name = Sections[Len(written) + 1] /\ new.keywords \subseteq new.text.says
  <2>1. words \in Nat /\ (IF words = 0 THEN {} ELSE says) \in SUBSET W!Words /\ ks \in SUBSET W!Words
    BY PickedFinite, WriterFacts
  <2>2. W!Here = Sections[Len(written) + 1] /\ W!Here \in W!Names
    BY <1>3 DEF W!Here, W!Names
  <2> QED
    BY <2>1, <2>2, InjectIs DEF SectionIs
<1> HIDE DEF new
<1>5. /\ written' \in Seq(SectionIs) /\ Len(written') = Len(written) + 1
      /\ \A i \in 1 .. Len(written') :
            written'[i].name = Sections[i] /\ written'[i].keywords \subseteq written'[i].text.says
  <2>1. written \in Seq(SectionIs)
    BY DEF WriterInv
  <2>2. written' = Append(written, new)
    BY <1>2 DEF new
  <2>3. written' \in Seq(SectionIs) /\ Len(written') = Len(written) + 1
    BY <1>4, <2>1, <2>2
  <2>4. \A i \in 1 .. Len(written') : IF i = Len(written) + 1 THEN written'[i] = new
                                      ELSE i \in 1 .. Len(written) /\ written'[i] = written[i]
    BY <1>3, <2>1, <2>2
  <2> QED
    BY <1>4, <2>3, <2>4 DEF WriterInv
<1>6. /\ place \in 1 .. Len(chain) /\ try \in Nat /\ try <= LlmRetries[chain[place]]
      /\ chain \in Seq(LlmAdapters) /\ requests \in Nat
      /\ requests <= Len(written) * all + Attempts(chain, place - 1) + try
  BY <1>1 DEF WriterInv
<1>7. /\ Attempts(chain, place) = Attempts(chain, place - 1) + 1 + LlmRetries[chain[place]]
      /\ Attempts(chain, place) <= all /\ all \in Nat /\ LlmRetries[chain[place]] \in Nat
      /\ Attempts(chain, place - 1) \in Nat /\ Attempts(chain, 0) = 0
  BY <1>6, AttemptsGrow, NoAttempts
<1>8. 1 \in 1 .. Len(chain) /\ LlmRetries[chain[1]] \in Nat
  <2>1. 1 \in 1 .. Len(chain)
    BY <1>6
  <2> QED
    BY <1>6, <2>1, AttemptsGrow
<1> HIDE DEF all
<1>9. /\ Len(written) * all \in Nat /\ (Len(written) + 1) * all = Len(written) * all + all
      /\ (Len(written) + 1) * all <= Len(Sections) * all /\ Len(Sections) * all \in Nat
      /\ (Len(written) + 1) * all \in Nat
  <2>1. Len(written) + 1 \in Nat /\ Len(Sections) \in Nat /\ Len(written) + 1 <= Len(Sections)
        /\ Len(written) <= Len(Sections)
    BY <1>3, WriterFacts
  <2> QED
    BY <1>3, <1>7, <2>1, Products
<1>10. requests + 1 \in Nat /\ requests + 1 <= (Len(written) + 1) * all
  <2> DEFINE w == Len(written) * all
             a == Attempts(chain, place - 1)
             b == Attempts(chain, place)
             n == LlmRetries[chain[place]]
             more == (Len(written) + 1) * all
  <2>1. w \in Nat /\ a \in Nat /\ n \in Nat /\ b = a + 1 + n /\ b <= all /\ all \in Nat
        /\ more = w + all
    BY <1>7, <1>9
  <2>2. try \in Nat /\ try <= n /\ requests \in Nat /\ requests <= w + a + try
    BY <1>6
  <2> HIDE DEF w, a, b, n, more
  <2>3. requests + 1 \in Nat /\ requests + 1 <= more
    BY <2>1, <2>2
  <2> QED
    BY <2>3 DEF more
<1>11. /\ requests' \in Nat /\ requests' <= Len(Sections) * all
       /\ requests' <= Len(written') * all + Attempts(chain, place' - 1) + try'
  <2> DEFINE most == Len(Sections) * all
             more == (Len(written) + 1) * all
  <2>1. most \in Nat /\ more \in Nat /\ more <= most /\ requests + 1 <= more
    BY <1>9, <1>10
  <2>2. Len(written') * all = more /\ Attempts(chain, place' - 1) = 0 /\ try' = 0
        /\ requests' = requests + 1
    BY <1>1, <1>5, <1>7
  <2> HIDE DEF most, more, Attempts
  <2>3. requests' \in Nat /\ requests' <= most /\ requests' <= more
    BY <1>10, <2>1, <2>2
  <2> QED
    BY <2>1, <2>2, <2>3 DEF most
<1>12. W!Allocation(total)' = W!Allocation(total)
  BY <1>1 
<1>13. Len(written') <= Len(Sections) /\ Len(written') \in Nat /\ Len(Sections) \in Nat
  BY <1>3, <1>5, WriterFacts
<1>14. /\ status' \in {"asking", "done", "failed"}
       /\ status' = "asking" => Len(written') < Len(Sections)
       /\ status' = "done" => Len(written') = Len(Sections) /\ ~ W!WordsOf(written') < MinWords
       /\ status' = "failed" => W!WordsOf(written') < MinWords
  BY <1>1, <1>13
<1> HIDE DEF Attempts
<1>15. /\ chain' \in Seq(LlmAdapters) /\ total' \in Totals /\ scripts' \in Nat
       /\ (scripts' > 0 => allocations' = W!Allocation(total'))
  BY <1>1, <1>12 DEF WriterInv
<1> QED
  BY <1>1, <1>5, <1>8, <1>11, <1>13, <1>14, <1>15 DEF WriterInv, all

LEMMA ErrorKept == WriterInv /\ W!Error => WriterInv'
<1> SUFFICES ASSUME WriterInv, W!Error PROVE WriterInv'
  OBVIOUS
<1> DEFINE all == Attempts(chain, Len(chain))
<1>1. /\ UNCHANGED <<chain, total, allocations, written, scripts>> /\ status = "asking"
      /\ requests' = requests + 1
      /\ \/ /\ try < LlmRetries[chain[place]]
            /\ try' = try + 1 /\ UNCHANGED <<place, status>>
         \/ /\ place < Len(chain) /\ place' = place + 1 /\ try' = 0 /\ UNCHANGED status
         \/ status' = "failed"
  BY DEF W!Error, W!NextAdapter
<1>2. W!Allocation(total)' = W!Allocation(total)
  BY <1>1 
<1>3. /\ place \in 1 .. Len(chain) /\ try \in Nat /\ try <= LlmRetries[chain[place]]
      /\ chain \in Seq(LlmAdapters) /\ requests \in Nat /\ Len(written) < Len(Sections)
      /\ requests <= Len(written) * all + Attempts(chain, place - 1) + try
  BY <1>1 DEF WriterInv
<1>4. /\ Attempts(chain, place) = Attempts(chain, place - 1) + 1 + LlmRetries[chain[place]]
      /\ Attempts(chain, place) <= all /\ all \in Nat /\ LlmRetries[chain[place]] \in Nat
      /\ Attempts(chain, place - 1) \in Nat
  BY <1>3, AttemptsGrow, NoAttempts
<1>5. Len(written) \in Nat /\ Len(Sections) \in Nat /\ Len(written) + 1 <= Len(Sections)
      /\ Len(written) + 1 \in Nat /\ Len(written) <= Len(Sections)
  BY <1>3, WriterFacts DEF WriterInv
<1> HIDE DEF all
<1>6. /\ Len(written) * all \in Nat /\ (Len(written) + 1) * all = Len(written) * all + all
      /\ (Len(written) + 1) * all <= Len(Sections) * all /\ Len(Sections) * all \in Nat
      /\ (Len(written) + 1) * all \in Nat
  BY <1>4, <1>5, Products
<1>9. /\ requests + 1 \in Nat /\ requests + 1 <= Len(written) * all + all
      /\ requests + 1 <= Len(written) * all + Attempts(chain, place)
      /\ requests + 1 <= Len(written) * all + Attempts(chain, place - 1) + (try + 1)
  <2> DEFINE w == Len(written) * all
             a == Attempts(chain, place - 1)
             b == Attempts(chain, place)
             n == LlmRetries[chain[place]]
  <2>1. w \in Nat /\ a \in Nat /\ n \in Nat /\ b = a + 1 + n /\ b <= all /\ all \in Nat
    BY <1>4, <1>6
  <2>2. try \in Nat /\ try <= n /\ requests \in Nat /\ requests <= w + a + try
    BY <1>3
  <2> HIDE DEF w, a, b, n
  <2>3. requests + 1 \in Nat /\ requests + 1 <= w + all /\ requests + 1 <= w + b
        /\ requests + 1 <= w + a + (try + 1)
    BY <2>1, <2>2
  <2> QED
    BY <2>3 DEF w, a, b, n
<1>7. requests' \in Nat /\ requests' <= Len(Sections) * all
  <2> QED
    BY <1>1, <1>6, <1>9
<1>8. /\ status' \in {"asking", "failed"}
      /\ status' = "asking" =>
           /\ place' \in 1 .. Len(chain) /\ try' \in Nat /\ try' <= LlmRetries[chain[place']]
           /\ requests' <= Len(written) * all + Attempts(chain, place' - 1) + try'
  <2>1. CASE try < LlmRetries[chain[place]] /\ try' = try + 1 /\ UNCHANGED <<place, status>>
    <3>1. try + 1 \in Nat /\ try + 1 <= LlmRetries[chain[place]]
      <4> DEFINE n == LlmRetries[chain[place]]
      <4>1. try \in Nat /\ n \in Nat /\ try < n
        BY <1>3, <1>4, <2>1
      <4> HIDE DEF n
      <4> QED
        BY <4>1 DEF n
    <3> QED
      BY <1>1, <1>3, <1>9, <2>1, <3>1
  <2>2. CASE place < Len(chain) /\ place' = place + 1 /\ try' = 0 /\ UNCHANGED status
    <3>1. place + 1 \in 1 .. Len(chain) /\ (place + 1) - 1 = place
      BY <1>3, <2>2
    <3>2. LlmRetries[chain[place + 1]] \in Nat
      BY <1>3, <3>1, AttemptsGrow
    <3>4. Attempts(chain, place) \in Nat
      BY <1>4
    <3> QED
      BY <1>1, <1>6, <2>2, <3>1, <3>2, <3>4, <1>9
  <2> QED
    BY <1>1, <2>1, <2>2
<1> QED
  BY <1>1, <1>2, <1>5, <1>7, <1>8 DEF WriterInv, all

LEMMA WriterKept == WriterInv /\ [MNext]_mvars => WriterInv'
<1> SUFFICES ASSUME WriterInv, [MNext]_mvars PROVE WriterInv'
  OBVIOUS
<1>1. CASE UNCHANGED script
  <2>1. W!Allocation(total)' = W!Allocation(total)
    BY <1>1 DEF script
  <2> QED
    BY <1>1, <2>1 DEF script, WriterInv
<1> QED
  BY <1>1, ScriptMoves, GenerateKept, AnswerKept, ErrorKept DEF W!WNext, W!WStep

\* What a script's length adds up.
LEMMA WordsAreInt == ASSUME NEW s \in Seq(SectionIs) PROVE W!WordsOf(s) \in Int
<1> DEFINE f == [i \in 1 .. Len(s) |-> s[i].text.words]
<1>1. Len(s) \in Nat /\ \A i \in 1 .. Len(s) : s[i] \in SectionIs
  OBVIOUS
<1>2. IsFiniteSet(1 .. Len(s)) /\ \A i \in 1 .. Len(s) : f[i] \in Int
  <2>1. \A i \in 1 .. Len(s) : s[i].text \in [words : Nat, says : SUBSET W!Words]
    BY <1>1 DEF SectionIs
  <2>2. \A i \in 1 .. Len(s) : f[i] = s[i].text.words /\ f[i] \in Nat
    BY <2>1
  <2>3. IsFiniteSet(1 .. Len(s))
    BY <1>1, FS_Interval
  <2> HIDE DEF f
  <2> QED
    BY <2>2, <2>3
<1>3. SumOn(f, 1 .. Len(s)) \in Int
  <2> HIDE DEF f
  <2> QED
    BY <1>2, SumOnInt
<1>4. W!WordsOf(s) = SumOn(f, DOMAIN f)
  BY SumIs DEF W!WordsOf
<1> QED
  BY <1>3, <1>4

LEMMA WholeScript == WriterInv => W!ScriptIsWhole
<1> SUFFICES ASSUME WriterInv PROVE W!ScriptIsWhole
  OBVIOUS
<1>1. W!WordsOf(written) \in Int /\ MinWords \in Nat
  BY WordsAreInt, WriterFacts DEF WriterInv
<1> QED
  BY <1>1 DEF WriterInv, W!ScriptIsWhole

LEMMA FewRequests == WriterInv => W!RequestsBounded
<1> DEFINE cost == [i \in 1 .. Len(chain) |-> 1 + LlmRetries[chain[i]]]
<1>1. W!Sum(cost) = Attempts(chain, Len(chain))
  BY SumIs DEF Attempts
<1> QED
  BY <1>1 DEF WriterInv, W!RequestsBounded

Exact(n, budget) == (SectionWeight[n] * budget) \div W!TotalWeight

\* A share is the exact one rounded down, the floor where that is more.
LEMMA TotalIs == W!TotalWeight = SumOn(SectionWeight, W!Names) /\ W!TotalWeight \in Nat \ {0}
<1>1. W!TotalWeight = SumOn(SectionWeight, W!Names)
  BY SumIs, WriterFacts DEF W!TotalWeight
<1>2. \A n \in W!Names : SectionWeight[n] \in Nat \ {0}
  BY WriterFacts
<1>3. PICK n : n \in W!Names
  BY WriterFacts DEF W!Names
<1>4. /\ SumOn(SectionWeight, W!Names) = SectionWeight[n] + SumOn(SectionWeight, W!Names \ {n})
      /\ SumOn(SectionWeight, W!Names \ {n}) \in Nat
  <2>1. IsFiniteSet(W!Names) /\ \A x \in W!Names : SectionWeight[x] \in Int /\ SectionWeight[x] \in Nat
    BY <1>2, WriterFacts
  <2>2. W!Names \ {n} \subseteq W!Names
    OBVIOUS
  <2> QED
    BY <1>3, <2>1, <2>2, SumOnTake, SumOnPart
<1> QED
  BY <1>1, <1>2, <1>3, <1>4

LEMMA ExactIs ==
    ASSUME NEW n \in W!Names, NEW t \in Nat
    PROVE  /\ SectionWeight[n] * t \in Nat /\ Exact(n, t) \in Nat
           /\ W!TotalWeight * Exact(n, t) <= SectionWeight[n] * t
           /\ SectionWeight[n] * t < W!TotalWeight * Exact(n, t) + W!TotalWeight
           /\ W!Share(n, t) = IF MinTokens < Exact(n, t) THEN Exact(n, t) ELSE MinTokens
<1>1. SectionWeight[n] \in Nat
  BY WriterFacts
<1>2. SectionWeight[n] * t \in Nat
  BY <1>1
<1> QED
  BY <1>2, TotalIs, DivIs DEF Exact, W!Share, W!Larger

\* A heavier section has the larger share.
LEMMA ShareGrows ==
    ASSUME NEW n \in W!Names, NEW k \in W!Names, NEW t \in Nat,
           SectionWeight[n] <= SectionWeight[k]
    PROVE  W!Share(n, t) <= W!Share(k, t)
<1>1. SectionWeight[n] \in Nat /\ SectionWeight[k] \in Nat /\ MinTokens \in Nat
  BY WriterFacts
<1>2. SectionWeight[n] * t <= SectionWeight[k] * t
  BY <1>1, Products
<1> DEFINE d == W!TotalWeight
           x == Exact(n, t)
           y == Exact(k, t)
<1>3. d \in Nat \ {0} /\ x \in Nat /\ y \in Nat /\ d * x < d * y + d
  <2>1. d * x <= SectionWeight[n] * t /\ SectionWeight[k] * t < d * y + d
        /\ x \in Nat /\ y \in Nat /\ d \in Nat \ {0}
    BY ExactIs, TotalIs
  <2>2. SectionWeight[n] * t \in Nat /\ SectionWeight[k] * t \in Nat
    BY <1>1
  <2>3. d * x \in Nat /\ d * y \in Nat
    <3> HIDE DEF d, x, y
    <3> QED
      BY <2>1
  <2> HIDE DEF d, x, y
  <2> QED
    BY <1>2, <2>1, <2>2, <2>3
<1>4. x < y + 1
  <2> HIDE DEF d, x, y
  <2>1. y + 1 \in Int /\ d * (y + 1) = d * y + d
    BY <1>3
  <2> QED
    BY <1>3, <2>1, Cancel
<1>5. /\ W!Share(n, t) = IF MinTokens < x THEN x ELSE MinTokens
      /\ W!Share(k, t) = IF MinTokens < y THEN y ELSE MinTokens
  BY ExactIs
<1> HIDE DEF x, y
<1> QED
  BY <1>1, <1>3, <1>4, <1>5

\* There is a first one of the heaviest.
LEMMA HeaviestIs ==
    /\ W!Heaviest \in W!Names
    /\ \A n \in W!Names : SectionWeight[n] <= SectionWeight[W!Heaviest]
<1> DEFINE weights == {SectionWeight[n] : n \in W!Names}
           Heavy(i) == \A n \in W!Names : SectionWeight[n] <= SectionWeight[Sections[i]]
           heavy == {i \in 1 .. Len(Sections) : Heavy(i)}
<1>1. /\ \A n \in W!Names : SectionWeight[n] \in Nat
      /\ \A n \in W!Names : \E i \in 1 .. Len(Sections) : n = Sections[i]
      /\ \A i \in 1 .. Len(Sections) : Sections[i] \in W!Names
      /\ 1 \in 1 .. Len(Sections) /\ Len(Sections) \in Nat
  BY WriterFacts DEF W!Names
<1>2. PICK bound \in Nat : \A n \in W!Names : SectionWeight[n] <= bound
  <2>1. ASSUME NEW n \in W!Names PROVE SectionWeight[n] <= W!TotalWeight
    <3>1. IsFiniteSet(W!Names) /\ (\A x \in W!Names : SectionWeight[x] \in Int /\ SectionWeight[x] \in Nat)
          /\ W!Names \ {n} \subseteq W!Names
      BY <1>1, WriterFacts
    <3>2. /\ SumOn(SectionWeight, W!Names) = SectionWeight[n] + SumOn(SectionWeight, W!Names \ {n})
          /\ SumOn(SectionWeight, W!Names \ {n}) \in Nat
      BY <2>1, <3>1, SumOnTake, SumOnPart
    <3> QED
      BY <1>1, <3>2, TotalIs
  <2> QED
    BY <2>1, TotalIs
<1>3. heavy # {}
  <2> DEFINE room == {bound - w : w \in weights}
  <2>1. room \in SUBSET Nat /\ room # {}
    BY <1>1, <1>2
  <2>2. PICK r \in room : \A q \in room : r <= q
    <3> HIDE DEF room
    <3> QED
      BY <2>1, Least
  <2>3. PICK n \in W!Names : r = bound - SectionWeight[n]
    OBVIOUS
  <2>4. \A k \in W!Names : SectionWeight[k] <= SectionWeight[n]
    <3> TAKE k \in W!Names
    <3>1. bound - SectionWeight[k] \in room
      OBVIOUS
    <3>2. bound - SectionWeight[n] <= bound - SectionWeight[k]
      BY <2>2, <2>3, <3>1
    <3> QED
      BY <1>1, <1>2, <3>2
  <2>5. PICK i \in 1 .. Len(Sections) : n = Sections[i]
    BY <1>1
  <2>6. i \in heavy
    BY <2>4, <2>5
  <2> QED
    BY <2>6
<1>4. PICK i \in heavy : \A j \in heavy : i <= j
  <2>1. heavy \in SUBSET Nat
    BY <1>1
  <2> HIDE DEF heavy
  <2> QED
    BY <1>3, <2>1, Least
<1>5. i \in 1 .. Len(Sections) /\ Heavy(i)
  BY <1>4
<1>6. \A j \in 1 .. i - 1 : SectionWeight[Sections[j]] < SectionWeight[Sections[i]]
  <2> TAKE j \in 1 .. i - 1
  <2>1. j \in 1 .. Len(Sections) /\ ~ i <= j
    BY <1>1, <1>5
  <2>2. PICK n \in W!Names : ~ SectionWeight[n] <= SectionWeight[Sections[j]]
    BY <1>4, <2>1
  <2>3. SectionWeight[n] <= SectionWeight[Sections[i]]
    BY <1>5
  <2> QED
    BY <1>1, <1>5, <2>1, <2>2, <2>3
<1> DEFINE FirstHeavy(c) == /\ \A n \in W!Names : SectionWeight[n] <= SectionWeight[Sections[c]]
                        /\ \A j \in 1 .. c - 1 : SectionWeight[Sections[j]] < SectionWeight[Sections[c]]
<1>7. FirstHeavy(i)
  BY <1>5, <1>6
<1>8. W!Heaviest = Sections[CHOOSE c \in 1 .. Len(Sections) : FirstHeavy(c)]
  BY DEF W!Heaviest
<1>9. \E c \in 1 .. Len(Sections) : W!Heaviest = Sections[c] /\ FirstHeavy(c)
  <2> HIDE DEF FirstHeavy
  <2> QED
    BY <1>5, <1>7, <1>8
<1> QED
  BY <1>1, <1>9

\* What the whole budget comes to when it is shared out.
LEMMA AllocationIs ==
    ASSUME NEW t \in Totals
    PROVE  LET given == W!Allocation(t)
               forced == {n \in W!Names : SectionWeight[n] * t < MinTokens * W!TotalWeight}
           IN  /\ W!Sum(given) >= t
               /\ W!Sum(given) <= t + MinTokens * Cardinality(forced)
               /\ \A n \in W!Names : given[n] >= MinTokens
               /\ \A n, k \in W!Names : SectionWeight[n] < SectionWeight[k] => given[n] <= given[k]
<1> DEFINE names == W!Names
           d == W!TotalWeight
           given == W!Allocation(t)
           forced == {n \in W!Names : SectionWeight[n] * t < MinTokens * W!TotalWeight}
           shares == [n \in W!Names |-> W!Share(n, t)]
           exact == [n \in W!Names |-> Exact(n, t)]
           floors == [n \in W!Names |-> IF n \in forced THEN MinTokens ELSE 0]
           remainder == t - W!Sum(shares)
           top == W!Heaviest
<1>1. t \in Nat /\ MinTokens \in Nat /\ IsFiniteSet(names) /\ d \in Nat \ {0}
  BY WriterFacts, TotalIs
<1>2. ASSUME NEW n \in names
      PROVE  /\ exact[n] \in Nat /\ shares[n] \in Nat /\ SectionWeight[n] \in Nat
             /\ SectionWeight[n] * t \in Nat
             /\ d * exact[n] <= SectionWeight[n] * t /\ SectionWeight[n] * t < d * exact[n] + d
             /\ shares[n] = IF MinTokens < exact[n] THEN exact[n] ELSE MinTokens
  <2>1. /\ SectionWeight[n] * t \in Nat /\ exact[n] \in Nat
        /\ d * exact[n] <= SectionWeight[n] * t /\ SectionWeight[n] * t < d * exact[n] + d
        /\ shares[n] = IF MinTokens < exact[n] THEN exact[n] ELSE MinTokens
    BY <1>1, ExactIs
  <2>2. SectionWeight[n] \in Nat
    BY WriterFacts
  <2> HIDE DEF exact, shares, d
  <2> QED
    BY <1>1, <2>1, <2>2
<1>3. top \in names /\ \A n \in names : SectionWeight[n] <= SectionWeight[top]
  BY HeaviestIs
<1>4. given = IF remainder > 0 THEN [shares EXCEPT ![top] = @ + remainder] ELSE shares
  BY DEF W!Allocation
<1>5. W!Sum(shares) = SumOn(shares, names) /\ SumOn(shares, names) \in Int
  <2>1. W!Sum(shares) = SumOn(shares, names)
    BY SumIs
  <2>2. \A n \in names : shares[n] \in Int
    BY <1>2
  <2> HIDE DEF shares
  <2> QED
    BY <1>1, <2>1, <2>2, SumOnInt
<1>6. shares \in [names -> Nat] /\ shares \in [names -> Int]
  <2>1. \A n \in names : W!Share(n, t) \in Nat
    BY <1>2
  <2> QED
    BY <2>1
<1>7. \A n \in names : shares[n] <= exact[n] + floors[n] /\ floors[n] \in Int /\ exact[n] \in Int
  <2> TAKE n \in names
  <2>1. CASE n \in forced
    <3>1. floors[n] = MinTokens
      BY <2>1
    <3> HIDE DEF shares, exact, floors, forced
    <3> QED
      BY <1>1, <1>2, <3>1
  <2>2. CASE n \notin forced
    <3>1. floors[n] = 0 /\ ~ SectionWeight[n] * t < MinTokens * d
      BY <2>2
    <3> HIDE DEF shares, exact, floors, forced, d
    <3>2. d * MinTokens < d * (exact[n] + 1)
      <4>1. MinTokens * d = d * MinTokens /\ d * MinTokens \in Nat /\ d * exact[n] \in Nat
            /\ d * (exact[n] + 1) = d * exact[n] + d
        BY <1>1, <1>2
      <4> QED
        BY <1>1, <1>2, <3>1, <4>1
    <3>3. MinTokens < exact[n] + 1
      BY <1>1, <1>2, <3>2, Cancel
    <3> QED
      BY <1>1, <1>2, <3>1, <3>3
  <2> QED
    BY <2>1, <2>2
<1>8. SumOn(exact, names) <= t /\ SumOn(exact, names) \in Int
  <2>1. \A n \in names : exact[n] \in Int /\ SectionWeight[n] \in Int
                         /\ d * exact[n] <= t * SectionWeight[n]
    <3> TAKE n \in names
    <3> HIDE DEF exact, d
    <3>1. SectionWeight[n] * t = t * SectionWeight[n]
      BY <1>1, <1>2
    <3> QED
      BY <1>2, <3>1
  <2> HIDE DEF exact, d
  <2>2. SumOn(exact, names) \in Int
    BY <1>1, <2>1, SumOnInt
  <2>3. d * SumOn(exact, names) <= t * SumOn(SectionWeight, names)
    BY <1>1, <2>1, SumOnCompare
  <2>4. d * SumOn(exact, names) <= d * t
    BY <1>1, <2>3, TotalIs DEF d
  <2>5. CASE t < SumOn(exact, names)
    <3>1. t + 1 <= SumOn(exact, names) /\ t + 1 \in Int
      BY <1>1, <2>2, <2>5
    <3>2. d * (t + 1) <= d * SumOn(exact, names)
      BY <1>1, <2>2, <3>1, ProductsOrdered
    <3>3. d * (t + 1) = d * t + d /\ d * t \in Nat
      BY <1>1
    <3>4. d * SumOn(exact, names) \in Int
      BY <1>1, <2>2
    <3> QED
      BY <1>1, <2>4, <3>2, <3>3, <3>4
  <2> QED
    BY <1>1, <2>2, <2>5
<1>9. SumOn(floors, names) = MinTokens * Cardinality(forced)
      /\ MinTokens * Cardinality(forced) \in Nat
  <2>1. names \cap forced = forced /\ IsFiniteSet(forced) /\ Cardinality(forced) \in Nat
    <3>1. names \cap forced = forced /\ forced \subseteq names
      OBVIOUS
    <3> HIDE DEF forced
    <3> QED
      BY <1>1, <3>1, FS_Subset, FS_CardinalityType
  <2>2. SumOn(floors, names) = MinTokens * Cardinality(names \cap forced)
    <3>1. MinTokens \in Int
      BY <1>1
    <3> HIDE DEF forced
    <3> QED
      BY <1>1, <3>1, SumOnCount
  <2> HIDE DEF forced, floors
  <2>3. SumOn(floors, names) = MinTokens * Cardinality(forced)
    BY <2>1, <2>2
  <2>4. \A k \in Nat : MinTokens * k \in Nat
    BY <1>1
  <2> QED
    BY <2>1, <2>3, <2>4
<1>10. SumOn(shares, names) <= SumOn(exact, names) + SumOn(floors, names)
  <2>1. \A n \in names : shares[n] \in Int
    BY <1>2
  <2> HIDE DEF shares, exact, floors
  <2> QED
    BY <1>1, <1>7, <2>1, SumOnPlus
<1>11. W!Sum(given) >= t /\ W!Sum(given) <= t + MinTokens * Cardinality(forced)
  <2>1. CASE remainder > 0
    <3>1. given = [shares EXCEPT ![top] = @ + remainder] /\ remainder \in Int
      BY <1>1, <1>4, <1>5, <2>1
    <3>2. DOMAIN given = names
      BY <1>6, <3>1
    <3>3. W!Sum(given) = SumOn(given, names)
      <4> HIDE DEF given
      <4> QED
        BY <3>2, SumIs
    <3>4. SumOn(given, names) = SumOn(shares, names) + remainder
      <4> HIDE DEF given, shares, remainder, top
      <4> QED
        BY <1>1, <1>3, <1>6, <3>1, SumOnMore
    <3>5. remainder = t - SumOn(shares, names)
      BY <1>5
    <3> HIDE DEF given, shares, remainder, forced
    <3> QED
      BY <1>1, <1>5, <1>9, <3>3, <3>4, <3>5
  <2>2. CASE ~ remainder > 0
    <3>1. given = shares
      BY <1>4, <2>2
    <3>2. W!Sum(given) >= t
      BY <1>1, <1>5, <2>2, <3>1
    <3> HIDE DEF given, shares, remainder, forced, exact, floors
    <3> QED
      BY <1>1, <1>5, <1>8, <1>9, <1>10, <3>1, <3>2
  <2> QED
    BY <2>1, <2>2
<1>12. ASSUME NEW n \in names
       PROVE  /\ given[n] >= shares[n] /\ given[n] \in Int
              /\ n # top => given[n] = shares[n]
  <2>1. CASE remainder > 0
    <3>1. given = [shares EXCEPT ![top] = @ + remainder] /\ remainder \in Int
      BY <1>1, <1>4, <1>5, <2>1
    <3> HIDE DEF given, shares, remainder, top
    <3> QED
      BY <1>3, <1>6, <2>1, <3>1
  <2>2. CASE ~ remainder > 0
    <3>1. given = shares
      BY <1>4, <2>2
    <3> HIDE DEF given, shares, remainder
    <3> QED
      BY <1>6, <3>1
  <2> QED
    BY <2>1, <2>2
<1>13. ASSUME NEW n \in names PROVE given[n] >= MinTokens
  <2>1. shares[n] >= MinTokens /\ shares[n] \in Nat
    <3> HIDE DEF shares, exact
    <3> QED
      BY <1>1, <1>2
  <2>2. given[n] >= shares[n] /\ given[n] \in Int /\ MinTokens \in Nat
    BY <1>1, <1>12
  <2> HIDE DEF given, shares
  <2> QED
    BY <2>1, <2>2
<1>14. ASSUME NEW n \in names, NEW k \in names, SectionWeight[n] < SectionWeight[k]
       PROVE  given[n] <= given[k]
  <2>1. n # top
    <3> HIDE DEF top
    <3> QED
      BY <1>2, <1>3, <1>14
  <2>2. shares[n] <= shares[k]
    <3>1. SectionWeight[n] <= SectionWeight[k]
      <4> HIDE DEF shares, exact
      <4> QED
        BY <1>2, <1>14
    <3> QED
      BY <1>1, <3>1, ShareGrows
  <2>3. given[n] = shares[n] /\ given[k] >= shares[k] /\ given[k] \in Int
    BY <1>12, <2>1
  <2>4. shares[n] \in Int /\ shares[k] \in Int
    BY <1>2
  <2> HIDE DEF given, shares
  <2> QED
    BY <2>2, <2>3, <2>4
<1> QED
  BY <1>11, <1>13, <1>14

LEMMA SharesAreSound == WriterInv => W!TokensShared
<1> SUFFICES ASSUME WriterInv, scripts > 0 PROVE W!TokensShared
  BY DEF W!TokensShared
<1>1. allocations = W!Allocation(total) /\ total \in Totals
  BY DEF WriterInv
<1> QED
  BY <1>1, AllocationIs, CardinalityAlike DEF W!TokensShared

\* A script that is returned has every section in order with all its keywords and
\* is long enough, and none is refused that is (script_generator.py:88-155, 340-369),
\* for any sections, keywords, answers and errors.
THEOREM ScriptIsWholeHolds == MSpec => []ScriptIsWhole
<1>1. WriterInv => ScriptIsWhole
  BY WholeScript DEF ScriptIsWhole
<1> QED
  BY WriterInit, WriterKept, <1>1, PTL DEF MSpec

\* One generate() costs at most one request for each attempt of each adapter and section
\* (script_generator.py, the chain's adapters with their retries), for any chain.
THEOREM RequestsBoundedHolds == MSpec => []RequestsBounded
<1>1. WriterInv => RequestsBounded
  BY FewRequests DEF RequestsBounded
<1> QED
  BY WriterInit, WriterKept, <1>1, PTL DEF MSpec

\* TokenBudget.allocate() (token_budget.py:56-117) gives out the whole budget, goes
\* beyond it by no more than the floors that were forced, and gives a heavier section no
\* less than a lighter one, for any number of sections, weights and budget.
THEOREM TokensSharedHolds == MSpec => []TokensShared
<1>1. WriterInv => TokensShared
  BY SharesAreSound DEF TokensShared
<1> QED
  BY WriterInit, WriterKept, <1>1, PTL DEF MSpec

(***************************************************************************)
(* Types                                                                   *)
(***************************************************************************)

\* The log of the searches is the end of their list.
LEMMA LogIsSuffix == LogInv => IsSuffix(log, searches)
<1> SUFFICES ASSUME LogInv PROVE IsSuffix(log, searches)
  OBVIOUS
<1> DEFINE n == Len(log)
           m == Len(searches)
           back(s) == [i \in 1 .. Len(s) |-> s[Len(s) - i + 1]]
<1>1. n \in Nat /\ m \in Nat /\ Evicted = m - n /\ Evicted \in Nat
      /\ \A i \in 1 .. n : log[i] = searches[Evicted + i]
  BY DEF LogInv, Evicted
<1>2. back(log) = Reverse(log) /\ back(searches) = Reverse(searches)
  BY DEF Reverse
<1>3. \A i \in 1 .. n : back(log)[i] = log[n - i + 1]
  OBVIOUS
<1>4. \A i \in 1 .. m : back(searches)[i] = searches[m - i + 1]
  OBVIOUS
<1>5. back(log) \in Seq(Nat) /\ Len(back(log)) = n /\ back(searches) \in Seq(Nat)
      /\ Len(back(searches)) = m
  BY <1>1 DEF LogInv
<1> HIDE DEF back, n, m
<1>6. \A i \in 1 .. n : back(log)[i] = back(searches)[i]
  <2> TAKE i \in 1 .. n
  <2>1. n - i + 1 \in 1 .. n /\ i \in 1 .. m /\ Evicted + (n - i + 1) = m - i + 1
    BY <1>1
  <2>2. log[n - i + 1] = searches[Evicted + (n - i + 1)]
    BY <1>1, <2>1
  <2> QED
    BY <1>3, <1>4, <2>1, <2>2
<1>7. SubSeq(back(log), 1, n) = SubSeq(back(searches), 1, n)
  <2>1. n <= m
    BY <1>1
  <2>2. /\ SubSeq(back(log), 1, n) = [i \in 1 .. n |-> back(log)[i]]
        /\ SubSeq(back(searches), 1, n) = [i \in 1 .. n |-> back(searches)[i]]
    BY <1>1, <1>5, <2>1
  <2> QED
    BY <1>6, <2>2
<1> QED
  BY <1>1, <1>2, <1>5, <1>7 DEF IsSuffix, IsPrefix

\* Every part of the production keeps to its types: the cache within its capacity with one
\* entry a key (ttl_cache.py:48-64), the signals in form, the log of searches a last
\* part of all searches (composite.py:60-74), Suno's counter within its limit and a
\* music path only once the call is over (audio_chain.py:210-233).
THEOREM TypesOKHolds == MSpec => []TypesOK
<1>1. MInit => MusicInv /\ WindowInv /\ TrendInv
  BY MusicInit, WindowInit, TrendInit
<1>2. MusicInv /\ WindowInv /\ TrendInv /\ [MNext]_mvars => MusicInv' /\ WindowInv' /\ TrendInv'
  BY MusicKept, WindowKept, TrendKept
<1>3. MusicInv /\ WindowInv /\ TrendInv => TypesOK
  BY LogIsSuffix
  DEF MusicInv, WindowInv, TrendInv, CacheInv, CacheTypes, SignalTypes, TypesOK, TTypeOK
<1> QED
  BY <1>1, <1>2, <1>3, PTL DEF MSpec

(***************************************************************************)
(* Folds from the left                                                     *)
(***************************************************************************)

\* The steps of the loops of TextWrap, and addition.
Joined(how, acc, x) ==
    IF how = "sum" THEN acc + x
    ELSE IF how = "wrap" THEN X!WrapWord(acc, x)
    ELSE IF how = "split" THEN X!SplitSentence(acc, x)
    ELSE X!ChunkSentence(acc, x)

LastPlace(S) == CHOOSE x \in S : \A y \in S : x >= y

FoldsLeft(how, b, g, s, sets) ==
    g = [t \in sets |-> IF t = {} THEN b
                        ELSE Joined(how, g[t \ {LastPlace(t)}], s[LastPlace(t)])]

\* The sets of places a fold over the first n computes.
Below(n) == SUBSET (1 .. n)

\* FoldLeft, as the community modules compute it.
LeftOn(how, b, s, S) == (CHOOSE g : FoldsLeft(how, b, g, s, SUBSET S))[S]

LEMMA LastPlaceIs ==
    ASSUME NEW n \in Nat, NEW t \in SUBSET (1 .. n + 1), n + 1 \in t
    PROVE  LastPlace(t) = n + 1
<1>1. \A y \in t : n + 1 >= y
  OBVIOUS
<1>2. \A x \in t : (\A y \in t : x >= y) => x = n + 1
  OBVIOUS
<1> QED
  BY <1>1, <1>2 DEF LastPlace

LEMMA LeftExists ==
    ASSUME NEW how, NEW b, NEW s, NEW n \in Nat
    PROVE  \E g : FoldsLeft(how, b, g, s, Below(n))
<1> DEFINE bad == {k \in Nat : ~ \E g : FoldsLeft(how, b, g, s, Below(k))}
<1>1. SUFFICES ASSUME bad # {} PROVE FALSE
  OBVIOUS
<1>2. PICK k \in bad : \A m \in bad : k <= m
  <2>1. bad \in SUBSET Nat
    OBVIOUS
  <2> HIDE DEF bad
  <2> QED
    BY <1>1, <2>1, Least
<1>3. CASE k = 0
  <2> DEFINE g == [t \in SUBSET (1 .. 0) |-> b]
  <2>1. \A t \in SUBSET (1 .. 0) : t = {}
    OBVIOUS
  <2>2. FoldsLeft(how, b, g, s, Below(0))
    BY <2>1 DEF FoldsLeft, Below
  <2> QED
    BY <1>2, <1>3, <2>2
<1>4. CASE k # 0
  <2> DEFINE l == k - 1
             small == SUBSET (1 .. l)
             large == SUBSET (1 .. l + 1)
  <2>1. l \in Nat /\ l + 1 = k /\ ~ k <= l
    BY <1>2, <1>4
  <2>2. PICK g : FoldsLeft(how, b, g, s, small)
    BY <1>2, <2>1 DEF Below
  <2> DEFINE h == [t \in large |->
                    IF t \in small THEN g[t]
                    ELSE Joined(how, g[t \ {LastPlace(t)}], s[LastPlace(t)])]
  <2>3. ASSUME NEW t \in large, t \notin small
        PROVE  t # {} /\ LastPlace(t) = l + 1 /\ t \ {LastPlace(t)} \in small /\ t \ {LastPlace(t)} \in large
    <3>1. l + 1 \in t
      BY <2>1, <2>3
    <3>2. LastPlace(t) = l + 1
      BY <2>1, <2>3, <3>1, LastPlaceIs
    <3> QED
      BY <2>1, <2>3, <3>1, <3>2
  <2>4. ASSUME NEW t \in small
        PROVE  /\ t \in large /\ t \ {LastPlace(t)} \in small /\ t \ {LastPlace(t)} \in large
               /\ g[t] = IF t = {} THEN b ELSE Joined(how, g[t \ {LastPlace(t)}], s[LastPlace(t)])
    <3>1. t \in large /\ t \ {LastPlace(t)} \in small /\ t \ {LastPlace(t)} \in large
      <4>1. 1 .. l \in SUBSET (1 .. l + 1)
        BY <2>1
      <4> HIDE DEF l
      <4> QED
        BY <4>1
    <3> HIDE DEF small, large
    <3> QED
      BY <2>2, <3>1 DEF FoldsLeft
  <2> HIDE DEF small, large
  <2>5. \A t \in large : h[t] = IF t = {} THEN b ELSE Joined(how, h[t \ {LastPlace(t)}], s[LastPlace(t)])
    BY <2>3, <2>4
  <2>6. FoldsLeft(how, b, h, s, large)
    <3> DEFINE w == [t \in large |-> IF t = {} THEN b ELSE Joined(how, h[t \ {LastPlace(t)}], s[LastPlace(t)])]
    <3>1. \A t \in large : h[t] = w[t]
      BY <2>5
    <3>2. h = w
      BY <3>1
    <3> QED
      BY <3>2 DEF FoldsLeft
  <2>7. FoldsLeft(how, b, h, s, Below(k))
    BY <2>1, <2>6 DEF large, Below
  <2> HIDE DEF h
  <2> QED
    BY <1>2, <2>7
<1> QED
  BY <1>3, <1>4

\* What lies behind a place does not matter to the fold up to it.
LEMMA LeftAlike ==
    ASSUME NEW how, NEW b, NEW s, NEW z, NEW n \in Nat, NEW l \in 0 .. n,
           NEW g, FoldsLeft(how, b, g, s, Below(n)),
           NEW h, FoldsLeft(how, b, h, z, Below(l)),
           \A i \in 1 .. l : s[i] = z[i]
    PROVE  g[1 .. l] = h[1 .. l]
<1> DEFINE bad == {k \in Nat : k <= l /\ g[1 .. k] # h[1 .. k]}
<1>1. SUFFICES ASSUME bad # {} PROVE FALSE
  OBVIOUS
<1>2. PICK k \in bad : \A m \in bad : k <= m
  <2>1. bad \in SUBSET Nat
    OBVIOUS
  <2> HIDE DEF bad
  <2> QED
    BY <1>1, <2>1, Least
<1>3. k \in Nat /\ k <= l /\ 1 .. k \in SUBSET (1 .. n) /\ 1 .. k \in SUBSET (1 .. l)
  BY <1>2
<1>4. /\ g[1 .. k] = IF 1 .. k = {} THEN b ELSE Joined(how, g[(1 .. k) \ {LastPlace(1 .. k)}], s[LastPlace(1 .. k)])
      /\ h[1 .. k] = IF 1 .. k = {} THEN b ELSE Joined(how, h[(1 .. k) \ {LastPlace(1 .. k)}], z[LastPlace(1 .. k)])
  <2> HIDE DEF bad
  <2> DEFINE T == 1 .. k
             SN == SUBSET (1 .. n)
             SL == SUBSET (1 .. l)
  <2>1. T \in SN /\ T \in SL
    BY <1>3
  <2>2. FoldsLeft(how, b, g, s, SN) /\ FoldsLeft(how, b, h, z, SL)
    BY DEF Below
  <2> HIDE DEF T, SN, SL
  <2>3. /\ g[T] = IF T = {} THEN b ELSE Joined(how, g[T \ {LastPlace(T)}], s[LastPlace(T)])
        /\ h[T] = IF T = {} THEN b ELSE Joined(how, h[T \ {LastPlace(T)}], z[LastPlace(T)])
    BY <2>1, <2>2 DEF FoldsLeft
  <2> QED
    BY <2>3 DEF T
<1>5. CASE k = 0
  <2>1. 1 .. k = {}
    BY <1>5
  <2> QED
    BY <1>2, <1>4, <2>1
<1>6. CASE k # 0
  <2>1. PICK j \in Nat : k = j + 1
    BY <1>3, <1>6
  <2>2. LastPlace(1 .. k) = k /\ 1 .. k # {} /\ (1 .. k) \ {k} = 1 .. j
    <3>1. 1 .. k \in SUBSET (1 .. j + 1) /\ j + 1 \in 1 .. k
      BY <2>1
    <3>2. LastPlace(1 .. k) = j + 1
      BY <3>1, LastPlaceIs
    <3>3. 1 .. k # {} /\ (1 .. k) \ {k} = 1 .. j
      <4>1. \A i : i \in (1 .. j + 1) \ {j + 1} <=> i \in 1 .. j
        OBVIOUS
      <4>2. j + 1 \in 1 .. j + 1
        OBVIOUS
      <4> QED
        BY <2>1, <4>1, <4>2
    <3> QED
      BY <2>1, <3>2, <3>3
  <2>3. g[1 .. j] = h[1 .. j]
    BY <1>2, <1>3, <2>1
  <2>4. s[k] = z[k]
    BY <1>3, <1>6
  <2> HIDE DEF bad
  <2>5. g[1 .. k] = h[1 .. k]
    BY <1>4, <2>2, <2>3, <2>4
  <2> QED
    BY <1>2, <2>5 DEF bad
<1> QED
  BY <1>5, <1>6

LEMMA LeftSame ==
    ASSUME NEW how, NEW b, NEW s, NEW z, NEW n \in Nat, \A i \in 1 .. n : s[i] = z[i]
    PROVE  LeftOn(how, b, s, 1 .. n) = LeftOn(how, b, z, 1 .. n)
<1> DEFINE g == CHOOSE g : FoldsLeft(how, b, g, s, Below(n))
           h == CHOOSE h : FoldsLeft(how, b, h, z, Below(n))
<1>1. FoldsLeft(how, b, g, s, Below(n)) /\ FoldsLeft(how, b, h, z, Below(n))
  BY LeftExists
<1>2. LeftOn(how, b, s, 1 .. n) = g[1 .. n] /\ LeftOn(how, b, z, 1 .. n) = h[1 .. n]
  BY DEF LeftOn, Below
<1> HIDE DEF g, h
<1>3. n \in 0 .. n
  OBVIOUS
<1> QED
  BY <1>1, <1>2, <1>3, LeftAlike

LEMMA LeftSteps ==
    \A how, b, s :
        /\ LeftOn(how, b, s, {}) = b
        /\ \A n \in Nat : LeftOn(how, b, s, 1 .. n + 1) = Joined(how, LeftOn(how, b, s, 1 .. n), s[n + 1])
<1> TAKE how, b, s
<1>1. LeftOn(how, b, s, {}) = b
  <2> DEFINE g == CHOOSE g : FoldsLeft(how, b, g, s, SUBSET {})
  <2>1. {} = 1 .. 0
    OBVIOUS
  <2>2. FoldsLeft(how, b, g, s, SUBSET {})
    BY <2>1, LeftExists DEF Below
  <2>3. LeftOn(how, b, s, {}) = g[{}]
    BY DEF LeftOn
  <2> HIDE DEF g
  <2>4. {} \in SUBSET {}
    OBVIOUS
  <2> QED
    BY <2>2, <2>3, <2>4 DEF FoldsLeft
<1>2. ASSUME NEW n \in Nat
      PROVE  LeftOn(how, b, s, 1 .. n + 1) = Joined(how, LeftOn(how, b, s, 1 .. n), s[n + 1])
  <2> DEFINE g == CHOOSE g : FoldsLeft(how, b, g, s, Below(n + 1))
             h == CHOOSE h : FoldsLeft(how, b, h, s, Below(n))
             T == 1 .. n + 1
             sets == SUBSET T
  <2>1. n + 1 \in Nat /\ n \in 0 .. n + 1
    OBVIOUS
  <2>2. FoldsLeft(how, b, g, s, Below(n + 1)) /\ FoldsLeft(how, b, h, s, Below(n))
    BY <2>1, LeftExists
  <2>3. LeftOn(how, b, s, 1 .. n + 1) = g[T] /\ LeftOn(how, b, s, 1 .. n) = h[1 .. n]
    BY DEF LeftOn, Below
  <2> HIDE DEF g, h
  <2>4. g[1 .. n] = h[1 .. n]
    BY <2>1, <2>2, LeftAlike
  <2>5. LastPlace(T) = n + 1 /\ T # {} /\ T \ {n + 1} = 1 .. n /\ T \in sets
    <3>1. T \in SUBSET (1 .. n + 1) /\ n + 1 \in T
      OBVIOUS
    <3> QED
      BY <3>1, LastPlaceIs
  <2>6. FoldsLeft(how, b, g, s, sets)
    BY <2>2 DEF Below
  <2> HIDE DEF T, sets
  <2>7. g[T] = Joined(how, g[T \ {LastPlace(T)}], s[LastPlace(T)])
    BY <2>5, <2>6 DEF FoldsLeft
  <2> QED
    BY <2>3, <2>4, <2>5, <2>7
<1> QED
  BY <1>1, <1>2

\* The folds of TextWrap.
LEMMA LeftFolds ==
    \A s : /\ X!FoldLeft(+, 0, s) = LeftOn("sum", 0, s, DOMAIN s)
           /\ X!FoldLeft(X!WrapWord, X!Begun, s) = LeftOn("wrap", X!Begun, s, DOMAIN s)
           /\ X!FoldLeft(X!SplitSentence, X!Begun, s) = LeftOn("split", X!Begun, s, DOMAIN s)
           /\ \A b : X!FoldLeft(X!ChunkSentence, b, s) = LeftOn("chunk", b, s, DOMAIN s)
BY DEF X!FoldLeft, X!MapThenFoldSet, X!Max, LeftOn, FoldsLeft, LastPlace, Joined

(***************************************************************************)
(* Sums and concatenations                                                 *)
(***************************************************************************)

Total(s) == LeftOn("sum", 0, s, DOMAIN s)

\* What SMT needs of sequences.
LEMMA Appended ==
    ASSUME NEW D, NEW s \in Seq(D), NEW x \in D
    PROVE  /\ Append(s, x) \in Seq(D) /\ Len(s) \in Nat /\ Len(Append(s, x)) = Len(s) + 1
           /\ DOMAIN s = 1 .. Len(s) /\ DOMAIN Append(s, x) = 1 .. Len(s) + 1
           /\ Append(s, x)[Len(s) + 1] = x
           /\ \A i \in 1 .. Len(s) : Append(s, x)[i] = s[i] /\ s[i] \in D
OBVIOUS

LEMMA Concatenated ==
    ASSUME NEW D, NEW s \in Seq(D), NEW p \in Seq(D)
    PROVE  /\ s \o p \in Seq(D) /\ Len(s) \in Nat /\ Len(p) \in Nat /\ Len(s \o p) = Len(s) + Len(p)
           /\ DOMAIN s = 1 .. Len(s) /\ DOMAIN p = 1 .. Len(p) /\ DOMAIN (s \o p) = 1 .. Len(s) + Len(p)
           /\ \A i \in 1 .. Len(s) : (s \o p)[i] = s[i] /\ s[i] \in D
           /\ \A i \in 1 .. Len(p) : (s \o p)[Len(s) + i] = p[i] /\ p[i] \in D
OBVIOUS

LEMMA SumSteps ==
    ASSUME NEW s, NEW n \in Nat
    PROVE  LeftOn("sum", 0, s, 1 .. n + 1) = LeftOn("sum", 0, s, 1 .. n) + s[n + 1]
<1>1. LeftOn("sum", 0, s, 1 .. n + 1) = Joined("sum", LeftOn("sum", 0, s, 1 .. n), s[n + 1])
  BY LeftSteps
<1> QED
  BY <1>1 DEF Joined

LEMMA PrefixNat ==
    ASSUME NEW s, NEW n \in Nat, \A i \in 1 .. n : s[i] \in Nat
    PROVE  LeftOn("sum", 0, s, 1 .. n) \in Nat
<1> DEFINE bad == {k \in Nat : k <= n /\ LeftOn("sum", 0, s, 1 .. k) \notin Nat}
<1>1. SUFFICES ASSUME bad # {} PROVE FALSE
  OBVIOUS
<1>2. PICK k \in bad : \A m \in bad : k <= m
  <2>1. bad \in SUBSET Nat
    OBVIOUS
  <2> HIDE DEF bad
  <2> QED
    BY <1>1, <2>1, Least
<1>3. CASE k = 0
  <2>1. 1 .. k = {}
    BY <1>3
  <2>2. LeftOn("sum", 0, s, {}) = 0
    BY LeftSteps
  <2> QED
    BY <1>2, <2>1, <2>2
<1>4. CASE k # 0
  <2>1. PICK j \in Nat : k = j + 1
    BY <1>2, <1>4
  <2>2. LeftOn("sum", 0, s, 1 .. j) \in Nat /\ s[k] \in Nat
    BY <1>2, <2>1
  <2>3. LeftOn("sum", 0, s, 1 .. k) = LeftOn("sum", 0, s, 1 .. j) + s[k]
    BY <2>1, LeftSteps DEF Joined
  <2> QED
    BY <1>2, <2>2, <2>3
<1> QED
  BY <1>3, <1>4

LEMMA TotalGrows ==
    ASSUME NEW s \in Seq(Nat)
    PROVE  /\ X!FoldLeft(+, 0, s) = Total(s) /\ Total(s) \in Nat /\ Total(<<>>) = 0
           /\ \A x \in Nat : Total(Append(s, x)) = Total(s) + x
<1>1. Len(s) \in Nat /\ DOMAIN s = 1 .. Len(s) /\ \A i \in 1 .. Len(s) : s[i] \in Nat
  OBVIOUS
<1>2. Total(s) \in Nat
  BY <1>1, PrefixNat DEF Total
<1>3. Total(<<>>) = 0
  <2>1. DOMAIN <<>> = {}
    OBVIOUS
  <2> QED
    BY <2>1, LeftSteps DEF Total
<1>4. ASSUME NEW x \in Nat PROVE Total(Append(s, x)) = Total(s) + x
  <2> DEFINE z == Append(s, x)
             l == Len(s)
  <2>1. DOMAIN z = 1 .. l + 1 /\ z[l + 1] = x /\ \A i \in 1 .. l : z[i] = s[i]
    BY Appended
  <2>2. l \in Nat /\ DOMAIN s = 1 .. l
    BY <1>1
  <2> HIDE DEF z, l
  <2>3. LeftOn("sum", 0, z, 1 .. l + 1) = LeftOn("sum", 0, z, 1 .. l) + x
    BY <2>1, <2>2, SumSteps
  <2>4. LeftOn("sum", 0, z, 1 .. l) = LeftOn("sum", 0, s, 1 .. l)
    BY <2>1, <2>2, LeftSame
  <2>5. Total(z) = Total(s) + x
    BY <2>1, <2>2, <2>3, <2>4 DEF Total
  <2> QED
    BY <2>5 DEF z
<1> QED
  BY <1>2, <1>3, <1>4, LeftFolds DEF Total

LEMMA TotalOfBoth ==
    ASSUME NEW s \in Seq(Nat), NEW p \in Seq(Nat)
    PROVE  Total(s \o p) = Total(s) + Total(p)
<1> DEFINE q == s \o p
           l == Len(s)
           At(k) == LeftOn("sum", 0, q, 1 .. l + k) = Total(s) + LeftOn("sum", 0, p, 1 .. k)
           bad == {k \in Nat : k <= Len(p) /\ ~ At(k)}
<1>1. /\ l \in Nat /\ Len(p) \in Nat /\ DOMAIN s = 1 .. l /\ DOMAIN p = 1 .. Len(p)
      /\ DOMAIN q = 1 .. l + Len(p)
      /\ \A i \in 1 .. l : q[i] = s[i]
      /\ \A i \in 1 .. Len(p) : q[l + i] = p[i] /\ p[i] \in Nat
  BY Concatenated
<1> HIDE DEF q, l
<1>2. bad = {}
  <2>1. SUFFICES ASSUME bad # {} PROVE FALSE
    OBVIOUS
  <2>2. PICK k \in bad : \A m \in bad : k <= m
    <3>1. bad \in SUBSET Nat
      OBVIOUS
    <3> HIDE DEF bad
    <3> QED
      BY <2>1, <3>1, Least
  <2>3. CASE k = 0
    <3>1. l + k = l /\ 1 .. k = {}
      BY <1>1, <2>3
    <3>2. LeftOn("sum", 0, q, 1 .. l) = Total(s)
      BY <1>1, LeftSame DEF Total
    <3>3. LeftOn("sum", 0, p, 1 .. k) = 0 /\ Total(s) \in Nat
      <4>1. LeftOn("sum", 0, p, {}) = 0
        BY LeftSteps
      <4> QED
        BY <3>1, <4>1, TotalGrows
    <3> QED
      BY <2>2, <3>1, <3>2, <3>3
  <2>4. CASE k # 0
    <3>1. PICK j \in Nat : k = j + 1
      BY <2>2, <2>4
    <3>2. At(j) /\ j + 1 \in 1 .. Len(p)
      BY <2>2, <3>1
    <3>3. l + k = (l + j) + 1 /\ l + j \in Nat /\ q[(l + j) + 1] = p[j + 1]
      <4>1. l + (j + 1) = (l + j) + 1 /\ l + j \in Nat
        BY <1>1
      <4>2. q[l + (j + 1)] = p[j + 1]
        BY <1>1, <3>2
      <4> QED
        BY <3>1, <4>1, <4>2
    <3>4. LeftOn("sum", 0, q, 1 .. l + k) = LeftOn("sum", 0, q, 1 .. l + j) + p[j + 1]
      <4> DEFINE m == l + j
      <4>1. m \in Nat /\ l + k = m + 1 /\ q[m + 1] = p[j + 1]
        BY <3>3
      <4> HIDE DEF m, At, bad
      <4>2. LeftOn("sum", 0, q, 1 .. m + 1) = LeftOn("sum", 0, q, 1 .. m) + q[m + 1]
        BY <4>1, SumSteps
      <4>3. LeftOn("sum", 0, q, 1 .. l + k) = LeftOn("sum", 0, q, 1 .. m) + p[j + 1]
        BY <4>1, <4>2
      <4> QED
        BY <4>3 DEF m
    <3>5. LeftOn("sum", 0, p, 1 .. k) = LeftOn("sum", 0, p, 1 .. j) + p[j + 1]
      <4>1. LeftOn("sum", 0, p, 1 .. j + 1) = LeftOn("sum", 0, p, 1 .. j) + p[j + 1]
        BY SumSteps
      <4> QED
        BY <3>1, <4>1
    <3>6. LeftOn("sum", 0, p, 1 .. j) \in Nat /\ Total(s) \in Nat /\ p[j + 1] \in Nat
      <4>1. \A i \in 1 .. j : p[i] \in Nat
        BY <1>1, <3>2
      <4> QED
        BY <1>1, <3>2, <4>1, PrefixNat, TotalGrows
    <3>7. At(k)
      BY <3>2, <3>4, <3>5, <3>6
    <3> HIDE DEF At
    <3> QED
      BY <2>2, <3>7
  <2> QED
    BY <2>3, <2>4
<1>3. At(Len(p))
  BY <1>1, <1>2
<1> QED
  BY <1>1, <1>3 DEF Total, q

Flat(q) == X!FlattenSeq(q)
FlatUpTo(q, n, g) == g = [i \in 1 .. n |-> IF i = 1 THEN q[i] ELSE g[i - 1] \o q[i]]

LEMMA FlatExists ==
    ASSUME NEW q, NEW n \in Nat
    PROVE  \E g : FlatUpTo(q, n, g)
<1> DEFINE bad == {k \in Nat : ~ \E g : FlatUpTo(q, k, g)}
<1>1. SUFFICES ASSUME bad # {} PROVE FALSE
  OBVIOUS
<1>2. PICK k \in bad : \A m \in bad : k <= m
  <2>1. bad \in SUBSET Nat
    OBVIOUS
  <2> HIDE DEF bad
  <2> QED
    BY <1>1, <2>1, Least
<1>3. CASE k = 0
  <2> DEFINE g == [i \in 1 .. 0 |-> q[i]]
  <2>1. FlatUpTo(q, 0, g)
    BY DEF FlatUpTo
  <2> QED
    BY <1>2, <1>3, <2>1
<1>4. CASE k # 0
  <2>1. PICK j \in Nat : k = j + 1
    BY <1>2, <1>4
  <2>2. j \notin bad
    BY <1>2, <2>1
  <2>3. PICK g : FlatUpTo(q, j, g)
    BY <2>2
  <2> DEFINE h == [i \in 1 .. j + 1 |-> IF i = 1 THEN q[i] ELSE g[i - 1] \o q[i]]
  <2>4. ASSUME NEW i \in 1 .. j PROVE g[i] = h[i]
    <3>1. g[i] = IF i = 1 THEN q[i] ELSE g[i - 1] \o q[i]
      BY <2>3 DEF FlatUpTo
    <3> QED
      BY <3>1
  <2>5. ASSUME NEW i \in 1 .. j + 1 PROVE h[i] = IF i = 1 THEN q[i] ELSE h[i - 1] \o q[i]
    <3>1. CASE i = 1
      BY <3>1
    <3>2. CASE i # 1
      <4>1. i - 1 \in 1 .. j
        BY <3>2
      <4> QED
        BY <2>4, <3>2, <4>1
    <3> QED
      BY <3>1, <3>2
  <2> DEFINE w == [i \in 1 .. j + 1 |-> IF i = 1 THEN q[i] ELSE h[i - 1] \o q[i]]
  <2>6. h = w
    BY <2>5
  <2>7. FlatUpTo(q, k, h)
    BY <2>1, <2>6 DEF FlatUpTo
  <2> HIDE DEF h
  <2> QED
    BY <1>2, <2>7
<1> QED
  BY <1>3, <1>4

LEMMA FlatAlike ==
    \A q, z, g, h : \A n \in Nat : \A l \in 0 .. n :
        FlatUpTo(q, n, g) /\ FlatUpTo(z, l, h) /\ (\A i \in 1 .. l : q[i] = z[i])
            => \A i \in 1 .. l : g[i] = h[i]
<1> SUFFICES ASSUME NEW q, NEW z, NEW g, NEW h, NEW n \in Nat, NEW l \in 0 .. n,
                    FlatUpTo(q, n, g), FlatUpTo(z, l, h), \A i \in 1 .. l : q[i] = z[i]
             PROVE  \A i \in 1 .. l : g[i] = h[i]
  OBVIOUS
<1> DEFINE bad == {k \in Nat : k \in 1 .. l /\ g[k] # h[k]}
<1>1. SUFFICES ASSUME bad # {} PROVE FALSE
  OBVIOUS
<1>2. PICK k \in bad : \A m \in bad : k <= m
  <2>1. bad \in SUBSET Nat
    OBVIOUS
  <2> HIDE DEF bad
  <2> QED
    BY <1>1, <2>1, Least
<1>3. k \in 1 .. l /\ k \in 1 .. n
  BY <1>2
<1>4. /\ g[k] = IF k = 1 THEN q[k] ELSE g[k - 1] \o q[k]
      /\ h[k] = IF k = 1 THEN z[k] ELSE h[k - 1] \o z[k]
  <2> HIDE DEF bad
  <2> QED
    BY <1>3 DEF FlatUpTo
<1>5. k # 1 => g[k - 1] = h[k - 1]
  BY <1>2, <1>3
<1>6. g[k] = h[k]
  BY <1>3, <1>4, <1>5
<1> QED
  BY <1>2, <1>6

LEMMA FlatIs ==
    ASSUME NEW q \in Seq(Seq(Nat))
    PROVE  /\ Flat(q) \in Seq(Nat) /\ Flat(<<>>) = <<>>
           /\ \A p \in Seq(Nat) : Flat(Append(q, p)) = Flat(q) \o p
<1>1. ASSUME NEW z \in Seq(Seq(Nat))
      PROVE  \E g : FlatUpTo(z, Len(z), g) /\ Flat(z) = IF Len(z) = 0 THEN z ELSE g[Len(z)]
  <2> DEFINE g == CHOOSE g : FlatUpTo(z, Len(z), g)
  <2>1. FlatUpTo(z, Len(z), g)
    <3>1. Len(z) \in Nat
      OBVIOUS
    <3> QED
      BY <3>1, FlatExists
  <2>2. Flat(z) = IF Len(z) = 0 THEN z ELSE g[Len(z)]
    BY DEF Flat, X!FlattenSeq, FlatUpTo
  <2> HIDE DEF g
  <2> QED
    BY <2>1, <2>2
<1>2. Flat(<<>>) = <<>>
  BY DEF Flat, X!FlattenSeq
<1> DEFINE l == Len(q)
<1>3. l \in Nat /\ \A i \in 1 .. l : q[i] \in Seq(Nat)
  OBVIOUS
<1>4. PICK g : FlatUpTo(q, l, g) /\ Flat(q) = IF l = 0 THEN q ELSE g[l]
  BY <1>1
<1> HIDE DEF l
<1>5. \A i \in 1 .. l : g[i] \in Seq(Nat)
  <2> DEFINE bad == {k \in Nat : k \in 1 .. l /\ g[k] \notin Seq(Nat)}
  <2>1. SUFFICES ASSUME bad # {} PROVE FALSE
    OBVIOUS
  <2>2. PICK k \in bad : \A m \in bad : k <= m
    <3>1. bad \in SUBSET Nat
      OBVIOUS
    <3> HIDE DEF bad
    <3> QED
      BY <2>1, <3>1, Least
  <2>3. g[k] = IF k = 1 THEN q[k] ELSE g[k - 1] \o q[k]
    <3>1. k \in 1 .. l
      BY <2>2
    <3> HIDE DEF bad
    <3> QED
      BY <1>4, <3>1 DEF FlatUpTo
  <2>4. k # 1 => g[k - 1] \in Seq(Nat)
    BY <1>3, <2>2
  <2>5. q[k] \in Seq(Nat)
    BY <1>3, <2>2
  <2>6. g[k] \in Seq(Nat)
    BY <2>3, <2>4, <2>5
  <2> QED
    BY <2>2, <2>6
<1>6. Flat(q) \in Seq(Nat)
  <2>1. CASE l = 0
    <3>1. q = <<>>
      BY <2>1 DEF l
    <3> QED
      BY <1>4, <2>1, <3>1
  <2>2. CASE l # 0
    BY <1>3, <1>4, <1>5, <2>2
  <2> QED
    BY <2>1, <2>2
<1>7. ASSUME NEW p \in Seq(Nat) PROVE Flat(Append(q, p)) = Flat(q) \o p
  <2> DEFINE z == Append(q, p)
  <2>1. /\ z \in Seq(Seq(Nat)) /\ Len(z) = l + 1 /\ z[l + 1] = p
        /\ \A i \in 1 .. l : z[i] = q[i]
    BY Appended DEF l
  <2> HIDE DEF z
  <2>2. PICK h : FlatUpTo(z, l + 1, h) /\ Flat(z) = h[l + 1]
    BY <1>1, <1>3, <2>1
  <2>3. h[l + 1] = IF l = 0 THEN p ELSE h[l] \o p
    <3>1. l + 1 \in 1 .. l + 1 /\ (l + 1) - 1 = l /\ (l + 1 = 1 <=> l = 0)
      BY <1>3
    <3>2. h[l + 1] = IF l + 1 = 1 THEN z[l + 1] ELSE h[(l + 1) - 1] \o z[l + 1]
      BY <2>2, <3>1 DEF FlatUpTo
    <3> QED
      BY <2>1, <3>1, <3>2
  <2>4. l \in 0 .. l + 1 /\ l + 1 \in Nat
    BY <1>3
  <2>5. \A i \in 1 .. l : h[i] = g[i]
    <3> DEFINE m == l + 1
    <3>1. m \in Nat /\ l \in 0 .. m /\ FlatUpTo(z, m, h)
      BY <2>2, <2>4
    <3>2. FlatUpTo(q, l, g) /\ \A i \in 1 .. l : z[i] = q[i]
      BY <1>4, <2>1
    <3> HIDE DEF m
    <3> QED
      BY <3>1, <3>2, FlatAlike
  <2>6. CASE l = 0
    <3>1. q = <<>>
      BY <2>6 DEF l
    <3>2. <<>> \o p = p
      OBVIOUS
    <3>3. Flat(z) = p /\ Flat(q) = <<>>
      BY <1>2, <2>2, <2>3, <2>6, <3>1
    <3> QED
      BY <3>2, <3>3 DEF z
  <2>7. CASE l # 0
    <3>1. l \in 1 .. l
      BY <1>3, <2>7
    <3>2. Flat(z) = g[l] \o p /\ Flat(q) = g[l]
      BY <1>4, <2>2, <2>3, <2>5, <2>7, <3>1
    <3> QED
      BY <3>2 DEF z
  <2> QED
    BY <2>6, <2>7
<1> QED
  BY <1>2, <1>6, <1>7

(***************************************************************************)
(* Pieces of text                                                          *)
(***************************************************************************)

LEMMA CharsIs ==
    ASSUME NEW s \in Seq(Nat)
    PROVE  /\ X!Chars(s) = Total(s) + (IF s = <<>> THEN 0 ELSE Len(s) - 1)
           /\ X!Chars(s) \in Nat /\ X!Chars(<<>>) = 0
           /\ \A x \in Nat : /\ X!Chars(<<x>>) = x
                            /\ X!Chars(Append(s, x)) = IF s = <<>> THEN x ELSE X!Chars(s) + 1 + x
<1>1. \A z \in Seq(Nat) : X!Chars(z) = Total(z) + (IF z = <<>> THEN 0 ELSE Len(z) - 1)
  BY TotalGrows DEF X!Chars
<1>2. Len(s) \in Nat /\ (s # <<>> => Len(s) - 1 \in Nat) /\ <<>> \in Seq(Nat) /\ (Len(s) = 0 <=> s = <<>>)
  OBVIOUS
<1>3. X!Chars(s) \in Nat
  <2>1. Total(s) \in Nat
    BY TotalGrows
  <2>2. X!Chars(s) = Total(s) + (IF s = <<>> THEN 0 ELSE Len(s) - 1)
    BY <1>1
  <2> QED
    BY <1>2, <2>1, <2>2
<1>4. X!Chars(<<>>) = 0
  <2>1. Total(<<>>) = 0
    BY TotalGrows
  <2>2. X!Chars(<<>>) = Total(<<>>) + (IF <<>> = <<>> THEN 0 ELSE Len(<<>>) - 1)
    BY <1>1, <1>2
  <2> QED
    BY <2>1, <2>2
<1>5. ASSUME NEW z \in Seq(Nat), NEW x \in Nat
      PROVE  X!Chars(Append(z, x)) = IF z = <<>> THEN x ELSE X!Chars(z) + 1 + x
  <2>1. /\ Append(z, x) \in Seq(Nat) /\ Append(z, x) # <<>> /\ Len(Append(z, x)) = Len(z) + 1
        /\ Len(z) \in Nat /\ (z = <<>> <=> Len(z) = 0)
    OBVIOUS
  <2>2. X!Chars(Append(z, x)) = Total(z) + x + Len(z)
    <3>1. X!Chars(Append(z, x)) = Total(Append(z, x)) + (Len(Append(z, x)) - 1)
      BY <1>1, <2>1
    <3>2. Total(Append(z, x)) = Total(z) + x /\ Total(z) \in Nat
      BY TotalGrows
    <3> QED
      BY <2>1, <3>1, <3>2
  <2>3. Total(z) \in Nat /\ Total(<<>>) = 0
    BY TotalGrows
  <2>4. CASE z = <<>>
    BY <2>1, <2>2, <2>3, <2>4
  <2>5. CASE z # <<>>
    BY <1>1, <2>1, <2>2, <2>3, <2>5
  <2> QED
    BY <2>4, <2>5
<1>6. ASSUME NEW x \in Nat PROVE X!Chars(<<x>>) = x
  <2>1. Append(<<>>, x) = <<x>>
    OBVIOUS
  <2> QED
    BY <1>2, <1>5, <2>1
<1> QED
  BY <1>1, <1>3, <1>4, <1>5, <1>6

\* t is the first k words of s.
StartOf(t, s, k) == t \in Seq(Nat) /\ Len(t) = k /\ \A i \in 1 .. k : t[i] = s[i]

LEMMA StartGrows ==
    ASSUME NEW s, NEW k \in Nat, NEW a \in Seq(Nat), NEW c \in Seq(Nat), NEW w \in Nat,
           StartOf(a \o c, s, k), s[k + 1] = w
    PROVE  StartOf(a \o Append(c, w), s, k + 1)
<1> DEFINE p == Append(c, w)
           t == a \o p
           z == a \o c
           l == Len(a)
           m == Len(c)
<1>1. /\ p \in Seq(Nat) /\ Len(p) = m + 1 /\ p[m + 1] = w /\ m \in Nat
      /\ \A i \in 1 .. m : p[i] = c[i]
  BY Appended
<1>2. /\ l \in Nat /\ Len(z) = l + m
      /\ \A i \in 1 .. l : z[i] = a[i]
      /\ \A i \in 1 .. m : z[l + i] = c[i]
  BY Concatenated
<1>3. /\ t \in Seq(Nat) /\ Len(t) = l + Len(p)
      /\ \A i \in 1 .. l : t[i] = a[i]
      /\ \A i \in 1 .. Len(p) : t[l + i] = p[i]
  BY <1>1, Concatenated
<1> HIDE DEF p, t, z, l, m
<1>4. k = l + m /\ \A i \in 1 .. k : z[i] = s[i]
  BY <1>2 DEF StartOf, z
<1>5. Len(t) = k + 1
  BY <1>1, <1>2, <1>3, <1>4
<1>6. ASSUME NEW i \in 1 .. k + 1 PROVE t[i] = s[i]
  <2>1. CASE i \in 1 .. l
    BY <1>1, <1>2, <1>3, <1>4, <2>1
  <2>2. CASE i = k + 1
    <3>1. i = l + (m + 1) /\ m + 1 \in 1 .. Len(p)
      BY <1>1, <1>2, <1>4, <2>2
    <3> QED
      BY <1>1, <1>3, <2>2, <3>1
  <2>3. CASE i \notin 1 .. l /\ i # k + 1
    <3>1. PICK j \in 1 .. m : i = l + j
      <4>1. i - l \in 1 .. m /\ i = l + (i - l)
        BY <1>1, <1>2, <1>4, <2>3
      <4> QED
        BY <4>1
    <3>2. t[l + j] = p[j] /\ p[j] = c[j] /\ z[l + j] = c[j] /\ l + j \in 1 .. k
      BY <1>1, <1>2, <1>3, <1>4, <3>1
    <3> QED
      BY <1>4, <3>1, <3>2
  <2> QED
    BY <2>1, <2>2, <2>3
<1>7. StartOf(t, s, k + 1)
  BY <1>3, <1>5, <1>6 DEF StartOf
<1> QED
  BY <1>7 DEF t, p

\* The pieces done and the current one hold the first k words, are no longer than
\* that or a single word, and where it is asked for they are filled.
Joins(d, c, s, k, most, full) ==
    /\ d \in Seq(Seq(Nat)) /\ c \in Seq(Nat)
    /\ k = 0 => d = <<>> /\ c = <<>>
    /\ k # 0 =>
        /\ c # <<>>
        /\ StartOf(Flat(d) \o c, s, k)
        /\ \A i \in 1 .. Len(d) : X!Chars(d[i]) <= most \/ Len(d[i]) = 1
        /\ X!Chars(c) <= most \/ Len(c) = 1
        /\ full => X!Full(Append(d, c))

LEMMA FlatStarts ==
    ASSUME NEW d, NEW c, NEW s, NEW k \in Nat, NEW most, NEW full, Joins(d, c, s, k, most, full)
    PROVE  Flat(d) \in Seq(Nat) /\ StartOf(Flat(d) \o c, s, k)
<1>1. Flat(d) \in Seq(Nat) /\ Flat(<<>>) = <<>>
  BY FlatIs DEF Joins
<1>2. CASE k = 0
  <2>1. <<>> \o <<>> = <<>> /\ Len(<<>>) = 0 /\ <<>> \in Seq(Nat) /\ 1 .. 0 = {}
    OBVIOUS
  <2> QED
    BY <1>1, <1>2, <2>1 DEF Joins, StartOf
<1>3. CASE k # 0
  BY <1>1, <1>3 DEF Joins
<1> QED
  BY <1>2, <1>3

\* One more word in the current piece.
LEMMA JoinsMore ==
    ASSUME NEW d, NEW c, NEW s, NEW k \in Nat, NEW most \in Nat, NEW full \in BOOLEAN,
           Joins(d, c, s, k, most, full), NEW w \in Nat, s[k + 1] = w,
           c # <<>> => X!Chars(c) + 1 + w <= most
    PROVE  Joins(d, Append(c, w), s, k + 1, most, full)
<1> DEFINE p == Append(c, w)
           l == Len(d)
<1>1. d \in Seq(Seq(Nat)) /\ c \in Seq(Nat) /\ (c = <<>> <=> k = 0)
  BY DEF Joins
<1>2. StartOf(Flat(d) \o p, s, k + 1)
  BY <1>1, FlatStarts, StartGrows
<1>3. p \in Seq(Nat) /\ p # <<>> /\ Len(p) = Len(c) + 1 /\ (c # <<>> => p[1] = c[1]) /\ l \in Nat
  <2>1. p \in Seq(Nat) /\ Len(p) = Len(c) + 1 /\ Len(c) \in Nat /\ \A i \in 1 .. Len(c) : p[i] = c[i]
    BY <1>1, Appended
  <2>2. (c # <<>> => 1 \in 1 .. Len(c)) /\ l \in Nat
    BY <1>1
  <2>3. p # <<>>
    BY <2>1
  <2> QED
    BY <2>1, <2>2, <2>3
<1>4. X!Chars(p) <= most \/ Len(p) = 1
  <2>1. X!Chars(p) = IF c = <<>> THEN w ELSE X!Chars(c) + 1 + w
    BY <1>1, CharsIs
  <2>2. CASE c = <<>>
    BY <1>3, <2>2
  <2>3. CASE c # <<>>
    BY <2>1, <2>3
  <2> QED
    BY <2>2, <2>3
<1>5. \A i \in 1 .. l : X!Chars(d[i]) <= most \/ Len(d[i]) = 1
  BY DEF Joins
<1>6. ASSUME full PROVE X!Full(Append(d, p))
  <2>1. CASE c = <<>>
    <3>1. d = <<>>
      BY <1>1, <2>1 DEF Joins
    <3>2. Len(Append(d, p)) = 1
      BY <3>1
    <3> QED
      BY <3>2 DEF X!Full
  <2>2. CASE c # <<>>
    <3> DEFINE f == Append(d, c)
               g == Append(d, p)
    <3>1. /\ Len(f) = l + 1 /\ Len(g) = l + 1 /\ f[l + 1] = c /\ g[l + 1] = p
          /\ \A i \in 1 .. l : f[i] = d[i] /\ g[i] = d[i]
      BY <1>1, <1>3, Appended
    <3>2. X!Full(f)
      BY <1>1, <1>6, <2>2 DEF Joins
    <3> HIDE DEF f, g
    <3>3. ASSUME NEW i \in 1 .. Len(g) - 1 PROVE g[i] = f[i] /\ g[i + 1][1] = f[i + 1][1]
      <4>1. i \in 1 .. l /\ (i + 1 \in 1 .. l \/ i + 1 = l + 1)
        BY <1>3, <3>1
      <4> QED
        BY <1>3, <2>2, <3>1, <4>1
    <3>4. X!Full(g)
      BY <3>1, <3>2, <3>3 DEF X!Full
    <3> QED
      BY <3>4 DEF g
  <2> QED
    BY <2>1, <2>2
<1>7. k + 1 # 0
  OBVIOUS
<1> HIDE DEF p
<1>8. Joins(d, p, s, k + 1, most, full)
  BY <1>1, <1>2, <1>3, <1>4, <1>5, <1>6, <1>7 DEF Joins
<1> QED
  BY <1>8 DEF p

Closed(d, c) == IF c = <<>> THEN d ELSE Append(d, c)

\* A new piece.
LEMMA JoinsNew ==
    ASSUME NEW d, NEW c, NEW s, NEW k \in Nat, NEW most \in Nat, NEW full \in BOOLEAN,
           Joins(d, c, s, k, most, full), NEW w \in Nat, s[k + 1] = w,
           full /\ c # <<>> => X!Chars(c) + 1 + w > MaxChars
    PROVE  Joins(Closed(d, c), <<w>>, s, k + 1, most, full)
<1> DEFINE f == Closed(d, c)
           p == <<w>>
<1>1. d \in Seq(Seq(Nat)) /\ c \in Seq(Nat) /\ (c = <<>> <=> k = 0)
  BY DEF Joins
<1>2. p \in Seq(Nat) /\ p # <<>> /\ Len(p) = 1 /\ p[1] = w /\ p = Append(<<>>, w) /\ <<>> \in Seq(Nat)
  OBVIOUS
<1>3. f \in Seq(Seq(Nat)) /\ Flat(f) = Flat(d) \o c /\ Flat(d) \in Seq(Nat)
  <2>1. Flat(d) \in Seq(Nat)
    BY <1>1, FlatIs
  <2>2. CASE c = <<>>
    <3>1. Flat(d) \o <<>> = Flat(d)
      BY <2>1
    <3> QED
      BY <1>1, <2>1, <2>2, <3>1 DEF Closed
  <2>3. CASE c # <<>>
    <3>1. Append(d, c) \in Seq(Seq(Nat))
      BY <1>1
    <3> QED
      BY <1>1, <2>1, <2>3, <3>1, FlatIs DEF Closed
  <2> QED
    BY <2>2, <2>3
<1>4. StartOf(Flat(f) \o p, s, k + 1)
  <2>1. Flat(f) \in Seq(Nat)
    BY <1>3, FlatIs
  <2>2. Flat(f) \o <<>> = Flat(f)
    BY <2>1
  <2>3. StartOf(Flat(f) \o <<>>, s, k)
    BY <1>3, <2>2, FlatStarts
  <2> HIDE DEF f
  <2>4. StartOf(Flat(f) \o Append(<<>>, w), s, k + 1)
    BY <1>2, <2>1, <2>3, StartGrows
  <2> QED
    BY <1>2, <2>4
<1>5. /\ \A i \in 1 .. Len(f) : X!Chars(f[i]) <= most \/ Len(f[i]) = 1
      /\ full => X!Full(f) /\ (f # <<>> => X!Chars(f[Len(f)]) + 1 + w > MaxChars)
  <2>1. CASE c = <<>>
    <3>1. f = <<>>
      BY <1>1, <2>1 DEF Closed, Joins
    <3>2. Len(<<>>) = 0 /\ 1 .. 0 = {} /\ 1 .. 0 - 1 = {}
      OBVIOUS
    <3> QED
      BY <3>1, <3>2 DEF X!Full
  <2>2. CASE c # <<>>
    <3>1. f = Append(d, c) /\ Len(f) = Len(d) + 1 /\ f[Len(f)] = c /\ \A i \in 1 .. Len(d) : f[i] = d[i]
      BY <1>1, <2>2, Appended DEF Closed
    <3>2. \A i \in 1 .. Len(d) : X!Chars(d[i]) <= most \/ Len(d[i]) = 1
      BY <1>1, <2>2 DEF Joins
    <3>3. (X!Chars(c) <= most \/ Len(c) = 1) /\ (full => X!Full(Append(d, c)))
      BY <1>1, <2>2 DEF Joins
    <3>4. Len(d) \in Nat
      BY <1>1
    <3> HIDE DEF f
    <3>5. ASSUME NEW i \in 1 .. Len(f) PROVE X!Chars(f[i]) <= most \/ Len(f[i]) = 1
      <4>1. i \in 1 .. Len(d) \/ i = Len(f)
        BY <3>1, <3>4
      <4> QED
        BY <3>1, <3>2, <3>3, <4>1
    <3> QED
      BY <2>2, <3>1, <3>3, <3>5
  <2> QED
    BY <2>1, <2>2
<1>6. ASSUME full PROVE X!Full(Append(f, p))
  <2> DEFINE g == Append(f, p)
             l == Len(f)
  <2>1. /\ Len(g) = l + 1 /\ g[l + 1] = p /\ l \in Nat /\ \A i \in 1 .. l : g[i] = f[i]
    BY <1>2, <1>3, Appended
  <2>2. X!Full(f) /\ (l # 0 => X!Chars(f[l]) + 1 + w > MaxChars)
    <3>1. l # 0 => f # <<>>
      OBVIOUS
    <3> QED
      BY <1>5, <1>6, <3>1
  <2> HIDE DEF f, g, p
  <2>3. ASSUME NEW i \in 1 .. Len(g) - 1 PROVE X!Chars(g[i]) + 1 + g[i + 1][1] > MaxChars
    <3>1. i \in 1 .. l
      BY <2>1
    <3>2. CASE i = l
      BY <1>2, <2>1, <2>2, <3>1, <3>2
    <3>3. CASE i # l
      <4>1. i \in 1 .. l - 1 /\ i + 1 \in 1 .. l
        BY <2>1, <3>1, <3>3
      <4>2. X!Chars(f[i]) + 1 + f[i + 1][1] > MaxChars
        BY <2>2, <4>1 DEF X!Full
      <4> QED
        BY <2>1, <3>1, <4>1, <4>2
    <3> QED
      BY <3>2, <3>3
  <2>4. X!Full(g)
    BY <2>3 DEF X!Full
  <2> QED
    BY <2>4 DEF g
<1>7. k + 1 # 0
  OBVIOUS
<1> HIDE DEF f, p
<1>8. Joins(f, p, s, k + 1, most, full)
  BY <1>2, <1>3, <1>4, <1>5, <1>6, <1>7 DEF Joins
<1> QED
  BY <1>8 DEF f, p

\* When the words are used up.
LEMMA JoinsAll ==
    ASSUME NEW d, NEW c, NEW s \in Seq(Nat), s # <<>>, NEW most \in Nat, NEW full \in BOOLEAN,
           Joins(d, c, s, Len(s), most, full), NEW f, f = Closed(d, c)
    PROVE  /\ Flat(f) = s /\ (full => X!Full(f))
           /\ \A i \in 1 .. Len(f) : X!Chars(f[i]) <= most \/ Len(f[i]) = 1
<1>1. Len(s) \in Nat /\ Len(s) # 0
  OBVIOUS
<1>2. /\ d \in Seq(Seq(Nat)) /\ c \in Seq(Nat) /\ c # <<>> /\ StartOf(Flat(d) \o c, s, Len(s))
      /\ \A i \in 1 .. Len(d) : X!Chars(d[i]) <= most \/ Len(d[i]) = 1
      /\ X!Chars(c) <= most \/ Len(c) = 1
      /\ full => X!Full(Append(d, c))
  BY <1>1 DEF Joins
<1>3. f = Append(d, c)
  BY <1>2 DEF Closed
<1>4. Flat(f) = s
  <2>1. Flat(f) = Flat(d) \o c
    BY <1>2, <1>3, FlatIs
  <2>2. Flat(f) \in Seq(Nat) /\ Len(Flat(f)) = Len(s) /\ \A i \in 1 .. Len(s) : Flat(f)[i] = s[i]
    BY <1>2, <2>1 DEF StartOf
  <2> QED
    BY <2>2, SeqEqual
<1>5. /\ Len(f) = Len(d) + 1 /\ f[Len(d) + 1] = c /\ Len(d) \in Nat
      /\ \A i \in 1 .. Len(d) : f[i] = d[i]
  BY <1>2, <1>3, Appended
<1>6. ASSUME NEW i \in 1 .. Len(f) PROVE X!Chars(f[i]) <= most \/ Len(f[i]) = 1
  <2>1. i \in 1 .. Len(d) \/ i = Len(d) + 1
    BY <1>5
  <2> QED
    BY <1>2, <1>5, <2>1
<1> QED
  BY <1>2, <1>3, <1>4, <1>6

LEMMA LimitIs == MaxChars \in Nat \ {0} /\ Texts \subseteq Seq(Seq(Nat))
BY ProductionAssumption DEF X!WrapAssumption

\* The word loop of subtitles, up to each word.
LEMMA WrapsWell ==
    ASSUME NEW s \in Seq(Nat), NEW n \in 0 .. Len(s)
    PROVE  \E d, c : /\ LeftOn("wrap", X!Begun, s, 1 .. n) = [done |-> d, current |-> c]
                    /\ Joins(d, c, s, n, MaxChars, TRUE)
<1> DEFINE Well(k) == \E d, c : /\ LeftOn("wrap", X!Begun, s, 1 .. k) = [done |-> d, current |-> c]
                               /\ Joins(d, c, s, k, MaxChars, TRUE)
           bad == {k \in Nat : k <= Len(s) /\ ~ Well(k)}
<1>0. Len(s) \in Nat
  OBVIOUS
<1> HIDE DEF Well
<1>1. SUFFICES ASSUME bad # {} PROVE FALSE
  <2>1. n \in Nat /\ n <= Len(s)
    BY <1>0
  <2>2. Well(n)
    BY <1>1, <2>1
  <2> QED
    BY <2>2 DEF Well
<1>2. PICK k \in bad : \A m \in bad : k <= m
  <2>1. bad \in SUBSET Nat
    OBVIOUS
  <2> HIDE DEF bad
  <2> QED
    BY <1>1, <2>1, Least
<1>3. k \in Nat /\ k <= Len(s) /\ ~ Well(k) /\ Len(s) \in Nat
  BY <1>0, <1>2
<1>4. CASE k = 0
  <2>1. 1 .. k = {} /\ LeftOn("wrap", X!Begun, s, {}) = X!Begun
    BY <1>4, LeftSteps
  <2>2. X!Begun = [done |-> <<>>, current |-> <<>>]
    BY DEF X!Begun
  <2>3. Joins(<<>>, <<>>, s, k, MaxChars, TRUE)
    BY <1>4 DEF Joins
  <2>4. Well(k)
    <3>1. 1 .. k = {}
      BY <1>4
    <3> QED
      BY <2>1, <2>2, <2>3, <3>1 DEF Well
  <2> QED
    BY <1>3, <2>4
<1>5. CASE k # 0
  <2>1. PICK j \in Nat : k = j + 1
    BY <1>3, <1>5
  <2>2. Well(j)
    <3>1. j \in Nat /\ j <= Len(s) /\ ~ k <= j
      BY <1>3, <2>1
    <3> QED
      BY <1>2, <3>1
  <2>3. PICK d, c : /\ LeftOn("wrap", X!Begun, s, 1 .. j) = [done |-> d, current |-> c]
                    /\ Joins(d, c, s, j, MaxChars, TRUE)
    BY <2>2 DEF Well
  <2> DEFINE w == s[j + 1]
             acc == [done |-> d, current |-> c]
  <2>4. w \in Nat
    BY <1>3, <2>1
  <2> HIDE DEF w, bad, Well
  <2>5. LeftOn("wrap", X!Begun, s, 1 .. k) = X!WrapWord(acc, w)
    <3>1. LeftOn("wrap", X!Begun, s, 1 .. j + 1) = Joined("wrap", LeftOn("wrap", X!Begun, s, 1 .. j), s[j + 1])
      BY LeftSteps
    <3> QED
      BY <2>1, <2>3, <3>1 DEF Joined, w
  <2>6. c \in Seq(Nat) /\ X!Chars(c) \in Nat /\ MaxChars \in Nat /\ X!Chars(<<>>) = 0
    BY <2>3, CharsIs, LimitIs DEF Joins
  <2>7. CASE X!Fits(c, w)
    <3>1. X!WrapWord(acc, w) = [done |-> d, current |-> Append(c, w)]
      BY <2>7 DEF X!WrapWord
    <3>2. X!Chars(c) + 1 + w <= MaxChars
      BY <2>4, <2>6, <2>7 DEF X!Fits
    <3>3. Joins(d, Append(c, w), s, j + 1, MaxChars, TRUE)
      BY <2>3, <2>4, <2>6, <3>2, JoinsMore DEF w
    <3>4. Well(k)
      BY <2>1, <2>5, <3>1, <3>3 DEF Well
    <3> QED
      BY <1>3, <3>4
  <2>8. CASE ~ X!Fits(c, w)
    <3>1. X!WrapWord(acc, w) = [done |-> Closed(d, c), current |-> <<w>>]
      BY <2>8 DEF X!WrapWord, X!Flush, Closed
    <3>2. X!Chars(c) + 1 + w > MaxChars
      BY <2>4, <2>6, <2>8 DEF X!Fits
    <3>3. Joins(Closed(d, c), <<w>>, s, j + 1, MaxChars, TRUE)
      BY <2>3, <2>4, <2>6, <3>2, JoinsNew DEF w
    <3>4. Well(k)
      BY <2>1, <2>5, <3>1, <3>3 DEF Well
    <3> QED
      BY <1>3, <3>4
  <2> QED
    BY <2>7, <2>8
<1> QED
  BY <1>4, <1>5

LEMMA WrappedIs ==
    ASSUME NEW s \in Seq(Nat)
    PROVE  /\ Flat(X!Wrapped(s)) = s /\ X!Full(X!Wrapped(s))
           /\ \A i \in 1 .. Len(X!Wrapped(s)) :
                  X!Chars(X!Wrapped(s)[i]) <= MaxChars \/ Len(X!Wrapped(s)[i]) = 1
<1>1. CASE X!Chars(s) <= MaxChars
  <2>1. X!Wrapped(s) = <<s>>
    BY <1>1 DEF X!Wrapped
  <2>2. Flat(<<s>>) = s
    BY DEF Flat, X!FlattenSeq
  <2>3. Len(<<s>>) = 1 /\ <<s>>[1] = s /\ 1 .. 1 - 1 = {}
    OBVIOUS
  <2> QED
    BY <1>1, <2>1, <2>2, <2>3 DEF X!Full
<1>2. CASE ~ X!Chars(s) <= MaxChars
  <2>1. s # <<>>
    BY <1>2, CharsIs, LimitIs
  <2>2. Len(s) \in 0 .. Len(s) /\ DOMAIN s = 1 .. Len(s)
    OBVIOUS
  <2>3. PICK d, c : /\ LeftOn("wrap", X!Begun, s, 1 .. Len(s)) = [done |-> d, current |-> c]
                    /\ Joins(d, c, s, Len(s), MaxChars, TRUE)
    BY <2>2, WrapsWell
  <2>4. X!Wrapped(s) = Closed(d, c)
    <3>1. X!FoldLeft(X!WrapWord, X!Begun, s) = [done |-> d, current |-> c]
      BY <2>2, <2>3, LeftFolds
    <3> QED
      BY <1>2, <3>1 DEF X!Wrapped, X!Flush, Closed
  <2> DEFINE f == X!Wrapped(s)
             full == TRUE
  <2>5. MaxChars \in Nat /\ full \in BOOLEAN
    BY LimitIs
  <2>6. f = Closed(d, c) /\ Joins(d, c, s, Len(s), MaxChars, full)
    BY <2>3, <2>4
  <2> HIDE DEF f, full
  <2>7. /\ Flat(f) = s /\ (full => X!Full(f))
        /\ \A i \in 1 .. Len(f) : X!Chars(f[i]) <= MaxChars \/ Len(f[i]) = 1
    BY <2>1, <2>5, <2>6, JoinsAll
  <2> QED
    BY <2>7 DEF f, full
<1> QED
  BY <1>1, <1>2

\* The sentence loop of TTSMaker, up to each sentence: the space in front that is
\* not stripped costs nothing, so a chunk is too long by one at most.
LEMMA ChunksWell ==
    ASSUME NEW s \in Seq(Nat), NEW n \in 0 .. Len(s), NEW b,
           b = [done |-> <<>>, current |-> <<>>, lead |-> 0]
    PROVE  \E d, c : \E l \in {0, 1} :
               /\ LeftOn("chunk", b, s, 1 .. n) = [done |-> d, current |-> c, lead |-> l]
               /\ Joins(d, c, s, n, MaxChars + 1, FALSE)
<1> DEFINE Well(k) == \E d, c : \E l \in {0, 1} :
                         /\ LeftOn("chunk", b, s, 1 .. k) = [done |-> d, current |-> c, lead |-> l]
                         /\ Joins(d, c, s, k, MaxChars + 1, FALSE)
           bad == {k \in Nat : k <= Len(s) /\ ~ Well(k)}
<1>0. Len(s) \in Nat
  OBVIOUS
<1> HIDE DEF Well
<1>1. SUFFICES ASSUME bad # {} PROVE FALSE
  <2>1. n \in Nat /\ n <= Len(s)
    BY <1>0
  <2>2. Well(n)
    BY <1>1, <2>1
  <2> QED
    BY <2>2 DEF Well
<1>2. PICK k \in bad : \A m \in bad : k <= m
  <2>1. bad \in SUBSET Nat
    OBVIOUS
  <2> HIDE DEF bad
  <2> QED
    BY <1>1, <2>1, Least
<1>3. k \in Nat /\ k <= Len(s) /\ ~ Well(k)
  BY <1>2
<1>4. CASE k = 0
  <2>1. 1 .. k = {} /\ LeftOn("chunk", b, s, {}) = b
    BY <1>4, LeftSteps
  <2>2. Joins(<<>>, <<>>, s, k, MaxChars + 1, FALSE)
    BY <1>4 DEF Joins
  <2> DEFINE l == 0
  <2>3. l \in {0, 1} /\ b = [done |-> <<>>, current |-> <<>>, lead |-> l]
    OBVIOUS
  <2> HIDE DEF l
  <2>4. Well(k)
    BY <2>1, <2>2, <2>3 DEF Well
  <2> QED
    BY <1>3, <2>4
<1>5. CASE k # 0
  <2>1. PICK j \in Nat : k = j + 1
    BY <1>3, <1>5
  <2>2. Well(j)
    <3>1. j \in Nat /\ j <= Len(s) /\ ~ k <= j
      BY <1>0, <1>3, <2>1
    <3> QED
      BY <1>2, <3>1
  <2>3. PICK d, c, l : /\ l \in {0, 1}
                       /\ LeftOn("chunk", b, s, 1 .. j) = [done |-> d, current |-> c, lead |-> l]
                       /\ Joins(d, c, s, j, MaxChars + 1, FALSE)
    BY <2>2 DEF Well
  <2> DEFINE w == s[j + 1]
             acc == [done |-> d, current |-> c, lead |-> l]
             most == MaxChars + 1
  <2>4. w \in Nat /\ MaxChars \in Nat /\ most \in Nat /\ FALSE \in BOOLEAN
    BY <1>0, <1>3, <2>1, LimitIs
  <2>5. Joins(d, c, s, j, most, FALSE)
    BY <2>3
  <2>6. most = MaxChars + 1
    OBVIOUS
  <2> HIDE DEF w, bad, most
  <2>7. LeftOn("chunk", b, s, 1 .. k) = X!ChunkSentence(acc, w)
    <3>1. LeftOn("chunk", b, s, 1 .. j + 1) = Joined("chunk", LeftOn("chunk", b, s, 1 .. j), s[j + 1])
      BY LeftSteps
    <3> QED
      BY <2>1, <2>3, <3>1 DEF Joined, w
  <2>8. c \in Seq(Nat) /\ X!Chars(c) \in Nat /\ s[j + 1] = w
    BY <2>5, CharsIs DEF Joins, w
  <2>9. CASE X!Chars(c) + l + w > MaxChars
    <3>1. X!ChunkSentence(acc, w) = [done |-> Closed(d, c), current |-> <<w>>, lead |-> 0]
      BY <2>9 DEF X!ChunkSentence, X!Flush, Closed
    <3>2. Joins(Closed(d, c), <<w>>, s, j + 1, most, FALSE)
      BY <2>4, <2>5, <2>8, JoinsNew
    <3>3. Well(k)
      BY <2>1, <2>7, <3>1, <3>2 DEF Well, most
    <3> QED
      BY <1>3, <3>3
  <2>10. CASE ~ X!Chars(c) + l + w > MaxChars
    <3> DEFINE m == IF c = <<>> THEN 1 ELSE l
    <3>1. X!ChunkSentence(acc, w) = [done |-> d, current |-> Append(c, w), lead |-> m]
      BY <2>10 DEF X!ChunkSentence
    <3>2. X!Chars(c) + 1 + w <= most
      BY <2>3, <2>4, <2>6, <2>8, <2>10
    <3>3. Joins(d, Append(c, w), s, j + 1, most, FALSE)
      BY <2>4, <2>5, <2>8, <3>2, JoinsMore
    <3>4. m \in {0, 1}
      BY <2>3
    <3> HIDE DEF m
    <3>5. Well(k)
      BY <2>1, <2>7, <3>1, <3>3, <3>4 DEF Well, most
    <3> QED
      BY <1>3, <3>5
  <2> QED
    BY <2>9, <2>10
<1> QED
  BY <1>4, <1>5

LEMMA ChunkedIs ==
    ASSUME NEW s \in Seq(Nat)
    PROVE  /\ Flat(X!ChunkText(s)) = s
           /\ \A i \in 1 .. Len(X!ChunkText(s)) :
                  X!Chars(X!ChunkText(s)[i]) <= MaxChars + 1 \/ Len(X!ChunkText(s)[i]) = 1
<1>1. CASE X!Chars(s) <= MaxChars
  <2>1. X!ChunkText(s) = <<s>>
    BY <1>1 DEF X!ChunkText
  <2>2. Flat(<<s>>) = s
    BY DEF Flat, X!FlattenSeq
  <2>3. Len(<<s>>) = 1 /\ <<s>>[1] = s
    OBVIOUS
  <2>4. X!Chars(s) <= MaxChars + 1
    BY <1>1, CharsIs, LimitIs
  <2> QED
    BY <2>1, <2>2, <2>3, <2>4
<1>2. CASE ~ X!Chars(s) <= MaxChars
  <2>1. s # <<>>
    BY <1>2, CharsIs, LimitIs
  <2>2. Len(s) \in 0 .. Len(s) /\ DOMAIN s = 1 .. Len(s)
    OBVIOUS
  <2> DEFINE b == [done |-> <<>>, current |-> <<>>, lead |-> 0]
  <2>3. PICK d, c, l : /\ LeftOn("chunk", b, s, 1 .. Len(s)) = [done |-> d, current |-> c, lead |-> l]
                       /\ Joins(d, c, s, Len(s), MaxChars + 1, FALSE)
    BY <2>2, ChunksWell
  <2>4. X!ChunkText(s) = Closed(d, c)
    <3>1. X!FoldLeft(X!ChunkSentence, b, s) = [done |-> d, current |-> c, lead |-> l]
      BY <2>2, <2>3, LeftFolds
    <3> QED
      BY <1>2, <3>1 DEF X!ChunkText, X!Flush, Closed
  <2> DEFINE f == X!ChunkText(s)
             most == MaxChars + 1
             full == FALSE
  <2>5. most \in Nat /\ full \in BOOLEAN
    BY LimitIs
  <2>6. f = Closed(d, c) /\ Joins(d, c, s, Len(s), most, full)
    BY <2>3, <2>4
  <2> HIDE DEF f, most, full
  <2>7. Flat(f) = s /\ \A i \in 1 .. Len(f) : X!Chars(f[i]) <= most \/ Len(f[i]) = 1
    BY <2>1, <2>5, <2>6, JoinsAll
  <2> QED
    BY <2>7 DEF f, most
<1> QED
  BY <1>1, <1>2

\* The pieces done and the current one have all the characters, none is too long.
Cuts(d, c, n) ==
    /\ d \in Seq(Seq(Nat)) /\ c \in Seq(Nat)
    /\ Total(Flat(d)) + Total(c) = n
    /\ \A i \in 1 .. Len(d) : X!Chars(d[i]) <= MaxChars
    /\ X!Chars(c) <= MaxChars

LEMMA NothingIs == Total(<<>>) = 0 /\ X!Chars(<<>>) = 0 /\ <<>> \in Seq(Nat) /\ 0 <= MaxChars
<1>1. <<>> \in Seq(Nat)
  OBVIOUS
<1>2. Total(<<>>) = 0
  BY <1>1, TotalGrows
<1>3. X!Chars(<<>>) = 0
  BY <1>1, CharsIs
<1>4. 0 <= MaxChars
  BY LimitIs
<1> QED
  BY <1>1, <1>2, <1>3, <1>4

LEMMA CutsClosed ==
    \A d, c : \A n \in Nat : Cuts(d, c, n) => Cuts(Closed(d, c), <<>>, n)
<1> SUFFICES ASSUME NEW d, NEW c, NEW n \in Nat, Cuts(d, c, n) PROVE Cuts(Closed(d, c), <<>>, n)
  OBVIOUS
<1>1. Total(<<>>) = 0 /\ X!Chars(<<>>) = 0 /\ <<>> \in Seq(Nat) /\ 0 <= MaxChars
  BY NothingIs
<1>2. CASE c = <<>>
  BY <1>1, <1>2 DEF Cuts, Closed
<1>3. CASE c # <<>>
  <2> DEFINE f == Append(d, c)
  <2>1. d \in Seq(Seq(Nat)) /\ c \in Seq(Nat) /\ Flat(d) \in Seq(Nat) /\ Total(Flat(d)) + Total(c) = n
    BY FlatIs DEF Cuts
  <2>2. /\ f \in Seq(Seq(Nat)) /\ Len(f) = Len(d) + 1 /\ f[Len(d) + 1] = c /\ Len(d) \in Nat
        /\ \A i \in 1 .. Len(d) : f[i] = d[i]
    BY <2>1, Appended
  <2>3. Total(Flat(f)) = n
    <3>1. Flat(f) = Flat(d) \o c
      BY <2>1, FlatIs
    <3> QED
      BY <2>1, <3>1, TotalOfBoth
  <2> HIDE DEF f
  <2>4. \A i \in 1 .. Len(f) : X!Chars(f[i]) <= MaxChars
    <3>1. \A i \in 1 .. Len(f) : i \in 1 .. Len(d) \/ i = Len(d) + 1
      BY <2>2
    <3> QED
      BY <2>2, <3>1 DEF Cuts
  <2>5. Cuts(f, <<>>, n)
    BY <1>1, <2>2, <2>3, <2>4 DEF Cuts
  <2> QED
    BY <1>3, <2>5 DEF Closed, f
<1> QED
  BY <1>2, <1>3

\* One more sentence in the current chunk.
LEMMA CutsMore ==
    \A d, c : \A n, w \in Nat :
        Cuts(d, c, n) /\ (IF c = <<>> THEN w <= MaxChars ELSE X!Chars(c) + 1 + w <= MaxChars)
            => Cuts(d, Append(c, w), n + w)
<1> SUFFICES ASSUME NEW d, NEW c, NEW n \in Nat, NEW w \in Nat, Cuts(d, c, n),
                    IF c = <<>> THEN w <= MaxChars ELSE X!Chars(c) + 1 + w <= MaxChars
             PROVE  Cuts(d, Append(c, w), n + w)
  OBVIOUS
<1>1. d \in Seq(Seq(Nat)) /\ c \in Seq(Nat) /\ Flat(d) \in Seq(Nat)
  BY FlatIs DEF Cuts
<1>2. Append(c, w) \in Seq(Nat) /\ Total(Append(c, w)) = Total(c) + w
  <2>1. Append(c, w) \in Seq(Nat)
    BY <1>1
  <2>2. Total(Append(c, w)) = Total(c) + w
    BY <1>1, TotalGrows
  <2> QED
    BY <2>1, <2>2
<1>3. Total(c) \in Nat /\ Total(Flat(d)) \in Nat
  BY <1>1, TotalGrows
<1>4. X!Chars(Append(c, w)) <= MaxChars
  BY <1>1, CharsIs
<1>5. Total(Flat(d)) + (Total(c) + w) = n + w
  <2> DEFINE x == Total(Flat(d))
             y == Total(c)
  <2>1. x \in Nat /\ y \in Nat /\ x + y = n
    BY <1>3 DEF Cuts
  <2> HIDE DEF x, y
  <2>2. x + (y + w) = n + w
    BY <2>1
  <2> QED
    BY <2>2 DEF x, y
<1> QED
  BY <1>1, <1>2, <1>4, <1>5 DEF Cuts

\* What a hard cut does: all pieces are full but the last.
LEMMA HardIs ==
    ASSUME NEW n \in Nat
    PROVE  LET N == (n + MaxChars - 1) \div MaxChars
               h == X!HardSplit(n)
           IN  /\ N \in Nat /\ n <= N * MaxChars /\ (N # 0 => (N - 1) * MaxChars < n)
               /\ h \in Seq(Seq(Nat)) /\ Len(h) = N
               /\ \A i \in 1 .. N :
                     \E x \in 0 .. MaxChars :
                        /\ h[i] = <<x>>
                        /\ x = IF i * MaxChars <= n THEN MaxChars ELSE n - (i - 1) * MaxChars
<1> DEFINE M == MaxChars
           N == (n + M - 1) \div M
           h == X!HardSplit(n)
<1>1. M \in Nat \ {0} /\ n + M - 1 \in Nat
  BY LimitIs
<1>2. N \in Nat /\ M * N <= n + M - 1 /\ n + M - 1 < M * N + M
  <2> DEFINE x == n + M - 1
  <2>1. x \in Nat /\ N = x \div M
    BY <1>1
  <2> HIDE DEF x, M
  <2>2. x \div M \in Nat /\ M * (x \div M) <= x /\ x < M * (x \div M) + M
    BY <1>1, <2>1, DivIs
  <2>3. N \in Nat /\ M * N <= x /\ x < M * N + M
    BY <2>1, <2>2
  <2> QED
    BY <2>3 DEF x
<1>3. h = [i \in 1 .. N |-> IF i * M <= n THEN <<M>> ELSE <<n % M>>]
  BY DEF X!HardSplit
<1> HIDE DEF N, h
<1>4. M * N \in Nat /\ M * N = N * M /\ (N # 0 => (N - 1) * M = M * N - M)
  <2> HIDE DEF M
  <2> QED
    BY <1>1, <1>2
<1>5. n <= N * M /\ (N # 0 => (N - 1) * M < n)
  <2> HIDE DEF M
  <2> QED
    BY <1>1, <1>2, <1>4
<1>6. n % M \in 0 .. M
  <2> HIDE DEF M
  <2> QED
    BY <1>1
<1>7. h \in Seq(Seq(Nat)) /\ Len(h) = N
  <2> HIDE DEF M
  <2>1. <<M>> \in Seq(Nat) /\ <<n % M>> \in Seq(Nat)
    BY <1>1, <1>6
  <2> QED
    BY <1>2, <1>3, <2>1
<1>8. ASSUME NEW i \in 1 .. N
      PROVE  \E x \in 0 .. M : /\ h[i] = <<x>>
                               /\ x = IF i * M <= n THEN M ELSE n - (i - 1) * M
  <2>1. CASE i * M <= n
    <3>1. h[i] = <<M>> /\ M \in 0 .. M
      BY <1>1, <1>3, <2>1
    <3> QED
      BY <2>1, <3>1
  <2>2. CASE ~ i * M <= n
    <3>1. h[i] = <<n % M>>
      BY <1>3, <2>2
    <3>2. n % M = n - (i - 1) * M
      <4> DEFINE q == n \div M
      <4>1. q \in Nat /\ M * q <= n /\ n < M * q + M /\ n % M = n - M * q
        <5> HIDE DEF M
        <5>1. q \in Nat /\ M * q <= n /\ n < M * q + M
          BY <1>1, DivIs
        <5>2. n = M * q + (n % M) /\ n % M \in Nat /\ M * q \in Nat
          BY <1>1
        <5> QED
          BY <5>1, <5>2
      <4> HIDE DEF M, q
      <4>2. i \in Nat \ {0} /\ i - 1 \in Nat /\ i - 1 <= N - 1 /\ N # 0
        BY <1>2
      <4>3. M * (i - 1) <= M * (N - 1) /\ M * (N - 1) = (N - 1) * M /\ M * (i - 1) = (i - 1) * M
        <5>1. N - 1 \in Int /\ i - 1 \in Int /\ M \in Nat
          BY <1>1, <1>2, <4>2
        <5>2. M * (i - 1) <= M * (N - 1)
          BY <4>2, <5>1, ProductsOrdered
        <5>3. \A a, b \in Int : a * b = b * a
          OBVIOUS
        <5> QED
          BY <1>1, <5>1, <5>2, <5>3
      <4>4. M * (i - 1) <= n /\ n < M * i /\ M * i = M * (i - 1) + M
        <5>1. M * (i - 1) \in Int /\ (N - 1) * M \in Int /\ M * i = M * (i - 1) + M /\ M * i = i * M /\ i * M \in Int
          BY <1>1, <1>2, <4>2
        <5> QED
          BY <1>5, <2>2, <4>2, <4>3, <5>1
      <4>5. M * (i - 1) < M * (q + 1) /\ M * q < M * i
        <5>1. M * (q + 1) = M * q + M /\ M * q \in Int /\ M * (i - 1) \in Int /\ M * i \in Int
          BY <1>1, <4>1, <4>2
        <5>2. M * q < M * i
          BY <4>1, <4>4, <5>1
        <5>3. M * (i - 1) < M * q + M
          <6> DEFINE x == M * (i - 1)
                     y == M * q
          <6>1. x \in Int /\ y \in Int /\ M \in Int /\ x <= n /\ n < y + M
            BY <1>1, <4>1, <4>4, <5>1
          <6> HIDE DEF x, y
          <6>2. x < y + M
            BY <6>1
          <6> QED
            BY <6>2 DEF x, y
        <5> QED
          BY <5>1, <5>2, <5>3
      <4>6. i - 1 < q + 1 /\ q < i
        <5>1. M \in Nat \ {0} /\ i - 1 \in Int /\ q + 1 \in Int /\ q \in Int /\ i \in Int
          BY <1>1, <4>1, <4>2
        <5> QED
          BY <4>5, <5>1, Cancel
      <4>7. q = i - 1
        BY <4>1, <4>2, <4>6
      <4> QED
        BY <4>1, <4>3, <4>7
    <3> QED
      BY <1>6, <2>2, <3>1, <3>2
  <2> QED
    BY <2>1, <2>2
<1> QED
  BY <1>2, <1>5, <1>7, <1>8 DEF N, h

LEMMA BothParts ==
    \A p, q \in Seq(Seq(Nat)) :
        /\ p \o q \in Seq(Seq(Nat)) /\ Len(p) \in Nat /\ Len(p \o q) = Len(p) + Len(q)
        /\ \A i \in 1 .. Len(p) : (p \o q)[i] = p[i]
        /\ \A i \in 1 .. Len(q) : (p \o q)[Len(p) + i] = q[i]
<1> TAKE p, q \in Seq(Seq(Nat))
<1> DEFINE D == Seq(Nat)
<1>1. p \in Seq(D) /\ q \in Seq(D)
  OBVIOUS
<1> HIDE DEF D
<1>2. /\ p \o q \in Seq(D) /\ Len(p) \in Nat /\ Len(p \o q) = Len(p) + Len(q)
      /\ \A i \in 1 .. Len(p) : (p \o q)[i] = p[i]
      /\ \A i \in 1 .. Len(q) : (p \o q)[Len(p) + i] = q[i]
  BY <1>1
<1> QED
  BY <1>2 DEF D

LEMMA CutsHard ==
    \A d : \A m, n \in Nat : Cuts(d, <<>>, m) => Cuts(d \o X!HardSplit(n), <<>>, m + n)
<1> SUFFICES ASSUME NEW d, NEW m \in Nat, NEW n \in Nat, Cuts(d, <<>>, m)
             PROVE  Cuts(d \o X!HardSplit(n), <<>>, m + n)
  OBVIOUS
<1> DEFINE M == MaxChars
           N == (n + M - 1) \div M
           h == X!HardSplit(n)
           z == d \o h
           l == Len(d)
           Upto(k) == [i \in 1 .. l + k |-> z[i]]
           Sum(k) == IF k * M <= n THEN k * M ELSE n
           At(k) == Upto(k) \in Seq(Seq(Nat)) /\ Total(Flat(Upto(k))) = m + Sum(k)
           bad == {k \in Nat : k <= N /\ ~ At(k)}
<1>1. /\ N \in Nat /\ n <= N * M /\ (N # 0 => (N - 1) * M < n)
      /\ h \in Seq(Seq(Nat)) /\ Len(h) = N
      /\ \A i \in 1 .. N : \E x \in 0 .. M : h[i] = <<x>> /\ x = IF i * M <= n THEN M ELSE n - (i - 1) * M
  BY HardIs
<1>2. M \in Nat \ {0}
  BY LimitIs
<1>3. d \in Seq(Seq(Nat)) /\ Total(Flat(d)) = m /\ \A i \in 1 .. l : X!Chars(d[i]) <= M
  <2>1. Total(<<>>) = 0
    BY TotalGrows DEF Cuts
  <2>2. d \in Seq(Seq(Nat)) /\ Total(Flat(d)) \in Nat
    BY FlatIs, TotalGrows DEF Cuts
  <2> QED
    BY <2>1, <2>2 DEF Cuts
<1> HIDE DEF M, N, h
<1>4. /\ z \in Seq(Seq(Nat)) /\ l \in Nat /\ Len(z) = l + N
      /\ \A i \in 1 .. l : z[i] = d[i]
      /\ \A i \in 1 .. N : z[l + i] = h[i]
  <2>1. d \in Seq(Seq(Nat)) /\ h \in Seq(Seq(Nat)) /\ Len(h) = N
    BY <1>1, <1>3
  <2>2. /\ d \o h \in Seq(Seq(Nat)) /\ Len(d) \in Nat /\ Len(d \o h) = Len(d) + Len(h)
        /\ \A i \in 1 .. Len(d) : (d \o h)[i] = d[i]
        /\ \A i \in 1 .. Len(h) : (d \o h)[Len(d) + i] = h[i]
    BY <2>1, BothParts
  <2> QED
    BY <2>1, <2>2
<1> HIDE DEF z, l
<1>5. bad = {}
  <2>1. SUFFICES ASSUME bad # {} PROVE FALSE
    OBVIOUS
  <2>2. PICK k \in bad : \A j \in bad : k <= j
    <3>1. bad \in SUBSET Nat
      OBVIOUS
    <3> HIDE DEF bad
    <3> QED
      BY <2>1, <3>1, Least
  <2>3. k \in Nat /\ k <= N /\ ~ At(k)
    BY <2>2
  <2>4. CASE k = 0
    <3>1. Upto(k) = d
      <4>1. Upto(k) \in Seq(Seq(Nat)) /\ Len(Upto(k)) = l /\ \A i \in 1 .. l : Upto(k)[i] = d[i]
        <5>1. l + k = l
          BY <1>4, <2>4
        <5>2. \A i \in 1 .. l : z[i] \in Seq(Nat)
          <6>1. \A i \in 1 .. l : d[i] \in Seq(Nat)
            BY <1>3 DEF l
          <6> QED
            BY <1>4, <6>1
        <5> QED
          BY <1>4, <5>1, <5>2
      <4> HIDE DEF Upto
      <4> QED
        BY <1>3, <4>1, SeqEqual DEF l
    <3>2. Sum(k) = 0
      <4>1. 0 * M = 0
        BY <1>2
      <4> QED
        BY <2>4, <4>1
    <3>3. At(k)
      <4>1. m + 0 = m
        OBVIOUS
      <4> HIDE DEF Upto, Sum
      <4> QED
        BY <1>3, <3>1, <3>2, <4>1
    <3> QED
      BY <2>3, <3>3
  <2>5. CASE k # 0
    <3>1. PICK j \in Nat : k = j + 1
      BY <2>3, <2>5
    <3>2. At(j)
      <4>1. j <= N /\ ~ k <= j
        BY <1>1, <2>3, <3>1
      <4> HIDE DEF At
      <4> QED
        BY <2>2, <4>1
    <3>3. k \in 1 .. N
      BY <1>1, <2>3, <3>1
    <3>4. PICK x \in 0 .. M : h[k] = <<x>> /\ x = IF k * M <= n THEN M ELSE n - (k - 1) * M
      BY <1>1, <3>3
    <3> DEFINE q == Upto(j)
               t == Upto(k)
               p == <<x>>
    <3>5. x \in Nat /\ p \in Seq(Nat) /\ p = Append(<<>>, x) /\ <<>> \in Seq(Nat)
      BY <1>2
    <3>6. t = Append(q, p)
      <4>1. q \in Seq(Seq(Nat)) /\ Len(q) = l + j /\ \A i \in 1 .. l + j : q[i] = z[i]
        BY <1>4, <3>2
      <4>2. z[l + k] = p /\ l + k = (l + j) + 1 /\ l + j \in Nat
        BY <1>4, <3>1, <3>3, <3>4
      <4>3. t = [i \in 1 .. (l + j) + 1 |-> z[i]]
        BY <4>2
      <4> HIDE DEF q, t, p
      <4>4. /\ Append(q, p) \in Seq(Seq(Nat)) /\ Len(Append(q, p)) = (l + j) + 1
            /\ Append(q, p)[(l + j) + 1] = p
            /\ \A i \in 1 .. l + j : Append(q, p)[i] = z[i]
        <5>1. p \in Seq(Nat)
          BY <3>5
        <5>2. /\ Append(q, p) \in Seq(Seq(Nat)) /\ Len(Append(q, p)) = Len(q) + 1
              /\ Append(q, p)[Len(q) + 1] = p
              /\ \A i \in 1 .. Len(q) : Append(q, p)[i] = q[i]
          BY <4>1, <5>1, Appended
        <5> QED
          BY <4>1, <5>2
      <4> DEFINE g == Append(q, p)
                 len == l + j
      <4>5. \A i \in 1 .. len + 1 : g[i] = z[i]
        <5>1. \A i \in 1 .. len + 1 : i \in 1 .. len \/ i = len + 1
          BY <4>2
        <5>2. z[len + 1] = p
          BY <4>2
        <5> QED
          BY <4>4, <5>1, <5>2
      <4>6. g = [i \in 1 .. len + 1 |-> g[i]]
        <5>1. g \in Seq(Seq(Nat)) /\ Len(g) = len + 1
          BY <4>4
        <5> HIDE DEF g, len
        <5> QED
          BY <5>1
      <4>7. g = [i \in 1 .. len + 1 |-> z[i]]
        <5> HIDE DEF g, len
        <5> QED
          BY <4>5, <4>6
      <4> QED
        BY <4>3, <4>7
    <3>7. q \in Seq(Seq(Nat)) /\ Total(Flat(q)) = m + Sum(j)
      BY <3>2
    <3> HIDE DEF q, t, p
    <3>8. Total(p) = x
      <4>1. Total(Append(<<>>, x)) = Total(<<>>) + x /\ Total(<<>>) = 0
        BY <3>5, TotalGrows
      <4> QED
        BY <3>5, <4>1
    <3>9. t \in Seq(Seq(Nat)) /\ Total(Flat(t)) = m + Sum(j) + x
      <4>1. Flat(q) \in Seq(Nat) /\ Flat(t) = Flat(q) \o p
        BY <3>5, <3>6, <3>7, FlatIs
      <4>2. Total(Flat(t)) = Total(Flat(q)) + Total(p)
        BY <3>5, <4>1, TotalOfBoth
      <4>3. t \in Seq(Seq(Nat))
        BY <3>5, <3>6, <3>7
      <4> QED
        BY <3>7, <3>8, <4>2, <4>3
    <3>10. Sum(k) = Sum(j) + x /\ Sum(j) \in Int
      <4>1. j * M \in Nat /\ k * M = j * M + M /\ k - 1 = j
        BY <1>2, <3>1
      <4>2. j * M <= n
        <5>1. M * j <= M * (N - 1)
          <6>1. j \in Int /\ N - 1 \in Int /\ j <= N - 1
            BY <1>1, <2>3, <3>1
          <6> QED
            BY <1>2, <6>1, ProductsOrdered
        <5>2. \A a, b \in Int : a * b = b * a /\ a * b \in Int
          OBVIOUS
        <5>3. j * M <= (N - 1) * M /\ N # 0 /\ (N - 1) * M \in Int
          BY <1>1, <1>2, <2>3, <3>1, <5>1, <5>2
        <5> QED
          BY <1>1, <4>1, <5>3
      <4> QED
        BY <1>2, <3>4, <4>1, <4>2
    <3>11. At(k)
      <4>1. m + Sum(j) + x = m + Sum(k)
        BY <3>5, <3>10
      <4> HIDE DEF Sum
      <4> QED
        BY <3>9, <4>1 DEF t
    <3> QED
      BY <2>3, <3>11
  <2> QED
    BY <2>4, <2>5
<1>6. z = Upto(N) /\ Total(Flat(z)) = m + n
  <2>1. z = [i \in 1 .. l + N |-> z[i]]
    BY <1>4
  <2>2. At(N)
    BY <1>1, <1>5
  <2>3. Sum(N) = n
    <3>1. N * M \in Nat
      BY <1>1, <1>2
    <3> QED
      BY <1>1, <3>1
  <2> HIDE DEF Sum
  <2> QED
    BY <2>1, <2>2, <2>3
<1>7. ASSUME NEW i \in 1 .. Len(z) PROVE X!Chars(z[i]) <= M
  <2>1. CASE i \in 1 .. l
    BY <1>3, <1>4, <2>1
  <2>2. CASE i \notin 1 .. l
    <3>1. PICK j \in 1 .. N : i = l + j
      <4>1. i - l \in 1 .. N /\ i = l + (i - l)
        BY <1>1, <1>4, <2>2
      <4> QED
        BY <4>1
    <3>2. PICK x \in 0 .. M : h[j] = <<x>>
      BY <1>1
    <3>3. X!Chars(<<x>>) = x
      <4>1. x \in Nat /\ <<>> \in Seq(Nat)
        BY <1>2
      <4> QED
        BY <4>1, CharsIs
    <3>4. z[i] = <<x>>
      BY <1>4, <3>1, <3>2
    <3>5. x <= M
      BY <1>2
    <3> QED
      BY <3>3, <3>4, <3>5
  <2> QED
    BY <2>1, <2>2
<1>8. Total(<<>>) = 0 /\ X!Chars(<<>>) = 0 /\ <<>> \in Seq(Nat) /\ 0 <= M
  BY NothingIs DEF M
<1>9. Cuts(z, <<>>, m + n)
  BY <1>4, <1>6, <1>7, <1>8 DEF Cuts, M
<1> QED
  BY <1>9 DEF z, h

\* The sentence loop of edge-tts, up to each sentence.
LEMMA SplitsWell ==
    ASSUME NEW s \in Seq(Nat), NEW n \in 0 .. Len(s)
    PROVE  \E d, c : /\ LeftOn("split", X!Begun, s, 1 .. n) = [done |-> d, current |-> c]
                    /\ Cuts(d, c, LeftOn("sum", 0, s, 1 .. n))
<1> DEFINE Well(k) == \E d, c : /\ LeftOn("split", X!Begun, s, 1 .. k) = [done |-> d, current |-> c]
                               /\ Cuts(d, c, LeftOn("sum", 0, s, 1 .. k))
           bad == {k \in Nat : k <= Len(s) /\ ~ Well(k)}
<1>0. Len(s) \in Nat /\ \A i \in 1 .. Len(s) : s[i] \in Nat
  OBVIOUS
<1> HIDE DEF Well
<1>1. SUFFICES ASSUME bad # {} PROVE FALSE
  <2>1. n \in Nat /\ n <= Len(s)
    BY <1>0
  <2>2. Well(n)
    BY <1>1, <2>1
  <2> QED
    BY <2>2 DEF Well
<1>2. PICK k \in bad : \A m \in bad : k <= m
  <2>1. bad \in SUBSET Nat
    OBVIOUS
  <2> HIDE DEF bad
  <2> QED
    BY <1>1, <2>1, Least
<1>3. k \in Nat /\ k <= Len(s) /\ ~ Well(k)
  BY <1>2
<1>4. CASE k = 0
  <2>1. /\ 1 .. k = {} /\ LeftOn("split", X!Begun, s, {}) = X!Begun
        /\ LeftOn("sum", 0, s, {}) = 0
    BY <1>4, LeftSteps
  <2>2. X!Begun = [done |-> <<>>, current |-> <<>>]
    BY DEF X!Begun
  <2>3. Cuts(<<>>, <<>>, 0)
    <3>1. <<>> \in Seq(Nat) /\ <<>> \in Seq(Seq(Nat)) /\ Len(<<>>) = 0 /\ 1 .. 0 = {}
      OBVIOUS
    <3>2. Flat(<<>>) = <<>> /\ Total(<<>>) = 0 /\ X!Chars(<<>>) = 0
      BY <3>1, FlatIs, TotalGrows, CharsIs
    <3> QED
      BY <3>1, <3>2, LimitIs DEF Cuts
  <2>4. Well(k)
    BY <2>1, <2>2, <2>3 DEF Well
  <2> QED
    BY <1>3, <2>4
<1>5. CASE k # 0
  <2>1. PICK j \in Nat : k = j + 1
    BY <1>3, <1>5
  <2>2. Well(j)
    <3>1. j \in Nat /\ j <= Len(s) /\ ~ k <= j
      BY <1>0, <1>3, <2>1
    <3> QED
      BY <1>2, <3>1
  <2> DEFINE sum == LeftOn("sum", 0, s, 1 .. j)
             w == s[j + 1]
  <2>3. PICK d, c : /\ LeftOn("split", X!Begun, s, 1 .. j) = [done |-> d, current |-> c]
                    /\ Cuts(d, c, sum)
    BY <2>2 DEF Well
  <2> DEFINE acc == [done |-> d, current |-> c]
  <2>4. w \in Nat /\ MaxChars \in Nat \ {0} /\ sum \in Nat
    <3>1. w \in Nat /\ \A i \in 1 .. j : s[i] \in Nat
      BY <1>0, <1>3, <2>1
    <3> QED
      BY <3>1, PrefixNat, LimitIs
  <2>5. LeftOn("sum", 0, s, 1 .. k) = sum + w
    BY <2>1, SumSteps
  <2> HIDE DEF w, bad, sum
  <2>6. LeftOn("split", X!Begun, s, 1 .. k) = X!SplitSentence(acc, w)
    <3>1. LeftOn("split", X!Begun, s, 1 .. j + 1) = Joined("split", LeftOn("split", X!Begun, s, 1 .. j), s[j + 1])
      BY LeftSteps
    <3> QED
      BY <2>1, <2>3, <3>1 DEF Joined, w
  <2>7. c \in Seq(Nat) /\ X!Chars(c) \in Nat /\ X!Chars(<<>>) = 0 /\ Append(<<>>, w) = <<w>>
    BY <2>3, CharsIs DEF Cuts
  <2>8. Cuts(Closed(d, c), <<>>, sum)
    BY <2>3, <2>4, CutsClosed
  <2>9. CASE X!Fits(c, w)
    <3>1. X!SplitSentence(acc, w) = [done |-> d, current |-> Append(c, w)]
      BY <2>9 DEF X!SplitSentence
    <3>2. IF c = <<>> THEN w <= MaxChars ELSE X!Chars(c) + 1 + w <= MaxChars
      BY <2>4, <2>7, <2>9 DEF X!Fits
    <3>3. Cuts(d, Append(c, w), sum + w)
      BY <2>3, <2>4, <3>2, CutsMore
    <3>4. Well(k)
      BY <2>5, <2>6, <3>1, <3>3 DEF Well
    <3> QED
      BY <1>3, <3>4
  <2>10. CASE ~ X!Fits(c, w) /\ w > MaxChars
    <3>1. X!SplitSentence(acc, w) = [done |-> Closed(d, c) \o X!HardSplit(w), current |-> <<>>]
      BY <2>10 DEF X!SplitSentence, X!Flush, Closed
    <3>2. Cuts(Closed(d, c) \o X!HardSplit(w), <<>>, sum + w)
      BY <2>4, <2>8, CutsHard
    <3>3. Well(k)
      BY <2>5, <2>6, <3>1, <3>2 DEF Well
    <3> QED
      BY <1>3, <3>3
  <2>11. CASE ~ X!Fits(c, w) /\ ~ w > MaxChars
    <3>1. X!SplitSentence(acc, w) = [done |-> Closed(d, c), current |-> <<w>>]
      BY <2>11 DEF X!SplitSentence, X!Flush, Closed
    <3>2. w <= MaxChars
      BY <2>4, <2>11
    <3>3. Cuts(Closed(d, c), Append(<<>>, w), sum + w)
      BY <2>4, <2>8, <3>2, CutsMore
    <3>4. Well(k)
      BY <2>5, <2>6, <2>7, <3>1, <3>3 DEF Well
    <3> QED
      BY <1>3, <3>4
  <2> QED
    BY <2>9, <2>10, <2>11
<1> QED
  BY <1>4, <1>5

LEMMA SplitIs ==
    ASSUME NEW s \in Seq(Nat)
    PROVE  /\ X!FoldLeft(+, 0, Flat(X!SplitText(s))) = X!FoldLeft(+, 0, s)
           /\ \A i \in 1 .. Len(X!SplitText(s)) : X!Chars(X!SplitText(s)[i]) <= MaxChars
<1>1. CASE X!Chars(s) <= MaxChars
  <2>1. X!SplitText(s) = <<s>>
    BY <1>1 DEF X!SplitText
  <2>2. Flat(<<s>>) = s
    BY DEF Flat, X!FlattenSeq
  <2> DEFINE f == X!SplitText(s)
  <2>3. Len(f) = 1 /\ f[1] = s /\ Flat(f) = s
    BY <2>1, <2>2
  <2> HIDE DEF f
  <2>4. \A i \in 1 .. Len(f) : X!Chars(f[i]) <= MaxChars
    <3>1. \A i \in 1 .. 1 : i = 1
      OBVIOUS
    <3> QED
      BY <1>1, <2>3, <3>1
  <2> QED
    BY <2>3, <2>4 DEF f
<1>2. CASE ~ X!Chars(s) <= MaxChars
  <2>1. Len(s) \in 0 .. Len(s) /\ DOMAIN s = 1 .. Len(s)
    OBVIOUS
  <2>2. PICK d, c : /\ LeftOn("split", X!Begun, s, 1 .. Len(s)) = [done |-> d, current |-> c]
                    /\ Cuts(d, c, LeftOn("sum", 0, s, 1 .. Len(s)))
    BY <2>1, SplitsWell
  <2> DEFINE f == X!SplitText(s)
  <2>3. f = Closed(d, c)
    <3>1. X!FoldLeft(X!SplitSentence, X!Begun, s) = [done |-> d, current |-> c]
      BY <2>1, <2>2, LeftFolds
    <3> QED
      BY <1>2, <3>1 DEF X!SplitText, X!Flush, Closed
  <2>4. Total(s) \in Nat /\ LeftOn("sum", 0, s, 1 .. Len(s)) = Total(s)
    BY <2>1, TotalGrows DEF Total
  <2> HIDE DEF f
  <2>5. Cuts(f, <<>>, Total(s))
    BY <2>2, <2>3, <2>4, CutsClosed
  <2>6. f \in Seq(Seq(Nat)) /\ Flat(f) \in Seq(Nat) /\ Total(Flat(f)) \in Nat /\ Total(<<>>) = 0
    BY <2>5, FlatIs, TotalGrows DEF Cuts
  <2>7. Total(Flat(f)) = Total(s)
    BY <2>5, <2>6 DEF Cuts
  <2>8. X!FoldLeft(+, 0, Flat(f)) = Total(Flat(f)) /\ X!FoldLeft(+, 0, s) = Total(s)
    BY <2>6, TotalGrows
  <2>9. \A i \in 1 .. Len(f) : X!Chars(f[i]) <= MaxChars
    BY <2>5 DEF Cuts
  <2> QED
    BY <2>7, <2>8, <2>9 DEF f
<1> QED
  BY <1>1, <1>2

TextInv == text \in Seq(Seq(Nat))

LEMMA TextsFit == TextInv => X!PiecesFit
<1> SUFFICES ASSUME TextInv PROVE X!PiecesFit
  OBVIOUS
<1>1. \A k \in 1 .. Len(text) : text[k] \in Seq(Nat)
  BY DEF TextInv
<1>2. X!Words \in Seq(Nat) /\ X!Words = Flat(text)
  BY FlatIs DEF TextInv, X!Words, Flat
<1>3. ASSUME NEW k \in 1 .. Len(text)
      PROVE  LET phrases == X!Wrapped(text[k])
             IN  /\ X!FlattenSeq(phrases) = text[k]
                 /\ X!Full(phrases)
                 /\ \A i \in 1 .. Len(phrases) :
                       X!Chars(phrases[i]) <= MaxChars \/ Len(phrases[i]) = 1
  <2>1. text[k] \in Seq(Nat)
    BY <1>1
  <2> DEFINE s == text[k]
  <2> HIDE DEF s
  <2>2. s \in Seq(Nat)
    BY <2>1 DEF s
  <2>3. /\ Flat(X!Wrapped(s)) = s /\ X!Full(X!Wrapped(s))
        /\ \A i \in 1 .. Len(X!Wrapped(s)) :
              X!Chars(X!Wrapped(s)[i]) <= MaxChars \/ Len(X!Wrapped(s)[i]) = 1
    BY <2>2, WrappedIs
  <2> QED
    BY <2>3 DEF s, Flat
<1> DEFINE words == X!Words
<1> HIDE DEF words
<1>4. words \in Seq(Nat)
  BY <1>2 DEF words
<1>5. LET chunks == X!SplitText(X!Words)
      IN  /\ X!FoldLeft(+, 0, X!FlattenSeq(chunks)) = X!FoldLeft(+, 0, X!Words)
          /\ \A i \in 1 .. Len(chunks) : X!Chars(chunks[i]) <= MaxChars
  BY <1>4, SplitIs DEF words, Flat
<1>6. LET chunks == X!ChunkText(X!Words)
      IN  /\ X!FlattenSeq(chunks) = X!Words
          /\ \A i \in 1 .. Len(chunks) :
                X!Chars(chunks[i]) <= MaxChars + 1 \/ Len(chunks[i]) = 1
  BY <1>4, ChunkedIs DEF words, Flat
<1> QED
  BY <1>3, <1>5, <1>6 DEF X!PiecesFit

\* Whatever the text (subtitle.py:176-222, edge_tts.py:191-237, ttsmaker.py:165-184):
\* subtitle phrases keep every word in its place and only a phrase of one word is
\* longer than MaxChars; the chunks of edge-tts have all the characters and none is
\* longer; the chunks of TTSMaker have all the sentences, one of several sentences
\* has at most MaxChars + 1 characters, and one of a single sentence has as many as
\* the sentence.  The text stays what it is, and each loop is a fold whose pieces
\* join the words taken so far.
THEOREM PiecesFitHolds == MSpec => []PiecesFit
<1>1. MInit => TextInv
  <2>1. <<<<1>>>> \in Seq(Seq(Nat))
    OBVIOUS
  <2> QED
    BY <2>1, LimitIs DEF MInit, X!XInit, Idle, TextInv
<1>2. TextInv /\ [MNext]_mvars => TextInv'
  BY DEF TextInv, MNext, mvars
<1>3. TextInv => PiecesFit
  BY TextsFit DEF PiecesFit
<1> QED
  BY <1>1, <1>2, <1>3, PTL DEF MSpec
=============================================================================
