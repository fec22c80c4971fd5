------------------------- MODULE SpeechChainProofs -------------------------
(***************************************************************************)
(* What holds of SpeechChain for any number of processes, any chain, any   *)
(* limits and periods, and any combination of failures.                    *)
(***************************************************************************)
EXTENDS SpeechChain, TLAPS, FiniteSetTheorems

Outcomes == {"none", "failed"} \cup Services

\* The types of the part of the state speak() decides about.
LocalTypes ==
    /\ phase \in [Procs -> Phases]
    /\ place \in [Procs -> 1 .. Len(Chain)]
    /\ chars \in [Procs -> Texts] /\ parts \in [Procs -> Nat]
    /\ files \in [Procs -> SUBSET Services]
    /\ charged \in [Procs -> SUBSET Limited]
    /\ outcome \in [Procs -> Outcomes]

\* Only metered services get to the statements that look at the table.
Metered == \A p \in Procs : phase[p] \in {"check", "consume", "log"} => Service(p) \in Limited

\* `continue` goes to the next adapter or out of speak(), and touches no other
\* process.
LEMMA MovesOn ==
    ASSUME LocalTypes, NEW p \in Procs, NextService(p)
    PROVE  /\ phase' \in [Procs -> Phases] /\ place' \in [Procs -> 1 .. Len(Chain)]
           /\ outcome' \in [Procs -> Outcomes]
           /\ \A q \in Procs : q # p =>
                 phase'[q] = phase[q] /\ place'[q] = place[q] /\ outcome'[q] = outcome[q]
           /\ \/ phase'[p] = "precheck" /\ outcome'[p] = outcome[p]
              \/ phase'[p] = "idle" /\ outcome'[p] = "failed"
<1>0. Len(Chain) \in Nat
  BY ChainAssumption
<1> USE <1>0 DEF Return, Goto, LocalTypes, Phases, Outcomes
<1>1. CASE place[p] < Len(Chain)
  <2>1. place[p] + 1 \in 1 .. Len(Chain)
    BY <1>1
  <2>2. QED
    BY <1>1, <2>1 DEF NextService
<1>2. CASE ~ (place[p] < Len(Chain))
  BY <1>2 DEF NextService
<1>3. QED
  BY <1>1, <1>2

LEMMA ServiceInChain == ASSUME LocalTypes, NEW p \in Procs PROVE Service(p) \in Services
  BY DEF LocalTypes, Service, Services

LEMMA PortionIsText == ASSUME LocalTypes, NEW p \in Procs
                       PROVE  Portion(p) \in Nat /\ chars[p] \in Nat
  BY ChainAssumption DEF LocalTypes, Portion

LEMMA SpeechTypesInit == SInit => STypeOK /\ Metered
<1>1. (CHOOSE n \in Texts : TRUE) \in Texts
  BY ChainAssumption
<1>2. QED
  BY <1>1, QuotaAssumption, ChainAssumption
     DEF SInit, QInit, STypeOK, QTypeOK, Metered, Days, Phases
------------------------------------------------------------------------------
\* Types, and Metered with them.
LEMMA SpeechTypesStep == STypeOK /\ Metered /\ [SNext]_svars => (STypeOK /\ Metered)'
<1> SUFFICES ASSUME STypeOK, Metered, [SNext]_svars PROVE (STypeOK /\ Metered)'
  OBVIOUS
<1>0. LocalTypes
  BY DEF STypeOK, LocalTypes, Outcomes
<1>a. /\ Limit \in [Limited -> Nat] /\ MaxDay \in Nat /\ MaxCalls \in Nat
      /\ Limited \subseteq Services /\ Texts \subseteq Nat /\ 1 \in 1 .. Len(Chain)
  BY QuotaAssumption, ChainAssumption
<1> USE <1>0, <1>a
        DEF STypeOK, QTypeOK, Metered, Service, Outcomes, Phases, Goto, Return, Stay, Acted
<1>1. ASSUME NEW p \in Procs, NEW n \in Texts, Speak(p, n) PROVE (STypeOK /\ Metered)'
  BY <1>1 DEF Speak, qvars
<1>2. ASSUME NEW p \in Procs, MaybeReset(p) PROVE (STypeOK /\ Metered)'
  <2>1. /\ UNCHANGED <<chars, parts, files, calls, charged, speakers>>
        /\ phase[p] \in {"precheck", "skip", "check", "consume", "log"}
    BY <1>2 DEF MaybeReset, Tracking
  <2>2. CASE SelectPeriod(p, Service(p)) /\ UNCHANGED <<phase, billed, unrecorded>> /\ Stay
    BY <2>1, <2>2 DEF SelectPeriod
  <2>3. CASE /\ ResetPeriod(p, Service(p)) /\ billed' = [billed EXCEPT ![Service(p)] = 0]
             /\ UNCHANGED <<phase, unrecorded>> /\ Stay
    <3>1. /\ used' \in [Limited -> Nat] /\ start' \in [Limited -> Days]
          /\ billed' \in [Limited -> Nat] /\ today' \in Days
      BY <2>3 DEF ResetPeriod
    <3>2. at' = [at EXCEPT ![p] = "act"]
      BY <2>3 DEF ResetPeriod
    <3>3. UNCHANGED <<phase, place, outcome, unrecorded>>
      BY <2>3
    <3>4. QED
      BY <2>1, <3>1, <3>2, <3>3
  <2>4. CASE /\ Acted(p) /\ UNCHANGED <<today, used, start, billed>>
             /\ \/ Return(p, "failed") /\ UNCHANGED place
                \/ NextService(p)
             /\ unrecorded' = IF phase[p] = "consume" THEN unrecorded \cup {Service(p)}
                              ELSE unrecorded
    <3>1. at' = [at EXCEPT ![p] = "select"] /\ unrecorded' \subseteq Limited
      BY <2>4
    <3>2. CASE Return(p, "failed") /\ UNCHANGED place
      BY <2>1, <2>4, <3>1, <3>2
    <3>3. CASE NextService(p)
      BY <2>1, <2>4, <3>1, <3>3, MovesOn
    <3>4. QED
      BY <2>4, <3>2, <3>3
  <2>5. QED
    BY <1>2, <2>2, <2>3, <2>4 DEF MaybeReset
<1>3. ASSUME NEW p \in Procs, PreCheck(p) PROVE (STypeOK /\ Metered)'
  BY <1>3 DEF PreCheck, history
<1>4. ASSUME NEW p \in Procs, AdapterCheck(p) PROVE (STypeOK /\ Metered)'
  BY <1>4 DEF AdapterCheck, history
<1>5. ASSUME NEW p \in Procs, Skip(p) PROVE (STypeOK /\ Metered)'
  BY <1>5, MovesOn DEF Skip, history
<1>6. ASSUME NEW p \in Procs, Ask(p) PROVE (STypeOK /\ Metered)'
  <2>1. Portion(p) \in Nat /\ \A n \in {0, Portion(p)} : n \in Nat /\ parts[p] + n \in Nat
    BY PortionIsText
  <2>2. ASSUME NEW n \in Nat, Billed(p, n) PROVE billed' \in [Limited -> Nat]
    BY <2>2 DEF Billed
  <2>3. CASE \E n \in {0, Portion(p)} :
                /\ Billed(p, n)
                /\ (IF parts[p] + n > 0 THEN Missed(p) ELSE UNCHANGED unrecorded)
                /\ NextService(p) /\ Received(p, 0)
    <3>1. billed' \in [Limited -> Nat] /\ unrecorded' \subseteq Limited
      BY <2>1, <2>2, <2>3 DEF Missed
    <3>2. parts' = [parts EXCEPT ![p] = 0] /\ NextService(p)
      BY <2>3 DEF Received
    <3>3. /\ UNCHANGED <<today, used, start, at, chars, files, calls, charged, speakers>>
          /\ phase[p] = "ask"
      BY <1>6 DEF Ask, qvars
    <3>4. QED
      BY <3>1, <3>2, <3>3, MovesOn
  <2>4. CASE /\ Billed(p, Portion(p)) /\ UNCHANGED unrecorded /\ Stay
             /\ \/ Goto(p, "write") /\ Received(p, 0)
                \/ Goto(p, "ask") /\ Received(p, parts[p] + Portion(p))
    <3>1. billed' \in [Limited -> Nat] /\ UNCHANGED <<unrecorded, place, outcome>>
      BY <2>1, <2>2, <2>4
    <3>2. parts \in [Procs -> Nat] /\ 0 \in Nat /\ parts[p] + Portion(p) \in Nat
      BY <2>1
    <3>3. Received(p, 0) \/ Received(p, parts[p] + Portion(p))
      BY <2>4
    <3>4. parts' \in [Procs -> Nat]
      BY <3>2, <3>3 DEF Received
    <3>5. Goto(p, "write") \/ Goto(p, "ask")
      BY <2>4
    <3>6. /\ UNCHANGED <<today, used, start, at, chars, files, calls, charged, speakers>>
          /\ phase[p] = "ask"
      BY <1>6 DEF Ask, qvars
    <3>7. QED
      BY <3>1, <3>4, <3>5, <3>6
  <2>5. QED
    BY <1>6, <2>3, <2>4 DEF Ask
<1>7. ASSUME NEW p \in Procs, Write(p) PROVE (STypeOK /\ Metered)'
  <2>1. CASE NextService(p) /\ Missed(p) /\ UNCHANGED files
    BY <1>7, <2>1, MovesOn DEF Write, Missed, qvars
  <2>2. CASE files' = [files EXCEPT ![p] = @ \cup {Service(p)}]
    <3>1. Service(p) \in Services
      BY ServiceInChain
    <3>2. files' \in [Procs -> SUBSET Services]
      BY <2>2, <3>1
    <3>3. UNCHANGED <<today, used, start, at, chars, parts, calls, charged, billed, speakers>>
      BY <1>7 DEF Write, qvars
    <3>4. phase[p] = "write" /\ unrecorded' \subseteq Limited
      BY <1>7 DEF Write, Missed
    <3>5. CASE Service(p) \in Limited /\ Goto(p, "consume") /\ Stay
      BY <3>1, <3>2, <3>3, <3>4, <3>5
    <3>6. CASE Return(p, Service(p)) /\ UNCHANGED place
      BY <3>1, <3>2, <3>3, <3>4, <3>6
    <3>7. CASE NextService(p)
      BY <3>2, <3>3, <3>4, <3>7, MovesOn
    <3>8. QED
      BY <1>7, <3>5, <3>6, <3>7 DEF Write
  <2>3. QED
    BY <1>7, <2>1, <2>2 DEF Write
<1>8. ASSUME NEW p \in Procs, Charge(p) PROVE (STypeOK /\ Metered)'
  <2>1. CASE NextService(p) /\ Missed(p) /\ UNCHANGED <<today, used, start, charged>>
    BY <1>8, <2>1, MovesOn DEF Charge, Missed
  <2>2. CASE Consume(Service(p), chars[p]) /\ Goto(p, "log")
             /\ charged' = [charged EXCEPT ![p] = @ \cup {Service(p)}]
             /\ UNCHANGED unrecorded /\ Stay
    BY <1>8, <2>2, PortionIsText, SMTT(30) DEF Charge, Consume
  <2>3. QED
    BY <1>8, <2>1, <2>2 DEF Charge
<1>9. ASSUME NEW p \in Procs, Log(p) PROVE (STypeOK /\ Metered)'
  BY <1>9, ServiceInChain DEF Log, history
<1>10. ASSUME NEW p \in Procs, Stop(p) PROVE (STypeOK /\ Metered)'
  BY <1>10 DEF Stop, Received
<1>11. CASE NextDay /\ UNCHANGED <<local, history>>
  BY <1>11 DEF NextDay, local, history, Days
<1>12. CASE UNCHANGED svars
  BY <1>12 DEF svars, qvars, local, history
<1>13. QED
  BY <1>1, <1>2, <1>3, <1>4, <1>5, <1>6, <1>7, <1>8, <1>9, <1>10, <1>11, <1>12
     DEF SNext, Step

\* The shape of the quota table and of a call in progress; a reset is pending only
\* inside a call of the tracker.
THEOREM SpeechTypes == SSpec => []STypeOK
  BY SpeechTypesInit, SpeechTypesStep, PTL DEF SSpec

LEMMA SpeechShape == SSpec => [](STypeOK /\ Metered)
  BY SpeechTypesInit, SpeechTypesStep, PTL DEF SSpec
------------------------------------------------------------------------------
\* Between the file and the end of the call the file is there, and from the UPDATE
\* on it is paid for; as long as a call lasts it has no outcome.
Spoken ==
    \A p \in Procs :
        /\ phase[p] \in {"consume", "log"} => Service(p) \in files[p]
        /\ phase[p] = "log" => Service(p) \in charged[p]
        /\ phase[p] # "idle" => outcome[p] = "none"

LEMMA SpokenStep ==
    STypeOK /\ Metered /\ SpokenIsPaid /\ Spoken /\ [SNext]_svars => (SpokenIsPaid /\ Spoken)'
<1> SUFFICES ASSUME STypeOK, Metered, SpokenIsPaid, Spoken, [SNext]_svars
             PROVE  (SpokenIsPaid /\ Spoken)'
  OBVIOUS
<1>0. LocalTypes
  BY DEF STypeOK, LocalTypes, Outcomes
<1>a. Limited \subseteq Services /\ "none" \notin Services /\ "failed" \notin Services
  BY ChainAssumption
<1> USE <1>0, <1>a
        DEF LocalTypes, Metered, SpokenIsPaid, Spoken, Service, Goto, Return, Stay
<1>1. ASSUME NEW p \in Procs, phase[p] # "idle", UNCHANGED <<files, charged>>, NextService(p)
      PROVE  (SpokenIsPaid /\ Spoken)'
  <2>1. \A q \in Procs : q # p =>
           phase'[q] = phase[q] /\ place'[q] = place[q] /\ outcome'[q] = outcome[q]
    BY <1>1, MovesOn
  <2>2. \/ phase'[p] = "precheck" /\ outcome'[p] = "none"
        \/ phase'[p] = "idle" /\ outcome'[p] = "failed"
    BY <1>1, MovesOn
  <2>3. \A q \in Procs : files'[q] = files[q] /\ charged'[q] = charged[q]
    BY <1>1
  <2>4. \A q \in Procs : charged'[q] \subseteq files'[q]
    BY <2>3
  <2>5. \A q \in Procs : outcome'[q] \in Services => outcome'[q] = outcome[q]
    BY <2>1, <2>2
  <2>6. SpokenIsPaid'
    BY <2>3, <2>4, <2>5
  <2>7. Spoken'
    BY <2>1, <2>2, <2>3
  <2>8. QED
    BY <2>6, <2>7
<1>2. ASSUME NEW p \in Procs, NEW n \in Texts, Speak(p, n) PROVE (SpokenIsPaid /\ Spoken)'
  BY <1>2 DEF Speak
<1>3. ASSUME NEW p \in Procs, MaybeReset(p) PROVE (SpokenIsPaid /\ Spoken)'
  <2>0. UNCHANGED <<files, charged>> /\ phase[p] # "idle"
    BY <1>3 DEF MaybeReset, Tracking
  <2>1. CASE phase' = phase /\ Stay
    BY <1>1, <2>0, <2>1
  <2>2. CASE Return(p, "failed") /\ UNCHANGED place
    BY <1>1, <2>0, <2>2
  <2>3. CASE NextService(p)
    BY <1>1, <2>0, <2>3
  <2>4. QED
    BY <1>3, <2>1, <2>2, <2>3 DEF MaybeReset
<1>4. ASSUME NEW p \in Procs, PreCheck(p) \/ AdapterCheck(p) PROVE (SpokenIsPaid /\ Spoken)'
  BY <1>4 DEF PreCheck, AdapterCheck, history
<1>5. ASSUME NEW p \in Procs, Skip(p) PROVE (SpokenIsPaid /\ Spoken)'
  BY <1>1, <1>5 DEF Skip, history
<1>6. ASSUME NEW p \in Procs, Ask(p) PROVE (SpokenIsPaid /\ Spoken)'
  <2>1. CASE (Goto(p, "write") \/ Goto(p, "ask")) /\ Stay
    BY <1>6, <2>1 DEF Ask
  <2>2. QED
    BY <1>1, <1>6, <2>1 DEF Ask
<1>7. ASSUME NEW p \in Procs, Write(p) PROVE (SpokenIsPaid /\ Spoken)'
  <2>1. CASE /\ files' = [files EXCEPT ![p] = @ \cup {Service(p)}] /\ UNCHANGED charged
             /\ IF Service(p) \in Limited THEN Goto(p, "consume") /\ Stay
                ELSE Return(p, Service(p)) /\ UNCHANGED place
    BY <1>7, <2>1 DEF Write
  <2>2. QED
    BY <1>1, <1>7, <2>1 DEF Write
<1>8. ASSUME NEW p \in Procs, Charge(p) PROVE (SpokenIsPaid /\ Spoken)'
  <2>1. CASE /\ charged' = [charged EXCEPT ![p] = @ \cup {Service(p)}] /\ UNCHANGED files
             /\ phase[p] = "consume" /\ Goto(p, "log") /\ Stay
    BY <2>1
  <2>2. QED
    BY <1>1, <1>8, <2>1 DEF Charge
<1>9. ASSUME NEW p \in Procs, Log(p) PROVE (SpokenIsPaid /\ Spoken)'
  BY <1>9 DEF Log, history
<1>10. ASSUME NEW p \in Procs, Stop(p) PROVE (SpokenIsPaid /\ Spoken)'
  BY <1>10 DEF Stop
<1>11. CASE UNCHANGED <<local, history>>
  BY <1>11 DEF local, history
<1>12. QED
  BY <1>2, <1>3, <1>4, <1>5, <1>6, <1>7, <1>8, <1>9, <1>10, <1>11 DEF SNext, Step, svars

\* Whatever fails, stops or resets in between, a service whose quota a call consumed
\* has written its file, and a call that returns has a file, paid for if the service
\* is metered: for any number of processes and any chain.
THEOREM SpokenIsPaidHolds == SSpec => []SpokenIsPaid
<1>1. SInit => SpokenIsPaid /\ Spoken
  BY ChainAssumption DEF SInit, SpokenIsPaid, Spoken
<1>2. QED
  BY <1>1, SpokenStep, SpeechShape, PTL DEF SSpec
------------------------------------------------------------------------------
\* How much text is on its way: chunks counted over a function from processes to
\* numbers of chunks, so that a process is added or dropped in one piece.
Slack == (Cardinality(Procs) - 1) * Longest
Amounts == [Procs -> 0 .. Longest]
Chunks(f) == {c \in Procs \X (1 .. Longest) : c[2] <= f[c[1]]}

LEMMA LongestText == Longest \in Nat \ {0} /\ Longest \in Texts /\ \A n \in Texts : n <= Longest
<1>1. \E n \in Texts : \A m \in Texts : m <= n
  BY ChainAssumption
<1>2. Longest \in Texts /\ \A m \in Texts : m <= Longest
  BY <1>1 DEF Longest
<1>3. QED
  BY <1>2, ChainAssumption

LEMMA OthersCount == ASSUME NEW p \in Procs
                     PROVE  /\ IsFiniteSet((Procs \ {p}) \X (1 .. Longest))
                            /\ Cardinality((Procs \ {p}) \X (1 .. Longest)) = Slack
                            /\ Slack \in Nat
<1>1. IsFiniteSet(1 .. Longest) /\ Cardinality(1 .. Longest) = Longest
  BY LongestText, FS_Interval
<1>2. IsFiniteSet(Procs \ {p}) /\ Cardinality(Procs \ {p}) = Cardinality(Procs) - 1
  BY ProcsAssumption, FS_RemoveElement
<1>3. QED
  BY <1>1, <1>2, FS_Product, FS_CardinalityType DEF Slack

LEMMA ChunksFinite == ASSUME NEW f \in Amounts
                      PROVE  IsFiniteSet(Chunks(f)) /\ Cardinality(Chunks(f)) \in Nat
<1>1. IsFiniteSet(1 .. Longest)
  BY LongestText, FS_Interval
<1>2. IsFiniteSet(Procs \X (1 .. Longest))
  BY <1>1, ProcsAssumption, FS_Product
<1>3. QED
  BY <1>2, FS_Subset, FS_CardinalityType DEF Chunks

\* Less text, no more chunks.
LEMMA ChunksFewer ==
    ASSUME NEW f \in Amounts, NEW g \in Amounts, \A q \in Procs : f[q] <= g[q]
    PROVE  Cardinality(Chunks(f)) <= Cardinality(Chunks(g))
<1>1. Chunks(f) \subseteq Chunks(g)
  BY LongestText DEF Chunks, Amounts
<1>2. QED
  BY <1>1, ChunksFinite, FS_Subset

\* One process more: its text is added to what the others have, and that is
\* never more than a longest text each.
LEMMA ChunksMore ==
    ASSUME NEW f \in Amounts, NEW g \in Amounts, NEW p \in Procs,
           f[p] = 0, \A q \in Procs : q # p => g[q] = f[q]
    PROVE  /\ Cardinality(Chunks(f)) <= Slack
           /\ Cardinality(Chunks(g)) = Cardinality(Chunks(f)) + g[p]
<1> DEFINE own == {p} \X (1 .. g[p])
<1>1. Chunks(f) \subseteq (Procs \ {p}) \X (1 .. Longest)
  BY LongestText DEF Chunks, Amounts
<1>2. Cardinality(Chunks(f)) <= Slack
  <2> DEFINE others == (Procs \ {p}) \X (1 .. Longest)
  <2>1. IsFiniteSet(others) /\ Cardinality(others) = Slack
    BY OthersCount
  <2>2. Chunks(f) \in SUBSET others
    BY <1>1
  <2> HIDE DEF others
  <2>3. Cardinality(Chunks(f)) <= Cardinality(others)
    BY <2>1, <2>2, FS_Subset
  <2>4. QED
    BY <2>1, <2>3
<1>3. IsFiniteSet(own) /\ Cardinality(own) = g[p]
  <2>1. g[p] \in Nat
    BY LongestText DEF Amounts
  <2>2. IsFiniteSet(1 .. g[p]) /\ Cardinality(1 .. g[p]) = g[p]
    BY <2>1, FS_Interval, SMTT(30)
  <2>3. IsFiniteSet({p}) /\ Cardinality({p}) = 1
    BY FS_Singleton
  <2>4. /\ IsFiniteSet({p} \X (1 .. g[p]))
        /\ Cardinality({p} \X (1 .. g[p])) = Cardinality({p}) * Cardinality(1 .. g[p])
    BY <2>2, <2>3, FS_Product
  <2>5. Cardinality({p}) * Cardinality(1 .. g[p]) = 1 * g[p]
    BY <2>2, <2>3
  <2>6. QED
    BY <2>1, <2>4, <2>5
<1>4. Chunks(g) = Chunks(f) \cup own
  BY LongestText DEF Chunks, Amounts
<1>5. Chunks(f) \cap own = {}
  BY <1>1
<1>6. Cardinality(Chunks(f) \cup own) = Cardinality(Chunks(f)) + Cardinality(own) - 0
  BY <1>3, <1>5, ChunksFinite, FS_Union, FS_EmptySet
<1>7. Cardinality(Chunks(f)) \in Nat /\ g[p] \in Nat
  BY ChunksFinite, LongestText DEF Amounts
<1>8. QED
  BY <1>2, <1>3, <1>4, <1>6, <1>7
------------------------------------------------------------------------------
\* The table may be overdrawn, but not by more than the texts of the others.
PendingOf(s) == [q \in Procs |-> Pending(q, s)]
Shared == \A s \in Limited : used[s] + Cardinality(Chunks(PendingOf(s))) <= Limit[s] + Slack

LEMMA InFlightCounts == ASSUME NEW s PROVE InFlight(s) = Cardinality(Chunks(PendingOf(s)))
  BY DEF InFlight, PendingChunks, Chunks, PendingOf

LEMMA PendingAmounts == ASSUME LocalTypes, NEW s PROVE PendingOf(s) \in Amounts
<1>0. \A q \in Procs : chars[q] \in Texts /\ chars[q] \in Nat
  BY ChainAssumption DEF LocalTypes
<1>1. \A q \in Procs : chars[q] \in 0 .. Longest
  BY <1>0, LongestText
<1>2. \A q \in Procs : Pending(q, s) \in 0 .. Longest
  BY <1>1, LongestText DEF Pending
<1>3. QED
  BY <1>2 DEF PendingOf, Amounts

\* What a step does to the table and to the text on its way to one service: no
\* more of either; or one process has passed the check; or one has paid.
Fewer(s) == used'[s] <= used[s] /\ \A q \in Procs : Pending(q, s)' <= Pending(q, s)
Passes(p, s) ==
    /\ used'[s] = used[s] /\ used[s] + chars[p] <= Limit[s]
    /\ Pending(p, s) = 0 /\ Pending(p, s)' = chars[p]
    /\ \A q \in Procs : q # p => Pending(q, s)' = Pending(q, s)
Pays(p, s) ==
    /\ used'[s] = used[s] + chars[p]
    /\ Pending(p, s) = chars[p] /\ Pending(p, s)' = 0
    /\ \A q \in Procs : q # p => Pending(q, s)' = Pending(q, s)

\* A process that is not past the check has nothing on its way, and one that goes
\* on stays within its text.
LEMMA NothingMore ==
    ASSUME LocalTypes, LocalTypes', NEW p \in Procs, NEW s \in Limited,
           used'[s] <= used[s], UNCHANGED chars,
           \A q \in Procs : q # p => phase'[q] = phase[q] /\ place'[q] = place[q],
           \/ phase'[p] \notin {"ask", "write", "consume"}
           \/ place'[p] = place[p] /\ phase[p] \in {"ask", "write", "consume"}
           \/ Service(p)' # s
    PROVE  Fewer(s)
<1>1. \A q \in Procs : Pending(q, s) \in {0, chars[q]} /\ chars[q] \in Nat
  BY ChainAssumption DEF Pending, LocalTypes
<1>2. \A q \in Procs : Pending(q, s)' <= Pending(q, s)
  BY <1>1 DEF Pending, Service, LocalTypes
<1>3. QED
  BY <1>2 DEF Fewer

LEMMA PendingStep ==
    ASSUME STypeOK, STypeOK', Metered, NEW s \in Limited, [SNext]_svars
    PROVE  Fewer(s) \/ \E p \in Procs : Passes(p, s) \/ Pays(p, s)
<1>0. LocalTypes /\ LocalTypes'
  BY DEF STypeOK, LocalTypes, Outcomes
<1>a. used[s] \in Nat /\ Limit[s] \in Nat /\ used \in [Limited -> Nat]
  BY QuotaAssumption DEF STypeOK, QTypeOK
<1>b. ASSUME NEW p \in Procs, NextService(p), UNCHANGED chars, used'[s] <= used[s]
      PROVE  Fewer(s)
  BY <1>0, <1>b, MovesOn, NothingMore
<1> USE <1>0, <1>a DEF Goto, Return, Stay
<1>1. ASSUME NEW p \in Procs, NEW n \in Texts, Speak(p, n) PROVE Fewer(s)
  <2>1. \A q \in Procs : q # p =>
           phase'[q] = phase[q] /\ place'[q] = place[q] /\ chars'[q] = chars[q]
    BY <1>1 DEF Speak, LocalTypes
  <2>2. phase[p] = "idle" /\ phase'[p] = "precheck" /\ UNCHANGED used
    BY <1>1 DEF Speak, LocalTypes, qvars
  <2>3. \A q \in Procs : Pending(q, s) \in Nat
    BY ChainAssumption DEF Pending, LocalTypes
  <2>4. \A q \in Procs : Pending(q, s)' = Pending(q, s)
    BY <2>1, <2>2 DEF Pending, Service
  <2>5. QED
    BY <2>2, <2>3, <2>4 DEF Fewer
<1>2. ASSUME NEW p \in Procs, MaybeReset(p) PROVE Fewer(s)
  <2>1. UNCHANGED chars
    BY <1>2 DEF MaybeReset
  <2>2. CASE UNCHANGED <<phase, place>> /\ used'[s] <= used[s]
    <3>1. \A q \in Procs : Pending(q, s)' = Pending(q, s) /\ Pending(q, s) \in Nat
      BY <2>1, <2>2, ChainAssumption DEF Pending, Service, LocalTypes
    <3>2. QED
      BY <2>2, <3>1 DEF Fewer
  <2>3. CASE SelectPeriod(p, Service(p)) /\ UNCHANGED phase /\ Stay
    BY <2>2, <2>3 DEF SelectPeriod
  <2>4. CASE ResetPeriod(p, Service(p)) /\ UNCHANGED phase /\ Stay
    BY <2>2, <2>4 DEF ResetPeriod
  <2>5. CASE UNCHANGED used /\ NextService(p)
    BY <1>b, <2>1, <2>5
  <2>6. CASE UNCHANGED used /\ Return(p, "failed") /\ UNCHANGED place
    BY <2>1, <2>6, NothingMore DEF LocalTypes
  <2>7. QED
    BY <1>2, <2>3, <2>4, <2>5, <2>6 DEF MaybeReset
<1>3. ASSUME NEW p \in Procs, PreCheck(p) PROVE Fewer(s)
  <2>1. /\ \A q \in Procs : q # p => phase'[q] = phase[q]
        /\ phase'[p] \in {"check", "skip"} \/ Service(p) \notin Limited
        /\ UNCHANGED <<chars, place, used>>
    BY <1>3 DEF PreCheck, LocalTypes
  <2>2. QED
    BY <2>1, NothingMore DEF Service
<1>4. ASSUME NEW p \in Procs, AdapterCheck(p) PROVE Fewer(s) \/ Passes(p, s)
  <2>1. /\ \A q \in Procs : q # p => phase'[q] = phase[q]
        /\ UNCHANGED <<chars, place, used>>
        /\ phase[p] = "check" /\ Service(p) \in Limited
    BY <1>4 DEF AdapterCheck, LocalTypes, Metered
  <2>2. CASE phase'[p] = "skip" \/ Service(p) # s
    BY <2>1, <2>2, NothingMore DEF Service
  <2>3. CASE phase'[p] # "skip" /\ Service(p) = s
    <3>1. Available(s, chars[p]) /\ phase'[p] = "ask"
      BY <1>4, <2>3 DEF AdapterCheck, LocalTypes
    <3>a. chars[p] \in Nat
      BY ChainAssumption DEF LocalTypes
    <3>2. used[s] + chars[p] <= Limit[s]
      BY <3>1, <3>a DEF Available
    <3>3. Pending(p, s) = 0 /\ Pending(p, s)' = chars[p]
      BY <2>1, <2>3, <3>1 DEF Pending, Service, LocalTypes
    <3>4. \A q \in Procs : q # p => Pending(q, s)' = Pending(q, s)
      BY <2>1 DEF Pending, Service
    <3>5. QED
      BY <2>1, <3>2, <3>3, <3>4 DEF Passes
  <2>4. QED
    BY <2>2, <2>3
<1>5. ASSUME NEW p \in Procs, Skip(p) PROVE Fewer(s)
  BY <1>b, <1>5 DEF Skip
<1>6. ASSUME NEW p \in Procs, Ask(p) PROVE Fewer(s)
  <2>1. UNCHANGED <<chars, used>> /\ phase[p] = "ask"
    BY <1>6 DEF Ask, qvars
  <2>2. CASE NextService(p)
    BY <1>b, <2>1, <2>2
  <2>3. CASE (Goto(p, "write") \/ Goto(p, "ask")) /\ Stay
    BY <2>1, <2>3, NothingMore DEF LocalTypes
  <2>4. QED
    BY <1>6, <2>2, <2>3 DEF Ask
<1>7. ASSUME NEW p \in Procs, Write(p) PROVE Fewer(s)
  <2>1. UNCHANGED <<chars, used>> /\ phase[p] = "write"
    BY <1>7 DEF Write, qvars
  <2>2. CASE NextService(p)
    BY <1>b, <2>1, <2>2
  <2>3. CASE \E f : Goto(p, f) /\ UNCHANGED place
    BY <2>1, <2>3, NothingMore DEF LocalTypes
  <2>4. QED
    BY <1>7, <2>2, <2>3 DEF Write
<1>8. ASSUME NEW p \in Procs, Charge(p) PROVE Fewer(s) \/ Pays(p, s)
  <2>1. UNCHANGED chars /\ phase[p] = "consume" /\ Service(p) \in Limited
    BY <1>8 DEF Charge, Metered
  <2>2. CASE NextService(p) /\ UNCHANGED used
    BY <1>b, <2>1, <2>2
  <2>3. CASE Consume(Service(p), chars[p]) /\ Goto(p, "log") /\ Stay
    <3>1. CASE Service(p) # s
      <4>1. used'[s] = used[s]
        BY <2>3, <3>1 DEF Consume
      <4>2. QED
        BY <2>1, <2>3, <4>1, NothingMore DEF LocalTypes
    <3>2. CASE Service(p) = s
      <4>1. used'[s] = used[s] + chars[p]
        BY <2>3, <3>2 DEF Consume
      <4>2. Pending(p, s) = chars[p] /\ Pending(p, s)' = 0
        BY <2>1, <2>3, <3>2 DEF Pending, Service, LocalTypes
      <4>3. \A q \in Procs : q # p => Pending(q, s)' = Pending(q, s)
        BY <2>1, <2>3 DEF Pending, Service, LocalTypes
      <4>4. QED
        BY <4>1, <4>2, <4>3 DEF Pays
    <3>3. QED
      BY <3>1, <3>2
  <2>4. QED
    BY <1>8, <2>2, <2>3 DEF Charge
<1>9. ASSUME NEW p \in Procs, Log(p) \/ Stop(p) PROVE Fewer(s)
  <2>1. UNCHANGED <<chars, used, place>> /\ Goto(p, "idle")
    BY <1>9 DEF Log, Stop
  <2>2. QED
    BY <2>1, NothingMore DEF LocalTypes
<1>10. CASE UNCHANGED <<used, local>>
  <2>1. \A q \in Procs : Pending(q, s)' = Pending(q, s) /\ Pending(q, s) \in Nat
    BY <1>10, ChainAssumption DEF Pending, Service, local, LocalTypes
  <2>2. QED
    BY <1>10, <2>1 DEF Fewer
<1>11. QED
  BY <1>1, <1>2, <1>3, <1>4, <1>5, <1>6, <1>7, <1>8, <1>9, <1>10
     DEF SNext, Step, svars, qvars, NextDay

LEMMA SharedStep ==
    STypeOK /\ STypeOK' /\ Metered /\ Shared /\ [SNext]_svars => Shared'
<1> SUFFICES ASSUME STypeOK, STypeOK', Metered, Shared, [SNext]_svars, NEW s \in Limited
             PROVE  used'[s] + Cardinality(Chunks(PendingOf(s)'))  <= Limit[s] + Slack
  BY DEF Shared, Chunks, PendingOf
<1> DEFINE f == PendingOf(s)
           g == PendingOf(s)'
<1>1. LocalTypes /\ LocalTypes'
  BY DEF STypeOK, LocalTypes, Outcomes
<1>2. f \in Amounts
  BY <1>1, PendingAmounts
<1>3. g \in Amounts
  <2>0. \A q \in Procs : chars'[q] \in Texts /\ chars'[q] \in Nat
    BY <1>1, ChainAssumption DEF LocalTypes
  <2>1. \A q \in Procs : chars'[q] \in 0 .. Longest
    BY <2>0, LongestText
  <2>2. \A q \in Procs : Pending(q, s)' \in 0 .. Longest
    BY <2>1, LongestText DEF Pending
  <2>3. QED
    BY <2>2 DEF PendingOf, Amounts
<1>4. \A q \in Procs : f[q] = Pending(q, s) /\ g[q] = Pending(q, s)'
  BY DEF PendingOf
<1>5. used[s] \in Nat /\ used'[s] \in Nat /\ Limit[s] \in Nat
  BY QuotaAssumption DEF STypeOK, QTypeOK
<1>6. /\ used[s] + Cardinality(Chunks(f)) <= Limit[s] + Slack
      /\ Cardinality(Chunks(f)) \in Nat /\ Cardinality(Chunks(g)) \in Nat
  BY <1>2, <1>3, ChunksFinite DEF Shared
<1>7. \A q \in Procs : f[q] \in Nat /\ g[q] \in Nat
  BY <1>2, <1>3, LongestText DEF Amounts
<1> HIDE DEF f, g
<1>8. CASE Fewer(s)
  <2>1. Cardinality(Chunks(g)) <= Cardinality(Chunks(f)) /\ used'[s] <= used[s]
    BY <1>2, <1>3, <1>4, <1>8, ChunksFewer DEF Fewer
  <2>2. Slack \in Nat
    <3>1. PICK p \in Procs : TRUE
      BY ProcsAssumption
    <3>2. QED
      BY <3>1, OthersCount
  <2>3. QED
    BY <1>5, <1>6, <2>1, <2>2 DEF g
<1>9. ASSUME NEW p \in Procs, Passes(p, s)
      PROVE  used'[s] + Cardinality(Chunks(g)) <= Limit[s] + Slack
  <2>1. /\ Cardinality(Chunks(f)) <= Slack
        /\ Cardinality(Chunks(g)) = Cardinality(Chunks(f)) + g[p]
    BY <1>2, <1>3, <1>4, <1>9, ChunksMore DEF Passes
  <2>2. Slack \in Nat /\ g[p] = chars[p] /\ used'[s] = used[s] /\ used[s] + chars[p] <= Limit[s]
    BY <1>4, <1>9, OthersCount DEF Passes
  <2>3. QED
    BY <1>5, <1>6, <1>7, <2>1, <2>2
<1>10. ASSUME NEW p \in Procs, Pays(p, s)
       PROVE  used'[s] + Cardinality(Chunks(g)) <= Limit[s] + Slack
  <2>1. Cardinality(Chunks(f)) = Cardinality(Chunks(g)) + f[p]
    BY <1>2, <1>3, <1>4, <1>10, ChunksMore DEF Pays
  <2>2. f[p] = chars[p] /\ used'[s] = used[s] + chars[p] /\ Slack \in Nat
    BY <1>4, <1>10, OthersCount DEF Pays
  <2>3. QED
    BY <1>5, <1>6, <1>7, <2>1, <2>2
<1>11. QED
  BY <1>8, <1>9, <1>10, PendingStep DEF g
------------------------------------------------------------------------------
\* A process on its own.  The parts asked for so far are less than the text, what
\* the service has synthesised is in the table or in the hand of the one process,
\* unless the call that should have recorded it failed, and the table with the text
\* on its way is within the limit.
PartsFit ==
    \A p \in Procs :
        IF phase[p] # "ask" THEN parts[p] = 0
        ELSE IF Service(p) \in Chunked THEN parts[p] < chars[p] ELSE parts[p] = 0

InHand(p, s) ==
    IF Service(p) # s THEN 0
    ELSE IF phase[p] = "ask" THEN parts[p]
    ELSE IF phase[p] \in {"write", "consume"} THEN chars[p] ELSE 0

Alone(p) == \A q \in speakers : q = p
Within(p, s) == /\ billed[s] <= used[s] + InHand(p, s)
                /\ used[s] + Pending(p, s) <= Limit[s]
AloneInv ==
    /\ \A p \in Procs \ speakers : phase[p] = "idle"
    /\ \A p \in Procs : Alone(p) => \A s \in Limited \ unrecorded : Within(p, s)

LEMMA PartsStep == STypeOK /\ STypeOK' /\ PartsFit /\ [SNext]_svars => PartsFit'
<1> SUFFICES ASSUME STypeOK, STypeOK', PartsFit, [SNext]_svars PROVE PartsFit'
  OBVIOUS
<1>0. LocalTypes /\ LocalTypes'
  BY DEF STypeOK, LocalTypes, Outcomes
<1>a. \A p \in Procs : chars[p] \in Nat \ {0} /\ chars'[p] \in Nat \ {0} /\ parts[p] \in Nat
  BY <1>0, ChainAssumption DEF LocalTypes
<1>b. ASSUME NEW p \in Procs, parts' = [parts EXCEPT ![p] = 0],
             \A q \in Procs : q # p => phase'[q] = phase[q] /\ place'[q] = place[q],
             UNCHANGED chars
      PROVE  PartsFit'
  BY <1>0, <1>a, <1>b DEF PartsFit, Service, LocalTypes
<1>c. ASSUME NEW p \in Procs, UNCHANGED parts, phase[p] # "ask",
             \A q \in Procs : q # p => phase'[q] = phase[q] /\ place'[q] = place[q],
             \A q \in Procs : q # p => chars'[q] = chars[q]
      PROVE  PartsFit'
  <2>1. parts'[p] = 0 /\ 0 < chars'[p]
    BY <1>a, <1>c DEF PartsFit
  <2>2. \A q \in Procs : q # p =>
           parts'[q] = parts[q] /\ chars'[q] = chars[q] /\ phase'[q] = phase[q]
           /\ Service(q)' = Service(q)
    BY <1>c DEF Service
  <2>3. QED
    BY <2>1, <2>2 DEF PartsFit
<1> USE <1>0 DEF Goto, Return, Stay
<1>1. ASSUME NEW p \in Procs, NEW n \in Texts, Speak(p, n) PROVE PartsFit'
  <2>1. /\ UNCHANGED parts /\ phase[p] = "idle" /\ phase'[p] = "precheck"
        /\ \A q \in Procs : q # p =>
              phase'[q] = phase[q] /\ place'[q] = place[q] /\ chars'[q] = chars[q]
    BY <1>1 DEF Speak, LocalTypes
  <2>2. QED
    BY <1>c, <2>1
<1>2. ASSUME NEW p \in Procs, phase[p] # "ask", UNCHANGED <<parts, chars>>,
             \/ NextService(p)
             \/ UNCHANGED place /\ (UNCHANGED phase \/ \E f : Goto(p, f))
      PROVE  PartsFit'
  <2>1. CASE NextService(p)
    BY <1>c, <1>2, <2>1, MovesOn
  <2>2. CASE UNCHANGED place /\ (UNCHANGED phase \/ \E f : Goto(p, f))
    BY <1>c, <1>2, <2>2 DEF LocalTypes
  <2>3. QED
    BY <1>2, <2>1, <2>2
<1>3. ASSUME NEW p \in Procs, MaybeReset(p) PROVE PartsFit'
  BY <1>2, <1>3 DEF MaybeReset, Tracking
<1>4. ASSUME NEW p \in Procs, PreCheck(p) \/ AdapterCheck(p) PROVE PartsFit'
  BY <1>2, <1>4 DEF PreCheck, AdapterCheck
<1>5. ASSUME NEW p \in Procs, Skip(p) \/ Write(p) \/ Charge(p) \/ Log(p) PROVE PartsFit'
  <2>1. phase[p] # "ask" /\ UNCHANGED <<parts, chars>>
    BY <1>5 DEF Skip, Write, Charge, Log
  <2>2. NextService(p) \/ (UNCHANGED place /\ \E f : Goto(p, f))
    BY <1>5 DEF Skip, Write, Charge, Log
  <2>3. QED
    BY <1>2, <2>1, <2>2
<1>6. ASSUME NEW p \in Procs, Ask(p) PROVE PartsFit'
  <2>1. UNCHANGED chars /\ phase[p] = "ask"
    BY <1>6 DEF Ask
  <2>2. CASE Received(p, 0) /\ NextService(p)
    BY <1>b, <2>1, <2>2, MovesOn DEF Received
  <2>3. CASE Received(p, 0) /\ Goto(p, "write") /\ UNCHANGED place
    BY <1>b, <2>1, <2>3 DEF Received, LocalTypes
  <2>4. CASE /\ parts[p] + Portion(p) # chars[p] /\ UNCHANGED place
             /\ Goto(p, "ask") /\ Received(p, parts[p] + Portion(p))
    <3>1. Service(p) \in Chunked /\ parts[p] < chars[p] /\ Portion(p) = 1
      BY <1>a, <2>1, <2>4 DEF PartsFit, Portion
    <3>2. parts'[p] < chars[p] /\ phase'[p] = "ask"
      BY <1>a, <2>4, <3>1 DEF Received, LocalTypes
    <3>3. \A q \in Procs : q # p => phase'[q] = phase[q] /\ parts'[q] = parts[q]
      BY <2>4 DEF Received, LocalTypes
    <3>4. QED
      BY <2>1, <2>4, <3>1, <3>2, <3>3 DEF PartsFit, Service
  <2>5. QED
    BY <1>6, <2>2, <2>3, <2>4 DEF Ask
<1>7. ASSUME NEW p \in Procs, Stop(p) PROVE PartsFit'
  <2>1. /\ Received(p, 0) /\ UNCHANGED <<chars, place>> /\ Goto(p, "idle")
    BY <1>7 DEF Stop
  <2>2. QED
    BY <1>b, <2>1 DEF Received, LocalTypes
<1>8. CASE UNCHANGED local
  BY <1>8 DEF local, PartsFit, Service
<1>9. QED
  BY <1>1, <1>3, <1>4, <1>5, <1>6, <1>7, <1>8 DEF SNext, Step, svars

\* Steps that leave the account of a service alone: nothing is synthesised or
\* recorded, and what was in hand is still there or is lost to the table.
LEMMA Untouched ==
    ASSUME LocalTypes, NEW p \in Procs, NEW s \in Limited, Within(p, s),
           used[s] \in Nat, Limit[s] \in Nat, InHand(p, s) \in Nat,
           billed'[s] = billed[s], used'[s] = used[s],
           \/ InHand(p, s)' = InHand(p, s) /\ Pending(p, s)' = Pending(p, s)
           \/ InHand(p, s) = 0 /\ InHand(p, s)' = 0 /\ Pending(p, s)' = 0
    PROVE  Within(p, s)'
<1>1. Pending(p, s) \in Nat
  BY ChainAssumption DEF Pending, LocalTypes
<1>2. QED
  BY <1>1 DEF Within

LEMMA AloneRunStep ==
    ASSUME STypeOK, STypeOK', Metered, PartsFit, NEW p \in Procs, Step(p) \/ Stop(p),
           NEW s \in Limited \ unrecorded', Within(p, s), s \notin unrecorded
    PROVE  Within(p, s)'
<1>0. LocalTypes /\ LocalTypes'
  BY DEF STypeOK, LocalTypes, Outcomes
<1>a. /\ used[s] \in Nat /\ billed[s] \in Nat /\ Limit[s] \in Nat /\ s \in Limited
      /\ used \in [Limited -> Nat] /\ billed \in [Limited -> Nat]
  BY QuotaAssumption DEF STypeOK, QTypeOK
<1>b. chars[p] \in Nat \ {0} /\ parts[p] \in Nat
  BY <1>0, ChainAssumption DEF LocalTypes
<1>c. /\ InHand(p, s) \in Nat
      /\ phase[p] \notin {"ask", "write", "consume"} => InHand(p, s) = 0
      /\ Service(p) # s => InHand(p, s) = 0
      /\ phase'[p] \notin {"ask", "write", "consume"} => InHand(p, s)' = 0 /\ Pending(p, s)' = 0
      /\ Service(p)' # s => InHand(p, s)' = 0 /\ Pending(p, s)' = 0
  BY <1>b DEF InHand, Pending
<1>d. Service(p) = s => Pending(p, s) =
         IF phase[p] \in {"ask", "write", "consume"} THEN chars[p] ELSE 0
  BY <1>0 DEF Pending, LocalTypes
<1>e. Service(p)' = s => Pending(p, s)' =
         IF phase'[p] \in {"ask", "write", "consume"} THEN chars'[p] ELSE 0
  BY <1>0 DEF Pending, LocalTypes
<1>f. ASSUME NextService(p), UNCHANGED used, UNCHANGED billed, InHand(p, s) = 0
      PROVE  Within(p, s)'
  BY <1>0, <1>a, <1>c, <1>f, MovesOn, Untouched
<1> USE <1>0, <1>a DEF Goto, Return, Stay
<1>1. CASE MaybeReset(p)
  <2>1. /\ UNCHANGED <<chars, parts>>
        /\ phase[p] \in {"precheck", "skip", "check", "consume", "log"}
    BY <1>1 DEF MaybeReset, Tracking
  <2>2. ASSUME UNCHANGED <<phase, place>>
        PROVE  InHand(p, s)' = InHand(p, s) /\ Pending(p, s)' = Pending(p, s)
    BY <2>1, <2>2 DEF InHand, Pending, Service
  <2>3. CASE SelectPeriod(p, Service(p)) /\ UNCHANGED <<phase, billed, unrecorded>> /\ Stay
    BY <1>c, <2>2, <2>3, Untouched DEF SelectPeriod
  <2>4. CASE /\ ResetPeriod(p, Service(p)) /\ billed' = [billed EXCEPT ![Service(p)] = 0]
             /\ UNCHANGED <<phase, unrecorded>> /\ Stay
    <3>1. CASE Service(p) = s
      <4>1. used'[s] = 0 /\ billed'[s] = 0
        BY <2>4, <3>1 DEF ResetPeriod
      <4>2. InHand(p, s)' \in Nat /\ Pending(p, s)' = Pending(p, s) /\ Pending(p, s) \in Nat
        BY <1>b, <1>c, <1>d, <2>2, <2>4, <3>1
      <4>3. QED
        BY <4>1, <4>2 DEF Within
    <3>2. CASE Service(p) # s
      <4>1. used'[s] = used[s] /\ billed'[s] = billed[s]
        BY <2>4, <3>2 DEF ResetPeriod
      <4>2. QED
        BY <1>c, <2>2, <2>4, <4>1, Untouched
    <3>3. QED
      BY <3>1, <3>2
  <2>5. CASE /\ UNCHANGED <<used, billed>>
             /\ \/ phase[p] \in {"precheck", "skip"} /\ Return(p, "failed")
                \/ NextService(p)
             /\ unrecorded' = IF phase[p] = "consume" THEN unrecorded \cup {Service(p)}
                              ELSE unrecorded
    <3>1. InHand(p, s) = 0
      BY <1>c, <2>1, <2>5
    <3>2. CASE NextService(p)
      BY <1>f, <2>5, <3>1, <3>2
    <3>3. CASE Return(p, "failed")
      <4>1. phase'[p] = "idle"
        BY <3>3 DEF LocalTypes
      <4>2. QED
        BY <1>c, <2>5, <3>1, <4>1, Untouched
    <3>4. QED
      BY <2>5, <3>2, <3>3
  <2>6. QED
    BY <1>1, <2>3, <2>4, <2>5 DEF MaybeReset
<1>2. CASE PreCheck(p)
  <2>1. /\ UNCHANGED <<used, billed, place>> /\ phase[p] = "precheck"
        /\ phase'[p] \in {"check", "skip"} \/ Service(p) \notin Limited
    BY <1>2 DEF PreCheck, history, LocalTypes
  <2>2. InHand(p, s) = 0 /\ InHand(p, s)' = 0 /\ Pending(p, s)' = 0
    BY <1>c, <2>1 DEF Service
  <2>3. QED
    BY <1>c, <2>1, <2>2, Untouched
<1>3. CASE AdapterCheck(p)
  <2>1. /\ UNCHANGED <<used, billed, place, chars, parts>> /\ phase[p] = "check"
        /\ \/ phase'[p] = "skip"
           \/ phase'[p] = "ask" /\ Available(Service(p), chars[p])
    BY <1>3 DEF AdapterCheck, history, LocalTypes
  <2>2. CASE phase'[p] = "skip" \/ Service(p) # s
    <3>1. InHand(p, s) = 0 /\ InHand(p, s)' = 0 /\ Pending(p, s)' = 0
      BY <1>c, <2>1, <2>2 DEF Service
    <3>2. QED
      BY <1>c, <2>1, <3>1, Untouched
  <2>3. CASE phase'[p] = "ask" /\ Service(p) = s
    <3>1. used[s] + chars[p] <= Limit[s]
      BY <1>b, <2>1, <2>3 DEF Available
    <3>2. InHand(p, s) = 0 /\ InHand(p, s)' \in Nat /\ Pending(p, s)' = chars[p]
      BY <1>b, <1>c, <1>e, <2>1, <2>3 DEF InHand, Service
    <3>3. QED
      BY <2>1, <3>1, <3>2 DEF Within
  <2>4. QED
    BY <2>1, <2>2, <2>3
<1>4. CASE Skip(p)
  BY <1>c, <1>f, <1>4 DEF Skip, history
<1>5. CASE Ask(p)
  <2>1. UNCHANGED <<used, chars>> /\ phase[p] = "ask"
    BY <1>5 DEF Ask, qvars
  <2>2. Portion(p) \in Nat \ {0}
    BY <1>b DEF Portion
  <2>3. CASE Service(p) # s
    <3>1. billed'[s] = billed[s]
      BY <1>5, <2>3 DEF Ask, Billed
    <3>2. CASE NextService(p)
      <4>1. phase'[p] \notin {"ask", "write", "consume"}
        BY <3>2, MovesOn
      <4>2. QED
        BY <1>c, <2>1, <2>3, <3>1, <4>1, Untouched
    <3>3. CASE UNCHANGED place
      BY <1>c, <2>1, <2>3, <3>1, <3>3, Untouched DEF Service
    <3>4. QED
      BY <1>5, <3>2, <3>3 DEF Ask
  <2>4. CASE Service(p) = s
    <3>1. used[s] + chars[p] <= Limit[s] /\ billed[s] <= used[s] + parts[p]
      BY <1>b, <1>d, <2>1, <2>4 DEF Within, InHand
    <3>2. CASE /\ Billed(p, Portion(p)) /\ Stay
               /\ IF parts[p] + Portion(p) = chars[p]
                    THEN Goto(p, "write") /\ Received(p, 0)
                    ELSE Goto(p, "ask") /\ Received(p, parts[p] + Portion(p))
      <4>1. billed'[s] = billed[s] + Portion(p)
        BY <2>4, <3>2 DEF Billed
      <4>2. phase'[p] \in {"ask", "write"} /\ Service(p)' = s
        BY <2>4, <3>2 DEF Service, LocalTypes
      <4>3. InHand(p, s)' = parts[p] + Portion(p)
        BY <1>b, <2>1, <2>2, <2>4, <3>2, <4>2 DEF InHand, Received, LocalTypes
      <4>4. Pending(p, s)' = chars[p]
        BY <1>e, <2>1, <4>2
      <4>5. QED
        BY <1>b, <2>1, <2>2, <3>1, <4>1, <4>3, <4>4 DEF Within
    <3>3. CASE \E n \in {0, Portion(p)} :
                  /\ Billed(p, n)
                  /\ (IF parts[p] + n > 0 THEN Missed(p) ELSE UNCHANGED unrecorded)
                  /\ NextService(p)
      <4>1. PICK n \in {0, Portion(p)} :
               /\ Billed(p, n)
               /\ (IF parts[p] + n > 0 THEN Missed(p) ELSE UNCHANGED unrecorded)
               /\ NextService(p)
        BY <3>3
      <4>2. n = 0 /\ parts[p] = 0
        BY <1>b, <2>2, <2>4, <4>1 DEF Missed
      <4>3. billed'[s] = billed[s]
        BY <2>4, <4>1, <4>2 DEF Billed
      <4>4. InHand(p, s) = 0
        BY <2>1, <2>4, <4>2 DEF InHand
      <4>5. phase'[p] \notin {"ask", "write", "consume"}
        BY <4>1, MovesOn
      <4>6. QED
        BY <1>c, <2>1, <4>3, <4>4, <4>5, Untouched
    <3>4. QED
      BY <1>5, <3>2, <3>3 DEF Ask
  <2>5. QED
    BY <2>3, <2>4
<1>6. CASE Write(p)
  <2>1. UNCHANGED <<used, billed, chars>> /\ phase[p] = "write"
    BY <1>6 DEF Write, qvars
  <2>2. CASE NextService(p) /\ Missed(p)
    <3>1. Service(p) # s
      BY <2>2 DEF Missed
    <3>2. QED
      BY <1>c, <1>f, <2>1, <2>2, <3>1
  <2>3. CASE Service(p) \in Limited /\ Goto(p, "consume") /\ Stay
    <3>1. phase'[p] = "consume" /\ Service(p)' = Service(p) /\ UNCHANGED place
      BY <2>3 DEF Service, LocalTypes
    <3>2. InHand(p, s)' = InHand(p, s) /\ Pending(p, s)' = Pending(p, s)
      BY <2>1, <3>1 DEF InHand, Pending
    <3>3. QED
      BY <1>c, <2>1, <3>2, Untouched
  <2>4. CASE Service(p) \notin Limited /\ UNCHANGED place
    BY <1>c, <2>1, <2>4, Untouched DEF Service
  <2>5. QED
    BY <1>6, <2>2, <2>3, <2>4 DEF Write
<1>7. CASE Charge(p)
  <2>1. UNCHANGED <<billed, chars>> /\ phase[p] = "consume"
    BY <1>7 DEF Charge
  <2>2. CASE NextService(p) /\ Missed(p) /\ UNCHANGED used
    <3>1. Service(p) # s
      BY <2>2 DEF Missed
    <3>2. QED
      BY <1>c, <1>f, <2>1, <2>2, <3>1
  <2>3. CASE Consume(Service(p), chars[p]) /\ Goto(p, "log") /\ Stay
    <3>1. phase'[p] = "log"
      BY <2>3 DEF LocalTypes
    <3>2. CASE Service(p) = s
      <4>1. used'[s] = used[s] + chars[p]
        BY <2>3, <3>2 DEF Consume
      <4>2. InHand(p, s) = chars[p] /\ Pending(p, s) = chars[p]
        BY <1>d, <2>1, <3>2 DEF InHand
      <4>3. QED
        BY <1>b, <1>c, <2>1, <3>1, <4>1, <4>2 DEF Within
    <3>3. CASE Service(p) # s
      <4>1. used'[s] = used[s]
        BY <2>3, <3>3 DEF Consume
      <4>2. QED
        BY <1>c, <2>1, <3>1, <3>3, <4>1, Untouched
    <3>4. QED
      BY <3>2, <3>3
  <2>4. QED
    BY <1>7, <2>2, <2>3 DEF Charge
<1>8. CASE Log(p)
  <2>1. UNCHANGED <<used, billed>> /\ phase[p] = "log" /\ phase'[p] = "idle"
    BY <1>8 DEF Log, history, LocalTypes
  <2>2. QED
    BY <1>c, <2>1, Untouched
<1>9. CASE Stop(p)
  <2>1. UNCHANGED <<used, billed>> /\ phase'[p] = "idle"
    BY <1>9 DEF Stop, LocalTypes
  <2>2. InHand(p, s) = 0
    <3>1. CASE phase[p] \in {"write", "consume"} \/ (phase[p] = "ask" /\ parts[p] > 0)
      <4>1. Service(p) # s
        BY <1>9, <3>1 DEF Stop
      <4>2. QED
        BY <1>c, <4>1
    <3>2. CASE phase[p] = "ask" /\ ~ (parts[p] > 0)
      BY <1>b, <3>2 DEF InHand
    <3>3. QED
      BY <1>c, <3>1, <3>2
  <2>3. QED
    BY <1>c, <2>1, <2>2, Untouched
<1>10. QED
  BY <1>1, <1>2, <1>3, <1>4, <1>5, <1>6, <1>7, <1>8, <1>9 DEF Step

LEMMA AloneStep ==
    STypeOK /\ STypeOK' /\ Metered /\ PartsFit /\ AloneInv /\ [SNext]_svars => AloneInv'
<1> SUFFICES ASSUME STypeOK, STypeOK', Metered, PartsFit, AloneInv, [SNext]_svars
             PROVE  AloneInv'
  OBVIOUS
<1>0. LocalTypes /\ LocalTypes'
  BY DEF STypeOK, LocalTypes, Outcomes
<1>a. ASSUME NEW p \in Procs, NEW s \in Limited
      PROVE  /\ used[s] \in Nat /\ Limit[s] \in Nat
             /\ phase[p] \notin {"ask", "write", "consume"} =>
                   InHand(p, s) = 0 /\ Pending(p, s) = 0
             /\ phase'[p] \notin {"ask", "write", "consume"} =>
                   InHand(p, s)' = 0 /\ Pending(p, s)' = 0
  BY <1>a, QuotaAssumption DEF STypeOK, QTypeOK, InHand, Pending
<1>1. ASSUME NEW p \in Procs, NEW n \in Texts, Speak(p, n) PROVE AloneInv'
  <2>1. /\ speakers' = speakers \cup {p} /\ phase[p] = "idle" /\ phase'[p] = "precheck"
        /\ \A q \in Procs : q # p => phase'[q] = phase[q]
        /\ UNCHANGED <<used, billed, unrecorded>>
    BY <1>0, <1>1 DEF Speak, Goto, LocalTypes, qvars
  <2>2. ASSUME NEW q \in Procs, Alone(q)', NEW s \in Limited \ unrecorded'
        PROVE  Within(q, s)'
    <3>1. q = p /\ Alone(q)
      BY <2>1, <2>2 DEF Alone
    <3>2. Within(q, s) /\ s \in Limited
      BY <2>1, <2>2, <3>1 DEF AloneInv
    <3>3. InHand(q, s) = 0 /\ InHand(q, s)' = 0 /\ Pending(q, s)' = 0
      BY <1>a, <2>1, <3>1, <3>2
    <3>4. QED
      BY <1>0, <1>a, <2>1, <3>2, <3>3, Untouched
  <2>3. QED
    BY <2>1, <2>2 DEF AloneInv
<1>2. ASSUME NEW p \in Procs, Step(p) \/ Stop(p) PROVE AloneInv'
  <2>1. UNCHANGED speakers /\ unrecorded \subseteq unrecorded'
    BY <1>2 DEF Step, Stop, MaybeReset, PreCheck, AdapterCheck, Skip, Ask, Write, Charge, Log,
       Missed, history
  <2>2. p \in speakers
    <3>1. phase[p] # "idle"
      BY <1>2 DEF Step, Stop, MaybeReset, Tracking, PreCheck, AdapterCheck, Skip, Ask, Write,
         Charge, Log
    <3>2. QED
      BY <3>1 DEF AloneInv
  <2>3. \A q \in Procs : q # p => phase'[q] = phase[q]
    <3>1. UNCHANGED phase \/ (\E f : Goto(p, f)) \/ NextService(p)
      BY <1>2 DEF Step, Stop, MaybeReset, PreCheck, AdapterCheck, Skip, Ask, Write, Charge, Log,
         Return
    <3>2. QED
      BY <1>0, <3>1, MovesOn DEF Goto, LocalTypes
  <2>4. ASSUME NEW q \in Procs, Alone(q)', NEW s \in Limited \ unrecorded'
        PROVE  Within(q, s)'
    <3>1. q = p /\ Alone(q)
      BY <2>1, <2>2, <2>4 DEF Alone
    <3>2. s \notin unrecorded /\ Within(p, s)
      BY <2>1, <2>4, <3>1 DEF AloneInv
    <3>3. QED
      BY <1>2, <3>1, <3>2, AloneRunStep
  <2>5. QED
    BY <2>1, <2>2, <2>3, <2>4 DEF AloneInv
<1>3. CASE UNCHANGED <<used, local, history>>
  BY <1>3 DEF local, history, AloneInv, Alone, Within, InHand, Pending, Service
<1>4. QED
  BY <1>1, <1>2, <1>3 DEF SNext, svars, qvars, NextDay

BudgetInv == Shared /\ PartsFit /\ AloneInv

LEMMA BudgetInit == SInit => BudgetInv
<1> SUFFICES ASSUME SInit PROVE BudgetInv
  OBVIOUS
<1>1. STypeOK /\ LocalTypes
  BY SpeechTypesInit DEF STypeOK, LocalTypes, Outcomes
<1>2. \A q \in Procs : \A s \in Limited :
         /\ Pending(q, s) = 0 /\ InHand(q, s) = 0 /\ used[s] = 0 /\ billed[s] = 0
         /\ Limit[s] \in Nat
  BY QuotaAssumption DEF SInit, QInit, Pending, InHand
<1>3. ASSUME NEW s \in Limited
      PROVE  used[s] + Cardinality(Chunks(PendingOf(s))) <= Limit[s] + Slack
  <2>1. PICK p \in Procs : TRUE
    BY ProcsAssumption
  <2>2. Chunks(PendingOf(s)) = {}
    BY <1>2 DEF Chunks, PendingOf
  <2>3. Slack \in Nat /\ Limit[s] \in Nat /\ used[s] = 0
    BY <1>2, <2>1, OthersCount
  <2>4. QED
    BY <2>2, <2>3, FS_EmptySet
<1>4. PartsFit /\ AloneInv
  BY <1>2 DEF SInit, QInit, PartsFit, AloneInv, Within
<1>5. QED
  BY <1>3, <1>4 DEF BudgetInv, Shared

\* Two processes, or any number of them, overdraw a service by at most one longest
\* text for each process but one, whatever resets and failures come between its check
\* and its UPDATE; and a process on its own never makes a service synthesise more in
\* a period than its limit, as long as all of it was recorded.
THEOREM BudgetKeptHolds == SSpec => []BudgetKept
<1>1. STypeOK /\ STypeOK' /\ Metered /\ BudgetInv /\ [SNext]_svars => BudgetInv'
  BY SharedStep, PartsStep, AloneStep DEF BudgetInv
<1>2. STypeOK /\ BudgetInv => BudgetKept
  <2> SUFFICES ASSUME STypeOK, BudgetInv PROVE BudgetKept
    OBVIOUS
  <2>1. \A s \in Limited :
           used[s] + InFlight(s) <= Limit[s] + (Cardinality(Procs) - 1) * Longest
    BY InFlightCounts DEF BudgetInv, Shared, Slack
  <2>2. ASSUME Cardinality(speakers) <= 1, NEW s \in Limited \ unrecorded
        PROVE  billed[s] <= Limit[s]
    <3>1. IsFiniteSet(speakers) /\ Cardinality(speakers) \in Nat
      BY ProcsAssumption, FS_Subset, FS_CardinalityType DEF STypeOK
    <3>2. PICK p \in Procs : Alone(p)
      <4>1. CASE Cardinality(speakers) = 0
        BY <3>1, <4>1, FS_EmptySet, ProcsAssumption DEF Alone
      <4>2. CASE Cardinality(speakers) = 1
        BY <3>1, <4>2, FS_Singleton DEF Alone, STypeOK
      <4>3. QED
        BY <2>2, <3>1, <4>1, <4>2
    <3>3. Within(p, s)
      BY <3>2 DEF BudgetInv, AloneInv
    <3>4. InHand(p, s) <= Pending(p, s) /\ InHand(p, s) \in Nat /\ Pending(p, s) \in Nat
      <4>1. chars[p] \in Nat \ {0} /\ parts[p] \in Nat /\ place[p] \in 1 .. Len(Chain)
        BY ChainAssumption DEF STypeOK
      <4>2. phase[p] = "ask" => parts[p] < chars[p]
        BY <4>1 DEF BudgetInv, PartsFit
      <4>3. QED
        BY <4>1, <4>2 DEF InHand, Pending
    <3>5. used[s] \in Nat /\ billed[s] \in Nat /\ Limit[s] \in Nat
      BY QuotaAssumption DEF STypeOK, QTypeOK
    <3>6. QED
      BY <3>3, <3>4, <3>5 DEF Within
  <2>3. QED
    BY <2>1, <2>2 DEF BudgetKept
<1>3. QED
  BY <1>1, <1>2, BudgetInit, SpeechShape, PTL DEF SSpec
==============================================================================
