--------------------------- MODULE PipelineProofs ---------------------------
(***************************************************************************)
(* What holds of UploadScheduler for every number of processes, plans,     *)
(* crashes and clock values, and of Pipeline, which is composed with it,   *)
(* for any number of runs and scripts and any combination of faults.       *)
(***************************************************************************)
EXTENDS Pipeline, SchedulerQueue, TLAPS, FiniteSetTheorems

(***************************************************************************)
(* The scheduler                                                           *)
(***************************************************************************)

LEMMA TypeInit == Init => TypeOK
  BY JobAssumption, DateAssumption, LimitAssumption DEF Init, TypeOK, Times, NoDate

\* The shape of now, row, ... is preserved by every step: the invariant the
\* other proofs start from (all of scheduler.py:43-127).
THEOREM TypeCorrect == Spec => []TypeOK
<1> USE JobAssumption, DateAssumption, LimitAssumption
<1>1. Init => TypeOK
  BY TypeInit
<1>2. TypeOK /\ [Next]_vars => TypeOK'
  <2> SUFFICES ASSUME TypeOK, [Next]_vars PROVE TypeOK'
    OBVIOUS
  <2> USE DEF TypeOK
  <2>0. Today \in Days
    BY DEF Today, Days
  <2>1. CASE Tick
    BY <2>1 DEF Tick, Times, memory, history
  <2>2. ASSUME NEW p \in Procs, Start(p) PROVE TypeOK'
    <3>1. Rows \subseteq Job
      BY DEF Rows
    <3>2. heap' \in [Procs -> SUBSET Job]
      BY <2>2, <3>1 DEF Start
    <3>3. incarnation' \in [Procs -> 0 .. MaxStarts] /\ starts' \in Starts
      BY <2>2 DEF Start, Starts
    <3>4. QED
      BY <2>2, <3>2, <3>3 DEF Start, Starts
  <2>3. ASSUME NEW p \in Procs, NEW job \in Job, Schedule(p, job) PROVE TypeOK'
    BY <2>3 DEF Schedule
  <2>4. ASSUME NEW p \in Procs, SaveRow(p) PROVE TypeOK'
    <3>1. cur[p] \in Job /\ cur[p].plan \in Plans
      BY <2>4 DEF SaveRow, Job
    <3>2. row' \in [Plans -> Job \cup {NoJob}]
      BY <2>4, <3>1 DEF SaveRow
    <3>3. \A t \in Plans : row'[t] # NoJob => row'[t].plan = t
      BY <2>4, <3>1 DEF SaveRow
    <3>4. QED
      BY <2>4, <3>1, <3>2, <3>3 DEF SaveRow
  <2>5. ASSUME NEW p \in Procs, CheckLimit(p) PROVE TypeOK'
    BY <2>0, <2>5 DEF CheckLimit, history
  <2>6. ASSUME NEW p \in Procs, Peek(p) PROVE TypeOK'
    <3>1. UNCHANGED <<now, row, uploads_today, last_date, history>>
      BY <2>6 DEF Peek
    <3>2. CASE UNCHANGED <<heap, cur>> /\ pc' = [pc EXCEPT ![p] = "idle"] /\ pc[p] = "peek"
      BY <3>1, <3>2 DEF history
    <3>3. ASSUME NEW j \in Job, pc[p] = "peek",
                 heap' = [heap EXCEPT ![p] = @ \ {j}],
                 cur' = [cur EXCEPT ![p] = j],
                 pc' = [pc EXCEPT ![p] = "deleting"]
          PROVE  TypeOK'
      BY <3>1, <3>3 DEF history
    <3>4. QED
      BY <2>6, <3>2, <3>3 DEF Peek, Earliest
  <2>7. ASSUME NEW p \in Procs, DeleteRow(p) PROVE TypeOK'
    <3>1. cur[p] \in Job /\ cur[p].plan \in Plans
      BY <2>7 DEF DeleteRow, Job
    <3>2. row' \in [Plans -> Job \cup {NoJob}]
      BY <2>7, <3>1 DEF DeleteRow
    <3>3. \A t \in Plans : row'[t] # NoJob => row'[t].plan = t
      BY <2>7, <3>1 DEF DeleteRow
    <3>4. kept' \in [Procs -> SUBSET Job]
      BY <2>7, <3>1 DEF DeleteRow
    <3>5. QED
      BY <2>7, <3>1, <3>2, <3>3, <3>4 DEF DeleteRow, memory
  <2>11. ASSUME NEW p \in Procs, Return(p) PROVE TypeOK'
    <3>1. cur[p] \in Job
      BY <2>11 DEF Return
    <3>2. incarnation[p] \in Starts
      BY <2>11 DEF Return
    <3>3. used[incarnation[p]] \in [Days -> Nat]
      BY <3>2
    <3>4. used' \in [Starts -> [Days -> Nat]]
      BY <2>0, <2>11, <3>2, <3>3 DEF Return
    <3>5. late' \in [Starts -> SUBSET Days]
      BY <2>0, <2>11, <3>2 DEF Return
    <3>6. QED
      BY <2>11, <3>1, <3>4, <3>5 DEF Return
  <2>8. ASSUME NEW p \in Procs, Crash(p) PROVE TypeOK'
    BY <2>8 DEF Crash, history
  <2>9. CASE UNCHANGED vars
    BY <2>9 DEF vars, memory, history
  <2>10. QED
    BY <2>1, <2>2, <2>3, <2>4, <2>5, <2>6, <2>7, <2>8, <2>9, <2>11 DEF Next, Step
<1>3. QED
  BY <1>1, <1>2, PTL DEF Spec
------------------------------------------------------------------------------
\* The daily limit.  The strengthening ties the in-memory counter of a live process
\* to the history: on its counted date that start has handed out no more than the
\* counter says, apart from one late job; on later dates at most the late job, and
\* nothing at all while a call past the limit check, with room for one more, is
\* open.  Dates to come and starts to come have nothing, and no two live processes
\* share a start.
Extra(i, d) == IF d \in late[i] THEN 1 ELSE 0
Nothing(i, d) == used[i][d] = 0 /\ d \notin late[i]

CounterInv(p) ==
    LET i == incarnation[p] IN
    pc[p] # "down" =>
        /\ last_date[p] <= Today
        /\ last_date[p] \in Days =>
              used[i][last_date[p]] <= uploads_today[p] + Extra(i, last_date[p])
        /\ \A d \in Days : d > last_date[p] => used[i][d] <= Extra(i, d)
        /\ pc[p] \in {"peek", "deleting", "returning"} =>
              /\ uploads_today[p] < MaxPerDay
              /\ \A d \in Days : d > last_date[p] => Nothing(i, d)

LimitInv ==
    /\ DailyLimit
    /\ \A p \in Procs : CounterInv(p)
    /\ \A p \in Procs : incarnation[p] <= starts
    /\ \A p, q \in Procs :
         p # q /\ pc[p] # "down" /\ pc[q] # "down" => incarnation[p] # incarnation[q]
    /\ \A i \in Starts : \A d \in Days : i > starts \/ d > Today => Nothing(i, d)

LEMMA LimitInit == Init => LimitInv
  BY LimitAssumption DEF Init, LimitInv, DailyLimit, Allowed, CounterInv, Nothing, Starts

LEMMA DaysOrdered == ASSUME TypeOK PROVE Today \in Days /\ Days \subseteq Nat
  BY DateAssumption DEF TypeOK, Today, Days, Times

\* A step that leaves dates, counts and starts alone, opens no call past the limit
\* check and revives no process.
LEMMA LimitFrame ==
    ASSUME TypeOK, LimitInv,
           UNCHANGED <<used, late, incarnation, starts, Today, uploads_today, last_date>>,
           \A q \in Procs :
              /\ pc'[q] # "down" => pc[q] # "down"
              /\ pc'[q] \in {"peek", "deleting", "returning"} =>
                    pc[q] \in {"peek", "deleting", "returning"}
    PROVE  LimitInv'
<1>1. \A q \in Procs : CounterInv(q)'
  BY DEF LimitInv, CounterInv, Extra, Nothing
<1>2. QED
  BY <1>1 DEF LimitInv, DailyLimit, Allowed, Nothing

LEMMA LimitStep == TypeOK /\ TypeOK' /\ LimitInv /\ [Next]_vars => LimitInv'
<1> SUFFICES ASSUME TypeOK, TypeOK', LimitInv, [Next]_vars PROVE LimitInv'
  OBVIOUS
<1> USE DaysOrdered, LimitAssumption DEF LimitInv
<1>0. Today \in Nat /\ \A p \in Procs : last_date[p] \in Int /\ uploads_today[p] \in Nat
  BY DEF TypeOK, NoDate
<1>1. CASE Tick
  <2>1. Today <= Today' /\ Today' \in Nat
    BY <1>1, DateAssumption DEF Tick, Today, TypeOK, Times
  <2>2. UNCHANGED <<pc, uploads_today, last_date, starts, incarnation, used, late>>
    BY <1>1 DEF Tick, memory, history
  <2>3. \A p \in Procs : CounterInv(p)'
    BY <1>0, <2>1, <2>2 DEF CounterInv, Extra, Nothing
  <2>4. \A d \in Days : d > Today' => d > Today
    BY <1>0, <2>1
  <2>5. QED
    BY <2>2, <2>3, <2>4 DEF DailyLimit, Allowed, Nothing
<1>2. ASSUME NEW p \in Procs, Start(p) PROVE LimitInv'
  <2>1. starts' \in Starts /\ starts' > starts /\ incarnation'[p] = starts'
    BY <1>2 DEF Start, TypeOK, Starts
  <2>2. UNCHANGED <<used, late, Today>> /\ pc'[p] = "idle" /\ last_date'[p] = -1
    BY <1>2 DEF Start, Today, TypeOK, NoDate
  <2>3. ASSUME NEW q \in Procs PROVE CounterInv(q)'
    <3>1. CASE q = p
      BY <1>0, <2>1, <2>2, <3>1 DEF CounterInv, Extra, Nothing
    <3>2. CASE q # p
      <4>1. UNCHANGED <<pc[q], uploads_today[q], last_date[q], incarnation[q]>>
        BY <1>2, <3>2 DEF Start, TypeOK
      <4>2. QED
        BY <2>2, <4>1 DEF CounterInv, Extra, Nothing
    <3>3. QED
      BY <3>1, <3>2
  <2>4. QED
    <3>1. \A q \in Procs : incarnation'[q] <= starts'
      BY <1>2, <2>1 DEF Start, TypeOK, Starts
    <3>2. \A q, r \in Procs : q # r /\ pc'[q] # "down" /\ pc'[r] # "down"
                                 => incarnation'[q] # incarnation'[r]
      <4>1. \A q \in Procs : q # p => incarnation'[q] = incarnation[q] /\ pc'[q] = pc[q]
        BY <1>2 DEF Start, TypeOK
      <4>2. \A q \in Procs : incarnation[q] # starts'
        BY <2>1 DEF TypeOK, Starts
      <4>3. QED
        BY <2>1, <4>1, <4>2
    <3>3. \A i \in Starts : i > starts' => i > starts
      BY <2>1 DEF TypeOK, Starts
    <3>4. \A i \in Starts : \A d \in Days : i > starts' \/ d > Today' => Nothing(i, d)'
      BY <2>2, <3>3 DEF Nothing
    <3>5. QED
      BY <2>2, <2>3, <3>1, <3>2, <3>4 DEF DailyLimit, Allowed
<1>3. ASSUME NEW p \in Procs, NEW job \in Job, Schedule(p, job) PROVE LimitInv'
  BY <1>3, LimitFrame DEF Schedule, TypeOK, Today
<1>4. ASSUME NEW p \in Procs, SaveRow(p) PROVE LimitInv'
  BY <1>4, LimitFrame DEF SaveRow, TypeOK, Today
<1>5. ASSUME NEW p \in Procs, CheckLimit(p) PROVE LimitInv'
  <2>1. UNCHANGED <<used, late, incarnation, starts, Today>>
    BY <1>5 DEF CheckLimit, history, Today
  <2>2. last_date'[p] = Today /\ pc[p] = "idle" /\ pc'[p] \in {"idle", "peek"}
    BY <1>5 DEF CheckLimit, TypeOK
  <2>3. uploads_today'[p] = IF last_date[p] # Today THEN 0 ELSE uploads_today[p]
    BY <1>5 DEF CheckLimit, TypeOK
  <2>4. pc'[p] = "peek" => uploads_today'[p] < MaxPerDay
    BY <1>0, <1>5, <2>3 DEF CheckLimit, TypeOK
  <2>5. incarnation[p] \in Starts /\ last_date[p] <= Today
    BY <2>2 DEF TypeOK, CounterInv
  <2>6. used[incarnation[p]][Today] <= uploads_today'[p] + Extra(incarnation[p], Today)
    <3>1. CASE last_date[p] = Today
      BY <2>2, <2>3, <3>1 DEF CounterInv
    <3>2. CASE last_date[p] # Today
      <4>1. Today > last_date[p]
        BY <1>0, <2>5, <3>2
      <4>2. used[incarnation[p]][Today] <= Extra(incarnation[p], Today)
        BY <2>2, <4>1 DEF CounterInv
      <4>3. QED
        BY <2>3, <3>2, <4>2 DEF Extra
    <3>3. QED
      BY <3>1, <3>2
  <2>7. \A d \in Days : d > Today => /\ Nothing(incarnation[p], d)
                                     /\ used[incarnation[p]][d] <= Extra(incarnation[p], d)
    BY <2>5 DEF Nothing, Extra
  <2>8. ASSUME NEW q \in Procs PROVE CounterInv(q)'
    <3>1. CASE q = p
      BY <1>0, <2>1, <2>2, <2>4, <2>6, <2>7, <3>1 DEF CounterInv, Extra, Nothing
    <3>2. CASE q # p
      <4>1. UNCHANGED <<pc[q], uploads_today[q], last_date[q]>>
        BY <1>5, <3>2 DEF CheckLimit, TypeOK
      <4>2. QED
        BY <2>1, <4>1 DEF CounterInv, Extra, Nothing
    <3>3. QED
      BY <3>1, <3>2
  <2>9. \A q \in Procs : pc'[q] = "down" <=> pc[q] = "down"
    BY <1>5, <2>2 DEF CheckLimit, TypeOK
  <2>10. QED
    BY <2>1, <2>8, <2>9 DEF DailyLimit, Allowed, Nothing
<1>6. ASSUME NEW p \in Procs, Peek(p) PROVE LimitInv'
  <2>1. UNCHANGED <<used, late, incarnation, starts, Today, uploads_today, last_date>>
    BY <1>6 DEF Peek, history, Today
  <2>2. \A q \in Procs : pc'[q] # pc[q] =>
           q = p /\ pc[p] = "peek" /\ pc'[p] \in {"idle", "deleting"}
    BY <1>6 DEF Peek, TypeOK
  <2>3. QED
    BY <2>1, <2>2, LimitFrame
<1>7. ASSUME NEW p \in Procs, DeleteRow(p) PROVE LimitInv'
  <2>1. UNCHANGED <<used, late, incarnation, starts, Today, uploads_today, last_date>>
    BY <1>7 DEF DeleteRow, memory, Today
  <2>2. \A q \in Procs : pc'[q] # pc[q] => q = p /\ pc[p] = "deleting" /\ pc'[p] = "returning"
    BY <1>7 DEF DeleteRow, TypeOK
  <2>3. QED
    BY <2>1, <2>2, LimitFrame
<1>8. ASSUME NEW p \in Procs, Return(p) PROVE LimitInv'
  <2> DEFINE i == incarnation[p]
             d == last_date[p]
  <2>1. i \in Starts /\ d \in Days /\ pc[p] = "returning" /\ pc'[p] = "idle"
    BY <1>8 DEF Return, TypeOK
  <2>2. UNCHANGED <<incarnation, starts, last_date, Today>>
    BY <1>8 DEF Return, Today
  <2>3. d <= Today /\ uploads_today[p] < MaxPerDay /\ uploads_today'[p] = uploads_today[p] + 1
    BY <1>8, <2>1 DEF CounterInv, Return, TypeOK
  <2>4. \A j \in Starts : \A e \in Days :
          used'[j][e] = IF j = i /\ e = Today THEN used[j][e] + 1 ELSE used[j][e]
    BY <1>8, <2>1 DEF Return, TypeOK
  <2>5. \A j \in Starts : \A e \in Days :
          e \in late'[j] <=> e \in late[j] \/ (j = i /\ e = Today /\ d # Today)
    BY <1>8, <2>1 DEF Return, TypeOK
  <2>6. \A j \in Starts : \A e \in Days : used[j][e] \in Nat
    BY DEF TypeOK
  <2>7. \A e \in Days : e > d => Nothing(i, e) /\ used[i][e] <= Extra(i, e)
    BY <2>1 DEF CounterInv
  <2>8. used[i][d] <= uploads_today[p] + Extra(i, d)
    BY <2>1 DEF CounterInv
  <2>9. used'[i][Today] <= MaxPerDay + Extra(i, Today)'
    <3>1. CASE d = Today
      <4>1. used'[i][Today] = used[i][d] + 1 /\ Extra(i, Today)' = Extra(i, d)
        BY <2>1, <2>2, <2>4, <2>5, <3>1 DEF Extra
      <4>2. uploads_today[p] + 1 <= MaxPerDay /\ Extra(i, d) \in Nat /\ used[i][d] \in Nat
        BY <1>0, <2>1, <2>3, <2>6 DEF Extra
      <4>3. QED
        BY <1>0, <2>8, <4>1, <4>2
    <3>2. CASE d # Today
      <4>1. used[i][Today] = 0 /\ Today \in late'[i]
        BY <1>0, <2>1, <2>3, <2>5, <2>7, <3>2 DEF Nothing
      <4>2. QED
        BY <2>1, <2>2, <2>4, <4>1 DEF Extra
    <3>3. QED
      BY <3>1, <3>2
  <2>10. DailyLimit'
    <3>1. SUFFICES ASSUME NEW j \in Starts, NEW e \in Days
                   PROVE  used'[j][e] <= MaxPerDay + Extra(j, e)'
      BY DEF DailyLimit, Allowed, Extra
    <3>2. CASE j = i /\ e = Today
      BY <2>2, <2>9, <3>2
    <3>3. CASE ~ (j = i /\ e = Today)
      BY <2>4, <2>5, <3>3 DEF DailyLimit, Allowed, Extra
    <3>4. QED
      BY <3>2, <3>3
  <2>11. CounterInv(p)'
    <3>1. used'[i][d] <= uploads_today'[p] + Extra(i, d)'
      BY <1>0, <2>1, <2>2, <2>3, <2>4, <2>5, <2>6, <2>8 DEF Extra
    <3>2. ASSUME NEW e \in Days, e > d PROVE used'[i][e] <= Extra(i, e)'
      <4>1. used[i][e] = 0
        BY <2>7, <3>2 DEF Nothing
      <4>2. e = Today => d # Today
        BY <1>0, <2>1, <3>2
      <4>3. QED
        BY <2>1, <2>2, <2>4, <2>5, <4>1, <4>2 DEF Extra
    <3>3. QED
      BY <2>1, <2>2, <2>3, <3>1, <3>2 DEF CounterInv, Extra
  <2>12. ASSUME NEW q \in Procs, q # p PROVE CounterInv(q)'
    <3>1. UNCHANGED <<pc[q], uploads_today[q]>>
      BY <1>8, <2>12 DEF Return, TypeOK
    <3>2. CASE pc[q] = "down"
      BY <3>1, <3>2 DEF CounterInv
    <3>3. CASE pc[q] # "down"
      <4>1. incarnation[q] # i /\ incarnation[q] \in Starts
        BY <2>1, <2>12, <3>3 DEF TypeOK
      <4>2. \A e \in Days : /\ used'[incarnation[q]][e] = used[incarnation[q]][e]
                            /\ e \in late'[incarnation[q]] <=> e \in late[incarnation[q]]
        BY <2>4, <2>5, <4>1
      <4>3. QED
        BY <2>2, <3>1, <4>2 DEF CounterInv, Extra, Nothing
    <3>4. QED
      BY <3>2, <3>3
  <2>13. \A q \in Procs : pc'[q] = "down" <=> pc[q] = "down"
    BY <1>8 DEF Return, TypeOK
  <2>14. \A j \in Starts : \A e \in Days : j > starts' \/ e > Today' => Nothing(j, e)'
    <3>1. SUFFICES ASSUME NEW j \in Starts, NEW e \in Days, j > starts \/ e > Today
                  PROVE Nothing(j, e)'
      BY <2>2
    <3>2. starts \in Int /\ i \in Int /\ j \in Int /\ i <= starts /\ e \in Nat
      <4>1. starts \in Int /\ MaxStarts \in Int
        BY DEF TypeOK
      <4>2. QED
        BY <2>1, <4>1 DEF Starts
    <3>3. ~ (j = i /\ e = Today)
      BY <1>0, <3>1, <3>2
    <3>4. QED
      BY <2>4, <2>5, <3>1, <3>3 DEF Nothing
  <2>15. QED
    BY <2>2, <2>10, <2>11, <2>12, <2>13, <2>14
<1>9. ASSUME NEW p \in Procs, Crash(p) PROVE LimitInv'
  <2>1. UNCHANGED <<used, late, incarnation, starts, Today, uploads_today, last_date>>
    BY <1>9 DEF Crash, Today
  <2>2. \A q \in Procs : pc'[q] = pc[q] \/ pc'[q] = "down"
    BY <1>9 DEF Crash, TypeOK
  <2>3. QED
    BY <2>1, <2>2, LimitFrame
<1>10. CASE UNCHANGED vars
  BY <1>10, LimitFrame DEF vars, memory, history, Today
<1>11. QED
  BY <1>1, <1>2, <1>3, <1>4, <1>5, <1>6, <1>7, <1>8, <1>9, <1>10 DEF Next, Step

\* However processes start, end and interleave, one start of the program hands out at
\* most max_per_day jobs on any date of the clock, and one more only if midnight fell
\* between the date check of its call and the return.
THEOREM DailyLimitHolds == Spec => []DailyLimit
<1>1. Init => LimitInv
  BY LimitInit
<1>2. TypeOK /\ TypeOK' /\ LimitInv /\ [Next]_vars => LimitInv'
  BY LimitStep
<1>3. LimitInv => DailyLimit
  BY DEF LimitInv
<1>4. QED
  BY <1>1, <1>2, <1>3, TypeCorrect, PTL DEF Spec
------------------------------------------------------------------------------
\* At most once.  Three facts make AtMostOnce inductive: every job in a heap, a
\* row or a call was once scheduled (so a newly scheduled job is nowhere),
\* a job still being saved is known to its own process only (so committing its
\* row cannot bring back a job that was handed out meanwhile), and a popped job is
\* back in the table only if its deletion failed.
Known ==
    /\ Rows \subseteq scheduled
    /\ \A p \in Procs : heap[p] \cup handed[p] \subseteq scheduled
    /\ \A p \in Procs : pc[p] \in {"saving", "deleting", "returning"} => cur[p] \in scheduled

SavingIsPrivate ==
    \A p \in Procs : pc[p] = "saving" =>
        /\ cur[p] \notin Rows
        /\ \A q \in Procs : cur[p] \notin handed[q]
        /\ \A q \in Procs \ {p} : cur[p] \notin heap[q] /\ cur[q] # cur[p]

\* A popped job has left the heap, and, once its row was to be deleted, the table.
Popped ==
    /\ \A p \in Procs : pc[p] \in {"deleting", "returning"} => cur[p] \notin heap[p]
    /\ \A p \in Procs : pc[p] = "returning" /\ cur[p] \in Rows => cur[p] \in kept[p]

OnceInv == Known /\ SavingIsPrivate /\ Popped /\ AtMostOnce

LEMMA OnceInit == Init => OnceInv
  BY DEF Init, OnceInv, Known, SavingIsPrivate, Popped, AtMostOnce, Offers, InHand, Rows

\* A step that leaves the table and one process's view alone.
LEMMA RowsUnchanged == UNCHANGED row => UNCHANGED Rows
  BY DEF Rows

LEMMA KnownStep == TypeOK /\ Known /\ [Next]_vars => Known'
<1> SUFFICES ASSUME TypeOK, Known, [Next]_vars PROVE Known'
  OBVIOUS
<1> USE RowsUnchanged DEF Known
<1>1. CASE Tick
  BY <1>1 DEF Tick, memory, history
<1>2. ASSUME NEW p \in Procs, Start(p) PROVE Known'
  <2>1. UNCHANGED <<row, cur, scheduled, handed>>
    BY <1>2 DEF Start
  <2>2. \A q \in Procs : heap'[q] \subseteq heap[q] \cup Rows
    BY <1>2 DEF Start, TypeOK
  <2>3. \A q \in Procs : pc'[q] \in {"saving", "deleting", "returning"} => pc'[q] = pc[q]
    BY <1>2 DEF Start, TypeOK
  <2>4. QED
    BY <2>1, <2>2, <2>3
<1>3. ASSUME NEW p \in Procs, NEW job \in Job, Schedule(p, job) PROVE Known'
  BY <1>3 DEF Schedule, TypeOK
<1>4. ASSUME NEW p \in Procs, SaveRow(p) PROVE Known'
  <2>1. Rows' \subseteq Rows \cup {cur[p]}
    BY <1>4 DEF SaveRow, Rows, TypeOK
  <2>2. QED
    BY <1>4, <2>1 DEF SaveRow, TypeOK
<1>5. ASSUME NEW p \in Procs, CheckLimit(p) PROVE Known'
  BY <1>5 DEF CheckLimit, history, TypeOK
<1>6. ASSUME NEW p \in Procs, Peek(p) PROVE Known'
  <2>1. UNCHANGED <<row, scheduled, handed>>
    BY <1>6 DEF Peek, history
  <2>2. \A q \in Procs : heap'[q] \subseteq heap[q]
    BY <1>6 DEF Peek, TypeOK
  <2>3. \A q \in Procs : pc'[q] \in {"saving", "deleting", "returning"} =>
           (pc'[q] = pc[q] /\ cur'[q] = cur[q]) \/ cur'[q] \in heap[q]
    BY <1>6 DEF Peek, Earliest, TypeOK
  <2>4. QED
    BY <2>1, <2>2, <2>3
<1>7. ASSUME NEW p \in Procs, DeleteRow(p) PROVE Known'
  <2>1. Rows' \subseteq Rows
    BY <1>7 DEF DeleteRow, Rows, TypeOK
  <2>2. QED
    BY <1>7, <2>1 DEF DeleteRow, memory, TypeOK
<1>11. ASSUME NEW p \in Procs, Return(p) PROVE Known'
  BY <1>11 DEF Return, TypeOK
<1>8. ASSUME NEW p \in Procs, Crash(p) PROVE Known'
  BY <1>8 DEF Crash, history, TypeOK
<1>9. CASE UNCHANGED vars
  BY <1>9 DEF vars, memory, history
<1>10. QED
  BY <1>1, <1>2, <1>3, <1>4, <1>5, <1>6, <1>7, <1>8, <1>9, <1>11 DEF Next, Step

LEMMA OnceStep == TypeOK /\ OnceInv /\ [Next]_vars => OnceInv'
<1> SUFFICES ASSUME TypeOK, OnceInv, [Next]_vars PROVE OnceInv'
  OBVIOUS
<1> USE RowsUnchanged, KnownStep DEF OnceInv
<1>1. CASE Tick
  BY <1>1 DEF Tick, memory, history, Known, SavingIsPrivate, Popped, AtMostOnce, Offers, InHand
<1>2. ASSUME NEW p \in Procs, Start(p) PROVE OnceInv'
  <2>1. UNCHANGED <<row, cur, scheduled, handed, kept>> /\ pc[p] = "down"
    BY <1>2 DEF Start
  <2>2. \A q \in Procs : pc'[q] = IF q = p THEN "idle" ELSE pc[q]
    BY <1>2 DEF Start, TypeOK
  <2>3. heap'[p] \subseteq Rows /\ \A q \in Procs \ {p} : heap'[q] = heap[q]
    BY <1>2 DEF Start, TypeOK
  <2>4. SavingIsPrivate'
    BY <2>1, <2>2, <2>3 DEF SavingIsPrivate
  <2>5. Popped'
    BY <2>1, <2>2, <2>3 DEF Popped
  <2>6. AtMostOnce'
    BY <2>1, <2>2, <2>3 DEF AtMostOnce, Offers, InHand
  <2>7. QED
    BY <2>4, <2>5, <2>6
<1>3. ASSUME NEW p \in Procs, NEW job \in Job, Schedule(p, job) PROVE OnceInv'
  <2>1. UNCHANGED <<row, handed, kept>> /\ pc[p] = "idle" /\ job \notin scheduled
    BY <1>3 DEF Schedule
  <2>2. scheduled' = scheduled \cup {job}
    BY <1>3 DEF Schedule
  <2>3. \A q \in Procs : pc'[q] = IF q = p THEN "saving" ELSE pc[q]
    BY <1>3 DEF Schedule, TypeOK
  <2>4. \A q \in Procs : cur'[q] = IF q = p THEN job ELSE cur[q]
    BY <1>3 DEF Schedule, TypeOK
  <2>5. \A q \in Procs : heap'[q] = IF q = p THEN heap[p] \cup {job} ELSE heap[q]
    BY <1>3 DEF Schedule, TypeOK
  <2>7. SavingIsPrivate'
    <3>1. \A q \in Procs : cur[q] # job
      <4>1. SUFFICES ASSUME NEW q \in Procs, cur[q] = job PROVE FALSE
        OBVIOUS
      <4>2. pc[q] \in {"saving", "deleting", "returning"}
        BY <4>1 DEF TypeOK
      <4>3. QED
        BY <2>1, <4>1, <4>2 DEF Known
    <3>2. job \notin Rows /\ \A q \in Procs : job \notin heap[q] /\ job \notin handed[q]
      BY <2>1 DEF Known
    <3>3. QED
      BY <2>1, <2>3, <2>4, <2>5, <3>1, <3>2 DEF SavingIsPrivate
  <2>8. Popped'
    BY <2>1, <2>3, <2>4, <2>5 DEF Popped
  <2>9. AtMostOnce'
    BY <2>1, <2>3, <2>4, <2>5 DEF AtMostOnce, Offers, InHand, Known
  <2>10. QED
    BY <2>7, <2>8, <2>9
<1>4. ASSUME NEW p \in Procs, SaveRow(p) PROVE OnceInv'
  <2>1. UNCHANGED <<heap, scheduled, handed, kept>> /\ pc[p] = "saving"
    BY <1>4 DEF SaveRow
  <2>2. \A q \in Procs : pc'[q] = IF q = p THEN "idle" ELSE pc[q]
    BY <1>4 DEF SaveRow, TypeOK
  <2>3. \A q \in Procs : cur'[q] = IF q = p THEN NoJob ELSE cur[q]
    BY <1>4 DEF SaveRow, TypeOK
  <2>4. Rows' \subseteq Rows \cup {cur[p]}
    BY <1>4 DEF SaveRow, Rows, TypeOK
  <2>6. SavingIsPrivate'
    <3>1. SUFFICES ASSUME NEW q \in Procs, pc'[q] = "saving"
                   PROVE /\ cur'[q] \notin Rows'
                         /\ \A r \in Procs : cur'[q] \notin handed'[r]
                         /\ \A r \in Procs \ {q} : cur'[q] \notin heap'[r] /\ cur'[r] # cur'[q]
      BY DEF SavingIsPrivate
    <3>2. q # p /\ pc[q] = "saving" /\ cur'[q] = cur[q]
      BY <2>2, <2>3, <3>1
    <3>3. cur[q] # cur[p] /\ cur[q] # NoJob
      BY <2>1, <3>2, JobAssumption DEF SavingIsPrivate, TypeOK
    <3>4. QED
      BY <2>1, <2>3, <2>4, <3>2, <3>3 DEF SavingIsPrivate
  <2>7. Popped'
    <3>1. \A q \in Procs : q # p => pc'[q] = pc[q] /\ cur'[q] = cur[q] /\ cur[q] # cur[p]
      BY <2>1, <2>2, <2>3 DEF SavingIsPrivate
    <3>2. QED
      BY <2>1, <2>2, <2>4, <3>1 DEF Popped
  <2>8. AtMostOnce'
    BY <2>1, <2>2, <2>3, <2>4 DEF AtMostOnce, Offers, InHand, SavingIsPrivate
  <2>9. QED
    BY <2>6, <2>7, <2>8
<1>5. ASSUME NEW p \in Procs, CheckLimit(p) PROVE OnceInv'
  <2>1. UNCHANGED <<row, heap, cur, scheduled, handed, kept>>
    BY <1>5 DEF CheckLimit, history
  <2>2. \A q \in Procs : pc'[q] = pc[q] \/ pc'[q] \in {"idle", "peek"}
    BY <1>5 DEF CheckLimit, TypeOK
  <2>3. QED
    BY <2>1, <2>2 DEF Known, SavingIsPrivate, Popped, AtMostOnce, Offers, InHand
<1>6. ASSUME NEW p \in Procs, Peek(p) PROVE OnceInv'
  <2>1. UNCHANGED <<row, scheduled, handed, kept>> /\ pc[p] = "peek"
    BY <1>6 DEF Peek, history
  <2>2. CASE UNCHANGED <<heap, cur>> /\ pc' = [pc EXCEPT ![p] = "idle"]
    <3>1. \A q \in Procs : pc'[q] = pc[q] \/ pc'[q] = "idle"
      BY <2>2 DEF TypeOK
    <3>2. QED
      BY <2>1, <2>2, <3>1 DEF Known, SavingIsPrivate, Popped, AtMostOnce, Offers, InHand
  <2>3. ASSUME NEW j \in heap[p],
               heap' = [heap EXCEPT ![p] = @ \ {j}],
               cur' = [cur EXCEPT ![p] = j],
               pc' = [pc EXCEPT ![p] = "deleting"]
        PROVE  OnceInv'
    <3>1. \A q \in Procs : pc'[q] = IF q = p THEN "deleting" ELSE pc[q]
      BY <2>3 DEF TypeOK
    <3>2. \A q \in Procs : cur'[q] = IF q = p THEN j ELSE cur[q]
      BY <2>3 DEF TypeOK
    <3>3. \A q \in Procs : heap'[q] = IF q = p THEN heap[p] \ {j} ELSE heap[q]
      BY <2>3 DEF TypeOK
    <3>5. SavingIsPrivate'
      BY <2>1, <3>1, <3>2, <3>3 DEF SavingIsPrivate
    <3>6. Popped'
      BY <2>1, <3>1, <3>2, <3>3 DEF Popped
    <3>7. AtMostOnce'
      BY <2>1, <3>1, <3>2, <3>3 DEF AtMostOnce, Offers, InHand
    <3>8. QED
      BY <3>5, <3>6, <3>7
  <2>4. QED
    BY <1>6, <2>2, <2>3 DEF Peek, Earliest
<1>7. ASSUME NEW p \in Procs, DeleteRow(p) PROVE OnceInv'
  <2> DEFINE c == cur[p]
  <2>1. UNCHANGED <<heap, cur, scheduled, handed>> /\ pc[p] = "deleting" /\ c \in Job
    BY <1>7 DEF DeleteRow, memory, TypeOK
  <2>2. \A q \in Procs : pc'[q] = IF q = p THEN "returning" ELSE pc[q]
    BY <1>7 DEF DeleteRow, TypeOK
  <2>3. Rows' \subseteq Rows /\ (c \in Rows' => c \in kept'[p])
    <3>1. CASE row' = [row EXCEPT ![c.plan] = NoJob]
      <4>1. \A t \in Plans : row'[t] = IF t = c.plan THEN NoJob ELSE row[t]
        BY <3>1 DEF TypeOK
      <4>2. \A t \in Plans : row[t] = c => t = c.plan
        BY <2>1, JobAssumption DEF TypeOK
      <4>3. QED
        BY <2>1, <4>1, <4>2, JobAssumption DEF Rows, Job
    <3>2. CASE UNCHANGED row /\ kept' = [kept EXCEPT ![p] = @ \cup {c}]
      BY <3>2 DEF TypeOK
    <3>3. QED
      BY <1>7, <3>1, <3>2 DEF DeleteRow
  <2>4. \A q \in Procs : kept[q] \subseteq kept'[q]
    BY <1>7 DEF DeleteRow, TypeOK
  <2>5. SavingIsPrivate'
    BY <2>1, <2>2, <2>3 DEF SavingIsPrivate
  <2>6. Popped'
    BY <2>1, <2>2, <2>3, <2>4 DEF Popped
  <2>7. AtMostOnce'
    BY <2>1, <2>2, <2>3, <2>4 DEF AtMostOnce, Offers, InHand
  <2>8. QED
    BY <2>5, <2>6, <2>7
<1>11. ASSUME NEW p \in Procs, Return(p) PROVE OnceInv'
  <2> DEFINE c == cur[p]
  <2>1. UNCHANGED <<row, heap, scheduled, kept>> /\ pc[p] = "returning" /\ c \in Job
    BY <1>11 DEF Return, TypeOK
  <2>2. \A q \in Procs : pc'[q] = IF q = p THEN "idle" ELSE pc[q]
    BY <1>11 DEF Return, TypeOK
  <2>3. \A q \in Procs : cur'[q] = IF q = p THEN NoJob ELSE cur[q]
    BY <1>11 DEF Return, TypeOK
  <2>4. \A q \in Procs : handed'[q] = IF q = p THEN handed[p] \cup {c} ELSE handed[q]
    BY <1>11 DEF Return, TypeOK
  <2>5. SavingIsPrivate'
    <3>1. SUFFICES ASSUME NEW q \in Procs, pc'[q] = "saving"
                   PROVE /\ cur'[q] \notin Rows'
                         /\ \A r \in Procs : cur'[q] \notin handed'[r]
                         /\ \A r \in Procs \ {q} : cur'[q] \notin heap'[r] /\ cur'[r] # cur'[q]
      BY DEF SavingIsPrivate
    <3>2. q # p /\ pc[q] = "saving" /\ cur'[q] = cur[q]
      BY <2>2, <2>3, <3>1
    <3>3. cur[q] # c /\ cur[q] # NoJob
      BY <2>1, <3>2, JobAssumption DEF SavingIsPrivate, TypeOK
    <3>4. QED
      BY <2>1, <2>3, <2>4, <3>2, <3>3 DEF SavingIsPrivate
  <2>6. Popped'
    BY <2>1, <2>2, <2>3 DEF Popped
  <2>7. AtMostOnce'
    <3>1. SUFFICES ASSUME NEW q \in Procs PROVE Offers(q)' \cap handed'[q] \subseteq kept[q]
      BY <2>1 DEF AtMostOnce
    <3>2. c \notin heap[p] /\ (c \in Rows => c \in kept[p])
      BY <2>1 DEF Popped
    <3>3. CASE q = p
      BY <2>1, <2>2, <2>4, <3>2, <3>3 DEF AtMostOnce, Offers, InHand
    <3>4. CASE q # p
      BY <2>1, <2>2, <2>3, <2>4, <3>4 DEF AtMostOnce, Offers, InHand
    <3>5. QED
      BY <3>3, <3>4
  <2>8. QED
    BY <2>5, <2>6, <2>7
<1>8. ASSUME NEW p \in Procs, Crash(p) PROVE OnceInv'
  <2>1. UNCHANGED <<row, scheduled, handed, kept>>
    BY <1>8 DEF Crash, history
  <2>2. \A q \in Procs : pc'[q] = IF q = p THEN "down" ELSE pc[q]
    BY <1>8 DEF Crash, TypeOK
  <2>3. \A q \in Procs : cur'[q] = IF q = p THEN NoJob ELSE cur[q]
    BY <1>8 DEF Crash, TypeOK
  <2>4. \A q \in Procs : heap'[q] \subseteq heap[q]
    BY <1>8 DEF Crash, TypeOK
  <2>5. Popped'
    BY <2>1, <2>2, <2>3, <2>4 DEF Popped
  <2>6. SavingIsPrivate'
    <3>1. \A q \in Procs : pc[q] = "saving" => cur[q] # NoJob
      BY JobAssumption DEF TypeOK
    <3>2. QED
      BY <2>1, <2>2, <2>3, <2>4, <3>1 DEF SavingIsPrivate
  <2>7. AtMostOnce'
    BY <2>1, <2>2, <2>3, <2>4 DEF AtMostOnce, Offers, InHand
  <2>8. QED
    BY <2>5, <2>6, <2>7
<1>9. CASE UNCHANGED vars
  BY <1>9 DEF vars, memory, history, Known, SavingIsPrivate, Popped, AtMostOnce, Offers, InHand
<1>10. QED
  BY <1>1, <1>2, <1>3, <1>4, <1>5, <1>6, <1>7, <1>8, <1>9, <1>11 DEF Next, Step

\* No process is ever offered a job that next_due() returned to it before, unless it
\* failed to delete the row: any number of processes, crashes between any two
\* accesses, failing saves, loads and deletes, shared plan ids.
THEOREM AtMostOnceHolds == Spec => []AtMostOnce
<1>1. Init => OnceInv
  BY OnceInit
<1>2. TypeOK /\ OnceInv /\ [Next]_vars => OnceInv'
  BY OnceStep
<1>3. OnceInv => AtMostOnce
  BY DEF OnceInv
<1>4. QED
  BY <1>1, <1>2, <1>3, TypeCorrect, PTL DEF Spec
------------------------------------------------------------------------------
\* What is handed out or about to be stays so, or is lost with the process.
LEMMA SavedKept ==
    ASSUME TypeOK, SavedUntilHanded, UNCHANGED <<saved, scheduled>>,
           lost \subseteq lost',
           \A q \in Procs : handed[q] \subseteq handed'[q],
           \A q \in Procs : pc[q] = "returning" =>
              \/ pc'[q] = "returning" /\ cur'[q] = cur[q]
              \/ cur[q] \in handed'[q] \cup lost',
           NEW j \in saved, row'[j.plan] = row[j.plan]
    PROVE  \/ row'[j.plan] = j
           \/ \E q \in Procs : j \in handed'[q] \/ (pc'[q] = "returning" /\ cur'[q] = j)
           \/ j \in lost'
           \/ \E k \in scheduled' \ {j} : k.plan = j.plan
  BY DEF SavedUntilHanded

LEMMA SavedStep ==
    TypeOK /\ Known /\ SavedUntilHanded /\ [Next]_vars => SavedUntilHanded'
<1> SUFFICES ASSUME TypeOK, Known, SavedUntilHanded, [Next]_vars PROVE SavedUntilHanded'
  OBVIOUS
<1>1. ASSUME NEW p \in Procs, SaveRow(p) PROVE SavedUntilHanded'
  <2> DEFINE c == cur[p]
  <2>1. c \in Job /\ c \in scheduled /\ c.plan \in Plans /\ pc[p] = "saving"
    BY <1>1 DEF SaveRow, TypeOK, Known, Job
  <2>2. UNCHANGED <<scheduled, handed, lost>>
    BY <1>1 DEF SaveRow
  <2>3. \A q \in Procs : pc[q] = "returning" => pc'[q] = "returning" /\ cur'[q] = cur[q]
    BY <1>1, <2>1 DEF SaveRow, TypeOK
  <2>4. CASE UNCHANGED <<row, saved>>
    BY <2>2, <2>3, <2>4, SavedKept DEF SavedUntilHanded
  <2>5. CASE row' = [row EXCEPT ![c.plan] = c] /\ saved' = saved \cup {c}
    <3>1. SUFFICES ASSUME NEW j \in saved' PROVE
            \/ row'[j.plan] = j
            \/ \E q \in Procs : j \in handed'[q] \/ (pc'[q] = "returning" /\ cur'[q] = j)
            \/ j \in lost'
            \/ \E k \in scheduled' \ {j} : k.plan = j.plan
      BY DEF SavedUntilHanded
    <3>2. CASE j.plan = c.plan /\ j # c
      BY <2>1, <2>2, <3>2
    <3>3. CASE j = c
      BY <2>1, <2>5, <3>3 DEF TypeOK
    <3>4. CASE j.plan # c.plan
      <4>1. j \in saved /\ row'[j.plan] = row[j.plan]
        BY <2>1, <2>5, <3>4 DEF TypeOK, Job
      <4>2. QED
        BY <2>2, <2>3, <4>1 DEF SavedUntilHanded
    <3>5. QED
      BY <3>2, <3>3, <3>4
  <2>6. QED
    BY <1>1, <2>4, <2>5 DEF SaveRow
<1>2. ASSUME NEW p \in Procs, DeleteRow(p) PROVE SavedUntilHanded'
  <2> DEFINE c == cur[p]
  <2>1. c \in Job /\ c \in scheduled /\ c.plan \in Plans /\ pc[p] = "deleting"
    BY <1>2 DEF DeleteRow, TypeOK, Known, Job
  <2>2. UNCHANGED <<scheduled, saved, handed, lost, cur>>
    BY <1>2 DEF DeleteRow, memory
  <2>3. \A q \in Procs : pc'[q] = IF q = p THEN "returning" ELSE pc[q]
    BY <1>2 DEF DeleteRow, TypeOK
  <2>4. \A t \in Plans : t # c.plan => row'[t] = row[t]
    BY <1>2 DEF DeleteRow, TypeOK
  <2>5. SUFFICES ASSUME NEW j \in saved PROVE
            \/ row'[j.plan] = j
            \/ \E q \in Procs : j \in handed'[q] \/ (pc'[q] = "returning" /\ cur'[q] = j)
            \/ j \in lost'
            \/ \E k \in scheduled' \ {j} : k.plan = j.plan
    BY <2>2 DEF SavedUntilHanded
  <2>6. CASE j.plan = c.plan
    BY <2>1, <2>2, <2>3, <2>6
  <2>7. CASE j.plan # c.plan
    BY <2>2, <2>3, <2>4, <2>7, SavedKept DEF TypeOK, Job
  <2>8. QED
    BY <2>6, <2>7
<1>3. ASSUME NEW p \in Procs, Return(p) PROVE SavedUntilHanded'
  <2>1. UNCHANGED <<scheduled, saved, lost, row>>
    BY <1>3 DEF Return
  <2>2. \A q \in Procs : handed[q] \subseteq handed'[q]
    BY <1>3 DEF Return, TypeOK
  <2>3. \A q \in Procs : pc[q] = "returning" =>
           (pc'[q] = "returning" /\ cur'[q] = cur[q]) \/ cur[q] \in handed'[q]
    BY <1>3 DEF Return, TypeOK
  <2>4. QED
    BY <2>1, <2>2, <2>3, SavedKept DEF SavedUntilHanded
<1>4. ASSUME NEW p \in Procs, Crash(p) PROVE SavedUntilHanded'
  <2>1. UNCHANGED <<scheduled, saved, handed, row>> /\ lost \subseteq lost'
    BY <1>4 DEF Crash
  <2>2. \A q \in Procs : pc[q] = "returning" =>
           (pc'[q] = "returning" /\ cur'[q] = cur[q]) \/ cur[q] \in lost'
    BY <1>4 DEF Crash, TypeOK
  <2>3. QED
    BY <2>1, <2>2, SavedKept DEF SavedUntilHanded
<1>5. ASSUME NEW p \in Procs, Start(p) \/ CheckLimit(p) \/ Peek(p) \/ \E job \in Job : Schedule(p, job)
      PROVE  SavedUntilHanded'
  <2>1. UNCHANGED <<row, saved, handed, lost>> /\ scheduled \subseteq scheduled'
    BY <1>5 DEF Start, CheckLimit, Peek, Schedule, history
  <2>2. \A q \in Procs : pc[q] = "returning" => pc'[q] = "returning" /\ cur'[q] = cur[q]
    BY <1>5 DEF Start, CheckLimit, Peek, Schedule, TypeOK
  <2>3. QED
    BY <2>1, <2>2 DEF SavedUntilHanded
<1>6. CASE UNCHANGED <<row, pc, memory, history>>
  BY <1>6 DEF SavedUntilHanded, memory, history
<1>7. QED
  BY <1>1, <1>2, <1>3, <1>4, <1>5, <1>6 DEF Next, Step, Tick, vars

\* A committed row leaves the table only because its job was handed out, is about to
\* be, or was in hand when the process ended, or because another job shares its plan
\* id: for every number of processes and every combination of faults.
THEOREM SavedUntilHandedHolds == Spec => []SavedUntilHanded
<1>1. Init => Known /\ SavedUntilHanded
  BY OnceInit DEF Init, OnceInv, SavedUntilHanded
<1>2. TypeOK /\ Known /\ [Next]_vars => Known'
  BY KnownStep
<1>3. TypeOK /\ Known /\ SavedUntilHanded /\ [Next]_vars => SavedUntilHanded'
  BY SavedStep
<1>4. QED
  BY <1>1, <1>2, <1>3, TypeCorrect, PTL DEF Spec

(***************************************************************************)
(* The one-process scheduler implements JobQueue: every step is a step of  *)
(* the abstract queue or leaves it alone.                                  *)
(***************************************************************************)

\* The heap of a live process covers the table, a job being saved is in the
\* heap, and a popped job is no later than anything left behind.
CoverInv ==
    \A p \in Procs :
        /\ pc[p] = "down" => heap[p] = {}
        /\ pc[p] \in {"idle", "saving", "peek"} => Rows \subseteq heap[p]
        /\ pc[p] = "saving" => cur[p] \in heap[p]
        /\ pc[p] = "returning" => cur[p] \notin Rows
        /\ pc[p] \in {"deleting", "returning"} =>
              /\ Rows \subseteq heap[p] \cup {cur[p]}
              /\ \A k \in heap[p] : cur[p].at <= k.at

LEMMA CoverInit == Init => CoverInv
  BY DEF Init, CoverInv, Rows

LEMMA CoverStep ==
    ASSUME "delete" \notin Faults, "load" \notin Faults,
           NEW proc, Procs = {proc}
    PROVE  TypeOK /\ CoverInv /\ [Next]_vars => CoverInv'
<1> SUFFICES ASSUME TypeOK, CoverInv, [Next]_vars PROVE CoverInv'
  OBVIOUS
<1> USE RowsUnchanged DEF CoverInv
<1>1. CASE Tick
  BY <1>1 DEF Tick, memory, history
<1>2. CASE Start(proc)
  BY <1>2 DEF Start, TypeOK
<1>3. ASSUME NEW job \in Job, Schedule(proc, job) PROVE CoverInv'
  BY <1>3 DEF Schedule, TypeOK
<1>4. CASE SaveRow(proc)
  <2>1. Rows' \subseteq Rows \cup {cur[proc]}
    BY <1>4 DEF SaveRow, Rows, TypeOK
  <2>2. QED
    BY <1>4, <2>1 DEF SaveRow, TypeOK
<1>5. CASE CheckLimit(proc)
  BY <1>5 DEF CheckLimit, history, TypeOK
<1>6. CASE Peek(proc)
  BY <1>6 DEF Peek, Earliest, history, TypeOK
<1>7. CASE DeleteRow(proc)
  <2> DEFINE c == cur[proc]
  <2>1. c \in Job /\ c.plan \in Plans
    BY <1>7 DEF DeleteRow, TypeOK, Job
  <2>2. Rows' \subseteq Rows \ {c}
    <3>1. row' = [row EXCEPT ![c.plan] = NoJob]
      BY <1>7 DEF DeleteRow
    <3>2. \A t \in Plans : row'[t] = IF t = c.plan THEN NoJob ELSE row[t]
      BY <3>1 DEF TypeOK
    <3>3. \A t \in Plans : row[t] = c => t = c.plan
      BY <2>1, JobAssumption DEF TypeOK
    <3>4. QED
      BY <3>2, <3>3 DEF Rows
  <2>3. QED
    BY <1>7, <2>2 DEF DeleteRow, memory, TypeOK
<1>11. CASE Return(proc)
  BY <1>11 DEF Return, TypeOK
<1>8. CASE Crash(proc)
  BY <1>8 DEF Crash, history, TypeOK
<1>9. CASE UNCHANGED vars
  BY <1>9 DEF vars, memory, history
<1>10. QED
  BY <1>1, <1>2, <1>3, <1>4, <1>5, <1>6, <1>7, <1>8, <1>9, <1>11 DEF Next, Step

LEMMA QueueStep ==
    ASSUME "delete" \notin Faults, "load" \notin Faults,
           NEW proc, Procs = {proc}
    PROVE  TypeOK /\ OnceInv /\ CoverInv /\ [Next]_vars => [Queue!Next]_(Queue!qvars)
<1> SUFFICES ASSUME TypeOK, OnceInv, CoverInv, [Next]_vars
             PROVE  [Queue!Next]_(Queue!qvars)
  OBVIOUS
<1> USE RowsUnchanged
<1> DEFINE pend == heap[proc] \cup Rows \cup
                     InHand(proc)
<1>0. pendingJobs = pend /\ deliveredJobs = handed[proc]
  BY DEF pendingJobs, deliveredJobs, Offers
<1>1. pendingJobs' = pend' /\ deliveredJobs' = handed'[proc]
  BY DEF pendingJobs, deliveredJobs, Offers
<1> HIDE DEF pend
<1>2. ASSUME pend' \subseteq pend, handed'[proc] = handed[proc]
      PROVE  [Queue!Next]_(Queue!qvars)
  BY <1>0, <1>1, <1>2 DEF Queue!Next, Queue!Drop
<1> USE DEF pend
<1>3. CASE Tick
  BY <1>2, <1>3 DEF Tick, memory, history, InHand
<1>4. CASE Start(proc)
  BY <1>2, <1>4 DEF Start, TypeOK, InHand
<1>5. ASSUME NEW job \in Job, Schedule(proc, job) PROVE [Queue!Next]_(Queue!qvars)
  <2>1. pend' = pend \cup {job} /\ handed' = handed
    BY <1>5 DEF Schedule, TypeOK, InHand
  <2>2. job \notin pend \cup handed[proc]
    BY <1>5 DEF Schedule, OnceInv, Known, InHand
  <2>3. Queue!Add(job)
    BY <1>0, <1>1, <2>1, <2>2 DEF Queue!Add
  <2>4. QED
    BY <2>3 DEF Queue!Next
<1>6. CASE SaveRow(proc)
  <2>1. Rows' \subseteq Rows \cup {cur[proc]}
    BY <1>6 DEF SaveRow, Rows, TypeOK
  <2>2. QED
    BY <1>2, <1>6, <2>1 DEF SaveRow, TypeOK, CoverInv, InHand
<1>7. CASE CheckLimit(proc)
  BY <1>2, <1>7 DEF CheckLimit, history, TypeOK, InHand
<1>8. CASE Peek(proc)
  BY <1>2, <1>8 DEF Peek, Earliest, history, TypeOK, InHand
<1>9. CASE DeleteRow(proc)
  <2>1. Rows' \subseteq Rows
    BY <1>9 DEF DeleteRow, Rows, TypeOK
  <2>2. QED
    BY <1>2, <1>9, <2>1 DEF DeleteRow, memory, TypeOK, InHand
<1>13. CASE Return(proc)
  <2> DEFINE c == cur[proc]
  <2>1. c \in Job /\ pc[proc] = "returning"
    BY <1>13 DEF Return, TypeOK
  <2>2. c \notin heap[proc] /\ c \notin Rows /\ Rows \subseteq heap[proc] \cup {c}
    BY <2>1 DEF OnceInv, Popped, CoverInv
  <2>3. pend = heap[proc] \cup {c}
    BY <2>1, <2>2 DEF InHand
  <2>4. pend' = heap[proc]
    BY <1>13, <2>2 DEF Return, TypeOK, InHand
  <2>5. \A k \in pend : c.at <= k.at
    BY <2>1, <2>3 DEF CoverInv, Job, Times
  <2>6. handed'[proc] = handed[proc] \cup {c}
    BY <1>13 DEF Return, TypeOK
  <2>7. Queue!Deliver(c)
    BY <1>0, <1>1, <2>2, <2>3, <2>4, <2>5, <2>6 DEF Queue!Deliver
  <2>8. QED
    BY <2>1, <2>7 DEF Queue!Next
<1>10. CASE Crash(proc)
  BY <1>2, <1>10 DEF Crash, history, TypeOK, InHand
<1>11. CASE UNCHANGED vars
  BY <1>2, <1>11 DEF vars, memory, history, InHand
<1>12. QED
  BY <1>3, <1>4, <1>5, <1>6, <1>7, <1>8, <1>9, <1>10, <1>11, <1>13 DEF Next, Step

\* A single process delivers earliest first and at most once, through every
\* crash and failing save, for every clock, limit and set of plans: the
\* scheduler with heap, table and daily counter implements JobQueue.
THEOREM QueueImplemented ==
    ASSUME "delete" \notin Faults, "load" \notin Faults,
           NEW proc, Procs = {proc}
    PROVE  Spec => ImplementsJobQueue
<1>1. Init => Queue!Init
  BY DEF Init, Queue!Init, pendingJobs, deliveredJobs, Offers, InHand, Rows
<1>2. Init => OnceInv /\ CoverInv
  BY OnceInit, CoverInit
<1>3. TypeOK /\ OnceInv /\ [Next]_vars => OnceInv'
  BY OnceStep
<1>4. TypeOK /\ CoverInv /\ [Next]_vars => CoverInv'
  BY CoverStep
<1>5. TypeOK /\ OnceInv /\ CoverInv /\ [Next]_vars => [Queue!Next]_(Queue!qvars)
  BY QueueStep
<1>6. QED
  BY <1>1, <1>2, <1>3, <1>4, <1>5, TypeCorrect, PTL
     DEF Spec, ImplementsJobQueue, Queue!Spec

(***************************************************************************)
(* The pipeline                                                            *)
(***************************************************************************)

\* What makes a call of schedule() well-formed: the plan is a trend, the clock
\* shows a time, and only a process with a run is past "free".
Shape ==
    /\ now \in Times
    /\ topic \in [Procs -> Plans]
    /\ run \in [Procs -> Runs \cup {NoRun}]
    /\ stage \in [Procs -> Stages]
    /\ \A p \in Procs : stage[p] \notin {"off", "free"} => run[p] \in Runs

LEMMA ShapeInit == PInit => Shape
  BY DateAssumption DEF PInit, Init, Shape, Times, Stages

\* Only Tick moves the clock, and not past MaxTime.
LEMMA ClockStep == ASSUME now \in Times, [Next]_vars PROVE now' \in Times
<1>1. CASE Tick
  BY <1>1, DateAssumption DEF Tick, Times
<1>2. CASE UNCHANGED now
  BY <1>2
<1>3. QED
  BY <1>1, <1>2 DEF Next, Step, vars, Start, Schedule, SaveRow, CheckLimit, Peek,
     DeleteRow, Return, Crash

\* A step of a run moves stage, run and topic as Shape wants it.
LEMMA RunStepShape ==
    ASSUME Shape, NEW p \in Procs, RunStep(p)
    PROVE  /\ topic' \in [Procs -> Plans]
           /\ run' \in [Procs -> Runs \cup {NoRun}]
           /\ stage' \in [Procs -> Stages]
           /\ \A q \in Procs : stage'[q] \notin {"off", "free"} => run'[q] \in Runs
<1> USE DEF Shape, Stages, Terminal, At, Goto, StorageFails
<1>1. CASE CheckDrift(p)
  BY <1>1 DEF CheckDrift
<1>2. CASE FetchTrends(p)
  BY <1>2 DEF FetchTrends
<1>3. CASE StoreTransition(p)
  BY <1>3 DEF StoreTransition
<1>4. CASE LoadArchive(p) \/ CheckScript(p)
  BY <1>4 DEF LoadArchive, CheckScript
<1>5. CASE Assemble(p)
  BY <1>5 DEF Assemble
<1>6. CASE Enqueue(p)
  BY <1>6 DEF Enqueue
<1>7. CASE Enqueued(p)
  BY <1>7 DEF Enqueued
<1>8. CASE Publish(p)
  BY <1>8 DEF Publish
<1>9. CASE Take(p)
  BY <1>9 DEF Take
<1>10. CASE Upload(p)
  BY <1>10 DEF Upload, UploadVideo, Review, PublishPlan
<1>11. CASE Record(p)
  BY <1>11 DEF Record
<1>12. CASE Train(p)
  BY <1>12 DEF Train, TrainBatch
<1>13. CASE Conclude(p)
  BY <1>13 DEF Conclude
<1>14. CASE Fail(p)
  BY <1>14 DEF Fail
<1>15. QED
  BY <1>1, <1>2, <1>3, <1>4, <1>5, <1>6, <1>7, <1>8, <1>9, <1>10, <1>11, <1>12,
     <1>13, <1>14 DEF RunStep

\* Each step is a step of the scheduler or leaves its variables alone.
LEMMA SchedulerStep == Shape /\ [PNext]_pvars => [Next]_vars
<1> SUFFICES ASSUME Shape, [PNext]_pvars PROVE [Next]_vars
  OBVIOUS
<1>1. ASSUME NEW p \in Procs, Enqueue(p) PROVE Next
  <2>1. run[p] \in Runs /\ topic[p] \in Plans /\ now \in Times
    BY <1>1 DEF Enqueue, At, Shape
  <2>2. [plan |-> topic[p], at |-> now, by |-> run[p]] \in Job
    BY <2>1, RunAssumption DEF Job
  <2>3. QED
    BY <1>1, <2>2 DEF Enqueue, Next, Step
<1>2. ASSUME NEW p \in Procs, RunStep(p) PROVE [Next]_vars
  BY <1>1, <1>2 DEF RunStep, Next, Step, CheckDrift, FetchTrends, StoreTransition,
     LoadArchive, CheckScript, Assemble, Enqueued, Publish, Take, Upload, Record, Train, Conclude, Fail
<1>3. QED
  BY <1>2 DEF PNext, pvars, Next, Step, Boot, UpdateMetrics, Halt, BeginRun

LEMMA ShapeStep == Shape /\ [PNext]_pvars => Shape'
<1> SUFFICES ASSUME Shape, [PNext]_pvars PROVE Shape'
  OBVIOUS
<1>1. now' \in Times
  BY SchedulerStep, ClockStep DEF Shape
<1>2. ASSUME NEW p \in Procs, RunStep(p) PROVE Shape'
  BY <1>1, <1>2, RunStepShape DEF Shape
<1>3. ASSUME NEW p \in Procs, Boot(p) \/ UpdateMetrics(p) \/ Halt(p) PROVE Shape'
  BY <1>1, <1>3 DEF Shape, Boot, UpdateMetrics, Halt, Goto, Stages
<1>4. ASSUME NEW p \in Procs, NEW r \in Runs, BeginRun(p, r) PROVE Shape'
  BY <1>1, <1>4 DEF Shape, BeginRun, Goto, Stages
<1>5. CASE UNCHANGED pipeline
  BY <1>1, <1>5 DEF Shape, pipeline
<1>6. QED
  BY <1>2, <1>3, <1>4, <1>5 DEF PNext, pvars

\* The orchestrator uses the queue, its table and the daily counter through
\* the scheduler's operations alone (orchestrator.py:129, 604-649): all that
\* is proved of UploadScheduler is true of the pipeline.
THEOREM PipelineKeepsScheduler == PSpec => KeepsScheduler
<1>1. PInit => Init
  BY DEF PInit
<1>2. QED
  BY <1>1, ShapeInit, ShapeStep, SchedulerStep, PTL DEF PSpec, KeepsScheduler, Spec

\* So, whatever the runs of the orchestrator do and however they end, one start of
\* the program takes at most max_per_day jobs on any date of the clock, and one more
\* only if midnight fell within the call that took it.
THEOREM PipelineDailyLimit == PSpec => []DailyLimit
  BY PipelineKeepsScheduler, DailyLimitHolds, PTL DEF KeepsScheduler
------------------------------------------------------------------------------
\* found counts a heap; a heap is finite because every job in it was
\* scheduled and each call of schedule() adds one.
HeapInv == Known /\ IsFiniteSet(scheduled)

LEMMA HeapInvHolds == Spec => []HeapInv
<1>1. Init => HeapInv
  BY OnceInit, FS_EmptySet DEF Init, OnceInv, HeapInv
<1>2. ASSUME TypeOK, HeapInv, [Next]_vars PROVE HeapInv'
  <2>1. Known'
    BY <1>2, KnownStep DEF HeapInv
  <2>2. ASSUME NEW p \in Procs, NEW job \in Job, Schedule(p, job)
        PROVE  IsFiniteSet(scheduled')
    BY <1>2, <2>2, FS_AddElement DEF Schedule, HeapInv
  <2>3. ASSUME UNCHANGED scheduled PROVE IsFiniteSet(scheduled')
    BY <1>2, <2>3 DEF HeapInv
  <2>4. IsFiniteSet(scheduled')
    BY <1>2, <2>2, <2>3 DEF Next, Step, vars, memory, history, Tick,
       Start, SaveRow, CheckLimit, Peek, DeleteRow, Return, Crash
  <2>5. QED
    BY <2>1, <2>4 DEF HeapInv
<1>3. QED
  BY <1>1, <1>2, TypeCorrect, PTL DEF Spec

LEMMA HeapCount ==
    ASSUME HeapInv, NEW p \in Procs PROVE Cardinality(heap[p]) \in Nat
  BY FS_Subset, FS_CardinalityType DEF HeapInv, Known

\* The part of TypeOK that says which scheduler call a process is in.
LEMMA CallState ==
    ASSUME TypeOK
    PROVE  /\ pc \in [Procs -> {"down", "idle", "saving", "peek", "deleting", "returning"}]
           /\ \A p \in Procs : pc[p] \in {"deleting", "returning"} => cur[p] \in Job
  BY DEF TypeOK

\* What a run decides leaves the types of the variables alone.
LEMMA RunStepTypes ==
    ASSUME PTypeOK, TypeOK', NEW p \in Procs, RunStep(p) PROVE PTypeOK'
<1> USE RunAssumption, CallState DEF PTypeOK, Stages, Terminal, At, Goto, StorageFails
<1>1. CASE CheckDrift(p)
  BY <1>1 DEF CheckDrift, vars
<1>2. CASE FetchTrends(p)
  BY <1>2 DEF FetchTrends, vars
<1>3. CASE StoreTransition(p)
  BY <1>3 DEF StoreTransition, vars
<1>16. CASE LoadArchive(p)
  BY <1>16 DEF LoadArchive, vars
<1>4. CASE CheckScript(p)
  <2>1. run[p] \in Runs /\ At(p, "check") /\ UNCHANGED <<pc, run, taken>>
    BY <1>4 DEF CheckScript, vars
  <2>5. archive' \in [Procs -> SUBSET Reports] /\ archive[p] \subseteq Reports
    BY <1>4 DEF CheckScript
  <2>2. CASE UNCHANGED report /\ Goto(p, "failed")
    BY <1>4, <2>1, <2>2, <2>5 DEF CheckScript, vars
  <2>3. ASSUME NEW s \in Scripts, NEW d \in {"pass", "block"},
               report' = [report EXCEPT ![run[p]] =
                             [script |-> s, decision |-> d, matches |-> Matches(s, archive[p])]],
               Goto(p, IF d = "pass" THEN "assemble" ELSE "blocked")
        PROVE  PTypeOK'
    <3>1. Matches(s, archive[p]) \subseteq Scripts
      BY <2>5 DEF Matches, Reports
    <3>2. [script |-> s, decision |-> d, matches |-> Matches(s, archive[p])] \in Reports
      BY <3>1 DEF Reports
    <3>3. report' \in [Runs -> Reports \cup {NoReport}]
      BY <2>3, <3>2
    <3>4. \A q \in Procs : q # p /\ report[run[q]] \in Reports => report'[run[q]] \in Reports
      BY <2>3, <3>2
    <3>5. report'[run[p]] \in Reports
      BY <2>1, <2>3, <3>2
    <3>6. QED
      BY <1>4, <2>1, <2>3, <2>5, <3>3, <3>4, <3>5 DEF CheckScript, vars
  <2>4. QED
    BY <1>4, <2>2, <2>3 DEF CheckScript
<1>5. CASE Assemble(p)
  BY <1>5 DEF Assemble, vars
<1>6. CASE Enqueue(p)
  BY <1>6 DEF Enqueue, Schedule
<1>7. CASE Enqueued(p)
  BY <1>7 DEF Enqueued, SaveRow
<1>8. CASE Publish(p)
  <2>1. CASE DryRun(env[p])
    <3>1. run[p] \in Runs /\ report[run[p]].script \in Scripts
      BY <1>8 DEF Publish, Reports
    <3>2. published' \subseteq published \cup {DryId(report[run[p]].script)}
      BY <1>8, <2>1 DEF Publish
    <3>3. QED
      BY <1>8, <2>1, <3>1, <3>2 DEF Publish, vars
  <2>2. CASE ~DryRun(env[p])
    BY <1>8, <2>2, SMTT(30) DEF Publish, CheckLimit
  <2>3. QED
    BY <2>1, <2>2
<1>9. CASE Take(p)
  BY <1>9, SMTT(30) DEF Take, Peek, DeleteRow, Return
<1>10. CASE Upload(p)
  BY <1>10 DEF Upload, UploadVideo, Review, PublishPlan, vars
<1>11. CASE Record(p)
  BY <1>11 DEF Record, vars
<1>12. CASE Train(p)
  BY <1>12 DEF Train, TrainBatch, vars
<1>13. CASE Conclude(p)
  BY <1>13 DEF Conclude, vars
<1>14. CASE Fail(p)
  BY <1>14 DEF Fail, vars
<1>15. QED
  BY <1>1, <1>2, <1>3, <1>4, <1>5, <1>6, <1>7, <1>8, <1>9, <1>10, <1>11, <1>12,
     <1>13, <1>14, <1>16 DEF RunStep

LEMMA PTypeStep == PTypeOK /\ TypeOK' /\ HeapInv /\ [PNext]_pvars => PTypeOK'
<1> SUFFICES ASSUME PTypeOK, TypeOK', HeapInv, [PNext]_pvars PROVE PTypeOK'
  OBVIOUS
<1>1. ASSUME NEW p \in Procs, RunStep(p) PROVE PTypeOK'
  BY <1>1, RunStepTypes
<1>2. ASSUME NEW p \in Procs, Boot(p) PROVE PTypeOK'
  BY <1>2, RunAssumption, CallState DEF Boot, Start, Goto, PTypeOK, Stages, Terminal
<1>3. ASSUME NEW p \in Procs, UpdateMetrics(p) PROVE PTypeOK'
  BY <1>3 DEF UpdateMetrics, vars, At, PTypeOK
<1>4. ASSUME NEW p \in Procs, Halt(p) PROVE PTypeOK'
  BY <1>4, RunAssumption, CallState DEF Halt, Crash, Goto, PTypeOK, Stages, Terminal
<1>5. ASSUME NEW p \in Procs, NEW r \in Runs, BeginRun(p, r) PROVE PTypeOK'
  BY <1>5, RunAssumption, HeapCount DEF BeginRun, At, vars, Goto, PTypeOK, Stages, Terminal
<1>6. CASE UNCHANGED pipeline /\ UNCHANGED pc
  BY <1>6 DEF pipeline, PTypeOK
<1>7. QED
  BY <1>1, <1>2, <1>3, <1>4, <1>5, <1>6 DEF PNext, pvars, vars, Tick

\* The shape of a run's state: which stages have a run, a report and a job in
\* hand, and how the stage agrees with the scheduler call in progress.
THEOREM PipelineTypes == PSpec => []PTypeOK
<1>1. PInit => PTypeOK
  <2>1. Init => TypeOK
    BY TypeInit
  <2>2. QED
    BY <2>1, RunAssumption DEF PInit, Init, PTypeOK, Stages, Terminal
<1>2. QED
  BY <1>1, PTypeStep, PipelineKeepsScheduler, TypeCorrect, HeapInvHolds, PTL
     DEF KeepsScheduler, PSpec
------------------------------------------------------------------------------
\* Only passed content.  The queue outlives the run that filled it, so the
\* invariant follows a job from its maker's report to the queue: a run past
\* the gate has a report that says pass, a report is written once (a run is in
\* one process only, and has none before the gate), and so the report of every
\* job ever scheduled still says pass when the job is uploaded.
Passed(r) == report[r] # NoReport /\ report[r].decision = "pass"

RunIsOwn ==
    /\ \A p \in Procs : run[p] \in Runs => runRow[run[p]] = "in_progress"
    /\ \A p, q \in Procs : run[p] = run[q] /\ run[p] \in Runs => p = q
    /\ \A r \in Runs : runRow[r] = "none" => report[r] = NoReport

ReportOnce ==
    \A p \in Procs : stage[p] \in {"drift", "fetch", "store", "archive", "check"} =>
        report[run[p]] = NoReport

PassedGate ==
    /\ \A p \in Procs : stage[p] \in {"assemble", "enqueue"} => Passed(run[p])
    /\ \A j \in scheduled : Passed(j.by)

\* Whatever YouTube has was taken from the queue, and so was once scheduled.
FromQueue ==
    /\ \A r \in Runs : taken[r] \in scheduled \cup {NoJob}
    /\ \A u \in remote : u.job \in scheduled

GateInv == RunIsOwn /\ ReportOnce /\ PassedGate /\ FromQueue

LEMMA GateInit == PInit => GateInv
  BY RunAssumption DEF PInit, Init, GateInv, RunIsOwn, ReportOnce, PassedGate, FromQueue

\* Jobs of Job come from Runs.
LEMMA MakerIsRun == ASSUME NEW j \in Job PROVE j.by \in Runs
  BY RunAssumption DEF Job

\* A step that leaves the scheduler and the reports alone, and moves one run on
\* without passing the gate, keeps the invariant.
LEMMA GateKept ==
    ASSUME PTypeOK, GateInv, NEW p \in Procs,
           run[p] \in Runs,
           UNCHANGED <<run, report, taken, runRow, scheduled>>,
           NEW s, Goto(p, s),
           s \in {"drift", "fetch", "store", "archive", "check"} =>
               stage[p] \in {"drift", "fetch", "store", "archive", "check"},
           s \in {"assemble", "enqueue"} => stage[p] \in {"assemble", "enqueue"},
           \A u \in remote' : u.job \in scheduled
    PROVE  GateInv'
  BY DEF PTypeOK, GateInv, RunIsOwn, ReportOnce, PassedGate, FromQueue, Passed, Goto

LEMMA GateRunStep ==
    ASSUME PTypeOK, Known, GateInv, NEW p \in Procs, RunStep(p) PROVE GateInv'
<1> USE DEF At, StorageFails
<1>0. run[p] \in Runs /\ \A u \in remote : u.job \in scheduled
  <2>1. stage[p] \notin {"off", "free"}
    BY DEF RunStep, CheckDrift, FetchTrends, StoreTransition, LoadArchive, CheckScript, Assemble, Enqueue,
       Enqueued, Publish, Take, Upload, Record, Train, Conclude, Fail, Terminal
  <2>2. QED
    BY <2>1, RunAssumption DEF PTypeOK, GateInv, FromQueue
<1>1. CASE CheckDrift(p)
  BY <1>0, <1>1, GateKept DEF CheckDrift, vars, history
<1>2. CASE FetchTrends(p)
  BY <1>0, <1>2, GateKept DEF FetchTrends, vars, history
<1>3. CASE StoreTransition(p)
  BY <1>0, <1>3, GateKept DEF StoreTransition, vars, history
<1>16. CASE LoadArchive(p)
  BY <1>0, <1>16, GateKept DEF LoadArchive, vars, history
<1>4. CASE CheckScript(p)
  <2>1. At(p, "check") /\ UNCHANGED <<scheduled, run, runRow, taken, remote>>
    BY <1>4 DEF CheckScript, vars, history
  <2>2. CASE UNCHANGED report /\ Goto(p, "failed")
    BY <1>0, <2>1, <2>2, GateKept
  <2>3. ASSUME NEW s \in Scripts, NEW d \in {"pass", "block"},
               report' = [report EXCEPT ![run[p]] =
                             [script |-> s, decision |-> d, matches |-> Matches(s, archive[p])]],
               Goto(p, IF d = "pass" THEN "assemble" ELSE "blocked")
        PROVE  GateInv'
    <3> DEFINE new == [script |-> s, decision |-> d, matches |-> Matches(s, archive[p])]
    <3>1. new # NoReport
      <4>1. Matches(s, archive[p]) \subseteq Scripts
        BY DEF Matches, PTypeOK, Reports
      <4>2. new \in Reports
        BY <4>1 DEF Reports
      <4>3. QED
        BY <4>2, ReportAssumption
    <3>2. \A r \in Runs : report'[r] = IF r = run[p] THEN new ELSE report[r]
      BY <2>3 DEF PTypeOK
    <3>3. report[run[p]] = NoReport
      BY <2>1 DEF GateInv, ReportOnce
    <3>4. stage' = [stage EXCEPT ![p] = IF d = "pass" THEN "assemble" ELSE "blocked"]
      BY <2>3 DEF Goto
    <3>5. \A q \in Procs : q # p /\ run[q] \in Runs => report'[run[q]] = report[run[q]]
      BY <1>0, <3>2 DEF GateInv, RunIsOwn
    <3>6. \A q \in Procs : q # p /\ stage[q] \notin {"off", "free"} =>
             run[q] \in Runs /\ stage'[q] = stage[q]
      BY <3>4, RunAssumption DEF PTypeOK
    <3>7. stage'[p] \in {"assemble", "blocked"} /\ (stage'[p] = "assemble" => d = "pass")
      BY <3>4 DEF PTypeOK
    <3>8. RunIsOwn'
      BY <1>0, <2>1, <3>2 DEF GateInv, RunIsOwn
    <3>9. ReportOnce'
      <4>1. SUFFICES ASSUME NEW q \in Procs,
                            stage'[q] \in {"drift", "fetch", "store", "archive", "check"}
                     PROVE  report'[run'[q]] = NoReport
        BY DEF ReportOnce
      <4>2. q # p /\ stage'[q] = stage[q]
        BY <3>4, <3>7, <4>1 DEF PTypeOK
      <4>3. QED
        BY <2>1, <3>5, <3>6, <4>1, <4>2 DEF GateInv, ReportOnce
    <3>10. \A r \in Runs : Passed(r) => Passed(r)'
      BY <3>2, <3>3 DEF Passed
    <3>11. d = "pass" => Passed(run[p])'
      BY <1>0, <2>1, <3>1, <3>2 DEF Passed
    <3>12. PassedGate'
      <4>1. \A j \in scheduled' : Passed(j.by)'
        BY <2>1, <3>10, MakerIsRun DEF GateInv, PassedGate, PTypeOK, TypeOK
      <4>2. ASSUME NEW q \in Procs, stage'[q] \in {"assemble", "enqueue"}
            PROVE  Passed(run[q])'
        <5>1. CASE q = p
          BY <3>7, <3>11, <4>2, <5>1
        <5>2. CASE q # p
          <6>1. stage[q] \in {"assemble", "enqueue"} /\ run[q] \in Runs
            BY <3>4, <3>6, <4>2, <5>2 DEF PTypeOK
          <6>2. QED
            BY <2>1, <3>10, <6>1 DEF GateInv, PassedGate, Passed
        <5>3. QED
          BY <5>1, <5>2
      <4>3. QED
        BY <2>1, <4>1, <4>2 DEF PassedGate, Passed
    <3>13. FromQueue'
      BY <2>1 DEF GateInv, FromQueue
    <3>14. QED
      BY <3>8, <3>9, <3>12, <3>13 DEF GateInv
  <2>4. QED
    BY <1>4, <2>2, <2>3 DEF CheckScript
<1>5. CASE Assemble(p)
  BY <1>0, <1>5, GateKept DEF Assemble, vars, history
<1>6. CASE Enqueue(p)
  <2> DEFINE job == [plan |-> topic[p], at |-> now, by |-> run[p]]
  <2>1. scheduled' = scheduled \cup {job} /\ Passed(run[p])
    BY <1>6 DEF Enqueue, Schedule, GateInv, PassedGate
  <2>2. stage' = [stage EXCEPT ![p] = "saving"]
        /\ UNCHANGED <<run, report, taken, runRow, remote>>
    BY <1>6 DEF Enqueue, Goto
  <2>3. \A q \in Procs : stage'[q] \in {"drift", "fetch", "store", "archive", "check", "assemble", "enqueue"}
           => stage'[q] = stage[q]
    BY <2>2 DEF PTypeOK
  <2>4. PassedGate'
    BY <2>1, <2>2, <2>3 DEF GateInv, PassedGate, Passed
  <2>5. RunIsOwn' /\ ReportOnce' /\ FromQueue'
    BY <2>1, <2>2, <2>3 DEF GateInv, RunIsOwn, ReportOnce, FromQueue
  <2>6. QED
    BY <2>4, <2>5 DEF GateInv
<1>7. CASE Enqueued(p)
  BY <1>0, <1>7, GateKept DEF Enqueued, SaveRow
<1>8. CASE Publish(p)
  <2>1. UNCHANGED scheduled
    BY <1>8 DEF Publish, CheckLimit, vars, history
  <2>2. PICK s \in {"failed", "ok", "take"} : Goto(p, s)
    BY <1>8 DEF Publish
  <2>3. QED
    BY <1>0, <1>8, <2>1, <2>2, GateKept DEF Publish
<1>9. CASE Take(p)
  <2>1. CASE (Peek(p) \/ DeleteRow(p)) /\ UNCHANGED taken
    <3>1. PICK s \in {"ok", "take"} : Goto(p, s)
      BY <1>9, <2>1 DEF Take, Peek, DeleteRow, Return
    <3>2. QED
      BY <1>0, <1>9, <2>1, <3>1, GateKept DEF Take, Peek, DeleteRow, history
  <2>2. CASE Return(p) /\ taken' = [taken EXCEPT ![run[p]] = cur[p]] /\ Goto(p, "upload")
    <3>1. cur[p] \in scheduled /\ UNCHANGED <<scheduled, run, report, runRow, remote>>
      BY <1>9, <2>2 DEF Take, Return, Known
    <3>2. \A r \in Runs : taken'[r] \in scheduled \cup {NoJob}
      BY <2>2, <3>1 DEF GateInv, FromQueue, PTypeOK
    <3>3. FromQueue'
      BY <1>0, <3>1, <3>2 DEF FromQueue
    <3>4. \A q \in Procs : stage'[q] = IF q = p THEN "upload" ELSE stage[q]
      BY <2>2 DEF Goto, PTypeOK
    <3>5. RunIsOwn' /\ ReportOnce' /\ PassedGate'
      BY <3>1, <3>4 DEF GateInv, RunIsOwn, ReportOnce, PassedGate, Passed
    <3>6. QED
      BY <3>3, <3>5 DEF GateInv
  <2>3. QED
    BY <1>9, <2>1, <2>2 DEF Take
<1>10. CASE Upload(p)
  <2>1. UNCHANGED <<report, taken, runRow, scheduled>> /\ stage[p] = "upload"
    BY <1>10 DEF Upload, vars, history
  <2>2. \A u \in remote' : u.job \in scheduled
    <3>1. taken[run[p]] \in scheduled
      BY <1>0, <2>1, JobAssumption DEF GateInv, FromQueue, PTypeOK
    <3>2. QED
      BY <1>0, <1>10, <3>1 DEF Upload, UploadVideo, Review, PublishPlan
  <2>3. CASE UNCHANGED run
    <3>1. PICK s \in {"failed", "record", "error"} : Goto(p, s)
      BY <1>0, <1>10, <2>3, RunAssumption DEF Upload, UploadVideo, Review, PublishPlan, PTypeOK
    <3>2. QED
      BY <1>0, <2>1, <2>2, <2>3, <3>1, GateKept
  <2>4. CASE run' = [run EXCEPT ![p] = NoRun] /\ Goto(p, "free")
    BY <1>0, <2>1, <2>2, <2>4, RunAssumption
       DEF GateInv, RunIsOwn, ReportOnce, PassedGate, FromQueue, Passed, Goto, PTypeOK
  <2>5. QED
    BY <1>10, <2>3, <2>4 DEF Upload, UploadVideo, Review, PublishPlan
<1>11. CASE Record(p)
  BY <1>0, <1>11, GateKept DEF Record, vars, history
<1>12. CASE Train(p)
  BY <1>0, <1>12, GateKept DEF Train, TrainBatch, vars, history
<1>13. CASE Conclude(p)
  <2>1. CASE Goto(p, "failed") /\ UNCHANGED <<run, runRow>>
    BY <1>0, <1>13, <2>1, GateKept DEF Conclude, vars, history
  <2>2. CASE /\ runRow' = [runRow EXCEPT ![run[p]] = stage[p]]
             /\ run' = [run EXCEPT ![p] = NoRun]
             /\ Goto(p, "free")
    BY <1>0, <1>13, <2>2, RunAssumption DEF Conclude, Terminal, vars, history,
       GateInv, RunIsOwn, ReportOnce, PassedGate, FromQueue, Passed, Goto, PTypeOK
  <2>3. QED
    BY <1>13, <2>1, <2>2 DEF Conclude
<1>14. CASE Fail(p)
  BY <1>0, <1>14, RunAssumption DEF Fail, vars, history,
     GateInv, RunIsOwn, ReportOnce, PassedGate, FromQueue, Passed, Goto, PTypeOK
<1>15. QED
  BY <1>1, <1>2, <1>3, <1>4, <1>5, <1>6, <1>7, <1>8, <1>9, <1>10, <1>11, <1>12,
     <1>13, <1>14, <1>16 DEF RunStep

LEMMA GateStep == PTypeOK /\ Known /\ GateInv /\ [PNext]_pvars => GateInv'
<1> SUFFICES ASSUME PTypeOK, Known, GateInv, [PNext]_pvars PROVE GateInv'
  OBVIOUS
<1> USE RunAssumption
        DEF PTypeOK, GateInv, RunIsOwn, ReportOnce, PassedGate, FromQueue, Passed
<1>1. ASSUME NEW p \in Procs, RunStep(p) PROVE GateInv'
  BY <1>1, GateRunStep
<1>2. ASSUME NEW p \in Procs, Boot(p) PROVE GateInv'
  BY <1>2 DEF Boot, Start, Goto
<1>3. ASSUME NEW p \in Procs, UpdateMetrics(p) PROVE GateInv'
  BY <1>3 DEF UpdateMetrics, vars, history
<1>4. ASSUME NEW p \in Procs, Halt(p) PROVE GateInv'
  BY <1>4 DEF Halt, Crash, Goto, history
<1>5. ASSUME NEW p \in Procs, NEW r \in Runs, BeginRun(p, r) PROVE GateInv'
  <2>1. \A q \in Procs : run[q] # r
    BY <1>5 DEF BeginRun
  <2>2. QED
    BY <1>5, <2>1 DEF BeginRun, vars, history, Goto
<1>6. CASE UNCHANGED pipeline /\ UNCHANGED scheduled
  BY <1>6 DEF pipeline
<1>7. QED
  BY <1>1, <1>2, <1>3, <1>4, <1>5, <1>6 DEF PNext, pvars, vars, Tick, history

\* Whatever is queued, stored in the table or uploaded comes from a run whose
\* report says pass, although the publisher is handed a constant report:
\* for any number of processes, runs, restarts and faults.
THEOREM OnlyPassedContentHolds == PSpec => []OnlyPassedContent
<1>1. PTypeOK /\ Known /\ GateInv => OnlyPassedContent
  BY DEF OnlyPassedContent, Offers, InHand, Known, GateInv, PassedGate, FromQueue, Passed
<1>2. PSpec => []Known
  BY PipelineKeepsScheduler, HeapInvHolds, PTL DEF KeepsScheduler, HeapInv
<1>3. QED
  BY <1>1, <1>2, GateInit, GateStep, PipelineTypes, PTL DEF PSpec
------------------------------------------------------------------------------
\* What a run has taken and uploaded.  A run takes one job, uploads that one and
\* no other, and has taken nothing before; whatever else remains to be shown of
\* the uploads is about runs.
Untaken == {"drift", "fetch", "store", "archive", "check", "assemble", "enqueue", "saving",
            "publish", "take", "blocked"}

RunTakesOne ==
    /\ \A r \in Runs : runRow[r] = "none" => taken[r] = NoJob
    /\ \A p \in Procs : stage[p] \in Untaken => taken[run[p]] = NoJob
    /\ \A u \in remote : taken[u.run] = u.job

LEMMA TakesInit == PInit => RunTakesOne
  BY RunAssumption DEF PInit, RunTakesOne, Untaken

\* No run gets its row back, and none returns to before its take.
LEMMA RunGoesOn ==
    ASSUME PTypeOK, NEW p \in Procs, RunStep(p)
    PROVE  /\ run[p] \in Runs
           /\ \A r \in Runs : runRow'[r] = "none" => runRow[r] = "none"
           /\ \A q \in Procs : stage'[q] \in Untaken => run'[q] = run[q] /\ stage[q] \in Untaken
<1>1. /\ run \in [Procs -> Runs \cup {NoRun}] /\ stage \in [Procs -> Stages]
      /\ runRow \in [Runs -> {"none", "in_progress"} \cup Terminal]
      /\ \A q \in Procs : run[q] = NoRun <=> stage[q] \in {"off", "free"}
  BY DEF PTypeOK
<1> USE <1>1 DEF At, Goto, StorageFails, Untaken, Stages, Terminal
<1>2. run[p] \in Runs
  <2>1. stage[p] \notin {"off", "free"}
    BY DEF RunStep, CheckDrift, FetchTrends, StoreTransition, LoadArchive, CheckScript, Assemble, Enqueue,
       Enqueued, Publish, Take, Upload, Record, Train, Conclude, Fail
  <2>2. QED
    BY <2>1
<1>3. CASE CheckDrift(p) \/ FetchTrends(p) \/ StoreTransition(p) \/ LoadArchive(p) \/ CheckScript(p)
  BY <1>3 DEF CheckDrift, FetchTrends, StoreTransition, LoadArchive, CheckScript
<1>4. CASE Assemble(p) \/ Enqueue(p) \/ Enqueued(p) \/ Publish(p) \/ Take(p)
  BY <1>4 DEF Assemble, Enqueue, Enqueued, Publish, Take
<1>5. CASE Upload(p)
  BY <1>5 DEF Upload, UploadVideo, Review, PublishPlan
<1>6. CASE Record(p) \/ Train(p)
  BY <1>6 DEF Record, Train, TrainBatch
<1>7. CASE Conclude(p) \/ Fail(p)
  BY <1>2, <1>7 DEF Conclude, Fail
<1>8. QED
  BY <1>2, <1>3, <1>4, <1>5, <1>6, <1>7 DEF RunStep

LEMMA TakesRunStep ==
    ASSUME PTypeOK, GateInv, RunTakesOne, NEW p \in Procs, RunStep(p) PROVE RunTakesOne'
<1>0. run[p] \in Runs
  BY RunGoesOn
<1>1. CASE UNCHANGED <<taken, remote>>
  BY <1>1, RunGoesOn DEF RunTakesOne
<1>2. CASE Take(p) /\ taken' = [taken EXCEPT ![run[p]] = cur[p]] /\ Goto(p, "upload")
  <2>1. taken[run[p]] = NoJob /\ runRow[run[p]] = "in_progress"
    BY <1>0, <1>2 DEF Take, At, RunTakesOne, Untaken, GateInv, RunIsOwn
  <2>2. \A q \in Procs : q # p /\ run[q] \in Runs => run[q] # run[p]
    BY <1>0 DEF GateInv, RunIsOwn
  <2>3. \A u \in remote : u.run \in Runs /\ u.run # run[p]
    BY <2>1, JobAssumption DEF RunTakesOne, PTypeOK
  <2>4. \A q \in Procs : stage'[q] \in Untaken => q # p /\ run[q] \in Runs
    BY <1>2, RunGoesOn, RunAssumption DEF Goto, PTypeOK, Untaken
  <2>5. \A r \in Runs : r # run[p] => taken'[r] = taken[r]
    BY <1>2 DEF PTypeOK
  <2>6. UNCHANGED <<run, runRow, remote>>
    BY <1>2 DEF Take
  <2>7. QED
    BY <2>1, <2>2, <2>3, <2>4, <2>5, <2>6, RunGoesOn DEF RunTakesOne
<1>3. CASE Upload(p)
  <2>1. /\ UNCHANGED taken
        /\ \A u \in remote' : u \in remote \/ u = [job |-> taken[run[p]], run |-> run[p], by |-> p]
    BY <1>3 DEF Upload, UploadVideo, Review, PublishPlan
  <2>2. QED
    BY <2>1, RunGoesOn DEF RunTakesOne
<1>4. QED
  BY <1>1, <1>2, <1>3 DEF RunStep, CheckDrift, FetchTrends, StoreTransition, LoadArchive, CheckScript,
     Assemble, Enqueue, Enqueued, Publish, Take, Record, Train, Conclude, Fail

LEMMA TakesStep == PTypeOK /\ GateInv /\ RunTakesOne /\ [PNext]_pvars => RunTakesOne'
<1> SUFFICES ASSUME PTypeOK, GateInv, RunTakesOne, [PNext]_pvars PROVE RunTakesOne'
  OBVIOUS
<1> USE DEF RunTakesOne, Untaken, PTypeOK
<1>1. ASSUME NEW p \in Procs, RunStep(p) PROVE RunTakesOne'
  BY <1>1, TakesRunStep
<1>2. ASSUME NEW p \in Procs, Boot(p) PROVE RunTakesOne'
  BY <1>2 DEF Boot, Goto
<1>3. ASSUME NEW p \in Procs, UpdateMetrics(p) PROVE RunTakesOne'
  BY <1>3 DEF UpdateMetrics
<1>4. ASSUME NEW p \in Procs, Halt(p) PROVE RunTakesOne'
  BY <1>4 DEF Halt, Goto
<1>5. ASSUME NEW p \in Procs, NEW r \in Runs, BeginRun(p, r) PROVE RunTakesOne'
  BY <1>5 DEF BeginRun, Goto
<1>6. CASE UNCHANGED pipeline
  BY <1>6 DEF pipeline
<1>7. QED
  BY <1>1, <1>2, <1>3, <1>4, <1>5, <1>6 DEF PNext, pvars

\* A run takes and uploads at most one job, and the one it took: for any number
\* of processes.
THEOREM RunTakesOneHolds == PSpec => [](PTypeOK /\ Known /\ GateInv /\ RunTakesOne)
<1>1. PSpec => []Known
  BY PipelineKeepsScheduler, HeapInvHolds, PTL DEF KeepsScheduler, HeapInv
<1>2. QED
  BY <1>1, GateInit, GateStep, TakesInit, TakesStep, PipelineTypes, PTL DEF PSpec
------------------------------------------------------------------------------
\* Whoever uploads a job was given it by next_due(), once: a job in hand that the
\* same process has uploaded before is one whose row it failed to delete.
UploadsOwn ==
    /\ \A u \in remote : u.job \in handed[u.by]
    /\ \A p \in Procs : stage[p] = "upload" =>
          /\ taken[run[p]] \in handed[p]
          /\ \A u \in remote : u.by = p /\ u.job = taken[run[p]] => u.job \in kept[p]

OnceUploaded == UploadsOwn /\ UploadedOnce

\* What a process was handed, or failed to delete, it keeps.
LEMMA HandedGrows ==
    ASSUME TypeOK, [Next]_vars
    PROVE  \A q \in Procs : handed[q] \subseteq handed'[q] /\ kept[q] \subseteq kept'[q]
<1>1. ASSUME NEW p \in Procs, Return(p)
      PROVE  \A q \in Procs : handed[q] \subseteq handed'[q] /\ kept[q] \subseteq kept'[q]
  BY <1>1 DEF Return, TypeOK
<1>2. ASSUME NEW p \in Procs, DeleteRow(p)
      PROVE  \A q \in Procs : handed[q] \subseteq handed'[q] /\ kept[q] \subseteq kept'[q]
  BY <1>2 DEF DeleteRow, TypeOK
<1>3. QED
  BY <1>1, <1>2 DEF Next, Step, Tick, Start, Schedule, SaveRow, CheckLimit, Peek, Crash,
     vars, history

\* What a step of one process leaves alone: the others, their runs, and what is
\* in published_videos.
LEMMA OthersKeep ==
    ASSUME PTypeOK, NEW p \in Procs, RunStep(p)
    PROVE  /\ UNCHANGED publisher /\ published \subseteq published'
           /\ \A q \in Procs : q # p => stage'[q] = stage[q] /\ run'[q] = run[q]
           /\ \A r \in Runs : r # run[p] => taken'[r] = taken[r] /\ runRow'[r] = runRow[r]
           /\ \A u \in remote' :
                 \/ u \in remote
                 \/ stage[p] = "upload" /\ u = [job |-> taken[run[p]], run |-> run[p], by |-> p]
<1>1. /\ run \in [Procs -> Runs \cup {NoRun}] /\ stage \in [Procs -> Stages]
      /\ runRow \in [Runs -> {"none", "in_progress"} \cup Terminal]
      /\ taken \in [Runs -> Job \cup {NoJob}]
  BY DEF PTypeOK
<1>2. UNCHANGED publisher /\ published \subseteq published'
  BY DEF RunStep, CheckDrift, FetchTrends, StoreTransition, LoadArchive, CheckScript, Assemble, Enqueue,
     Enqueued, Publish, Take, Upload, Record, Train, Conclude, Fail
<1>3. \E s : Goto(p, s)
  BY DEF RunStep, CheckDrift, FetchTrends, StoreTransition, LoadArchive, CheckScript, Assemble, Enqueue,
     Enqueued, Publish, Take, Upload, UploadVideo, Review, PublishPlan, Record, Train,
     TrainBatch, Conclude, Fail, StorageFails
<1>4. UNCHANGED run \/ run' = [run EXCEPT ![p] = NoRun]
  BY DEF RunStep, CheckDrift, FetchTrends, StoreTransition, LoadArchive, CheckScript, Assemble, Enqueue,
     Enqueued, Publish, Take, Upload, UploadVideo, Review, PublishPlan, Record, Train,
     Conclude, Fail
<1>5. UNCHANGED taken \/ taken' = [taken EXCEPT ![run[p]] = cur[p]]
  BY DEF RunStep, CheckDrift, FetchTrends, StoreTransition, LoadArchive, CheckScript, Assemble, Enqueue,
     Enqueued, Publish, Take, Upload, Record, Train, Conclude, Fail
<1>6. UNCHANGED runRow \/ \E s : runRow' = [runRow EXCEPT ![run[p]] = s]
  BY DEF RunStep, CheckDrift, FetchTrends, StoreTransition, LoadArchive, CheckScript, Assemble, Enqueue,
     Enqueued, Publish, Take, Upload, Record, Train, Conclude, Fail
<1>7. \A u \in remote' : \/ u \in remote
                         \/ stage[p] = "upload" /\ u = [job |-> taken[run[p]], run |-> run[p], by |-> p]
  BY DEF RunStep, CheckDrift, FetchTrends, StoreTransition, LoadArchive, CheckScript, Assemble, Enqueue,
     Enqueued, Publish, Take, Upload, UploadVideo, Review, PublishPlan, Record, Train,
     Conclude, Fail, At
<1>8. QED
  BY <1>1, <1>2, <1>3, <1>4, <1>5, <1>6, <1>7 DEF Goto

LEMMA UploadedRunStep ==
    ASSUME PTypeOK, GateInv, AtMostOnce, OnceUploaded, [Next]_vars, NEW p \in Procs, RunStep(p)
    PROVE  OnceUploaded'
<1>0. /\ run[p] \in Runs /\ TypeOK
      /\ \A q \in Procs : stage[q] = "upload" => run[q] \in Runs
      /\ \A q \in Procs : q # p => stage'[q] = stage[q] /\ run'[q] = run[q]
      /\ \A r \in Runs : r # run[p] => taken'[r] = taken[r]
      /\ \A u \in remote : u.by \in Procs
  BY RunGoesOn, OthersKeep, RunAssumption DEF PTypeOK
<1>1. \A q \in Procs : handed[q] \subseteq handed'[q] /\ kept[q] \subseteq kept'[q]
  BY <1>0, HandedGrows
<1>2. \A q \in Procs : q # p /\ stage[q] = "upload" => run[q] # run[p]
  BY <1>0 DEF GateInv, RunIsOwn
<1>3. CASE Upload(p)
  <2> DEFINE new == [job |-> taken[run[p]], run |-> run[p], by |-> p]
  <2>1. UNCHANGED <<taken, handed, kept>> /\ stage[p] = "upload" /\ stage'[p] # "upload"
    BY <1>0, <1>3 DEF Upload, UploadVideo, Review, PublishPlan, At, Goto, vars, history, PTypeOK
  <2>2. remote' = remote \/ remote' = remote \cup {new}
    BY <1>3 DEF Upload, UploadVideo, Review, PublishPlan
  <2>3. new.job \in handed[p] /\ \A u \in remote : u.by = p /\ u.job = new.job => u.job \in kept[p]
    BY <2>1 DEF OnceUploaded, UploadsOwn
  <2>4. UploadsOwn'
    BY <1>0, <2>1, <2>2, <2>3 DEF OnceUploaded, UploadsOwn
  <2>5. UploadedOnce'
    BY <2>1, <2>2, <2>3 DEF OnceUploaded, UploadedOnce
  <2>6. QED
    BY <2>4, <2>5 DEF OnceUploaded
<1>4. CASE Take(p) /\ Return(p)
  <2>1. UNCHANGED <<remote, run, kept>> /\ pc[p] = "returning"
    BY <1>4 DEF Take, Return
  <2>2. taken' = [taken EXCEPT ![run[p]] = cur[p]]
    BY <1>4 DEF Take, Return, Peek, DeleteRow
  <2>3. taken'[run[p]] = cur[p] /\ cur[p] \in handed'[p]
    BY <1>0, <1>4, <2>2 DEF Return, PTypeOK, TypeOK
  <2>4. cur[p] \in handed[p] => cur[p] \in kept[p]
    BY <2>1 DEF AtMostOnce, Offers, InHand
  <2>5. UploadsOwn'
    BY <1>0, <1>1, <1>2, <2>1, <2>3, <2>4 DEF OnceUploaded, UploadsOwn
  <2>6. QED
    BY <2>1, <2>5 DEF OnceUploaded, UploadedOnce
<1>5. CASE ~ Upload(p) /\ ~ (Take(p) /\ Return(p))
  <2>1. UNCHANGED <<remote, taken>> /\ stage'[p] # "upload"
    BY <1>0, <1>5 DEF RunStep, CheckDrift, FetchTrends, StoreTransition, LoadArchive, CheckScript,
       Assemble, Enqueue, Enqueued, Publish, Take, Record, Train, TrainBatch, Conclude, Fail,
       At, Goto, StorageFails, PTypeOK, Terminal
  <2>2. QED
    BY <1>0, <1>1, <2>1 DEF OnceUploaded, UploadsOwn, UploadedOnce
<1>6. QED
  BY <1>3, <1>4, <1>5

LEMMA UploadedStep ==
    PTypeOK /\ GateInv /\ Shape /\ AtMostOnce /\ OnceUploaded /\ [PNext]_pvars => OnceUploaded'
<1> SUFFICES ASSUME PTypeOK, GateInv, Shape, AtMostOnce, OnceUploaded, [PNext]_pvars
             PROVE  OnceUploaded'
  OBVIOUS
<1>1. [Next]_vars /\ TypeOK
  BY SchedulerStep DEF PTypeOK
<1>2. ASSUME NEW p \in Procs, RunStep(p) PROVE OnceUploaded'
  BY <1>1, <1>2, UploadedRunStep
<1>3. \A q \in Procs : handed[q] \subseteq handed'[q] /\ kept[q] \subseteq kept'[q]
  BY <1>1, HandedGrows
<1>4. ASSUME UNCHANGED <<remote, taken>>,
             \A q \in Procs : stage'[q] = "upload" => stage[q] = "upload" /\ run'[q] = run[q]
      PROVE  OnceUploaded'
  <2>1. \A u \in remote : u.by \in Procs
    BY DEF PTypeOK
  <2>2. QED
    BY <1>3, <1>4, <2>1 DEF OnceUploaded, UploadsOwn, UploadedOnce
<1>5. ASSUME NEW p \in Procs, Boot(p) \/ UpdateMetrics(p) \/ Halt(p) PROVE OnceUploaded'
  BY <1>4, <1>5 DEF Boot, UpdateMetrics, Halt, Goto, PTypeOK
<1>6. ASSUME NEW p \in Procs, NEW r \in Runs, BeginRun(p, r) PROVE OnceUploaded'
  BY <1>4, <1>6 DEF BeginRun, Goto, PTypeOK
<1>7. CASE UNCHANGED pipeline
  BY <1>4, <1>7 DEF pipeline
<1>8. QED
  BY <1>2, <1>5, <1>6, <1>7 DEF PNext, pvars

\* No process, restarted as often as one likes and next to any number of others on the
\* same table, gives YouTube a job twice unless it failed to delete the job's row: for
\* any plans, runs, errors of the pipeline and storage faults.
THEOREM UploadedOnceHolds == PSpec => []UploadedOnce
<1>1. PInit => OnceUploaded
  BY DEF PInit, OnceUploaded, UploadsOwn, UploadedOnce
<1>2. OnceUploaded => UploadedOnce
  BY DEF OnceUploaded
<1>3. PSpec => []AtMostOnce
  BY PipelineKeepsScheduler, AtMostOnceHolds, PTL DEF KeepsScheduler
<1>4. PSpec => []Shape
  BY ShapeInit, ShapeStep, PTL DEF PSpec
<1>5. QED
  BY <1>1, <1>2, <1>3, <1>4, UploadedStep, RunTakesOneHolds, PTL DEF PSpec
------------------------------------------------------------------------------
\* Between the upload and the end of the run the video is recorded, under its own
\* id if the publisher uploaded it.
RecordedBy(p) ==
    /\ stage[p] \in {"train", "ok"} /\ taken[run[p]] # NoJob =>
          VideoId(taken[run[p]]) \in published \/ ManualId \in published
    /\ \A u \in remote : u.run = run[p] =>
          /\ stage[p] # "upload"
          /\ stage[p] = "record" => publisher[p] \in {"built", "upload"}
          /\ stage[p] \in {"train", "ok"} => VideoId(u.job) \in published

Recorded == OkIsRecorded /\ \A p \in Procs : RecordedBy(p)

\* The ways into the stages that Recorded speaks of, and to the status "ok".
LEMMA WaysToOk ==
    ASSUME PTypeOK, NEW p \in Procs, RunStep(p)
    PROVE  /\ stage'[p] = "upload" => stage[p] = "take" /\ UNCHANGED <<run, remote>>
           /\ stage'[p] = "record" => /\ stage[p] = "upload" /\ UNCHANGED run
                                      /\ publisher[p] \in {"built", "upload"} \/ UNCHANGED remote
           /\ stage'[p] = "train" => Record(p)
           /\ stage'[p] = "ok" => /\ stage[p] \in Untaken \cup {"train"}
                                  /\ UNCHANGED <<run, remote, taken>>
           /\ runRow'[run[p]] # runRow[run[p]] /\ runRow'[run[p]] = "ok" =>
                 stage[p] = "ok" /\ UNCHANGED <<remote, taken, published>>
<1>1. /\ stage \in [Procs -> Stages] /\ runRow \in [Runs -> {"none", "in_progress"} \cup Terminal]
      /\ run[p] \in Runs
  BY RunGoesOn DEF PTypeOK
<1> USE <1>1 DEF At, Goto, StorageFails, Untaken
<1>2. CASE CheckDrift(p) \/ FetchTrends(p) \/ StoreTransition(p) \/ LoadArchive(p) \/ CheckScript(p)
  BY <1>2 DEF CheckDrift, FetchTrends, StoreTransition, LoadArchive, CheckScript
<1>3. CASE Assemble(p) \/ Enqueue(p) \/ Enqueued(p) \/ Publish(p)
  BY <1>3 DEF Assemble, Enqueue, Enqueued, Publish
<1>4. CASE Take(p)
  BY <1>4 DEF Take, Peek, DeleteRow, Return
<1>5. CASE Upload(p)
  BY <1>5 DEF Upload, UploadVideo, Review, PublishPlan
<1>6. CASE Record(p)
  BY <1>6 DEF Record
<1>7. CASE Train(p)
  BY <1>7 DEF Train, TrainBatch
<1>8. CASE Conclude(p) \/ Fail(p)
  BY <1>8 DEF Conclude, Fail, Terminal
<1>9. QED
  BY <1>2, <1>3, <1>4, <1>5, <1>6, <1>7, <1>8 DEF RunStep

LEMMA RecordedRunStep ==
    ASSUME PTypeOK, GateInv, RunTakesOne, Recorded, NEW p \in Procs, RunStep(p) PROVE Recorded'
<1>1. run[p] \in Runs /\ \A u \in remote : u.run \in Runs /\ u.job \in Job
  BY RunGoesOn DEF PTypeOK
<1>2. ASSUME NEW q \in Procs, q # p PROVE RecordedBy(q)'
  <2>1. run[q] # run[p] /\ (run[q] \in Runs \/ stage[q] \in {"off", "free"})
    BY <1>1, <1>2, RunAssumption DEF GateInv, RunIsOwn, PTypeOK
  <2>2. UNCHANGED publisher /\ published \subseteq published' /\ UNCHANGED <<stage[q], run[q]>>
    BY <1>2, OthersKeep
  <2>3. stage[q] \in {"train", "ok"} => taken'[run[q]] = taken[run[q]]
    BY <2>1, OthersKeep
  <2>4. \A u \in remote' : u.run = run[q] => u \in remote
    BY <2>1, OthersKeep
  <2>5. QED
    BY <2>2, <2>3, <2>4 DEF Recorded, RecordedBy
<1>3. stage[p] \in Untaken => taken[run[p]] = NoJob /\ \A u \in remote : u.run # run[p]
  BY <1>1, JobAssumption DEF RunTakesOne
<1>4. RecordedBy(p)'
  <2>1. CASE stage'[p] = "upload"
    BY <2>1, <1>3, WaysToOk DEF RecordedBy, Untaken
  <2>2. CASE stage'[p] = "record"
    BY <2>2, WaysToOk, OthersKeep DEF Recorded, RecordedBy
  <2>3. CASE stage'[p] = "train"
    <3>1. Record(p)
      BY <2>3, WaysToOk
    <3>2. /\ At(p, "record") /\ UNCHANGED <<run, taken, remote, publisher>>
          /\ (IF publisher[p] \in {"built", "upload"} THEN VideoId(taken[run[p]]) ELSE ManualId)
                \in published'
      BY <2>3, <3>1 DEF Record, StorageFails, Goto, PTypeOK
    <3>3. QED
      BY <2>3, <3>2 DEF Recorded, RecordedBy, RunTakesOne, At
  <2>4. CASE stage'[p] = "ok"
    BY <2>4, <1>3, WaysToOk, OthersKeep DEF Recorded, RecordedBy
  <2>5. QED
    BY <2>1, <2>2, <2>3, <2>4 DEF RecordedBy
<1>5. ASSUME NEW r \in Runs, runRow'[r] = "ok"
      PROVE  /\ taken'[r] # NoJob => VideoId(taken'[r]) \in published' \/ ManualId \in published'
             /\ \A u \in remote' : u.run = r => VideoId(u.job) \in published'
  <2>1. CASE r # run[p]
    BY <1>5, <2>1, OthersKeep DEF Recorded, OkIsRecorded
  <2>2. CASE r = run[p]
    BY <1>5, <2>2, <1>1, WaysToOk DEF GateInv, RunIsOwn, Recorded, RecordedBy
  <2>3. QED
    BY <2>1, <2>2
<1>6. \A u \in remote' : u.run \in Runs
  BY <1>1, OthersKeep
<1>7. QED
  BY <1>2, <1>4, <1>5, <1>6 DEF Recorded, OkIsRecorded

LEMMA RecordedStep ==
    PTypeOK /\ GateInv /\ RunTakesOne /\ Recorded /\ [PNext]_pvars => Recorded'
<1> SUFFICES ASSUME PTypeOK, GateInv, RunTakesOne, Recorded, [PNext]_pvars PROVE Recorded'
  OBVIOUS
<1> USE DEF Recorded, RecordedBy, OkIsRecorded
<1>1. ASSUME NEW p \in Procs, RunStep(p) PROVE Recorded'
  BY <1>1, RecordedRunStep
<1>2. ASSUME NEW p \in Procs, Boot(p) \/ UpdateMetrics(p) \/ Halt(p) PROVE Recorded'
  <2>1. \A u \in remote : u.run # NoRun
    BY RunAssumption DEF PTypeOK
  <2>2. QED
    BY <1>2, <2>1 DEF Boot, Start, UpdateMetrics, Halt, Goto, PTypeOK
<1>3. ASSUME NEW p \in Procs, NEW r \in Runs, BeginRun(p, r) PROVE Recorded'
  <2>1. \A u \in remote : u.run # r
    BY <1>3, JobAssumption DEF BeginRun, RunTakesOne, PTypeOK
  <2>2. QED
    BY <1>3, <2>1 DEF BeginRun, Goto, PTypeOK
<1>4. CASE UNCHANGED pipeline
  BY <1>4 DEF pipeline
<1>5. QED
  BY <1>1, <1>2, <1>3, <1>4 DEF PNext, pvars

\* Whatever fails or stops between YouTube and published_videos, a run whose status
\* is "ok" has a row: the row of that very video if it was uploaded, an approval's if it
\* was not.  For any number of processes that share the tables.
THEOREM OkIsRecordedHolds == PSpec => []OkIsRecorded
<1>1. PInit => Recorded
  BY DEF PInit, Recorded, RecordedBy, OkIsRecorded
<1>2. Recorded => OkIsRecorded
  BY DEF Recorded
<1>3. QED
  BY <1>1, <1>2, RecordedStep, RunTakesOneHolds, PTL DEF PSpec
------------------------------------------------------------------------------
\* The heap, run by run.  Jobs are due when they are scheduled and the clock never
\* goes back, so a peek always finds a due one: a run adds one job at most, and
\* takes one unless the daily limit is used up or the heap is empty.
Backlog(p) ==
    LET n == Cardinality(heap[p])
    IN  /\ stage[p] \in {"drift", "fetch", "store", "archive", "check", "assemble", "enqueue",
                         "upload", "record", "train"} => n <= found[p]
        /\ stage[p] \in {"saving", "publish"} => n <= found[p] + 1
        /\ stage[p] = "take" =>
              /\ ~ DryRun(env[p])
              /\ n <= found[p] + (IF pc[p] = "peek" THEN 1 ELSE 0)
        /\ stage[p] = "ok" =>
              n <= found[p] \/ DryRun(env[p]) \/ uploads_today[p] >= MaxPerDay

AllDue == \A j \in scheduled : j.at <= now
BacklogInv == AllDue /\ \A p \in Procs : Backlog(p)

\* The steps that schedule nothing leave what is due due.
LEMMA DueStep == TypeOK /\ AllDue /\ [PNext]_pvars => AllDue'
<1> SUFFICES ASSUME TypeOK, AllDue, [PNext]_pvars PROVE AllDue'
  OBVIOUS
<1> USE DEF AllDue
<1>0. \A j \in scheduled : j.at \in Int /\ now \in Int
  BY DateAssumption DEF TypeOK, Job, Times
<1>1. ASSUME NEW p \in Procs, Enqueue(p) PROVE AllDue'
  BY <1>0, <1>1, DateAssumption DEF Enqueue, Schedule, TypeOK, Times
<1>2. CASE Tick
  BY <1>0, <1>2 DEF Tick, history
<1>3. CASE UNCHANGED <<now, scheduled>>
  BY <1>3
<1>4. ASSUME NEW p \in Procs, RunStep(p), ~ Enqueue(p) PROVE UNCHANGED <<now, scheduled>>
  BY <1>4 DEF RunStep, CheckDrift, FetchTrends, StoreTransition, LoadArchive, CheckScript, Assemble, Enqueued,
     SaveRow, Publish, CheckLimit, Take, Peek, DeleteRow, Return, Upload, Record, Train, Conclude, Fail,
     vars, history
<1>5. QED
  BY <1>1, <1>2, <1>3, <1>4 DEF PNext, pvars, vars, history, Boot, Start, UpdateMetrics,
     Halt, Crash, BeginRun

\* What Backlog speaks of is a process's own.
LEMMA BacklogFrame ==
    ASSUME NEW q \in Procs, Backlog(q),
           UNCHANGED <<heap[q], found[q], env[q], uploads_today[q], pc[q]>>,
           \/ stage'[q] = stage[q]
           \/ stage'[q] \in {"off", "free", "failed", "error", "blocked"}
    PROVE  Backlog(q)'
  BY DEF Backlog, DryRun, ConfigDry

LEMMA BacklogOthers ==
    ASSUME PTypeOK, NEW p \in Procs, RunStep(p), NEW q \in Procs, q # p
    PROVE  UNCHANGED <<heap[q], found[q], env[q], uploads_today[q], pc[q], stage[q]>>
<1>1. UNCHANGED stage[q]
  BY OthersKeep
<1>2. UNCHANGED <<heap[q], found[q], env[q], uploads_today[q], pc[q]>>
  BY DEF RunStep, CheckDrift, FetchTrends, StoreTransition, LoadArchive, CheckScript, Assemble, Enqueue,
     Schedule, Enqueued, SaveRow, Publish, CheckLimit, Take, Peek, DeleteRow, Return, Upload, Record,
     Train, Conclude, Fail, vars, memory, PTypeOK, TypeOK
<1>3. QED
  BY <1>1, <1>2

LEMMA BacklogRunStep ==
    ASSUME PTypeOK, HeapInv, AllDue, NEW p \in Procs, Backlog(p), RunStep(p)
    PROVE  Backlog(p)'
<1> DEFINE n == Cardinality(heap[p])
<1>1. n \in Nat /\ found[p] \in Nat /\ uploads_today[p] \in Nat /\ MaxPerDay \in Nat
  BY HeapCount, LimitAssumption DEF PTypeOK, TypeOK
<1>2. stage \in [Procs -> Stages] /\ env \in [Procs -> Envs] /\ heap \in [Procs -> SUBSET Job]
      /\ pc \in [Procs -> {"down", "idle", "saving", "peek", "deleting", "returning"}]
      /\ uploads_today \in [Procs -> Nat]
      /\ IsFiniteSet(heap[p]) /\ heap[p] \subseteq scheduled
  BY FS_Subset DEF PTypeOK, TypeOK, HeapInv, Known
<1> USE <1>1, <1>2 DEF At, Goto, StorageFails
<1>3. ASSUME UNCHANGED <<heap, found, env, uploads_today, pc>>,
             NEW s, Goto(p, s),
             s \in {"fetch", "store", "archive", "check", "assemble", "enqueue", "publish",
                    "record", "train", "ok"} =>
                stage[p] \in {"drift", "fetch", "store", "archive", "check", "assemble", "enqueue",
                              "upload", "record", "train"},
             s \notin {"drift", "saving", "take", "upload"}
      PROVE  Backlog(p)'
  BY <1>3 DEF Backlog
<1>4. CASE CheckDrift(p) \/ FetchTrends(p) \/ StoreTransition(p) \/ LoadArchive(p) \/ CheckScript(p) \/ Assemble(p)
  <2>1. UNCHANGED <<heap, found, env, uploads_today, pc>>
    BY <1>4 DEF CheckDrift, FetchTrends, StoreTransition, LoadArchive, CheckScript, Assemble,
       vars, memory
  <2>2. \E s \in {"failed", "fetch", "ok", "store", "archive", "check", "assemble", "blocked", "enqueue",
                  "publish"} : Goto(p, s)
    BY <1>4 DEF CheckDrift, FetchTrends, StoreTransition, LoadArchive, CheckScript, Assemble
  <2>3. stage[p] \in {"drift", "fetch", "store", "archive", "check", "assemble"}
    BY <1>4 DEF CheckDrift, FetchTrends, StoreTransition, LoadArchive, CheckScript, Assemble
  <2>4. QED
    BY <1>3, <2>1, <2>2, <2>3
<1>5. CASE Upload(p) \/ Record(p) \/ Train(p)
  <2>1. UNCHANGED <<heap, found, env, uploads_today, pc>>
    BY <1>5 DEF Upload, Record, Train, vars, memory
  <2>2. \E s \in {"failed", "record", "error", "free", "train", "ok"} : Goto(p, s)
    BY <1>5 DEF Upload, UploadVideo, Review, PublishPlan, Record, Train, TrainBatch
  <2>3. stage[p] \in {"upload", "record", "train"}
    BY <1>5 DEF Upload, Record, Train
  <2>4. QED
    BY <1>3, <2>1, <2>2, <2>3
<1>6. CASE Conclude(p) \/ Fail(p)
  <2>1. UNCHANGED <<heap, found, env, uploads_today, pc>>
    BY <1>6 DEF Conclude, Fail, vars, memory
  <2>2. \E s \in {"failed", "free"} : Goto(p, s)
    BY <1>6 DEF Conclude, Fail
  <2>3. QED
    BY <1>3, <2>1, <2>2
<1>7. CASE Enqueue(p)
  <2>1. PICK j : heap'[p] = heap[p] \cup {j}
    BY <1>7 DEF Enqueue, Schedule
  <2> DEFINE more == heap[p] \cup {j}
  <2>2. Cardinality(more) \in Nat /\ Cardinality(more) <= n + 1
    <3>1. Cardinality(more) = IF j \in heap[p] THEN n ELSE n + 1
      BY <1>2, FS_AddElement
    <3>2. QED
      BY <3>1
  <2>3. n <= found[p] /\ stage'[p] = "saving" /\ UNCHANGED found
    BY <1>7 DEF Enqueue, Backlog
  <2>4. QED
    BY <2>1, <2>2, <2>3 DEF Backlog
<1>8. CASE Enqueued(p)
  BY <1>8 DEF Enqueued, SaveRow, Backlog
<1>9. CASE Publish(p)
  <2>1. CASE DryRun(env[p])
    BY <1>9, <2>1 DEF Publish, Backlog, DryRun, ConfigDry
  <2>2. CASE ~ DryRun(env[p])
    <3>1. /\ n <= found[p] + 1 /\ UNCHANGED <<heap, found, env>>
          /\ stage'[p] = IF pc'[p] = "peek" THEN "take" ELSE "ok"
          /\ pc'[p] = "peek" \/ uploads_today'[p] >= MaxPerDay \/ heap[p] = {}
      BY <1>9, <2>2 DEF Publish, CheckLimit, Backlog
    <3>2. heap[p] = {} => n <= found[p]
      BY FS_EmptySet
    <3>3. QED
      BY <2>2, <3>1, <3>2 DEF Backlog, DryRun, ConfigDry
  <2>3. QED
    BY <2>1, <2>2
<1>10. CASE Take(p)
  <2>1. ~ DryRun(env[p]) /\ ~ DryRun(env[p])'
    BY <1>10 DEF Take, Backlog, DryRun, ConfigDry
  <2>2. CASE Peek(p)
    <3>1. PICK j \in heap[p] :
             heap'[p] = heap[p] \ {j} /\ pc'[p] = "deleting" /\ pc[p] = "peek"
      <4>1. PICK j \in Earliest(heap[p]) :
               \/ j.at <= now /\ heap' = [heap EXCEPT ![p] = @ \ {j}]
                              /\ pc' = [pc EXCEPT ![p] = "deleting"]
               \/ j.at > now
        BY <2>2 DEF Peek
      <4>2. j \in heap[p] /\ j.at \in Int /\ now \in Int /\ j.at <= now
        BY DateAssumption DEF Earliest, AllDue, PTypeOK, TypeOK, Job, Times
      <4>3. QED
        BY <2>2, <4>1, <4>2 DEF Peek
    <3> DEFINE less == heap[p] \ {j}
    <3>2. Cardinality(less) = n - 1
      BY <1>2, FS_RemoveElement
    <3>3. stage[p] = "take" /\ stage'[p] = "take" /\ UNCHANGED found
      BY <1>10, <2>2, <3>1 DEF Take, DeleteRow, Return
    <3>4. QED
      BY <2>1, <3>1, <3>2, <3>3 DEF Backlog
  <2>3. CASE DeleteRow(p)
    <3>1. pc[p] = "deleting" /\ pc'[p] = "returning" /\ stage[p] = "take" /\ stage'[p] = "take"
          /\ UNCHANGED <<heap, found>>
      BY <1>10, <2>3 DEF Take, DeleteRow, Peek, Return, memory
    <3>2. QED
      BY <2>1, <3>1 DEF Backlog
  <2>5. CASE Return(p)
    <3>1. pc[p] = "returning" /\ stage[p] = "take" /\ stage'[p] = "upload"
          /\ UNCHANGED <<heap, found>>
      BY <1>10, <2>5 DEF Take, DeleteRow, Peek, Return
    <3>2. QED
      BY <3>1 DEF Backlog
  <2>4. QED
    BY <1>10, <2>2, <2>3, <2>5 DEF Take
<1>11. QED
  BY <1>4, <1>5, <1>6, <1>7, <1>8, <1>9, <1>10 DEF RunStep

LEMMA BacklogStep == PTypeOK /\ HeapInv /\ BacklogInv /\ [PNext]_pvars => BacklogInv'
<1> SUFFICES ASSUME PTypeOK, HeapInv, BacklogInv, [PNext]_pvars PROVE BacklogInv'
  OBVIOUS
<1>1. AllDue'
  BY DueStep DEF BacklogInv, PTypeOK
<1>2. ASSUME NEW p \in Procs, RunStep(p), NEW q \in Procs PROVE Backlog(q)'
  <2>1. CASE q = p
    BY <1>2, <2>1, BacklogRunStep DEF BacklogInv
  <2>2. CASE q # p
    BY <1>2, <2>2, BacklogOthers, BacklogFrame DEF BacklogInv
  <2>3. QED
    BY <2>1, <2>2
<1>3. ASSUME NEW p \in Procs, Boot(p) \/ UpdateMetrics(p) \/ Halt(p), NEW q \in Procs
      PROVE  Backlog(q)'
  <2>1. CASE stage'[q] \in {"off", "free"}
    BY <2>1 DEF Backlog
  <2>2. CASE stage'[q] \notin {"off", "free"}
    <3>1. UNCHANGED <<heap[q], found[q], env[q], uploads_today[q], pc[q], stage[q]>>
      BY <1>3, <2>2 DEF Boot, Start, UpdateMetrics, Halt, Crash, Goto, At, vars, memory,
         PTypeOK, TypeOK
    <3>2. QED
      BY <3>1, BacklogFrame DEF BacklogInv
  <2>3. QED
    BY <2>1, <2>2
<1>4. ASSUME NEW p \in Procs, NEW r \in Runs, BeginRun(p, r), NEW q \in Procs
      PROVE  Backlog(q)'
  <2>1. UNCHANGED <<heap, env, uploads_today, pc>>
    BY <1>4 DEF BeginRun, vars, memory
  <2>2. CASE q = p
    <3>1. stage'[q] = "drift" /\ found'[q] = Cardinality(heap[q]) /\ found'[q] \in Nat
      BY <1>4, <2>2, HeapCount DEF BeginRun, Goto, PTypeOK
    <3>2. QED
      BY <2>1, <3>1 DEF Backlog
  <2>3. CASE q # p
    <3>1. UNCHANGED <<found[q], stage[q]>>
      BY <1>4, <2>3 DEF BeginRun, Goto, PTypeOK
    <3>2. QED
      BY <2>1, <3>1, BacklogFrame DEF BacklogInv
  <2>4. QED
    BY <2>2, <2>3
<1>5. ASSUME UNCHANGED pipeline, UNCHANGED <<pc, memory>>, NEW q \in Procs PROVE Backlog(q)'
  BY <1>5, BacklogFrame DEF BacklogInv, pipeline, memory
<1>6. \A q \in Procs : Backlog(q)'
  BY <1>2, <1>3, <1>4, <1>5 DEF PNext, pvars, vars, Tick
<1>7. QED
  BY <1>1, <1>6 DEF BacklogInv

\* A run that may publish and ends well takes at least as many jobs as it adds,
\* unless the daily limit of its process is used up: for any number of processes,
\* any plans and any faults.
THEOREM BacklogBoundedHolds == PSpec => []BacklogBounded
<1>1. PInit => BacklogInv
  BY DEF PInit, Init, BacklogInv, AllDue, Backlog
<1>2. PTypeOK /\ HeapInv /\ BacklogInv => BacklogBounded
  <2> SUFFICES ASSUME PTypeOK, HeapInv, BacklogInv, NEW p \in Procs,
                      stage[p] = "ok", ~ DryRun(env[p]), Cardinality(heap[p]) > found[p]
               PROVE  uploads_today[p] >= MaxPerDay
    BY DEF BacklogBounded
  <2>1. Cardinality(heap[p]) \in Nat /\ found[p] \in Nat
    BY HeapCount DEF PTypeOK
  <2>2. QED
    BY <2>1 DEF BacklogInv, Backlog
<1>3. QED
  BY <1>1, <1>2, BacklogStep, PipelineTypes, PipelineKeepsScheduler, HeapInvHolds, PTL
     DEF PSpec, KeepsScheduler
==============================================================================
