--------------------------- MODULE UploadScheduler ---------------------------
(***************************************************************************)
(* The upload queue of modules/scheduler.py over the upload_queue table of *)
(* modules/adapters/storage/sqlite.py.  Every process of the program (the  *)
(* blue and the green container of deploy.sh share one database) holds its *)
(* own UploadScheduler object: a heap ordered by scheduled_at and a daily  *)
(* counter, both in memory.  The table keeps one row per plan_id.          *)
(*                                                                         *)
(* One step is one access to memory or to the database, so that a crash or *)
(* another process can come between the accesses of one call.              *)
(***************************************************************************)
EXTENDS Integers, FiniteSets

CONSTANTS
    Procs,      \* processes sharing the database
    Plans,      \* plan ids; the orchestrator uses the trend id
    Makers,     \* who calls schedule(); the orchestrator's runs
    NoJob,      \* "no row" and "no job in hand"
    MaxPerDay,  \* max_per_day
    DateOf,     \* the calendar date of each clock value
    Faults,     \* what may go wrong: "save", "delete", "load", "crash"
    MaxTime,    \* bound: the clock stops there
    MaxStarts,  \* bound: number of process starts
    MaxJobs     \* bound: number of schedule() calls

Times == 0 .. MaxTime
Days  == {DateOf[t] : t \in Times}
Starts == 1 .. MaxStarts
\* The fields of UploadJob that matter: comparison looks at scheduled_at
\* alone, the database at plan_id alone.  "by" stands for the other fields and
\* for the fraction of the clock unit: no two calls of schedule() pass equal jobs.
Job == [plan : Plans, at : Times, by : Makers]

ASSUME JobAssumption == NoJob \notin Job
ASSUME DateAssumption ==
    /\ MaxTime \in Nat
    /\ DateOf \in [Times -> Nat]
    /\ \A t, u \in Times : t <= u => DateOf[t] <= DateOf[u]
ASSUME LimitAssumption == MaxPerDay \in Nat /\ MaxStarts \in Nat /\ MaxJobs \in Nat
ASSUME FaultAssumption == Faults \subseteq {"save", "delete", "load", "crash"}

VARIABLES
    now,            \* time.time()
    row,            \* upload_queue: the row of each plan id
    pc,             \* where each process is inside UploadScheduler
    heap,           \* _heap
    cur,            \* the job a call in progress works on
    uploads_today,  \* _uploads_today
    last_date,      \* _last_upload_date
    \* history, read by no action
    starts,         \* number of process starts so far
    incarnation,    \* which start each process is running
    scheduled,      \* every job ever passed to schedule()
    saved,          \* every job whose row was committed
    handed,         \* what next_due() has returned, per process
    used,           \* how many jobs each process start handed out on each date
    late,           \* the dates on which it handed out a job admitted on an earlier one
    kept,           \* jobs whose row each process failed to delete
    lost            \* jobs in hand, their row deleted, when a process ended

memory  == <<heap, cur, uploads_today, last_date>>
history == <<starts, incarnation, scheduled, saved, handed, used, late, kept, lost>>
vars    == <<now, row, pc, memory, history>>

NoDate == -1
Today == DateOf[now]
Rows == {row[t] : t \in Plans} \ {NoJob}
\* Mutant of Earliest: a list in place of the heap.
AnyOrder(S) == S

\* heap[0] when jobs with equal scheduled_at sit in any heap order
Earliest(S) == {j \in S : \A k \in S : j.at <= k.at}

TypeOK ==
    /\ now \in Times
    /\ row \in [Plans -> Job \cup {NoJob}]
    /\ \A t \in Plans : row[t] # NoJob => row[t].plan = t
    /\ pc \in [Procs -> {"down", "idle", "saving", "peek", "deleting", "returning"}]
    /\ heap \in [Procs -> SUBSET Job]
    /\ cur \in [Procs -> Job \cup {NoJob}]
    /\ \A p \in Procs : cur[p] \in Job <=> pc[p] \in {"saving", "deleting", "returning"}
    /\ uploads_today \in [Procs -> Nat]
    /\ last_date \in [Procs -> Days \cup {NoDate}]
    /\ \A p \in Procs : pc[p] \in {"peek", "deleting", "returning"} => last_date[p] \in Days
    /\ starts \in 0 .. MaxStarts
    /\ incarnation \in [Procs -> 0 .. MaxStarts]
    /\ \A p \in Procs : pc[p] # "down" => incarnation[p] \in Starts
    /\ scheduled \subseteq Job /\ saved \subseteq Job /\ lost \subseteq Job
    /\ handed \in [Procs -> SUBSET Job] /\ kept \in [Procs -> SUBSET Job]
    /\ used \in [Starts -> [Days -> Nat]]
    /\ late \in [Starts -> SUBSET Days]

Init ==
    /\ now = 0
    /\ row = [t \in Plans |-> NoJob]
    /\ pc = [p \in Procs |-> "down"]
    /\ heap = [p \in Procs |-> {}]
    /\ cur = [p \in Procs |-> NoJob]
    /\ uploads_today = [p \in Procs |-> 0]
    /\ last_date = [p \in Procs |-> NoDate]
    /\ starts = 0
    /\ incarnation = [p \in Procs |-> 0]
    /\ scheduled = {} /\ saved = {} /\ lost = {}
    /\ handed = [p \in Procs |-> {}] /\ kept = [p \in Procs |-> {}]
    /\ used = [i \in Starts |-> [d \in Days |-> 0]]
    /\ late = [i \in Starts |-> {}]

------------------------------------------------------------------------------
\* __init__: a fresh counter, and the heap rebuilt from the table.  A failing
\* read is logged and leaves the heap empty.
Start(p) ==
    /\ pc[p] = "down"
    /\ starts < MaxStarts
    /\ starts' = starts + 1
    /\ incarnation' = [incarnation EXCEPT ![p] = starts + 1]
    /\ pc' = [pc EXCEPT ![p] = "idle"]
    /\ \/ heap' = [heap EXCEPT ![p] = Rows]
       \/ "load" \in Faults /\ heap' = [heap EXCEPT ![p] = {}]
    /\ uploads_today' = [uploads_today EXCEPT ![p] = 0]
    /\ last_date' = [last_date EXCEPT ![p] = NoDate]
    /\ UNCHANGED <<now, row, cur, scheduled, saved, handed, used, late, kept, lost>>

\* schedule(), first half: heappush comes before the database write.
Schedule(p, job) ==
    /\ pc[p] = "idle"
    /\ Cardinality(scheduled) < MaxJobs
    /\ job \notin scheduled
    /\ heap' = [heap EXCEPT ![p] = @ \cup {job}]
    /\ cur' = [cur EXCEPT ![p] = job]
    /\ pc' = [pc EXCEPT ![p] = "saving"]
    /\ scheduled' = scheduled \cup {job}
    /\ UNCHANGED <<now, row, uploads_today, last_date, starts, incarnation,
                   saved, handed, used, late, kept, lost>>

\* Mutant of SaveRow: the row is stored under some other key.
SaveRowAnywhere(p) ==
    /\ pc[p] = "saving"
    /\ \E t \in Plans : row' = [row EXCEPT ![t] = cur[p]]
    /\ saved' = saved \cup {cur[p]}
    /\ pc' = [pc EXCEPT ![p] = "idle"]
    /\ cur' = [cur EXCEPT ![p] = NoJob]
    /\ UNCHANGED <<now, heap, uploads_today, last_date, starts, incarnation,
                   scheduled, handed, used, late, kept, lost>>

\* schedule(), second half: INSERT OR REPLACE under the plan id.  An error
\* is logged and swallowed.
SaveRow(p) ==
    /\ pc[p] = "saving"
    /\ \/ /\ row' = [row EXCEPT ![cur[p].plan] = cur[p]]
          /\ saved' = saved \cup {cur[p]}
       \/ "save" \in Faults /\ UNCHANGED <<row, saved>>
    /\ pc' = [pc EXCEPT ![p] = "idle"]
    /\ cur' = [cur EXCEPT ![p] = NoJob]
    /\ UNCHANGED <<now, heap, uploads_today, last_date, starts, incarnation,
                   scheduled, handed, used, late, kept, lost>>

\* Mutant of CheckLimit: the counter is not rolled over at midnight.
CheckLimitForEver(p) ==
    /\ pc[p] = "idle"
    /\ last_date' = [last_date EXCEPT ![p] = Today]
    /\ pc' = [pc EXCEPT ![p] =
                 IF uploads_today[p] >= MaxPerDay \/ heap[p] = {} THEN "idle" ELSE "peek"]
    /\ UNCHANGED <<now, row, heap, cur, uploads_today, history>>

\* next_due() up to the peek: the date rolls the counter over, a used-up
\* limit or an empty heap ends the call with None.
CheckLimit(p) ==
    LET count == IF last_date[p] # Today THEN 0 ELSE uploads_today[p]
    IN  /\ pc[p] = "idle"
        /\ uploads_today' = [uploads_today EXCEPT ![p] = count]
        /\ last_date' = [last_date EXCEPT ![p] = Today]
        /\ pc' = [pc EXCEPT ![p] =
                     IF count >= MaxPerDay \/ heap[p] = {} THEN "idle" ELSE "peek"]
        /\ UNCHANGED <<now, row, heap, cur, history>>

\* Mutant of Peek: the row goes with the pop, before the job is handed out.
PeekAndDelete(p) ==
    /\ pc[p] = "peek"
    /\ \E j \in Earliest(heap[p]) :
         /\ j.at <= now
         /\ heap' = [heap EXCEPT ![p] = @ \ {j}]
         /\ row' = [row EXCEPT ![j.plan] = NoJob]
         /\ cur' = [cur EXCEPT ![p] = j]
    /\ pc' = [pc EXCEPT ![p] = "deleting"]
    /\ UNCHANGED <<now, uploads_today, last_date, history>>

\* Mutant of Peek: a job due at this very moment waits.
PeekStrict(p) ==
    /\ pc[p] = "peek"
    /\ \E j \in Earliest(heap[p]) :
         \/ /\ j.at < now
            /\ heap' = [heap EXCEPT ![p] = @ \ {j}]
            /\ cur' = [cur EXCEPT ![p] = j]
            /\ pc' = [pc EXCEPT ![p] = "deleting"]
         \/ /\ j.at >= now
            /\ pc' = [pc EXCEPT ![p] = "idle"]
            /\ UNCHANGED <<heap, cur>>
    /\ UNCHANGED <<now, row, uploads_today, last_date, history>>

\* The clock is read a second time for the peek; a head that is not due ends
\* the call with None, a due one is popped.
Peek(p) ==
    /\ pc[p] = "peek"
    /\ \E j \in Earliest(heap[p]) :
         \/ /\ j.at <= now
            /\ heap' = [heap EXCEPT ![p] = @ \ {j}]
            /\ cur' = [cur EXCEPT ![p] = j]
            /\ pc' = [pc EXCEPT ![p] = "deleting"]
         \/ /\ j.at > now
            /\ pc' = [pc EXCEPT ![p] = "idle"]
            /\ UNCHANGED <<heap, cur>>
    /\ UNCHANGED <<now, row, uploads_today, last_date, history>>

\* Mutant of DeleteRow: the row stays, and nothing failed.
LeaveRow(p) ==
    /\ pc[p] = "deleting"
    /\ pc' = [pc EXCEPT ![p] = "returning"]
    /\ UNCHANGED <<now, row, memory, history>>

\* The row is deleted by plan id, in a transaction of its own.  An error is
\* logged and swallowed.
DeleteRow(p) ==
    /\ pc[p] = "deleting"
    /\ \/ row' = [row EXCEPT ![cur[p].plan] = NoJob] /\ UNCHANGED kept
       \/ /\ "delete" \in Faults
          /\ kept' = [kept EXCEPT ![p] = @ \cup {cur[p]}]
          /\ UNCHANGED row
    /\ pc' = [pc EXCEPT ![p] = "returning"]
    /\ UNCHANGED <<now, memory, starts, incarnation, scheduled, saved, handed, used,
                   late, lost>>

\* Mutant of Return: the daily counter is not increased.
ReturnUncounted(p) ==
    /\ pc[p] = "returning"
    /\ handed' = [handed EXCEPT ![p] = @ \cup {cur[p]}]
    /\ used' = [used EXCEPT ![incarnation[p]][Today] = @ + 1]
    /\ pc' = [pc EXCEPT ![p] = "idle"]
    /\ cur' = [cur EXCEPT ![p] = NoJob]
    /\ UNCHANGED <<now, row, heap, uploads_today, last_date, starts, incarnation,
                   scheduled, saved, late, kept, lost>>

\* The counter goes up and the caller has the job.  It counts for the date of
\* CheckLimit, which may be over by now.
Return(p) ==
    /\ pc[p] = "returning"
    /\ uploads_today' = [uploads_today EXCEPT ![p] = @ + 1]
    /\ handed' = [handed EXCEPT ![p] = @ \cup {cur[p]}]
    /\ used' = [used EXCEPT ![incarnation[p]][Today] = @ + 1]
    /\ late' = [late EXCEPT ![incarnation[p]] =
                   IF last_date[p] = Today THEN @ ELSE @ \cup {Today}]
    /\ pc' = [pc EXCEPT ![p] = "idle"]
    /\ cur' = [cur EXCEPT ![p] = NoJob]
    /\ UNCHANGED <<now, row, heap, last_date, starts, incarnation, scheduled, saved,
                   kept, lost>>

\* The process ends, at whatever point: the container is restarted, killed
\* by deploy.sh, or its single run is over.  Nothing is written on the way out.
Crash(p) ==
    /\ "crash" \in Faults
    /\ pc[p] # "down"
    /\ pc' = [pc EXCEPT ![p] = "down"]
    /\ heap' = [heap EXCEPT ![p] = {}]
    /\ cur' = [cur EXCEPT ![p] = NoJob]
    /\ lost' = IF pc[p] = "returning" THEN lost \cup {cur[p]} ELSE lost
    /\ UNCHANGED <<now, row, uploads_today, last_date, starts, incarnation, scheduled,
                   saved, handed, used, late, kept>>

Tick ==
    /\ now < MaxTime
    /\ now' = now + 1
    /\ UNCHANGED <<row, pc, memory, history>>

Step(p) ==
    \/ Start(p)
    \/ \E job \in Job : Schedule(p, job)
    \/ SaveRow(p)
    \/ CheckLimit(p)
    \/ Peek(p)
    \/ DeleteRow(p)
    \/ Return(p)
    \/ Crash(p)

Next == Tick \/ \E p \in Procs : Step(p)

Spec == Init /\ [][Next]_vars

\* What the program's own loop guarantees: a started call returns, a live
\* process calls next_due() again, and time passes.
Fairness ==
    /\ WF_vars(Tick)
    /\ \A p \in Procs :
         /\ WF_vars(Start(p))
         /\ WF_vars(SaveRow(p) \/ CheckLimit(p) \/ Peek(p) \/ DeleteRow(p) \/ Return(p))

FairSpec == Spec /\ Fairness
------------------------------------------------------------------------------
\* The job next_due() has popped and not yet returned.
InHand(p) == IF pc[p] \in {"deleting", "returning"} THEN {cur[p]} ELSE {}

\* Everything a process holds or would load if it were started now.
Offers(p) == heap[p] \cup Rows \cup InHand(p)

\* No job is offered to a process that next_due() has already returned it to,
\* unless deleting its row failed there: pop, row deletion and return are three
\* steps (scheduler.py:91-96), and neither a crash or restart between any two of
\* them nor what the other process does to the table may bring the job back.
AtMostOnce == \A p \in Procs : Offers(p) \cap handed[p] \subseteq kept[p]

\* What one start may hand out on a date of the clock: max_per_day jobs, and one more
\* only if that one was admitted before midnight.
Allowed(i, d) == MaxPerDay + (IF d \in late[i] THEN 1 ELSE 0)

\* One process start hands out no more on any date, although next_due() reads the
\* date once, the clock a second time, and counts last (scheduler.py:79-95).
DailyLimit == \A i \in Starts, d \in Days : used[i][d] <= Allowed(i, d)

\* A committed row survives crashes, restarts, failing deletes and the other
\* process until its job is handed out, or next_due() is about to return it.  There
\* are two other ways out of the table: the process ends before that return, and
\* another job with the same plan id, the table's key, is stored over it or deleted
\* with it.
SavedUntilHanded ==
    \A j \in saved :
        \/ row[j.plan] = j
        \/ \E p \in Procs : j \in handed[p] \/ (pc[p] = "returning" /\ cur[p] = j)
        \/ j \in lost
        \/ \E k \in scheduled \ {j} : k.plan = j.plan

\* Only the daily limit of the last day can keep a queued job waiting for
\* ever: nothing starves behind later jobs, early returns or midnight.
NoStarvation ==
    \A p \in Procs : \A j \in Job :
        j \in heap[p] ~>
            \/ j \notin heap[p]
            \/ now = MaxTime /\ used[incarnation[p]][Today] >= Allowed(incarnation[p], Today)
------------------------------------------------------------------------------
\* scheduler.py:9 "Jobs are stored in SQLite (T-299) to survive restarts.": a
\* stored job is in the table or with a live process until it is handed out.
SurvivesRestarts ==
    \A j \in saved :
        \/ row[j.plan] = j
        \/ \E p \in Procs : j \in handed[p] \cup heap[p] \cup InHand(p)

\* scheduler.py:10 "Respects MAX_UPLOADS_PER_DAY": on no date are more jobs
\* handed out, by one start of the program or by two.
LimitPerDate ==
    \A d \in Days : \A i, k \in Starts :
        (IF i = k THEN 0 ELSE used[k][d]) + used[i][d] <= MaxPerDay
==============================================================================
