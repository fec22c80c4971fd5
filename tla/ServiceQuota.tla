---------------------------- MODULE ServiceQuota ----------------------------
(***************************************************************************)
(* ServiceQuotaTracker of ytaimbot_ml/quota/service_tracker.py: the table   *)
(* service_quota, shared by the processes of two containers.  Every public  *)
(* method first runs _maybe_reset, a SELECT and perhaps an UPDATE, and then *)
(* its own statement; another process may come between any two statements.  *)
(***************************************************************************)
EXTENDS Integers, FiniteSets

CONSTANTS
    Procs,      \* processes that open data/quota.db
    Limited,    \* services with a limit; every other service is unlimited
    Limit,      \* period_limit of the limited services
    Period,     \* period_days
    MaxDay      \* bound: the calendar stops there

ASSUME QuotaAssumption ==
    /\ Limit \in [Limited -> Nat]
    /\ Period \in [Limited -> Nat \ {0}]
    /\ MaxDay \in Nat

VARIABLES
    today,      \* date.today()
    used,       \* column used
    start,      \* column period_start
    at          \* statement a process is at: SELECT, the resetting UPDATE, its own

qvars == <<today, used, start, at>>

Days == 0 .. MaxDay

QTypeOK ==
    /\ today \in Days
    /\ used \in [Limited -> Nat]
    /\ start \in [Limited -> Days]
    /\ at \in [Procs -> {"select", "reset", "act"}]

\* _ensure_defaults() in the first process that ever opens the file.
QInit ==
    /\ today = 0
    /\ used = [s \in Limited |-> 0]
    /\ start = [s \in Limited |-> 0]
    /\ at = [p \in Procs |-> "select"]
------------------------------------------------------------------------------
Expired(s) == today >= start[s] + Period[s]

\* The SELECT of _maybe_reset; unlimited services are never reset.
SelectPeriod(p, s) ==
    /\ at[p] = "select"
    /\ at' = [at EXCEPT ![p] = IF s \in Limited /\ Expired(s) THEN "reset" ELSE "act"]
    /\ UNCHANGED <<today, used, start>>

\* The UPDATE of _maybe_reset, on the strength of the row read before.
ResetPeriod(p, s) ==
    /\ at[p] = "reset"
    /\ at' = [at EXCEPT ![p] = "act"]
    /\ used' = [used EXCEPT ![s] = 0]
    /\ start' = [start EXCEPT ![s] = today]
    /\ UNCHANGED today

\* The next call of the tracker starts with its SELECT again.
Acted(p) == at' = [at EXCEPT ![p] = "select"]

\* Mutant of Available: what is left need only be positive.
AvailableAny(s, n) == s \in Limited => Limit[s] > used[s]

\* The answer of check_available.
Available(s, n) == s \in Limited => Limit[s] - used[s] >= n

\* The UPDATE of consume: one statement, so nothing is lost between two of them.
Consume(s, n) ==
    /\ used' = [used EXCEPT ![s] = @ + n]
    /\ UNCHANGED <<today, start>>

NextDay ==
    /\ today < MaxDay
    /\ today' = today + 1
    /\ UNCHANGED <<used, start, at>>
=============================================================================
