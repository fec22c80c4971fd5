----------------------------- MODULE QuotaGuard -----------------------------
(***************************************************************************)
(* The token bucket of modules/adapters/publisher/quota_guard.py: one      *)
(* object per process, full when the process starts, refilled lazily when  *)
(* it is asked.                                                            *)
(*                                                                         *)
(* Tokens are counted in fractions of 1/Day, so that a token is Day and    *)
(* one unit of time refills MaxPerDay; the rounding of floats is left out. *)
(***************************************************************************)
EXTENDS Integers

CONSTANTS
    MaxPerDay,  \* max_per_day
    Day,        \* 86_400 in the code
    MaxTime     \* bound: the clock stops there

ASSUME BucketAssumption ==
    MaxPerDay \in Nat /\ Day \in Nat \ {0} /\ MaxTime \in Nat

VARIABLES
    clock,          \* time.monotonic()
    tokens,         \* _tokens
    last_refill,    \* _last_refill
    guard_dry,      \* _dry_run
    granted         \* history: granted[t] uploads were allowed at time t or later

bucket == <<tokens, last_refill>>
gvars  == <<clock, bucket, guard_dry, granted>>

Times == 0 .. MaxTime
Full  == MaxPerDay * Day

GTypeOK ==
    /\ clock \in Times
    /\ tokens \in 0 .. Full
    /\ last_refill \in 0 .. clock
    /\ guard_dry \in BOOLEAN
    /\ granted \in [Times -> Nat]

GInit ==
    /\ clock = 0
    /\ tokens = Full
    /\ last_refill = 0
    /\ guard_dry \in BOOLEAN
    /\ granted = [t \in Times |-> 0]
------------------------------------------------------------------------------
\* Mutant of Refilled: the refill is not clamped to the capacity.
Unclamped == tokens + (clock - last_refill) * MaxPerDay

\* _refill(): elapsed time times rate, clamped to the capacity.
Refilled ==
    LET sum == tokens + (clock - last_refill) * MaxPerDay
    IN  IF sum > Full THEN Full ELSE sum

Enabled == ~guard_dry /\ MaxPerDay # 0

\* allow() returning True: refill, then take a token.
Grant ==
    /\ Enabled
    /\ Refilled >= Day
    /\ tokens' = Refilled - Day
    /\ last_refill' = clock
    /\ granted' = [t \in Times |-> IF t <= clock THEN granted[t] + 1 ELSE granted[t]]
    /\ UNCHANGED <<clock, guard_dry>>

\* allow() returning False: dry-run and a zero limit leave the bucket alone,
\* a bucket without a whole token has been refilled.
Deny ==
    /\ \/ ~Enabled /\ UNCHANGED bucket
       \/ Enabled /\ Refilled < Day /\ tokens' = Refilled /\ last_refill' = clock
    /\ UNCHANGED <<clock, guard_dry, granted>>

\* remaining() refills as well, in dry-run too.
Remaining ==
    /\ MaxPerDay # 0
    /\ tokens' = Refilled /\ last_refill' = clock
    /\ UNCHANGED <<clock, guard_dry, granted>>

\* __init__ in a new process: a full bucket, YTAIMBOT_DRY_RUN read again, a new
\* history.
Renew ==
    /\ tokens' = Full
    /\ last_refill' = clock
    /\ guard_dry' \in BOOLEAN
    /\ granted' = [t \in Times |-> 0]
    /\ UNCHANGED clock

Pass ==
    /\ clock < MaxTime
    /\ clock' = clock + 1
    /\ UNCHANGED <<bucket, guard_dry, granted>>

GNext == Grant \/ Deny \/ Remaining \/ Renew \/ Pass

GSpec == GInit /\ [][GNext]_gvars
------------------------------------------------------------------------------
\* Uploads allowed from time a to time b, both included.
Allowed(a, b) == granted[a] - (IF b < MaxTime THEN granted[b + 1] ELSE 0)

\* Whatever the pattern of requests, a window of length L sees at most the full
\* bucket plus what L refills (quota_guard.py:189-202).  For a window of one day
\* that is just under twice max_per_day, not max_per_day.
WindowBound ==
    \A a, b \in Times : a <= b => Allowed(a, b) * Day <= Full + (b - a) * MaxPerDay
=============================================================================
