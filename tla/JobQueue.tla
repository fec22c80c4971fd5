------------------------------ MODULE JobQueue ------------------------------
(***************************************************************************)
(* What the upload queue promises its caller, with no memory, table or     *)
(* process in sight: jobs are delivered earliest first, each at most once, *)
(* and a job that is neither pending nor delivered has been dropped.       *)
(***************************************************************************)
EXTENDS Integers

CONSTANT Jobs   \* records with a field "at", the time the job is due

VARIABLES
    pending,    \* jobs that may still be delivered
    delivered   \* jobs the caller has received

qvars == <<pending, delivered>>

Init == pending = {} /\ delivered = {}

Add(j) ==
    /\ j \notin pending \cup delivered
    /\ pending' = pending \cup {j}
    /\ UNCHANGED delivered

Deliver(j) ==
    /\ j \in pending
    /\ \A k \in pending : j.at <= k.at
    /\ pending' = pending \ {j}
    /\ delivered' = delivered \cup {j}

\* A crash may lose jobs the table did not hold.
Drop ==
    /\ pending' \subseteq pending
    /\ UNCHANGED delivered

Next == Drop \/ \E j \in Jobs : Add(j) \/ Deliver(j)

Spec == Init /\ [][Next]_qvars
=============================================================================
