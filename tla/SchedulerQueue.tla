--------------------------- MODULE SchedulerQueue ---------------------------
(***************************************************************************)
(* UploadScheduler with a single process implements JobQueue.              *)
(***************************************************************************)
EXTENDS UploadScheduler

\* What the heap, the table and a call in progress can still deliver, and
\* what the callers of next_due() have received.
pendingJobs   == UNION {Offers(p) : p \in Procs}
deliveredJobs == UNION {handed[p] : p \in Procs}

Queue == INSTANCE JobQueue WITH
            Jobs <- Job, pending <- pendingJobs, delivered <- deliveredJobs

\* Across crashes, restarts and failing saves the queue delivers in due order,
\* each job at most once, and only adds what schedule() was given: the table
\* row, the heap entry and the popped job are one pending job, never two.
ImplementsJobQueue == Queue!Spec
=============================================================================
