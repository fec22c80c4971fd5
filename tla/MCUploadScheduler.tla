------------------------- MODULE MCUploadScheduler -------------------------
(* Instances of UploadScheduler and its refinement for TLC. *)
EXTENDS SchedulerQueue, TLC

CONSTANTS p1, p2

OneProc  == {p1}
TwoProcs == {p1, p2}
DayPerUnit == [t \in Times |-> t]
OneDay     == [t \in Times |-> 0]
ProcSymmetry == Permutations(TwoProcs)
============================================================================
