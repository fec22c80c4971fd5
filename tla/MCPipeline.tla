----------------------------- MODULE MCPipeline -----------------------------
(* Instances of Pipeline for TLC. *)
EXTENDS Pipeline, TLC

CONSTANTS p1, p2, r1, r2, r3, s1, s2

OneProc   == {p1}
TwoProcs  == {p1, p2}
TwoRuns   == {r1, r2}
ThreeRuns == {r1, r2, r3}
DayPerUnit == [t \in Times |-> t]
OneScript  == {s1}
TwoScripts == {s1, s2}
OneDay     == [t \in Times |-> 0]
TwoRunTwoProcSymmetry == Permutations(TwoRuns) \cup Permutations(TwoProcs)
=============================================================================
