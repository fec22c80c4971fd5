------------------------------- MODULE Powers -------------------------------
(* Powers of a natural number, as a function that can be reasoned about. *)
EXTENDS Integers

Power(b) == LET p[k \in Nat] == IF k = 0 THEN 1 ELSE b * p[k - 1] IN p
=============================================================================
