------------------------------ MODULE Sampling ------------------------------
(* reservoir_sample() of learner/drift_detector.py. *)
EXTENDS Integers, Sequences

\* Mutant of Draws: the last position is never drawn.
DrawsTooFew(k, len) == {f \in [k + 1 .. len -> 0 .. len] : \A i \in k + 1 .. len : f[i] < i - 1}

\* reservoir_sample() of a stream of that length: the numbers it may draw from
\* position k + 1 on, and the positions in the stream of what it keeps.
Draws(k, len) == {f \in [k + 1 .. len -> 0 .. len] : \A i \in k + 1 .. len : f[i] < i}
Reservoir(k, len, f) ==
    LET kept[i \in 0 .. len] ==
            IF i = 0 THEN <<>>
            ELSE IF i <= k THEN Append(kept[i - 1], i)
            ELSE IF f[i] < k THEN [kept[i - 1] EXCEPT ![f[i] + 1] = i]
            ELSE kept[i - 1]
    IN  kept[len]
=============================================================================
