------------------------------- MODULE Tables -------------------------------
(* A table is a function from its keys. *)

\* INSERT OR REPLACE: the rows of g, and those of f that have other keys.
Over(g, f) == [k \in DOMAIN g \cup DOMAIN f |-> IF k \in DOMAIN g THEN g[k] ELSE f[k]]
=============================================================================
