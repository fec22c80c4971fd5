----------------------------- MODULE StableSort -----------------------------
(***************************************************************************)
(* sorted() and list.sort() with reverse=True, by the place each item gets: *)
(* behind every item with a larger key and every earlier one with its own.  *)
(***************************************************************************)
EXTENDS Integers, Sequences, FiniteSets

Ahead(key, i) == {j \in 1 .. Len(key) : \/ key[j] > key[i]
                                        \/ key[j] = key[i] /\ j < i}

\* The index of the item that comes to every place.
Order(key) == [n \in 1 .. Len(key) |->
                  CHOOSE i \in 1 .. Len(key) : Cardinality(Ahead(key, i)) = n - 1]
=============================================================================
