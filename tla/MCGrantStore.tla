--------------------------- MODULE MCGrantStore ---------------------------
(* GrantStore on small instances. *)
EXTENDS GrantStore, TLC

\* The requests of one kind are interchangeable.
Symmetry == Permutations(Flows) \cup Permutations(Deletions) \cup Permutations(Logouts)
===========================================================================
