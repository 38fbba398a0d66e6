--------------------------- MODULE MCLoginFlow ---------------------------
(* LoginFlow on a small instance. *)
EXTENDS LoginFlow, TLC

\* Interactions, Grants and users are interchangeable.
Symmetry == Permutations(Interactions) \cup Permutations(Grants) \cup Permutations(Users)
==========================================================================
