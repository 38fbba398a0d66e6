-------------------------- MODULE MCAccountAccess --------------------------
(* Two requests at a time on one account. *)
EXTENDS AccountAccess, TLC

CONSTANTS r1, r2, g1, g2

MCCalls    == {r1, r2}
MCGrantIds == {g1, g2}

Symmetry == Permutations(MCCalls) \cup Permutations(MCGrantIds)
===========================================================================
