------------------------------- MODULE MCLru -------------------------------
(* Capacities 0 to 3, one key more than fits, one node more than is ever used.*)
EXTENDS Lru, TLC
CONSTANTS k1, k2, k3, k4, n1, n2, n3, n4, n5, v1, v2

MCKey == {k1, k2, k3, k4}
MCNode == {n1, n2, n3, n4, n5}
MCValue == {v1, v2}
Symmetry == Permutations(MCKey) \cup Permutations(MCNode) \cup Permutations(MCValue)
=============================================================================
