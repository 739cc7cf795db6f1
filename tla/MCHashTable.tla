---------------------------- MODULE MCHashTable ----------------------------
(* Four keys of which cmp_key equates the first two, two slots.            *)
EXTENDS HashTable, TLC
CONSTANTS k1, k2, k3, k4, a1, a2, a3, v1, v2

MCKey == {k1, k2, k3, k4}
MCAddr == {a1, a2, a3}
MCValue == {v1, v2}
MCCanon == k1 :> k1 @@ k2 :> k1 @@ k3 :> k3 @@ k4 :> k4
MCSeeded == {h \in [MCKey -> 0 .. 1] : h[k1] = h[k2]}
Symmetry == Permutations({k3, k4}) \cup Permutations(MCAddr) \cup Permutations(MCValue)
=============================================================================
