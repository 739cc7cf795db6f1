----------------------------- MODULE MCHashSet -----------------------------
(* Five keys of which cmp_key equates the first two, two slots.            *)
EXTENDS HashSet, TLC
CONSTANTS k1, k2, k3, k4, k5

MCKey == {k1, k2, k3, k4, k5}
MCCanon == k1 :> k1 @@ k2 :> k1 @@ k3 :> k3 @@ k4 :> k4 @@ k5 :> k5
MCSeeded == {h \in [MCKey -> 0 .. 1] : h[k1] = h[k2]}
Symmetry == Permutations({k3, k4, k5})
=============================================================================
