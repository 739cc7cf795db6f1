------------------------------- MODULE Arrays -------------------------------
(***************************************************************************)
(* Arrays to be sorted (vlib.h 81-127).  An element is named by the place  *)
(* it had when the call began, so that a sorted array is the same elements *)
(* in another order and a stable sort keeps the names of equal ones        *)
(* increasing; rank is what the client's comparison function compares.     *)
(***************************************************************************)
EXTENDS Integers

CONSTANTS Rank, MaxLen

ASSUME ArrayAssumption == Rank \subseteq Int /\ MaxLen \in Nat

Arrays == UNION {[0 .. n - 1 -> Rank] : n \in 0 .. MaxLen}
Unsorted(n) == [i \in 0 .. n - 1 |-> i]

(* Mutant: one of the two copies is left out. *)
ExchangedHalf(arr, i, j) == [arr EXCEPT ![i] = arr[j]]

(* The macro swap: two elements exchanged byte by byte *)
Exchanged(arr, i, j) == [arr EXCEPT ![i] = arr[j], ![j] = arr[i]]

(* The elements are those of the beginning, each once. *)
Permutes(arr, n) == /\ arr \in [0 .. n - 1 -> 0 .. n - 1]
                    /\ \A i, j \in 0 .. n - 1 : arr[i] = arr[j] => i = j

NotAfter(rank, a, b) == rank[a] <= rank[b]

(* The order of a stable sort: by rank, equals as they were *)
Before(rank, a, b) == rank[a] < rank[b] \/ (rank[a] = rank[b] /\ a < b)

(* The part lo .. hi - 1 is sorted, and sorted stably. *)
Sorted(rank, arr, lo, hi) ==
    \A i, j \in lo .. hi - 1 : i < j => NotAfter(rank, arr[i], arr[j])
SortedStably(rank, arr, lo, hi) ==
    \A i, j \in lo .. hi - 1 : i < j => Before(rank, arr[i], arr[j])
=============================================================================
