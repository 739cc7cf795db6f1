----------------------------- MODULE BubbleSort -----------------------------
(***************************************************************************)
(* bubble_sort of src/bubble_sort.c, one step per comparison.              *)
(***************************************************************************)
EXTENDS Arrays

VARIABLES rank, len, arr, i, j

vars == <<rank, len, arr, i, j>>
input == <<rank, len>>
---------------------------------------------------------------------------
Init == /\ rank \in Arrays
        /\ len \in 0 .. MaxLen /\ DOMAIN rank = 0 .. len - 1
        /\ arr = Unsorted(len)
        /\ i = 0 /\ j = 0

Compare == /\ i < len /\ j < len - 1 - i
           /\ arr' = IF rank[arr[j]] > rank[arr[j + 1]] THEN Exchanged(arr, j, j + 1) ELSE arr
           /\ j' = j + 1
           /\ UNCHANGED <<input, i>>

NextPass == /\ i < len /\ j >= len - 1 - i
            /\ i' = i + 1 /\ j' = 0
            /\ UNCHANGED <<input, arr>>

Next == Compare \/ NextPass

(* The call goes on until it returns: nothing else runs in between. *)
Spec == Init /\ [][Next]_vars /\ WF_vars(Next)
---------------------------------------------------------------------------
Done == i = len

(* Between comparisons the array holds its elements, each once, and reads  *)
(* and writes stay inside it.                                              *)
TypeOK == /\ len \in 0 .. MaxLen /\ rank \in [0 .. len - 1 -> Rank]
          /\ Permutes(arr, len)
          /\ i \in 0 .. len /\ j \in 0 .. len

(* After i passes the i places at the end hold what belongs there, in the  *)
(* current pass the largest of the places seen is the last of them, and    *)
(* equal elements never overtake each other.                               *)
Settled == /\ \A p \in 0 .. len - 1 : p >= len - i =>
                  \A q \in 0 .. p - 1 : NotAfter(rank, arr[q], arr[p])
           /\ i < len => j <= len - 1 - i /\ \A q \in 0 .. j - 1 : NotAfter(rank, arr[q], arr[j])
           /\ \A p \in 0 .. len - 1 : \A q \in 0 .. p - 1 :
                  rank[arr[q]] = rank[arr[p]] => arr[q] < arr[p]

(* The call sorts, stably. *)
SortsStably == Done => SortedStably(rank, arr, 0, len)
=============================================================================
