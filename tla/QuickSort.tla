----------------------------- MODULE QuickSort -----------------------------
(***************************************************************************)
(* quick_sort of src/quick_sort.c, one step per comparison.  The calls of  *)
(* qs under way are a stack of ranges, the innermost first; a caller's     *)
(* range is what it still has to do when the call it makes returns.        *)
(***************************************************************************)
EXTENDS Arrays, Sequences

VARIABLES rank, len, arr, calls,
          idx, i,         \* partition: the last place of what is not greater
          partitioning    \* whether a partition runs

vars == <<rank, len, arr, calls, idx, i, partitioning>>
input == <<rank, len>>

Range(lo, hi) == [lo |-> lo, hi |-> hi]
Now == Head(calls)
Pivot == arr[Now.hi]
---------------------------------------------------------------------------
Init == /\ rank \in Arrays
        /\ len \in 0 .. MaxLen /\ DOMAIN rank = 0 .. len - 1
        /\ arr = Unsorted(len)
        /\ calls = <<Range(0, len - 1)>>
        /\ idx = 0 /\ i = 0 /\ partitioning = FALSE

Return == /\ calls # <<>> /\ ~partitioning /\ Now.lo >= Now.hi
          /\ calls' = Tail(calls)
          /\ UNCHANGED <<input, arr, idx, i, partitioning>>

BeginPartition == /\ calls # <<>> /\ ~partitioning /\ Now.lo < Now.hi
                  /\ idx' = Now.lo - 1 /\ i' = Now.lo /\ partitioning' = TRUE
                  /\ UNCHANGED <<input, arr, calls>>

Compare == /\ partitioning /\ i < Now.hi
           /\ IF rank[arr[i]] <= rank[Pivot]
              THEN idx' = idx + 1 /\ arr' = Exchanged(arr, idx + 1, i)
              ELSE UNCHANGED <<idx, arr>>
           /\ i' = i + 1
           /\ UNCHANGED <<input, calls, partitioning>>

(* Mutant: the call is made for the larger side. *)
DivideLarger(lo, p, hi) ==
    IF p - lo > hi - p THEN <<Range(lo, p - 1), Range(p + 1, hi)>>
    ELSE <<Range(p + 1, hi), Range(lo, p - 1)>>

(* The call for the smaller side of the pivot, and the range left *)
Divide(lo, p, hi) ==
    IF p - lo < hi - p THEN <<Range(lo, p - 1), Range(p + 1, hi)>>
    ELSE <<Range(p + 1, hi), Range(lo, p - 1)>>

EndPartition == /\ partitioning /\ i >= Now.hi
                /\ arr' = Exchanged(arr, idx + 1, Now.hi)
                /\ calls' = Divide(Now.lo, idx + 1, Now.hi) \o Tail(calls)
                /\ partitioning' = FALSE
                /\ UNCHANGED <<input, idx, i>>

Next == Return \/ BeginPartition \/ Compare \/ EndPartition

(* The call goes on until it returns: nothing else runs in between. *)
Spec == Init /\ [][Next]_vars /\ WF_vars(Next)
---------------------------------------------------------------------------
Done == calls = <<>>

(* The array holds its elements, each once, and nothing outside the range  *)
(* at hand is touched.                                                     *)
TypeOK == /\ len \in 0 .. MaxLen /\ rank \in [0 .. len - 1 -> Rank]
          /\ Permutes(arr, len)
          /\ \A c \in DOMAIN calls : 0 <= calls[c].lo /\ calls[c].hi < len
          /\ partitioning => Now.lo - 1 <= idx /\ idx < i /\ i <= Now.hi

SameRange(p, q) == \E c \in DOMAIN calls : {p, q} \subseteq calls[c].lo .. calls[c].hi

(* Any two places that no range still to be sorted has both of are in      *)
(* order; inside a partition nothing up to idx exceeds the pivot and       *)
(* everything from there to i does.                                        *)
Partitioned ==
    /\ \A p, q \in 0 .. len - 1 : p < q /\ ~SameRange(p, q) => NotAfter(rank, arr[p], arr[q])
    /\ partitioning =>
           /\ \A p \in Now.lo .. idx : NotAfter(rank, arr[p], Pivot)
           /\ \A p \in idx + 1 .. i - 1 : ~NotAfter(rank, arr[p], Pivot)

(* The calls nest no deeper than the length has binary digits (the one     *)
(* call of an empty array aside): an array that is sorted already does not *)
(* exhaust the stack.                                                      *)
ShallowStack == Len(calls) <= 1 \/ 2 ^ (Len(calls) - 1) <= len

(* Whenever the call returns the array is sorted. *)
Sorts == Done => Sorted(rank, arr, 0, len)
=============================================================================
