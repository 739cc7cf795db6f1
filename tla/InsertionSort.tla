--------------------------- MODULE InsertionSort ---------------------------
(***************************************************************************)
(* insertion_sort of src/insertion_sort.c, one step per comparison.  The   *)
(* inner loop counts j down in size_t: -1 stands for the value it has      *)
(* after 0, which the test j >= 0 does not stop.                           *)
(***************************************************************************)
EXTENDS Arrays

VARIABLES rank, len, arr, i, j,
          key,     \* the element taken out
          inner,   \* whether the inner loop runs
          fault    \* what the call does that it may not, or "none"

vars == <<rank, len, arr, i, j, key, inner, fault>>
input == <<rank, len>>
---------------------------------------------------------------------------
Init == /\ rank \in Arrays
        /\ len \in 0 .. MaxLen /\ DOMAIN rank = 0 .. len - 1
        /\ arr = Unsorted(len)
        /\ i = 1 /\ j = 0 /\ key = 0 /\ inner = FALSE
        /\ fault \in {"none", "no_memory"}    \* the memset of key

TakeOut == /\ fault = "none" /\ ~inner /\ i < len
           /\ key' = arr[i] /\ j' = i - 1 /\ inner' = TRUE
           /\ UNCHANGED <<input, arr, i, fault>>

Shift == /\ fault = "none" /\ inner /\ j >= 0 /\ rank[arr[j]] > rank[key]
         /\ arr' = [arr EXCEPT ![j + 1] = arr[j]]
         /\ j' = j - 1
         /\ UNCHANGED <<input, i, key, inner, fault>>

(* At j = -1 the comparison is with whatever lies before the array.  It    *)
(* may stop the loop, ...                                                  *)
Place == /\ fault = "none" /\ inner
         /\ j >= 0 => rank[arr[j]] <= rank[key]
         /\ arr' = [arr EXCEPT ![j + 1] = key]
         /\ i' = i + 1 /\ inner' = FALSE
         /\ UNCHANGED <<input, j, key, fault>>

(* ... or what lies there is moved into the array and the loop goes on.    *)
PassTheStart == /\ fault = "none" /\ inner /\ j = -1
                /\ fault' = "before_array"
                /\ UNCHANGED <<input, arr, i, j, key, inner>>

Next == TakeOut \/ Shift \/ Place \/ PassTheStart

(* The call goes on until it returns: nothing else runs in between. *)
Spec == Init /\ [][Next]_vars /\ WF_vars(Next)
---------------------------------------------------------------------------
Done == fault = "none" /\ ~inner /\ i >= len
Held == IF inner THEN [arr EXCEPT ![j + 1] = key] ELSE arr

(* The array with the element taken out put back into the free place holds *)
(* its elements, each once.                                                *)
TypeOK == /\ len \in 0 .. MaxLen /\ rank \in [0 .. len - 1 -> Rank]
          /\ i \in 1 .. MaxLen + 1 /\ j \in -1 .. len /\ inner \in BOOLEAN
          /\ fault \in {"none", "no_memory", "before_array"}
          /\ inner => i < len /\ j < i
          /\ Permutes(Held, len)

(* The places up to i are sorted stably, the free place apart; whatever    *)
(* was moved past it is greater than the element held; and the places      *)
(* after i are as they were.                                               *)
PrefixSorted ==
    /\ \A p \in i .. len - 1 : p > i \/ ~inner => arr[p] = p
    /\ ~inner /\ i <= len => SortedStably(rank, arr, 0, i)
    /\ inner => /\ key = i
                /\ \A p, q \in (0 .. i) \ {j + 1} : p < q => Before(rank, arr[p], arr[q])
                /\ \A q \in j + 2 .. i : rank[key] < rank[arr[q]]

(* Whenever the call returns the array is sorted, stably. *)
SortsStably == Done => SortedStably(rank, arr, 0, len)
=============================================================================
