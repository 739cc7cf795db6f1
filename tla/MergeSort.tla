----------------------------- MODULE MergeSort -----------------------------
(***************************************************************************)
(* merge_sort of src/merge_sort.c.  The recursion is a stack of what is    *)
(* left to do: sort a range, join two sorted ones.  A comparison is a      *)
(* step; so is a block copied by memcpy.                                   *)
(***************************************************************************)
EXTENDS Arrays, Sequences

VARIABLES rank, len, arr, tmp,
          todo,         \* the calls not yet made, the next one first
          i, j, k,      \* merge: the next of either half, the place to fill
          merging,      \* whether a merge runs
          fault         \* what the call does that it may not, or "none"

vars == <<rank, len, arr, tmp, todo, i, j, k, merging, fault>>
input == <<rank, len, fault>>
cursor == <<i, j, k, merging>>

Sort(l, r) == [what |-> "sort", l |-> l, m |-> 0, r |-> r]
Join(l, m, r) == [what |-> "join", l |-> l, m |-> m, r |-> r]
Now == Head(todo)
N1 == Now.m - Now.l + 1
N2 == Now.r - Now.m
Left(p) == tmp[p]
Right(p) == tmp[N1 + p]
---------------------------------------------------------------------------
(* The assert of merge_sort stops the program when there is no memory; an  *)
(* empty array makes len - 1 the largest size_t.                           *)
Init == /\ rank \in Arrays
        /\ len \in 0 .. MaxLen /\ DOMAIN rank = 0 .. len - 1
        /\ arr = Unsorted(len) /\ tmp = <<>>
        /\ \/ fault = "no_memory" /\ todo = <<>>
           \/ len = 0 /\ fault = "wraps" /\ todo = <<>>
           \/ len > 0 /\ fault = "none" /\ todo = <<Sort(0, len - 1)>>
        /\ i = 0 /\ j = 0 /\ k = 0 /\ merging = FALSE

Half(l, r) == l + (r - l) \div 2

(* Mutant: the second half is not sorted. *)
SplitOnce == /\ todo # <<>> /\ Now.what = "sort" /\ Now.l < Now.r
             /\ LET m == Half(Now.l, Now.r)
                IN  todo' = <<Sort(Now.l, m), Join(Now.l, m, Now.r)>> \o Tail(todo)
             /\ UNCHANGED <<input, arr, tmp, cursor>>

Split == /\ todo # <<>> /\ Now.what = "sort" /\ Now.l < Now.r
         /\ LET m == Half(Now.l, Now.r)
            IN  todo' = <<Sort(Now.l, m), Sort(m + 1, Now.r), Join(Now.l, m, Now.r)>> \o Tail(todo)
         /\ UNCHANGED <<input, arr, tmp, cursor>>

Single == /\ todo # <<>> /\ Now.what = "sort" /\ Now.l >= Now.r
          /\ todo' = Tail(todo)
          /\ UNCHANGED <<input, arr, tmp, cursor>>

Adjoin == /\ todo # <<>> /\ Now.what = "join" /\ ~merging
          /\ rank[arr[Now.m]] <= rank[arr[Now.m + 1]]
          /\ todo' = Tail(todo)
          /\ UNCHANGED <<input, arr, tmp, cursor>>

(* Both halves are copied to tmp, one behind the other. *)
BeginMerge == /\ todo # <<>> /\ Now.what = "join" /\ ~merging
              /\ rank[arr[Now.m]] > rank[arr[Now.m + 1]]
              /\ tmp' = [p \in 0 .. N1 + N2 - 1 |-> arr[Now.l + p]]
              /\ i' = 0 /\ j' = 0 /\ k' = Now.l /\ merging' = TRUE
              /\ UNCHANGED <<input, arr, todo>>

(* Mutant: of equal elements the right one goes first. *)
TakesLeftStrictly(a, b) == rank[a] < rank[b]

TakesLeft(a, b) == rank[a] <= rank[b]

Merge == /\ merging /\ i < N1 /\ j < N2
         /\ IF TakesLeft(Left(i), Right(j))
            THEN arr' = [arr EXCEPT ![k] = Left(i)] /\ i' = i + 1 /\ j' = j
            ELSE arr' = [arr EXCEPT ![k] = Right(j)] /\ j' = j + 1 /\ i' = i
         /\ k' = k + 1
         /\ UNCHANGED <<input, tmp, todo, merging>>

(* What either half has left goes to the places left. *)
EndMerge ==
    /\ merging /\ (i >= N1 \/ j >= N2)
    /\ arr' = [p \in 0 .. len - 1 |->
                  CASE i < N1 /\ p \in k .. k + N1 - i - 1 -> Left(i + p - k)
                    [] j < N2 /\ p \in k .. k + N2 - j - 1 -> Right(j + p - k)
                    [] OTHER -> arr[p]]
    /\ todo' = Tail(todo) /\ merging' = FALSE
    /\ UNCHANGED <<input, tmp, i, j, k>>

Next == Split \/ Single \/ Adjoin \/ BeginMerge \/ Merge \/ EndMerge

(* The call goes on until it returns: nothing else runs in between. *)
Spec == Init /\ [][Next]_vars /\ WF_vars(Next)
---------------------------------------------------------------------------
Done == fault = "none" /\ todo = <<>>

(* What the array would hold if the rest of tmp were put back as it is *)
PutBack == [p \in 0 .. len - 1 |->
               IF ~merging \/ p < k \/ p > Now.r THEN arr[p]
               ELSE IF p - k < N1 - i THEN Left(i + p - k)
               ELSE Right(j + p - k - (N1 - i))]

(* The array, together with what only tmp holds during a merge, has its    *)
(* elements, each once; the depth of the stack is bounded.                 *)
TypeOK == /\ len \in 0 .. MaxLen /\ rank \in [0 .. len - 1 -> Rank]
          /\ fault \in {"none", "no_memory", "wraps"} /\ merging \in BOOLEAN
          /\ Len(todo) <= 2 * MaxLen
          /\ Permutes(PutBack, len)

(* What a join finds is two halves sorted stably, every element of the     *)
(* first older than every one of the second; a merge fills the places with *)
(* what comes before all it has left, and never overtakes what it reads.   *)
HalvesSorted ==
    todo # <<>> /\ Now.what = "join" =>
        IF merging
        THEN /\ k = Now.l + i + j /\ i <= N1 /\ j <= N2
             /\ SortedStably(rank, arr, Now.l, k)
             /\ \A p \in Now.l .. k - 1 :
                    /\ \A q \in i .. N1 - 1 : Before(rank, arr[p], Left(q))
                    /\ \A q \in j .. N2 - 1 : Before(rank, arr[p], Right(q))
        ELSE /\ SortedStably(rank, arr, Now.l, Now.m + 1)
             /\ SortedStably(rank, arr, Now.m + 1, Now.r + 1)
             /\ \A p \in Now.l .. Now.m, q \in Now.m + 1 .. Now.r : arr[p] < arr[q]

(* Whenever the call returns the array is sorted, stably: the elements it  *)
(* does not merge because the halves adjoin included.                      *)
SortsStably == Done => SortedStably(rank, arr, 0, len)
=============================================================================
