--------------------------- MODULE PriorityQueue ---------------------------
(***************************************************************************)
(* The priority queue of src/pq.c: a binary min-heap in an array, with the *)
(* two sift procedures as the code writes them.  Indices start at 0.       *)
(***************************************************************************)
EXTENDS Naturals, FiniteSets

CONSTANTS
    Value,    \* the numbers a client inserts, ordered by its CmpFn
    Null,
    PqInitialCap,   \* PQ_INITIAL_CAP
    MaxLen    \* bound on the number of elements

(* 0 stands for a slot cleared by memset, so it is not a client's value.   *)
PqAssumption ==
    /\ Value \subseteq Nat \ {0} /\ Null \notin Value
    /\ PqInitialCap \in Nat \ {0} /\ MaxLen \in Nat

VARIABLES
    data,     \* pq->data: slots 0 .. cap-1
    cap,      \* pq->cap
    len,      \* pq->len
    grown,    \* history: no pq_delete since the queue was last empty
    reply

vars == <<data, cap, len, grown, reply>>
---------------------------------------------------------------------------
Answer(op, code, out) == [op |-> op, code |-> code, out |-> out]
Reply == [op : {"new", "insert", "delete"}, code : {0, 1}, out : Value \cup {Null}]

Parent(i) == (i - 1) \div 2
Left(i) == 2 * i + 1
Right(i) == 2 * i + 2
Swap(d, i, j) == [d EXCEPT ![i] = d[j], ![j] = d[i]]

(* Mutant: only the ancestors of the last index are compared with theirs.  *)
HeapifyUpAncestors(d, n) ==
    LET After[t \in 0 .. n] ==
            IF t = 0 THEN [data |-> d, idx |-> n]
            ELSE LET e == After[t - 1].data
                     i == After[t - 1].idx
                 IN  IF i = 0 THEN After[t - 1]
                     ELSE [data |-> IF e[Parent(i)] > e[i] THEN Swap(e, i, Parent(i)) ELSE e,
                           idx |-> Parent(i)]
    IN  After[n].data

(* heapify_up from the last index n: every index down to 1, not only the   *)
(* ancestors of n, is compared with its parent.  Sifted[i] is the array    *)
(* once the indices above i have been treated.                             *)
HeapifyUp(d, n) ==
    LET Sifted[i \in 0 .. n] ==
            IF i = n THEN d
            ELSE LET e == Sifted[i + 1]
                 IN  IF e[Parent(i + 1)] > e[i + 1] THEN Swap(e, i + 1, Parent(i + 1)) ELSE e
    IN  Sifted[0]

(* Mutant: the left child is taken whenever it is below the value. *)
SiftStepLeft(at, n) ==
    LET d == at.data
        i == at.idx
        l == Left(i)
        r == Right(i)
    IN  IF r >= n THEN [at EXCEPT !.idx = n]
        ELSE IF d[l] < d[i] THEN [data |-> Swap(d, i, l), idx |-> l]
        ELSE IF d[r] < d[i] THEN [data |-> Swap(d, i, r), idx |-> r]
        ELSE [at EXCEPT !.idx = n]

(* One turn of the loop of heapify_down over n elements: it goes on only   *)
(* from an index that has both children and has one child strictly below   *)
(* the other and below the value itself.                                   *)
SiftStep(at, n) ==
    LET d == at.data
        i == at.idx
        l == Left(i)
        r == Right(i)
    IN  IF r >= n THEN [at EXCEPT !.idx = n]
        ELSE IF d[r] < d[l] /\ d[r] < d[i] THEN [data |-> Swap(d, i, r), idx |-> r]
        ELSE IF d[l] < d[r] /\ d[l] < d[i] THEN [data |-> Swap(d, i, l), idx |-> l]
        ELSE [at EXCEPT !.idx = n]

HeapifyDown(d, n) ==
    LET After[t \in 0 .. n] ==
            IF t = 0 THEN [data |-> d, idx |-> 0]
            ELSE IF After[t - 1].idx >= n THEN After[t - 1] ELSE SiftStep(After[t - 1], n)
    IN  After[n].data
---------------------------------------------------------------------------
Init == /\ data = [i \in 0 .. PqInitialCap - 1 |-> 0] /\ cap = PqInitialCap /\ len = 0
        /\ grown = TRUE /\ reply = Answer("new", 0, Null)

(* pq_realloc: twice the slots, the new ones cleared *)
Doubled(d) == [i \in 0 .. 2 * cap - 1 |-> IF i < len THEN d[i] ELSE 0]

Insert(v) ==
    /\ len < MaxLen
    /\ LET room == IF len = cap THEN Doubled(data) ELSE data
       IN  data' = HeapifyUp([room EXCEPT ![len] = v], len)
    /\ cap' = IF len = cap THEN 2 * cap ELSE cap
    /\ len' = len + 1
    /\ reply' = Answer("insert", 0, Null)
    /\ UNCHANGED grown

InsertFails ==
    /\ len = cap
    /\ reply' = Answer("insert", 1, Null)
    /\ UNCHANGED <<data, cap, len, grown>>

Delete ==
    /\ len > 0
    /\ data' = IF len = 1 THEN [data EXCEPT ![0] = 0]
               ELSE HeapifyDown([Swap(data, 0, len - 1) EXCEPT ![len - 1] = 0], len - 1)
    /\ len' = len - 1
    /\ grown' = (len = 1)
    /\ reply' = Answer("delete", 0, data[0])
    /\ UNCHANGED cap

DeleteEmpty ==
    /\ len = 0
    /\ reply' = Answer("delete", 1, Null)
    /\ UNCHANGED <<data, cap, len, grown>>

(* pq_free, then pq_new *)
Renew == /\ data' = [i \in 0 .. PqInitialCap - 1 |-> 0] /\ cap' = PqInitialCap /\ len' = 0
         /\ grown' = TRUE /\ reply' = Answer("new", 0, Null)

Next == (\E v \in Value : Insert(v)) \/ InsertFails \/ Delete \/ DeleteEmpty \/ Renew

Spec == Init /\ [][Next]_vars
---------------------------------------------------------------------------
TypeOK ==
    /\ cap \in Nat /\ len \in 0 .. cap
    /\ data \in [0 .. cap - 1 -> Value \cup {0}]
    /\ grown \in BOOLEAN
    /\ reply \in Reply

IsHeap == \A i \in 1 .. len - 1 : data[Parent(i)] <= data[i]
Distinct == \A i, j \in 0 .. len - 1 : data[i] = data[j] => i = j

(* As long as the queue has only grown since it was empty, it is a heap.   *)
GrownIsHeap == grown => IsHeap

(* An insertion puts a minimum at the root even when earlier deletions     *)
(* have left an array that is not a heap: heapify_up visits every index.   *)
InsertSurfacesMin ==
    reply'.op = "insert" /\ len' > len => \A i \in 0 .. len' - 1 : data'[0] <= data'[i]

(* Deleting from a heap of distinct values down to an odd number of them   *)
(* leaves a heap: each parent then has two children that differ, the cases *)
(* heapify_down treats.                                                    *)
OddDeleteKeepsHeap ==
    IsHeap /\ Distinct /\ len' < len /\ len' % 2 = 1 => IsHeap'

(* No value is lost, duplicated or invented by either sift procedure, by   *)
(* growth or by clearing, heap or not.                                     *)
Count == [v \in Value |-> Cardinality({i \in 0 .. len - 1 : data[i] = v})]
B == INSTANCE Multiset WITH count <- Count
ImplementsMultiset == B!Spec

(* README.md:335 calls it a min-heap, and tests/pq_test.c:29-53 polls the  *)
(* values in increasing order: what pq_delete returns, the root, is always *)
(* a least element.                                                        *)
RootIsMin == \A i \in 0 .. len - 1 : data[0] <= data[i]
=============================================================================
