-------------------------------- MODULE Vec --------------------------------
(***************************************************************************)
(* The vector of src/vec.c and its iterator.  The vector is one heap       *)
(* block; a push at full capacity reallocates it, which may move it.  An   *)
(* iterator keeps pointers into the block the vector had when they were    *)
(* computed, and the last index the vector had when it was created.        *)
(***************************************************************************)
EXTENDS Integers, Sequences

CONSTANTS
    Value, Null,
    VecInitialCap,   \* VEC_INITIAL_CAP, also the least capacity accepted
    Capacities,      \* the capacities asked of vec_new_with_capacity
    Block,           \* the addresses malloc and realloc can return
    Word,            \* size_t wraps at this value
    MaxLen,          \* bound on the number of elements
    MaxSteps         \* bound on the calls of vec_iter_next on one iterator

(* 0 stands for a slot cleared by memset. *)
VecAssumption ==
    /\ Value \subseteq Nat \ {0} /\ Null \notin Nat
    /\ VecInitialCap \in Nat \ {0} /\ Capacities \subseteq Nat
    /\ Word \in Nat \ {0} /\ MaxLen \in Nat /\ MaxSteps \in Nat
    /\ MaxLen < Word /\ MaxSteps + 3 < Word

VARIABLES
    data,    \* vec->data: slots 0 .. cap-1
    cap,     \* vec->cap
    len,     \* vec->len
    block,   \* where the vector is, or Null when it was freed
    iter,    \* the client's iterator, or Null
    born,    \* history: the length when iter was created
    steps,   \* history: the calls of vec_iter_next on iter so far
    intact,  \* history: no push, pop or removal since iter was created
    fault,   \* the first call the code does not serve, or "none"
    reply

vars == <<data, cap, len, block, iter, born, steps, intact, fault, reply>>
vector == <<data, cap, len, block>>
iteration == <<iter, born, steps, intact>>
---------------------------------------------------------------------------
Answer(op, code, out, idx) == [op |-> op, code |-> code, out |-> out, idx |-> idx]
Say(op, code, out, idx) == reply' = Answer(op, code, out, idx)
Reply == [op : {"new", "push", "pop", "get_at", "remove_at", "find", "search", "sort"},
          code : {0, 1}, out : Value \cup {Null}, idx : Nat]
FreeReply == [op : {"free"}, code : {0}, out : Seq(Value), idx : {0}]
Items == [i \in 1 .. len |-> data[i - 1]]
Running == fault = "none" /\ block # Null
Touched == intact' = FALSE /\ UNCHANGED <<iter, born, steps>>

Init ==
    /\ cap \in {VecInitialCap} \cup {c \in Capacities : c >= 2}
    /\ data = [i \in 0 .. cap - 1 |-> 0] /\ len = 0
    /\ block \in Block
    /\ iter = Null /\ born = 0 /\ steps = 0 /\ intact = TRUE
    /\ fault = "none" /\ reply = Answer("new", 0, Null, 0)

(* vec_realloc: twice the slots, the new ones cleared, wherever realloc    *)
(* finds room                                                              *)
Doubled == [i \in 0 .. 2 * cap - 1 |-> IF i < len THEN data[i] ELSE 0]

Push(v) ==
    /\ Running /\ len < MaxLen
    /\ IF len = cap
       THEN /\ data' = [Doubled EXCEPT ![len] = v]
            /\ cap' = 2 * cap
            /\ block' \in Block
       ELSE data' = [data EXCEPT ![len] = v] /\ UNCHANGED <<cap, block>>
    /\ len' = len + 1
    /\ Say("push", 0, Null, 0)
    /\ Touched /\ UNCHANGED fault

PushFails == /\ Running /\ len = cap
             /\ Say("push", 1, Null, 0)
             /\ UNCHANGED <<vector, iteration, fault>>

(* vec_push of an element of the vector itself: memcpy reads through the   *)
(* caller's pointer after vec_realloc may have freed what it points into   *)
PushOwn(i) ==
    /\ Running /\ i < len /\ len < MaxLen
    /\ IF len = cap
       THEN fault' = "push_own" /\ UNCHANGED <<vector, iteration, reply>>
       ELSE Push(data[i])

Pop ==
    /\ Running /\ len > 0
    /\ len' = len - 1
    /\ Say("pop", 0, data[len - 1], 0)
    /\ Touched /\ UNCHANGED <<data, cap, block, fault>>

PopEmpty == /\ Running /\ len = 0
            /\ Say("pop", 1, Null, 0)
            /\ UNCHANGED <<vector, iteration, fault>>

GetAt(i) ==
    /\ Running
    /\ IF i < len THEN Say("get_at", 0, data[i], i) ELSE Say("get_at", 1, Null, i)
    /\ UNCHANGED <<vector, iteration, fault>>

(* vec_remove_at: the later elements move one place down, the slot they    *)
(* leave is cleared                                                        *)
TakeOut(i) ==
    /\ Running /\ i < len
    /\ data' = [j \in 0 .. cap - 1 |-> IF j = len - 1 THEN 0
                                       ELSE IF i <= j /\ j < len - 1 THEN data[j + 1]
                                       ELSE data[j]]
    /\ len' = len - 1
    /\ Say("remove_at", 0, data[i], i)
    /\ Touched /\ UNCHANGED <<cap, block, fault>>

TakeOutBeyond(i) == /\ Running /\ i >= len
                    /\ Say("remove_at", 1, Null, i)
                    /\ UNCHANGED <<vector, iteration, fault>>

Find(v) ==
    /\ Running
    /\ \/ \E i \in 0 .. len - 1 : /\ data[i] = v /\ \A j \in 0 .. i - 1 : data[j] # v
                                  /\ Say("find", 0, v, i)
       \/ (\A i \in 0 .. len - 1 : data[i] # v) /\ Say("find", 1, Null, 0)
    /\ UNCHANGED <<vector, iteration, fault>>

(* One comparison of binary_search; where it succeeds nothing is left.     *)
Halved(r, v) ==
    LET m == r.lo + (r.hi - r.lo) \div 2
    IN  CASE data[m] = v -> [lo |-> m, hi |-> m, found |-> TRUE]
          [] data[m] > v -> [r EXCEPT !.hi = m]
          [] data[m] < v -> [r EXCEPT !.lo = m + 1]

(* binary_search: the slot in the middle is compared before the range is   *)
(* tested, so that of an empty vector the first slot is.  A range that is  *)
(* never longer than cap is empty after cap comparisons.                   *)
Halves(v) ==
    LET After[t \in 0 .. cap] ==
            IF t = 0 THEN [lo |-> 0, hi |-> len, found |-> FALSE]
            ELSE IF t > 1 /\ After[t - 1].lo >= After[t - 1].hi THEN After[t - 1]
            ELSE Halved(After[t - 1], v)
    IN  After[cap].found

BinarySearch(v) ==
    /\ Running
    /\ Say("search", IF Halves(v) THEN 0 ELSE 1, v, 0)
    /\ UNCHANGED <<vector, iteration, fault>>

(* The four sorts, each over the elements in use: order names the place    *)
(* that each element comes from.                                           *)
Sort ==
    /\ Running
    /\ \E order \in [0 .. len - 1 -> 0 .. len - 1] :
           /\ \A i, j \in 0 .. len - 1 : order[i] = order[j] => i = j
           /\ \A i, j \in 0 .. len - 1 : i < j => data[order[i]] <= data[order[j]]
           /\ data' = [i \in 0 .. cap - 1 |-> IF i < len THEN data[order[i]] ELSE data[i]]
    /\ Say("sort", 0, Null, 0)
    /\ Touched /\ UNCHANGED <<cap, len, block, fault>>

(* insertion_sort may leave the array or write through the NULL it got for *)
(* key, merge_sort stops without memory and leaves an empty array.         *)
SortStops == /\ Running
             /\ fault' = "sort"
             /\ UNCHANGED <<vector, iteration, reply>>

(* vec_free: the callback gets the elements in use *)
Free == /\ Running
        /\ block' = Null
        /\ Say("free", 0, Items, 0)
        /\ Touched /\ UNCHANGED <<data, cap, len, fault>>

(* vec_iter_next reads the vector through it.vec until it is at the end.   *)
AtEnd(it) == it.next_idx > it.end_idx

Advance(it) ==
    [it EXCEPT !.cur = it.next,
               !.next = IF AtEnd(it) THEN Null
                        ELSE [block |-> it.vec, idx |-> it.next_idx],
               !.next_idx = (it.next_idx + 1) % Word]

(* vec_iter_new: end_idx is len - 1 in size_t *)
IterNew ==
    /\ Running
    /\ iter' = Advance(Advance([vec |-> block, cur |-> Null, next |-> Null, next_idx |-> 0,
                                end_idx |-> (len + Word - 1) % Word]))
    /\ born' = len /\ steps' = 0 /\ intact' = TRUE
    /\ UNCHANGED <<vector, fault, reply>>

IterNext ==
    /\ Running /\ iter # Null /\ steps < MaxSteps
    /\ iter.vec = block \/ AtEnd(iter)
    /\ iter' = Advance(iter)
    /\ steps' = steps + 1
    /\ UNCHANGED <<vector, born, intact, fault, reply>>

(* The block at iter.vec, from which the address is read, has been freed   *)
(* by realloc.                                                             *)
IterNextFreed ==
    /\ Running /\ iter # Null /\ iter.vec # block /\ ~AtEnd(iter)
    /\ fault' = "iter_freed"
    /\ UNCHANGED <<vector, iteration, reply>>

Next ==
    \/ \E v \in Value : Push(v) \/ Find(v) \/ BinarySearch(v)
    \/ \E i \in 0 .. len : GetAt(i) \/ TakeOut(i) \/ TakeOutBeyond(i) \/ PushOwn(i)
    \/ PushFails \/ Pop \/ PopEmpty
    \/ Sort \/ SortStops \/ Free
    \/ IterNew \/ IterNext \/ IterNextFreed

Spec == Init /\ [][Next]_vars
---------------------------------------------------------------------------
Place == [block : Block, idx : Nat]
Iterator == [vec : Block, cur : Place \cup {Null}, next : Place \cup {Null},
             next_idx : 0 .. Word - 1, end_idx : 0 .. Word - 1]

TypeOK ==
    /\ cap \in Nat /\ len \in 0 .. cap
    /\ data \in [0 .. cap - 1 -> Value \cup {0}]
    /\ block \in Block \cup {Null}
    /\ iter \in Iterator \cup {Null}
    /\ born \in 0 .. MaxLen /\ steps \in 0 .. MaxSteps /\ intact \in BOOLEAN
    /\ fault \in {"none", "push_own", "iter_freed", "sort"}
    /\ IF reply.op = "free" THEN reply \in FreeReply ELSE reply \in Reply

(* The elements in use never include a slot cleared by growth or removal.  *)
NoClearedElement == \A i \in 0 .. len - 1 : data[i] \in Value

(* An iterator over a vector that held an element and has not changed      *)
(* since yields each element once, in order, and NULL from then on.        *)
IterYieldsAll ==
    iter # Null /\ intact /\ len > 0 =>
        iter.cur = IF steps < len THEN [block |-> block, idx |-> steps] ELSE Null

(* Whatever is pushed, popped or removed meanwhile, as long as the vector  *)
(* has not been moved the iterator points into its block and within the    *)
(* positions the vector had when the iterator was created: growth in place *)
(* does not extend the iteration.                                          *)
IterInBounds ==
    iter # Null /\ iter.vec = block /\ born > 0 =>
        \A p \in {iter.cur, iter.next} \ {Null} : p.block = block /\ p.idx < born /\ p.idx < cap

(* The vector is a sequence. *)
V == INSTANCE AbstractVec WITH items <- Items
ImplementsVec == V!Spec

(* vlib.h:386-387: use iter.cur to get the current element; if it is null, *)
(* iteration is complete.  So after as many steps as there are elements it *)
(* is null.                                                                *)
IterCompletes == iter # Null /\ intact /\ steps >= len => iter.cur = Null
=============================================================================
