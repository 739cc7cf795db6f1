----------------------------- MODULE LinkedList -----------------------------
(***************************************************************************)
(* The doubly linked list of src/list.c, node by node.                     *)
(*                                                                         *)
(* Three calls take the code where it makes no promise: a node_new without *)
(* memory, an insertion strictly inside the list, and an index equal to    *)
(* the length.  `fault` records the first of them and the model stops.     *)
(***************************************************************************)
EXTENDS Naturals, Sequences, FiniteSets

CONSTANTS
    Value, Null,
    Node       \* the heap blocks node_new can return: bounds the list's length

Pointer == Node \cup {Null}
Contents == [data : Value, prev : Pointer, next : Pointer]
ListAssumption == IsFiniteSet(Node) /\ Null \notin Node \cup Value \cup Contents

VARIABLES
    node,    \* the allocated nodes, Null where there is none
    head,    \* list->head
    tail,    \* list->tail
    len,     \* list->len
    alive,   \* between list_new and list_free
    fault,   \* the first call the code does not serve, or "none"
    reply

vars == <<node, head, tail, len, alive, fault, reply>>
---------------------------------------------------------------------------
Faults == {"none", "node_new", "insert_inside", "index_is_len"}
Reply == [op : {"new", "free", "insert", "get", "remove_at", "remove"},
          at : 0 .. Cardinality(Node) + 1 \cup {Null}, code : {0, 1}, out : Value \cup {Null}]
Answer(op, at, code, out) == [op |-> op, at |-> at, code |-> code, out |-> out]

Unused == {n \in Node : node[n] = Null}
Running == alive /\ fault = "none"
Fresh(v, p, x) == [data |-> v, prev |-> p, next |-> x]

(* list_get_at and the loops over the list: At[i] is the node i steps from *)
(* the head                                                                *)
At[i \in 0 .. Cardinality(Node)] ==
    IF i = 0 THEN head ELSE IF At[i - 1] = Null THEN Null ELSE node[At[i - 1]].next
DataAt(i) == node[At[i]].data
---------------------------------------------------------------------------
Init == /\ node = [n \in Node |-> Null] /\ head = Null /\ tail = Null /\ len = 0
        /\ alive = TRUE /\ fault = "none" /\ reply = Answer("new", Null, 0, Null)

Renew == /\ ~alive
         /\ head' = Null /\ tail' = Null /\ len' = 0
         /\ alive' = TRUE /\ reply' = Answer("new", Null, 0, Null)
         /\ UNCHANGED <<node, fault>>

Crash(f) == fault' = f /\ UNCHANGED <<node, head, tail, len, alive, reply>>

(* node_new does not look at what malloc returned (list.c:166-167) *)
NodeFails == Running /\ Crash("node_new")

Grow(i) == /\ len' = len + 1
           /\ reply' = Answer("insert", i, 0, Null)
           /\ UNCHANGED alive

LinkFirst(v) ==
    /\ \E n \in Unused :
          /\ node' = [m \in Node |-> IF m = n THEN Fresh(v, Null, head)
                                     ELSE IF m = head THEN [node[m] EXCEPT !.prev = n]
                                     ELSE node[m]]
          /\ head' = n
          /\ tail' = IF head = Null THEN n ELSE tail
    /\ UNCHANGED fault

LinkLast(v) ==
    /\ \E n \in Unused :
          /\ node' = [m \in Node |-> IF m = n THEN Fresh(v, tail, Null)
                                     ELSE IF m = tail THEN [node[m] EXCEPT !.next = n]
                                     ELSE node[m]]
          /\ tail' = n
          /\ head' = IF tail = Null THEN n ELSE head
    /\ UNCHANGED fault

Prepend(v) == Running /\ LinkFirst(v) /\ Grow(0)
AppendItem(v) == Running /\ LinkLast(v) /\ Grow(len)

(* list_insert_at strictly inside: cur->prev is overwritten before it is   *)
(* used to reach the predecessor, so the new node's next is itself         *)
InsertInside(v, i) ==
    /\ Running /\ 0 < i /\ i < len
    /\ \E n \in Unused :
          node' = [node EXCEPT ![n] = Fresh(v, node[At[i]].prev, n), ![At[i]].prev = n]
    /\ fault' = "insert_inside"
    /\ Grow(i) /\ UNCHANGED <<head, tail>>

InsertAt(v, i) ==
    \/ Running /\ i = 0 /\ LinkFirst(v) /\ Grow(i)
    \/ Running /\ i > 0 /\ i = len /\ LinkLast(v) /\ Grow(i)
    \/ InsertInside(v, i)

(* Mutant: list->len is decremented before the index is checked. *)
OutOfRangeCounted(op, i) ==
    /\ Running /\ i > len
    /\ len' = len - 1
    /\ reply' = Answer(op, i, 1, Null)
    /\ UNCHANGED <<node, head, tail, alive, fault>>

OutOfRange(op, i) ==
    /\ Running /\ i > len
    /\ reply' = Answer(op, i, 1, Null)
    /\ UNCHANGED <<node, head, tail, len, alive, fault>>

(* list_get and list_remove_at let the length through as an index and read *)
(* through the NULL at the end of the list (list.c:66, 108)                *)
IndexIsLen == Running /\ Crash("index_is_len")

Get(i) ==
    /\ Running /\ i < len
    /\ reply' = Answer("get", i, 0, DataAt(i))
    /\ UNCHANGED <<node, head, tail, len, alive, fault>>

(* Mutant: only the next pointers are mended. *)
UnlinkForward(n) ==
    LET p == node[n].prev
        x == node[n].next
    IN  IF len = 1
        THEN /\ node' = [node EXCEPT ![n] = Null]
             /\ head' = Null /\ tail' = Null
        ELSE /\ node' = [m \in Node |-> IF m = n THEN Null
                                        ELSE IF m = p THEN [node[m] EXCEPT !.next = x]
                                        ELSE node[m]]
             /\ head' = IF n = head THEN x ELSE head
             /\ tail' = IF n = tail /\ n # head THEN p ELSE tail

(* list_remove_node *)
Unlink(n) ==
    LET p == node[n].prev
        x == node[n].next
    IN  IF len = 1
        THEN /\ node' = [node EXCEPT ![n] = Null]
             /\ head' = Null /\ tail' = Null
        ELSE /\ node' = [m \in Node |-> IF m = n THEN Null
                                        ELSE IF m = p THEN [node[m] EXCEPT !.next = x]
                                        ELSE IF m = x THEN [node[m] EXCEPT !.prev = p]
                                        ELSE node[m]]
             /\ head' = IF n = head THEN x ELSE head
             /\ tail' = IF n = tail /\ n # head THEN p ELSE tail

TakeOut(op, i) ==
    /\ Running /\ i < len
    /\ Unlink(At[i])
    /\ len' = len - 1
    /\ reply' = Answer(op, i, 0, DataAt(i))
    /\ UNCHANGED <<alive, fault>>

(* list_remove: the first of len nodes whose data compares equal *)
Remove(v) ==
    \/ \E i \in 0 .. len - 1 : /\ Running /\ DataAt(i) = v
                               /\ \A j \in 0 .. i - 1 : DataAt(j) # v
                               /\ TakeOut("remove", i)
    \/ /\ Running /\ \A i \in 0 .. len - 1 : DataAt(i) # v
       /\ reply' = Answer("remove", Null, 1, Null)
       /\ UNCHANGED <<node, head, tail, len, alive, fault>>

(* list_free frees len nodes from the head; the struct keeps its fields *)
Free ==
    /\ Running
    /\ node' = [n \in Node |-> IF \E i \in 0 .. len - 1 : At[i] = n THEN Null ELSE node[n]]
    /\ alive' = FALSE
    /\ reply' = Answer("free", Null, 0, Null)
    /\ UNCHANGED <<head, tail, len, fault>>

Next ==
    \/ \E v \in Value : \/ Prepend(v) \/ AppendItem(v) \/ Remove(v)
                        \/ \E i \in 0 .. len : InsertAt(v, i)
    \/ \E i \in 0 .. len : Get(i) \/ TakeOut("remove_at", i)
    \/ \E op \in {"insert", "get", "remove_at"} : OutOfRange(op, len + 1)
    \/ NodeFails \/ IndexIsLen \/ Free \/ Renew

Spec == Init /\ [][Next]_vars
---------------------------------------------------------------------------
TypeOK ==
    /\ node \in [Node -> Contents \cup {Null}]
    /\ head \in Pointer /\ tail \in Pointer
    /\ len \in 0 .. Cardinality(Node)
    /\ alive \in BOOLEAN
    /\ fault \in Faults
    /\ reply \in Reply

(* The nodes met going back from the tail *)
Back[i \in 0 .. Cardinality(Node)] ==
    IF i = 0 THEN tail ELSE IF Back[i - 1] = Null THEN Null ELSE node[Back[i - 1]].prev

(* After any mix of insertions and removals at either end and removals     *)
(* anywhere, going len steps forward from the head and len steps back from *)
(* the tail meets the same allocated nodes in opposite orders and ends     *)
(* there; no other node is allocated, and none once list_free has          *)
(* returned.                                                               *)
WellLinked ==
    /\ Running =>
        /\ At[len] = Null /\ Back[len] = Null
        /\ \A i \in 0 .. len - 1 : At[i] # Null /\ Back[i] = At[len - 1 - i]
        /\ {n \in Node : node[n] # Null} = {At[i] : i \in 0 .. len - 1}
    /\ ~alive => Unused = Node

(* Taking a node out leaves the data and the order of all the others, seen *)
(* from the tail, to the abstract list; an insertion inside included, the  *)
(* list read backwards is the one the caller asked for.                    *)
Items == IF alive THEN [i \in 1 .. len |-> node[Back[len - i]].data] ELSE <<>>
L == INSTANCE AbstractList WITH items <- Items
ImplementsList == L!Spec

(* vlib.h:528-534 and README.md say list_insert_at inserts at an index:    *)
(* every one of the len items is then met going forward from the head, as  *)
(* list_get, list_remove and list_free do.                                 *)
ForwardMeetsAll == alive => \A i \in 0 .. len - 1 : At[i] # Null
=============================================================================
