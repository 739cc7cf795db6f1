------------------------------- MODULE Queue -------------------------------
(***************************************************************************)
(* The queue of src/queue.c: singly linked nodes from head to tail.  The   *)
(* next pointer of a new node is not initialised (queue.c:72-81): it holds *)
(* whatever the block held, any pointer at all.                            *)
(***************************************************************************)
EXTENDS Naturals, Sequences, FiniteSets

CONSTANTS
    Value, Null,
    Node       \* the heap blocks qnode_new can return: bounds the length

Pointer == Node \cup {Null}
Contents == [data : Value, next : Pointer]
QueueAssumption == IsFiniteSet(Node) /\ Null \notin Node \cup Value \cup Contents

VARIABLES
    node,    \* the allocated nodes, Null where there is none
    head,    \* q->head
    tail,    \* q->tail
    len,     \* q->len
    alive,   \* FALSE from queue_free to the next queue_new
    reply

vars == <<node, head, tail, len, alive, reply>>
---------------------------------------------------------------------------
Reply == [op : {"new", "free", "enque", "deque", "peek"}, code : {0, 1}, out : Value \cup {Null}]
Answer(op, code, out) == [op |-> op, code |-> code, out |-> out]
Unused == {n \in Node : node[n] = Null}

Init == /\ node = [n \in Node |-> Null] /\ head = Null /\ tail = Null /\ len = 0
        /\ alive = TRUE /\ reply = Answer("new", 0, Null)

(* queue_new, over the queue that was freed *)
Renew == /\ ~alive
         /\ head' = Null /\ tail' = Null /\ len' = 0
         /\ alive' = TRUE /\ reply' = Answer("new", 0, Null)
         /\ UNCHANGED node

(* garbage: what the block that malloc returned holds where next will be *)
Enque(v, garbage) ==
    /\ alive
    /\ \E n \in Unused :
          /\ node' = [m \in Node |-> IF m = n THEN [data |-> v, next |-> garbage]
                                     ELSE IF m = tail /\ head # Null
                                     THEN [node[m] EXCEPT !.next = n]
                                     ELSE node[m]]
          /\ tail' = n
          /\ head' = IF head = Null THEN n ELSE head
    /\ len' = len + 1
    /\ reply' = Answer("enque", 0, Null)
    /\ UNCHANGED alive

EnqueFails == /\ alive
              /\ reply' = Answer("enque", 1, Null)
              /\ UNCHANGED <<node, head, tail, len, alive>>

Deque ==
    /\ alive /\ len > 0
    /\ head' = IF len = 1 THEN Null ELSE node[head].next
    /\ tail' = IF len = 1 THEN Null ELSE tail
    /\ node' = [node EXCEPT ![head] = Null]
    /\ len' = len - 1
    /\ reply' = Answer("deque", 0, node[head].data)
    /\ UNCHANGED alive

(* queue_deque and queue_peek test the length before they follow head;     *)
(* queue_free leaves head and tail where they were but clears the length,  *)
(* so both still answer after it                                           *)
FindEmpty(op) ==
    /\ len = 0
    /\ reply' = Answer(op, 1, Null)
    /\ UNCHANGED <<node, head, tail, len, alive>>

Peek ==
    /\ len > 0
    /\ reply' = Answer("peek", 0, node[head].data)
    /\ UNCHANGED <<node, head, tail, len, alive>>

(* At[i]: the node i steps from the head *)
At[i \in 0 .. Cardinality(Node)] == IF i = 0 THEN head ELSE node[At[i - 1]].next

Free ==
    /\ alive
    /\ node' = [n \in Node |-> IF \E i \in 0 .. len - 1 : At[i] = n THEN Null ELSE node[n]]
    /\ len' = 0
    /\ alive' = FALSE
    /\ reply' = Answer("free", 0, Null)
    /\ UNCHANGED <<head, tail>>

Next ==
    \/ \E v \in Value, garbage \in Pointer : Enque(v, garbage)
    \/ EnqueFails \/ Deque \/ Peek
    \/ \E op \in {"deque", "peek"} : FindEmpty(op)
    \/ Free \/ Renew

Spec == Init /\ [][Next]_vars
---------------------------------------------------------------------------
TypeOK ==
    /\ node \in [Node -> Contents \cup {Null}]
    /\ head \in Pointer /\ tail \in Pointer
    /\ len \in 0 .. Cardinality(Node)
    /\ alive \in BOOLEAN
    /\ reply \in Reply

(* However long the queue has run, the len - 1 next pointers that deque    *)
(* and free may follow have all been written by a later enque: they lead   *)
(* through distinct allocated nodes to the tail, and garbage is met only   *)
(* past the tail, where nothing looks.  Once the queue is freed no node is *)
(* left, and the length that guards the dangling head and tail is zero.    *)
Chained ==
    /\ ~alive => len = 0 /\ Unused = Node
    /\ alive =>
        /\ (head = Null) <=> (len = 0)
        /\ (tail = Null) <=> (len = 0)
        /\ \A i \in 0 .. len - 1 : At[i] \in Node /\ node[At[i]] # Null
        /\ \A i, j \in 0 .. len - 1 : At[i] = At[j] => i = j
        /\ len > 0 => At[len - 1] = tail
        /\ {n \in Node : node[n] # Null} = {At[i] : i \in 0 .. len - 1}

(* The queue is first in, first out. *)
Items == IF alive THEN [i \in 1 .. len |-> node[At[i - 1]].data] ELSE <<>>
F == INSTANCE Fifo WITH items <- Items
ImplementsFifo == F!Spec
=============================================================================
