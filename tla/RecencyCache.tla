--------------------------- MODULE RecencyCache ---------------------------
(***************************************************************************)
(* What an lru promises its caller (vlib.h 1051-1101): the associations in *)
(* order of last use, at most cap of them, the least recently used one     *)
(* giving way, and every value that is replaced or evicted handed to the   *)
(* free callback.                                                          *)
(***************************************************************************)
EXTENDS Naturals, Sequences

CONSTANTS Key, Value, Null, Caps

VARIABLES
    cap,     \* the capacity, chosen when the cache is created
    order,   \* the associations, most recently used first
    reply

vars == <<cap, order, reply>>

Answer(op, k, code, out) == [op |-> op, key |-> k, code |-> code, out |-> out]
Pair(k, v) == <<[key |-> k, val |-> v]>>
Holds(k) == \E i \in DOMAIN order : order[i].key = k
Place(k) == CHOOSE i \in DOMAIN order : order[i].key = k
ValueOf(k) == order[Place(k)].val
Others(k) == SubSeq(order, 1, Place(k) - 1) \o SubSeq(order, Place(k) + 1, Len(order))

Init == cap \in Caps /\ order = <<>> /\ reply = Answer("new", Null, 0, Null)

Replace(k, v) == /\ Holds(k)
                 /\ reply' = Answer("update", k, 0, ValueOf(k))
                 /\ order' = Pair(k, v) \o Others(k)

Enter(k, v) == /\ ~Holds(k)
               /\ Len(order) < cap
               /\ reply' = Answer("update", k, 0, Null)
               /\ order' = Pair(k, v) \o order

(* A cache of capacity 0 evicts what it was just given. *)
EnterAndEvict(k, v) ==
    LET all == Pair(k, v) \o order
    IN  /\ ~Holds(k)
        /\ Len(order) = cap
        /\ reply' = Answer("update", k, 0, all[cap + 1].val)
        /\ order' = SubSeq(all, 1, cap)

Refuse(k) == /\ ~Holds(k)
             /\ reply' = Answer("update", k, 1, Null)
             /\ UNCHANGED order

Hit(k) == /\ Holds(k)
          /\ reply' = Answer("get", k, 0, ValueOf(k))
          /\ order' = Pair(k, ValueOf(k)) \o Others(k)

Miss(k) == /\ ~Holds(k)
           /\ reply' = Answer("get", k, 1, Null)
           /\ UNCHANGED order

Use == UNCHANGED cap /\
    (\/ \E k \in Key, v \in Value : Replace(k, v) \/ Enter(k, v) \/ EnterAndEvict(k, v)
     \/ \E k \in Key : Refuse(k) \/ Hit(k) \/ Miss(k))

Clear(op) == reply' = Answer(op, Null, 0, Null) /\ order' = <<>>

Free == Clear("free") /\ UNCHANGED cap
New == Clear("new") /\ cap' \in Caps

Next == Use \/ Free \/ New

Spec == Init /\ [][Next]_vars
=============================================================================
