-------------------------------- MODULE Map --------------------------------
(***************************************************************************)
(* What a dictionary of this library promises its caller (vlib.h 891-985): *)
(* a partial function from keys to values, one reply per call, and a call  *)
(* that fails leaves the dictionary as it was.  HashTable implements this  *)
(* module; Lru relies on it for its two tables.                            *)
(***************************************************************************)
CONSTANTS
    Key,      \* the byte strings a client uses as keys
    Value,    \* the values a client stores
    Canon,    \* Canon[k]: the representative of the keys cmp_key equates to k
    Null      \* no value

VARIABLES
    map,      \* canonical key -> its value, Null when absent
    reply     \* what the last call answered

vars == <<map, reply>>

Answer(op, k, code, out) == [op |-> op, key |-> k, code |-> code, out |-> out]

Start == Answer("new", Null, 0, Null)

Empty == [k \in Key |-> Null]

Init == map = Empty /\ reply = Start

At(k) == map[Canon[k]]

(* Storing over an old value hands the old one to the free callback. *)
Insert(k, v) == /\ reply' = Answer("insert", k, 0, At(k))
                /\ map' = [map EXCEPT ![Canon[k]] = v]

TryInsert(k, v) == /\ At(k) = Null
                   /\ reply' = Answer("try_insert", k, 0, Null)
                   /\ map' = [map EXCEPT ![Canon[k]] = v]

(* Refused: the key is there already (try_insert) or memory is short. *)
Refuse(op, k) == /\ reply' = Answer(op, k, 1, Null)
                 /\ UNCHANGED map

Get(k) == /\ reply' = Answer("get", k, IF At(k) = Null THEN 1 ELSE 0, At(k))
          /\ UNCHANGED map

Has(k) == /\ reply' = Answer("has", k, IF At(k) = Null THEN 1 ELSE 0, Null)
          /\ UNCHANGED map

(* The removed value goes to the free callback. *)
Delete(k) == /\ reply' = Answer("delete", k, IF At(k) = Null THEN 1 ELSE 0, At(k))
             /\ map' = [map EXCEPT ![Canon[k]] = Null]

Clear(op) == /\ reply' = Answer(op, Null, 0, Null)
             /\ map' = Empty

Next ==
    \/ \E k \in Key, v \in Value : Insert(k, v) \/ TryInsert(k, v)
    \/ \E k \in Key, op \in {"insert", "try_insert"} : Refuse(op, k)
    \/ \E k \in Key : Get(k) \/ Has(k) \/ Delete(k)
    \/ \E op \in {"free", "new"} : Clear(op)

Spec == Init /\ [][Next]_vars
=============================================================================
