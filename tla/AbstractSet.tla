---------------------------- MODULE AbstractSet ----------------------------
(***************************************************************************)
(* What the set of this library promises (vlib.h 987-1049): at most one    *)
(* member of each class of equal keys, the one inserted first, until it is *)
(* deleted and handed to the free callback.                                *)
(***************************************************************************)
CONSTANTS Key, Canon, Null

VARIABLES
    member,   \* canonical key -> the key stored for its class, or Null
    reply

vars == <<member, reply>>

Answer(op, k, code, out) == [op |-> op, key |-> k, code |-> code, out |-> out]
Empty == [k \in Key |-> Null]
At(k) == member[Canon[k]]

Init == member = Empty /\ reply = Answer("new", Null, 0, Null)

Insert(k) == /\ At(k) = Null
             /\ reply' = Answer("insert", k, 0, Null)
             /\ member' = [member EXCEPT ![Canon[k]] = k]

(* Refused: an equal key is a member already, or memory is short. *)
Refuse(k) == reply' = Answer("insert", k, 1, Null) /\ UNCHANGED member

Has(k) == /\ reply' = Answer("has", k, IF At(k) = Null THEN 1 ELSE 0, Null)
          /\ UNCHANGED member

Delete(k) == /\ reply' = Answer("delete", k, IF At(k) = Null THEN 1 ELSE 0, At(k))
             /\ member' = [member EXCEPT ![Canon[k]] = Null]

Clear(op) == reply' = Answer(op, Null, 0, Null) /\ member' = Empty

Next == \/ \E k \in Key : Insert(k) \/ Refuse(k) \/ Has(k) \/ Delete(k)
        \/ \E op \in {"free", "new"} : Clear(op)

Spec == Init /\ [][Next]_vars
=============================================================================
