----------------------------- MODULE OrderedSet -----------------------------
(***************************************************************************)
(* What the AVL tree promises (vlib.h 653-723), as far as the code keeps   *)
(* it: a set of keys, one call per change, and walks that meet every key   *)
(* once, the one in order in ascending order.  A deletion's answer is not  *)
(* part of it: success means that the key was there, failure means         *)
(* nothing.                                                                *)
(***************************************************************************)
EXTENDS Integers, SequencesExt

CONSTANTS Key, Null

VARIABLES
    members,
    reply    \* the last call: its name, key, result code and the keys it met

vars == <<members, reply>>
Orders == {"pre_order", "in_order", "post_order"}
Answer(op, k, code, out) == [op |-> op, key |-> k, code |-> code, out |-> out]

Init == members = {} /\ reply = Answer("new", Null, 0, <<>>)

Insert(k) == /\ k \notin members
             /\ reply' = Answer("insert", k, 0, <<>>)
             /\ members' = members \cup {k}

(* The key is there already, or memory is short. *)
Refuse(k) == reply' = Answer("insert", k, 1, <<>>) /\ UNCHANGED members

(* A deletion that succeeds hands a key to the callback: which, is left    *)
(* open.                                                                   *)
Delete(k, code) == /\ code = 0 => k \in members
                   /\ \E out \in IF code = 0 THEN {<<h>> : h \in members} ELSE {<<>>} :
                          reply' = Answer("delete", k, code, out)
                   /\ members' = members \ {k}

Ascending(s) == \A i \in 1 .. Len(s) - 1 : s[i] < s[i + 1]

Walk(order) == /\ reply'.op = order /\ reply'.key = Null /\ reply'.code = 0
               /\ ToSet(reply'.out) = members /\ IsInjective(reply'.out)
               /\ order = "in_order" => Ascending(reply'.out)
               /\ UNCHANGED members

WalkFails(order) == reply' = Answer(order, Null, 1, <<>>) /\ UNCHANGED members

Clear(op) == reply' = Answer(op, Null, 0, <<>>) /\ members' = {}

Next == \/ \E k \in Key : Insert(k) \/ Refuse(k) \/ \E code \in {0, 1} : Delete(k, code)
        \/ \E order \in Orders : Walk(order) \/ WalkFails(order)
        \/ \E op \in {"free", "new"} : Clear(op)

Spec == Init /\ [][Next]_vars
=============================================================================
