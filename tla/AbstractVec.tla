---------------------------- MODULE AbstractVec ----------------------------
(***************************************************************************)
(* What the growing and the fixed-size vector promise (vlib.h 259-380,     *)
(* README): a sequence indexed from 0, pushed and popped at its end.       *)
(***************************************************************************)
EXTENDS Integers, SequencesExt

CONSTANTS Value, Null

VARIABLES
    items,
    reply    \* the last call: its name, result code, value given, index given or found

vars == <<items, reply>>
Answer(op, code, out, idx) == [op |-> op, code |-> code, out |-> out, idx |-> idx]

(* The name first: what a call gives out depends on which one it is. *)
Says(op, code, out, idx) == reply'.op = op /\ reply' = Answer(op, code, out, idx)

Init == items = <<>> /\ reply = Answer("new", 0, Null, 0)

Push(v) == Says("push", 0, Null, 0) /\ items' = Append(items, v)

Pop == /\ items # <<>>
       /\ Says("pop", 0, Last(items), 0)
       /\ items' = Front(items)

TakeOut(i) == /\ i < Len(items)
              /\ Says("remove_at", 0, items[i + 1], i)
              /\ items' = RemoveAt(items, i + 1)

GetAt(i) == /\ i < Len(items)
            /\ Says("get_at", 0, items[i + 1], i)
            /\ UNCHANGED items

(* The first element that compares equal, and its index *)
Find(v, i) == /\ i < Len(items) /\ items[i + 1] = v /\ \A j \in 1 .. i : items[j] # v
              /\ Says("find", 0, v, i)
              /\ UNCHANGED items

NotFound(v) == (\A i \in DOMAIN items : items[i] # v) /\ Says("find", 1, Null, 0)

IsInOrder(s) == \A i, j \in DOMAIN s : i < j => s[i] <= s[j]

(* A binary search tells whether the value is there, in a vector that is   *)
(* sorted and not empty.                                                   *)
Search(v) == /\ \E code \in {0, 1} : Says("search", code, v, 0)
             /\ items # <<>> /\ IsInOrder(items) => (reply'.code = 0 <=> v \in ToSet(items))
             /\ UNCHANGED items

Sort == /\ \A v \in Value : Cardinality({i \in DOMAIN items : items[i] = v})
                             = Cardinality({i \in DOMAIN items' : items'[i] = v})
        /\ Len(items') = Len(items) /\ IsInOrder(items')
        /\ Says("sort", 0, Null, 0)

(* Every element is handed over, in order. *)
Free == Says("free", 0, items, 0) /\ UNCHANGED items

(* A push may always be refused for want of room, the others only for want *)
(* of an element.                                                          *)
Refuse(op, i) == Says(op, 1, Null, i)

Fails == /\ \/ Refuse("push", 0)
            \/ items = <<>> /\ Refuse("pop", 0)
            \/ \E op \in {"remove_at", "get_at"} : Refuse(op, Len(items))
            \/ \E v \in Value : NotFound(v)
         /\ UNCHANGED items

Next == \/ \E v \in Value : Push(v) \/ Search(v) \/ \E i \in 0 .. Len(items) : Find(v, i)
        \/ Pop \/ Sort \/ Free
        \/ \E i \in 0 .. Len(items) : TakeOut(i) \/ GetAt(i)
        \/ Fails
        \/ Says("new", 0, Null, 0) /\ items' = <<>>

Spec == Init /\ [][Next]_vars
=============================================================================
