---------------------------- MODULE AbstractList ----------------------------
(***************************************************************************)
(* What the list of this library promises (vlib.h 496-580): a sequence,    *)
(* indexed from 0, with insertion and removal at any of its positions.     *)
(***************************************************************************)
EXTENDS Naturals, SequencesExt

CONSTANTS Value, Null

VARIABLES
    items,   \* the data from the head on
    reply    \* the last call: its name, position, result code and the value it gave

Answer(op, at, code, out) == [op |-> op, at |-> at, code |-> code, out |-> out]
vars == <<items, reply>>

Init == items = <<>> /\ reply = Answer("new", Null, 0, Null)

(* list_insert_at, list_append (at the length), list_prepend (at 0) *)
Insert(v, i) == /\ i <= Len(items)
                /\ reply' = Answer("insert", i, 0, Null)
                /\ items' = InsertAt(items, i + 1, v)

Get(i) == /\ i < Len(items)
          /\ reply' = Answer("get", i, 0, items[i + 1])
          /\ UNCHANGED items

TakeOut(op, i) == /\ i < Len(items)
                  /\ reply' = Answer(op, i, 0, items[i + 1])
                  /\ items' = RemoveAt(items, i + 1)

(* list_remove takes out the first equal item *)
IsFirst(v, i) == items[i + 1] = v /\ \A j \in 1 .. i : items[j] # v
TakeOutFirst(v) == \E i \in 0 .. Len(items) - 1 : IsFirst(v, i) /\ TakeOut("remove", i)
Missing(v) == (\A i \in DOMAIN items : items[i] # v) /\ reply' = Answer("remove", Null, 1, Null)

OutOfRange(op, i) == i > Len(items) /\ reply' = Answer(op, i, 1, Null)

Clear(op) == reply' = Answer(op, Null, 0, Null) /\ items' = <<>>

Next ==
    \/ \E v \in Value, i \in 0 .. Len(items) : Insert(v, i)
    \/ \E i \in 0 .. Len(items) - 1 : Get(i) \/ TakeOut("remove_at", i)
    \/ \E v \in Value : TakeOutFirst(v) \/ (Missing(v) /\ UNCHANGED items)
    \/ \E op \in {"insert", "get", "remove_at"} : OutOfRange(op, Len(items) + 1) /\ UNCHANGED items
    \/ \E op \in {"free", "new"} : Clear(op)

Spec == Init /\ [][Next]_vars
=============================================================================
