-------------------------------- MODULE Fifo --------------------------------
(* What the queue of this library promises (vlib.h 414-468): items leave   *)
(* in the order they came, each once, and a failed call changes nothing.   *)
EXTENDS Naturals, Sequences

CONSTANTS Value, Null

VARIABLES items, reply

Answer(op, code, out) == [op |-> op, code |-> code, out |-> out]
vars == <<items, reply>>

Init == items = <<>> /\ reply = Answer("new", 0, Null)

Enque(v) == reply' = Answer("enque", 0, Null) /\ items' = Append(items, v)
Refuse == reply' = Answer("enque", 1, Null) /\ UNCHANGED items

Deque == /\ items # <<>>
         /\ reply' = Answer("deque", 0, Head(items))
         /\ items' = Tail(items)

Peek == /\ items # <<>>
        /\ reply' = Answer("peek", 0, Head(items))
        /\ UNCHANGED items

FindEmpty(op) == items = <<>> /\ reply' = Answer(op, 1, Null) /\ UNCHANGED items

Clear(op) == reply' = Answer(op, 0, Null) /\ items' = <<>>

Next == \/ \E v \in Value : Enque(v)
        \/ Refuse \/ Deque \/ Peek
        \/ \E op \in {"deque", "peek"} : FindEmpty(op)
        \/ \E op \in {"free", "new"} : Clear(op)

Spec == Init /\ [][Next]_vars
=============================================================================
