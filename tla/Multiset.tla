------------------------------ MODULE Multiset ------------------------------
(* What any priority queue keeps, whatever its order: the values inserted  *)
(* and not yet polled, each as often as it was inserted.                   *)
EXTENDS Naturals

CONSTANTS Value, Null

VARIABLES
    count,   \* how often each value is held
    reply

Answer(op, code, out) == [op |-> op, code |-> code, out |-> out]
vars == <<count, reply>>
Nothing == [v \in Value |-> 0]

Init == count = Nothing /\ reply = Answer("new", 0, Null)

Insert(v) == /\ reply' = Answer("insert", 0, Null)
             /\ count' = [count EXCEPT ![v] = @ + 1]

Poll(v) == /\ count[v] > 0
           /\ reply' = Answer("delete", 0, v)
           /\ count' = [count EXCEPT ![v] = @ - 1]

Refuse == reply' = Answer("insert", 1, Null) /\ UNCHANGED count

FindEmpty == count = Nothing /\ reply' = Answer("delete", 1, Null) /\ UNCHANGED count

Clear == reply' = Answer("new", 0, Null) /\ count' = Nothing

Next == (\E v \in Value : Insert(v) \/ Poll(v)) \/ Refuse \/ FindEmpty \/ Clear

Spec == Init /\ [][Next]_vars
=============================================================================
