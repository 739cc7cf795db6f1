------------------------------ MODULE SmallVec ------------------------------
(***************************************************************************)
(* The vector that the macros of src/small_vec.h generate for a type and a *)
(* capacity: its elements are stored in the struct and it never grows.     *)
(***************************************************************************)
EXTENDS Naturals, Sequences

CONSTANTS Value, Null,
          Cap       \* the capacity given to SMALL_VEC_INIT

(* 0 stands for a slot cleared by memset. *)
SmallVecAssumption == 0 \notin Value /\ Null \notin Value /\ Cap \in Nat \ {0}

VARIABLES data, len, reply

vars == <<data, len, reply>>
---------------------------------------------------------------------------
Slot == 0 .. Cap - 1
Answer(op, code, out, idx) == [op |-> op, code |-> code, out |-> out, idx |-> idx]
Say(op, code, out, idx) == reply' = Answer(op, code, out, idx)

Init == data = [i \in Slot |-> 0] /\ len = 0 /\ reply = Answer("new", 0, Null, 0)

Push(v) == /\ len < Cap
           /\ data' = [data EXCEPT ![len] = v] /\ len' = len + 1
           /\ Say("push", 0, Null, 0)

Pop == /\ len > 0
       /\ data' = [data EXCEPT ![len - 1] = 0] /\ len' = len - 1
       /\ Say("pop", 0, data[len - 1], 0)

GetAt(i) == /\ i < len
            /\ Say("get_at", 0, data[i], i)
            /\ UNCHANGED <<data, len>>

(* Mutant: one element too few is moved down. *)
RemoveAtOneShort(i) ==
    /\ i < len
    /\ data' = [j \in Slot |-> IF j = len - 1 THEN 0
                               ELSE IF i <= j /\ j < len - 2 THEN data[j + 1] ELSE data[j]]
    /\ len' = len - 1
    /\ Say("remove_at", 0, data[i], i)

(* The later elements move one place down, the slot they leave is cleared. *)
RemoveAt(i) ==
    /\ i < len
    /\ data' = [j \in Slot |-> IF j = len - 1 THEN 0
                               ELSE IF i <= j /\ j < len - 1 THEN data[j + 1] ELSE data[j]]
    /\ len' = len - 1
    /\ Say("remove_at", 0, data[i], i)

Refuse == /\ \/ len = Cap /\ Say("push", 1, Null, 0)
             \/ len = 0 /\ Say("pop", 1, Null, 0)
             \/ Say("get_at", 1, Null, len) \/ Say("remove_at", 1, Null, len)
          /\ UNCHANGED <<data, len>>

Next == \/ \E v \in Value : Push(v)
        \/ \E i \in Slot : GetAt(i) \/ RemoveAt(i)
        \/ Pop \/ Refuse

Spec == Init /\ [][Next]_vars
---------------------------------------------------------------------------
(* Exactly the slots below len hold values, whatever was pushed, popped    *)
(* and removed at the first, an inner or the last position.                *)
CutAtLen == /\ len \in 0 .. Cap
            /\ \A i \in Slot : IF i < len THEN data[i] \in Value ELSE data[i] = 0

(* The fixed-size vector is a sequence. *)
Items == [i \in 1 .. len |-> data[i - 1]]
V == INSTANCE AbstractVec WITH items <- Items
ImplementsVec == V!Spec
=============================================================================
