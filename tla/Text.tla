-------------------------------- MODULE Text --------------------------------
(***************************************************************************)
(* What vstr promises (vlib.h 188-257): a text that calls append to.  A    *)
(* failed append changes nothing, except that a text short enough for the  *)
(* inline buffer may be lost when it is about to outgrow it; and a text    *)
(* made without memory is one of cleared characters.                       *)
(***************************************************************************)
EXTENDS Naturals, Sequences

CONSTANTS Char, Small

VARIABLES
    text,
    reply    \* the last call, its result code and the characters given to it

vars == <<text, reply>>
Answer(op, code, given) == [op |-> op, code |-> code, given |-> given]
Cleared == [i \in 1 .. Small |-> 0]

Init == text = <<>> /\ reply = Answer("new", 0, <<>>)

Make == /\ reply'.op \in {"new", "from", "format"} /\ reply'.code = 0
        /\ \/ text' = reply'.given
           \/ reply'.op = "from" /\ Len(reply'.given) > Small /\ text' = Cleared

Push == /\ reply'.op = "push" /\ reply'.code = 0
        /\ text' = text \o reply'.given

PushFails == /\ reply'.op = "push" /\ reply'.code = 1
             /\ \/ UNCHANGED text
                \/ Len(text) <= Small /\ text' \in {<<>>, Cleared}

Next == Make \/ Push \/ PushFails

Spec == Init /\ [][Next]_vars
=============================================================================
