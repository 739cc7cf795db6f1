-------------------------------- MODULE Vstr --------------------------------
(***************************************************************************)
(* The string of src/vstr.c: a union of an inline buffer and a pointer to  *)
(* a heap buffer with its capacity and length.  A push that outgrows the   *)
(* inline buffer overwrites it with the description of a heap buffer.      *)
(* vstr_new_len, vstr_from and vstr_format make a string of their own; the *)
(* actions named after them stand for vstr_free of the string at hand and  *)
(* the making of the next.                                                 *)
(***************************************************************************)
EXTENDS Integers, SequencesExt

CONSTANTS
    Char,     \* characters other than the terminator, which is 0
    Small,    \* VSTR_MAX_SMALL_SIZE
    Large,    \* VSTR_MAX_LARGE_SIZE
    MaxGiven  \* bound on the length of the strings clients pass

SizeAssumption == /\ Char \subseteq 1 .. Large /\ MaxGiven \in 0 .. Large - 1
                  /\ Small \in Nat \ {0} /\ Large \in Nat /\ Small + 2 < Large

VARIABLES
    is_large,
    small_avail,
    data,     \* the inline buffer or the heap buffer, whose capacity is its length
    len,      \* lg.len, of a heap buffer
    fault,    \* an assertion that failed, or "none"
    reply

vars == <<is_large, small_avail, data, len, fault, reply>>
---------------------------------------------------------------------------
Answer(op, code, given) == [op |-> op, code |-> code, given |-> given]
Say(op, code, given) == reply' = Answer(op, code, given)
Strings == BoundedSeq(Char, MaxGiven)
Zeros(n) == [i \in 1 .. n |-> 0]
Padded(s, n) == s \o Zeros(n - Len(s))
Length == IF is_large THEN len ELSE Small - small_avail
Content == SubSeq(data, 1, Length)
Running == fault = "none"

BecomesSmall(s, avail) == /\ is_large' = FALSE /\ small_avail' = avail
                          /\ data' = Padded(s, Small) /\ len' = 0
BecomesLarge(d, n, avail) == is_large' = TRUE /\ small_avail' = avail /\ data' = d /\ len' = n

Init == /\ is_large = FALSE /\ small_avail = Small /\ data = Zeros(Small) /\ len = 0
        /\ fault = "none" /\ reply = Answer("new", 0, <<>>)

(* vstr_new_len: a capacity is reserved, the text is empty. *)
NewLen(n) == /\ Running
             /\ IF n > Small THEN BecomesLarge(Zeros(n + 1), 0, 0)
                ELSE BecomesSmall(<<>>, Small)
             /\ Say("new", 0, <<>>)
             /\ UNCHANGED fault

From(s) == /\ Running /\ Len(s) < Large
           /\ IF Len(s) > Small THEN BecomesLarge(Padded(s, Len(s) + 1), Len(s), 0)
              ELSE BecomesSmall(s, Small - Len(s))
           /\ Say("from", 0, s)
           /\ UNCHANGED fault

(* vstr_from, vstr_from_len without memory: a small string with no room *)
FromFails(s) == /\ Running /\ Len(s) > Small
                /\ BecomesSmall(<<>>, 0)
                /\ Say("from", 0, s)
                /\ UNCHANGED fault

(* vstr_format of arguments that print as s: vstr_new_len, then the length *)
Format(s) == LET size == Len(s) + 1
             IN  /\ Running /\ s # <<>>
                 /\ IF size > Small THEN BecomesLarge(Padded(s, size + 1), size - 1, 0)
                    ELSE BecomesSmall(s, Small - size + 1)
                 /\ Say("format", 0, s)
                 /\ UNCHANGED fault

(* The assertions on the memory for a heap buffer and on empty output      *)
Aborts == /\ Running /\ fault' = "assert"
          /\ UNCHANGED <<is_large, small_avail, data, len, reply>>
---------------------------------------------------------------------------
Written(d, n, s) == [i \in DOMAIN d |-> IF n < i /\ i <= n + Len(s) THEN s[i - n] ELSE d[i]]
Kept(d, n) == [code |-> 1, data |-> d, len |-> n]
Pushed(d, n, s) == [code |-> 0, data |-> Written(d, n, s), len |-> n + Len(s)]

(* vstr_lg_push_char on a buffer d of n characters, vstr_realloc_lg having *)
(* memory or not                                                           *)
LargePushChar(d, n, c, mem) ==
    LET room == IF n = Len(d) - 1 THEN Padded(SubSeq(d, 1, n), 2 * Len(d)) ELSE d
    IN  IF d = <<>> \/ (n = Len(d) - 1 /\ ~mem) THEN Kept(d, n)
        ELSE IF n + 1 > Large THEN Kept(room, n) ELSE Pushed(room, n, <<c>>)

(* vstr_lg_push_string, the same *)
LargePushString(d, n, s, mem) ==
    LET full == n + Len(s) > Len(d) - 1
        room == IF full THEN Padded(SubSeq(d, 1, n), Len(d) + Len(s)) ELSE d
    IN  IF d = <<>> \/ n + Len(s) > Large \/ (full /\ ~mem) THEN Kept(d, n)
        ELSE Pushed(room, n, s)

Enlarged(r, given) == BecomesLarge(r.data, r.len, small_avail) /\ Say("push", r.code, given)

(* vstr_sm_push_char, vstr_sm_push_string *)
PushSmall(s) == /\ Running /\ ~is_large /\ Len(s) <= small_avail
                /\ data' = Written(data, Length, s)
                /\ small_avail' = small_avail - Len(s)
                /\ Say("push", 0, s)
                /\ UNCHANGED <<is_large, len, fault>>

PushLarge == /\ Running /\ is_large
             /\ \E mem \in BOOLEAN :
                    \/ \E c \in Char : Enlarged(LargePushChar(data, len, c, mem), <<c>>)
                    \/ \E s \in Strings : Enlarged(LargePushString(data, len, s, mem), s)
             /\ UNCHANGED fault

(* vstr_make_lg takes a full inline buffer over. *)
OutgrowByChar(c) == /\ Running /\ ~is_large /\ small_avail = 0
                    /\ Enlarged(LargePushChar(Padded(data, Small + 2), Small, c, TRUE), <<c>>)
                    /\ UNCHANGED fault

(* The union already holds an empty description when the allocation is     *)
(* found to have failed: the inline characters are cleared.                *)
OutgrowByCharFails(c) == /\ Running /\ ~is_large /\ small_avail = 0
                         /\ data' = Zeros(Small)
                         /\ Say("push", 1, <<c>>)
                         /\ UNCHANGED <<is_large, small_avail, len, fault>>

(* vstr_make_lg_len takes the text over; without memory the string becomes *)
(* a large one without a buffer.                                           *)
OutgrowByString(s) ==
    /\ Running /\ ~is_large /\ Len(s) > small_avail
    /\ \/ \E mem \in BOOLEAN :
              Enlarged(LargePushString(Append(Content, 0), Length, s, mem), s)
       \/ Enlarged(LargePushString(<<>>, 0, s, TRUE), s)
    /\ UNCHANGED fault

Next == \/ \E n \in 0 .. MaxGiven : NewLen(n)
        \/ \E s \in Strings : \/ From(s) \/ FromFails(s) \/ Format(s)
                              \/ PushSmall(s) \/ OutgrowByString(s)
        \/ \E c \in Char : OutgrowByChar(c) \/ OutgrowByCharFails(c)
        \/ PushLarge \/ Aborts

Spec == Init /\ [][Next]_vars
---------------------------------------------------------------------------
(* Mutant: where one is a prefix of the other, the one given first wins. *)
CmpPrefixFirst(a, b) ==
    LET n == IF Len(a) < Len(b) THEN Len(a) ELSE Len(b)
        diff == {i \in 1 .. n : a[i] # b[i]}
    IN  IF diff # {} THEN LET i == CHOOSE i \in diff : \A j \in diff : i <= j IN a[i] - b[i]
        ELSE IF Len(a) = Len(b) THEN 0 ELSE 1

(* vstr_cmp of texts without terminators in them: strncmp over the shorter *)
(* length, and of two that agree there the shorter is the greater          *)
Cmp(a, b) ==
    LET n == IF Len(a) < Len(b) THEN Len(a) ELSE Len(b)
        diff == {i \in 1 .. n : a[i] # b[i]}
    IN  IF diff # {} THEN LET i == CHOOSE i \in diff : \A j \in diff : i <= j IN a[i] - b[i]
        ELSE IF Len(a) = Len(b) THEN 0 ELSE IF Len(a) < Len(b) THEN 1 ELSE -1

TypeOK ==
    /\ is_large \in BOOLEAN /\ small_avail \in 0 .. Small /\ len \in 0 .. Large
    /\ data \in Seq(Char \cup {0}) /\ (~is_large => Len(data) = Small /\ len = 0)
    /\ fault \in {"none", "assert"}

(* vstr_data is a C string: after the text all of the buffer is 0, and a   *)
(* heap buffer, if the string has one, holds at least one such character.  *)
(* A full inline buffer ends in the byte of small_avail and is_large.      *)
ZeroTerminated ==
    /\ \A i \in DOMAIN data : i > Length => data[i] = 0
    /\ is_large => len < Len(data) \/ (data = <<>> /\ len = 0)

(* vstr_cmp orders texts as a dictionary does in which the end of a text   *)
(* comes after every character; so it is 0 for equal texts only.           *)
CmpIsOrder ==
    0 \notin ToSet(Content) =>
        \A t \in Strings :
            LET a == Append(Content, Large + 1)
                b == Append(t, Large + 1)
                Less(x, y) == \E i \in DOMAIN x \cap DOMAIN y :
                                  x[i] < y[i] /\ \A j \in 1 .. i - 1 : x[j] = y[j]
            IN  /\ Cmp(Content, t) < 0 <=> Less(a, b)
                /\ Cmp(Content, t) > 0 <=> Less(b, a)

(* The string is a text that may be lost while it is small. *)
T == INSTANCE Text WITH text <- Content
ImplementsText == T!Spec
=============================================================================
