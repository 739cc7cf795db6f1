---------------------------- MODULE BinarySearch ----------------------------
(***************************************************************************)
(* binary_search of src/binary_search.c over a sorted array, one step per  *)
(* comparison.                                                             *)
(***************************************************************************)
EXTENDS Arrays

VARIABLES arr, len, needle, lo, hi,
          tried,    \* history: the comparisons so far
          result    \* 0 found, -1 not found, 1 while the call runs

vars == <<arr, len, needle, lo, hi, tried, result>>
input == <<arr, len, needle>>
---------------------------------------------------------------------------
Init == /\ arr \in Arrays /\ \A p, q \in DOMAIN arr : p <= q => arr[p] <= arr[q]
        /\ len \in 0 .. MaxLen /\ DOMAIN arr = 0 .. len - 1
        /\ needle \in Rank
        /\ lo = 0 /\ hi = len /\ tried = 0 /\ result = 1

Middle == lo + (hi - lo) \div 2

(* Of an empty array the first element is compared all the same: whatever  *)
(* the memory there holds decides.                                         *)
Sign == IF Middle < len THEN {arr[Middle] - needle} ELSE {-1, 0, 1}

(* Mutant: the lower end does not pass the middle. *)
HalveStays ==
    /\ result = 1
    /\ \E cmp \in Sign :
           LET l == IF cmp < 0 THEN Middle ELSE lo
               h == IF cmp > 0 THEN Middle ELSE hi
           IN  /\ lo' = l /\ hi' = h
               /\ result' = IF cmp = 0 THEN 0 ELSE IF l < h THEN 1 ELSE -1
    /\ tried' = IF tried < 9 THEN tried + 1 ELSE tried
    /\ UNCHANGED input

Halve ==
    /\ result = 1
    /\ \E cmp \in Sign :
           LET l == IF cmp < 0 THEN Middle + 1 ELSE lo
               h == IF cmp > 0 THEN Middle ELSE hi
           IN  /\ lo' = l /\ hi' = h
               /\ result' = IF cmp = 0 THEN 0 ELSE IF l < h THEN 1 ELSE -1
    /\ tried' = tried + 1
    /\ UNCHANGED input

(* The call goes on until it returns: nothing else runs in between. *)
Spec == Init /\ [][Halve]_vars /\ WF_vars(Halve)
---------------------------------------------------------------------------
(* The places still in question lie in the array, and every comparison     *)
(* halved them: no more are made than the length has binary digits.        *)
Halved == /\ 0 <= lo /\ hi <= len
          /\ len > 0 /\ result = 1 => lo < hi /\ (hi - lo) * 2 ^ tried <= len
          /\ tried > 0 => 2 ^ (tried - 1) <= IF len = 0 THEN 1 ELSE len

(* If the needle is anywhere in the array, it is where the search goes on. *)
StillAhead == result # 0 => \A p \in DOMAIN arr : arr[p] = needle => lo <= p /\ p < hi

(* vlib.h:88: 0 if the needle is in the array, -1 if it is not. *)
Decides == result # 1 /\ len > 0 => (result = 0 <=> \E p \in DOMAIN arr : arr[p] = needle)
=============================================================================
