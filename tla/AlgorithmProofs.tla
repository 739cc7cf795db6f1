-------------------------- MODULE AlgorithmProofs --------------------------
(***************************************************************************)
(* bubble_sort, insertion_sort, quick_sort and binary_search for arrays of *)
(* every length over every set of ranks, and get_random_bytes for blocks   *)
(* of every size: the invariants that their loops keep, and what they give *)
(* the callers.  Then merge_sort, whose recursion is a stack of what is    *)
(* left to do, and most of whose invariant is about that stack: what its   *)
(* entries sort and join, how these lie in one another, and how high it    *)
(* can be.  They speak of the array that the program would have if what a  *)
(* merge has only in tmp were put back.  Then the binary tree: what a      *)
(* recursion on its nodes computes, the walks and the comparison by it,    *)
(* and the line of bt_bfs.  The theorems at the end are about the run of   *)
(* all the algorithms.                                                     *)
(***************************************************************************)
EXTENDS MCAlgorithms, DataLemmas

(* Exchanging two elements leaves each element once.                       *)
LEMMA ExchangedPermutes ==
    ASSUME NEW n \in Nat, NEW a, Permutes(a, n), NEW p \in 0 .. n - 1, NEW q \in 0 .. n - 1
    PROVE  /\ Permutes(Exchanged(a, p, q), n)
           /\ Exchanged(a, p, q) \in [0 .. n - 1 -> 0 .. n - 1]
           /\ \A x \in 0 .. n - 1 :
                 Exchanged(a, p, q)[x] = IF x = q THEN a[p] ELSE IF x = p THEN a[q] ELSE a[x]
<1> DEFINE b == Exchanged(a, p, q)
<1>1. a \in [0 .. n - 1 -> 0 .. n - 1] /\ \A x, y \in 0 .. n - 1 : a[x] = a[y] => x = y
  BY DEF Permutes
<1>2. /\ b \in [0 .. n - 1 -> 0 .. n - 1]
      /\ \A x \in 0 .. n - 1 : b[x] = IF x = q THEN a[p] ELSE IF x = p THEN a[q] ELSE a[x]
  BY <1>1 DEF Exchanged
<1> HIDE DEF b
<1>3. ASSUME NEW x \in 0 .. n - 1, NEW y \in 0 .. n - 1, b[x] = b[y] PROVE x = y
  BY <1>1, <1>2, <1>3
<1> QED BY <1>2, <1>3 DEF Permutes, b

(* The array before the call: each element is where it was.                *)
LEMMA UnsortedPermutes ==
    ASSUME NEW n \in Nat
    PROVE  Permutes(Unsorted(n), n) /\ \A x \in 0 .. n - 1 : Unsorted(n)[x] = x
BY DEF Unsorted, Permutes

(* Ranks of elements are integers.                                         *)
LEMMA RankIsInt ==
    ASSUME NEW n \in Nat, NEW r \in [0 .. n - 1 -> Rank], NEW a, Permutes(a, n)
    PROVE  \A x \in 0 .. n - 1 : a[x] \in 0 .. n - 1 /\ r[a[x]] \in Int
BY ArrayAssumption DEF Permutes

(* The arrays of a length.                                                 *)
LEMMA ArraysOfLength ==
    ASSUME NEW r \in Arrays, NEW n \in 0 .. MaxLen, DOMAIN r = 0 .. n - 1
    PROVE  n \in Nat /\ r \in [0 .. n - 1 -> Rank]
<1>1. n \in Nat
  BY ArrayAssumption
<1>2. PICK m \in 0 .. MaxLen : r \in [0 .. m - 1 -> Rank]
  BY DEF Arrays
<1> QED BY <1>1, <1>2
---------------------------------------------------------------------------
(* bubble_sort                                                             *)
BubbleInv == Bubble!TypeOK /\ Bubble!Settled

(* The first state of bubble_sort.                                         *)
LEMMA BubbleInit ==
    ASSUME Bubble!Init
    PROVE  BubbleInv
<1>1. /\ rank \in Arrays /\ len \in 0 .. MaxLen /\ DOMAIN rank = 0 .. len - 1
      /\ arr = Unsorted(len) /\ i = 0 /\ j = 0
  BY DEF Bubble!Init, Bubble!Arrays, Arrays, Bubble!Unsorted, Unsorted
<1>2. len \in Nat /\ rank \in [0 .. len - 1 -> Rank]
  BY <1>1, ArraysOfLength
<1>3. Permutes(arr, len) /\ \A p \in 0 .. len - 1 : arr[p] = p
  BY <1>1, <1>2, UnsortedPermutes
<1>4. Bubble!TypeOK
  BY <1>1, <1>2, <1>3 DEF Bubble!TypeOK, Bubble!Permutes, Permutes
<1>5. Bubble!Settled
  <2>1. \A p \in 0 .. len - 1 : ~(p >= len - 0)
    BY <1>2
  <2>2. 0 < len => 0 <= len - 1 - 0
    BY <1>2
  <2>3. \A q \in 0 .. 0 - 1 : FALSE
    OBVIOUS
  <2>4. \A p \in 0 .. len - 1 : \A q \in 0 .. p - 1 : arr[q] < arr[p]
    BY <1>2, <1>3
  <2> QED BY <1>1, <2>1, <2>2, <2>3, <2>4 DEF Bubble!Settled
<1> QED BY <1>4, <1>5 DEF BubbleInv

(* Every comparison and every new pass of bubble_sort.                     *)
LEMMA BubbleKeeps ==
    ASSUME BubbleInv, Bubble!Next
    PROVE  BubbleInv'
<1>1. /\ len \in Nat /\ len \in 0 .. MaxLen /\ rank \in [0 .. len - 1 -> Rank]
      /\ Permutes(arr, len) /\ i \in 0 .. len /\ j \in 0 .. len
  BY ArrayAssumption DEF BubbleInv, Bubble!TypeOK, Bubble!Permutes, Permutes
<1> DEFINE R(p) == rank[arr[p]]
<1>2. \A p \in 0 .. len - 1 : arr[p] \in 0 .. len - 1 /\ R(p) \in Int
  BY <1>1, RankIsInt
<1>3. /\ \A p \in 0 .. len - 1 : p >= len - i => \A q \in 0 .. p - 1 : R(q) <= R(p)
      /\ i < len => j <= len - 1 - i /\ \A q \in 0 .. j - 1 : R(q) <= R(j)
      /\ \A p \in 0 .. len - 1 : \A q \in 0 .. p - 1 : R(q) = R(p) => arr[q] < arr[p]
  BY DEF BubbleInv, Bubble!Settled, Bubble!NotAfter
<1>4. CASE Bubble!NextPass
  <2>1. /\ i < len /\ j >= len - 1 - i /\ i' = i + 1 /\ j' = 0
        /\ rank' = rank /\ len' = len /\ arr' = arr
    BY <1>4 DEF Bubble!NextPass, Bubble!input
  <2>2. j = len - 1 - i
    BY <1>1, <1>3, <2>1
  <2>3. Bubble!TypeOK'
    BY <1>1, <2>1 DEF Bubble!TypeOK, Bubble!Permutes, Permutes
  <2>4. ASSUME NEW p \in 0 .. len - 1, p >= len - (i + 1), NEW q \in 0 .. p - 1
        PROVE  R(q) <= R(p)
    <3>1. CASE p = j
      BY <1>3, <2>1, <3>1
    <3>2. CASE p # j
      <4>1. p >= len - i
        BY <1>1, <2>2, <2>4, <3>2
      <4> QED BY <1>3, <4>1
    <3> QED BY <3>1, <3>2
  <2>5. (i + 1 < len => 0 <= len - 1 - (i + 1)) /\ \A q \in 0 .. 0 - 1 : FALSE
    BY <1>1
  <2> HIDE DEF R
  <2>6. Bubble!Settled'
    BY <1>3, <2>1, <2>4, <2>5 DEF Bubble!Settled, Bubble!NotAfter, R
  <2> QED BY <2>3, <2>6 DEF BubbleInv
<1>5. CASE Bubble!Compare
  <2>1. /\ i < len /\ j < len - 1 - i /\ i' = i /\ j' = j + 1
        /\ arr' = (IF rank[arr[j]] > rank[arr[j + 1]] THEN Exchanged(arr, j, j + 1) ELSE arr)
        /\ rank' = rank /\ len' = len
    BY <1>5 DEF Bubble!Compare, Bubble!input, Bubble!Exchanged, Exchanged
  <2>2. j \in 0 .. len - 1 /\ j + 1 \in 0 .. len - 1 /\ j + 1 <= len - 1 - i /\ j + 1 < len - i
    BY <1>1, <2>1
  <2>3. CASE ~(R(j) > R(j + 1))
    <3>1. arr' = arr /\ R(j) <= R(j + 1)
      BY <1>2, <2>1, <2>2, <2>3
    <3>2. \A q \in 0 .. (j + 1) - 1 : R(q) <= R(j + 1)
      <4>1. ASSUME NEW q \in 0 .. (j + 1) - 1 PROVE R(q) <= R(j + 1)
        <5>1. q \in 0 .. len - 1 /\ (q = j \/ q \in 0 .. j - 1)
          BY <1>1, <2>2
        <5>2. R(q) <= R(j)
          BY <1>2, <1>3, <2>1, <2>2, <5>1
        <5> HIDE DEF R
        <5> QED BY <1>2, <2>2, <3>1, <5>1, <5>2
      <4> QED BY <4>1
    <3>3. Bubble!TypeOK'
      <4>1. i' \in 0 .. len' /\ j' \in 0 .. len' /\ len' \in 0 .. MaxLen
            /\ rank' \in [0 .. len' - 1 -> Rank]
        BY <1>1, <2>1, <2>2
      <4>2. Permutes(arr', len')
        BY <1>1, <2>1, <3>1
      <4>3. Bubble!Permutes(arr', len')
        BY <4>2 DEF Bubble!Permutes, Permutes
      <4> QED BY <4>1, <4>3 DEF Bubble!TypeOK, Bubble!Permutes
    <3>4. Bubble!Settled'
      BY <1>3, <2>1, <2>2, <3>1, <3>2 DEF Bubble!Settled, Bubble!NotAfter
    <3> QED BY <3>3, <3>4 DEF BubbleInv
  <2>4. CASE R(j) > R(j + 1)
    <3>x. arr' = Exchanged(arr, j, j + 1)
      BY <2>1, <2>4
    <3>1. /\ Permutes(arr', len)
          /\ \A p \in 0 .. len - 1 :
                arr'[p] = IF p = j + 1 THEN arr[j] ELSE IF p = j THEN arr[j + 1] ELSE arr[p]
      <4>1. /\ Permutes(Exchanged(arr, j, j + 1), len)
            /\ \A p \in 0 .. len - 1 :
                  Exchanged(arr, j, j + 1)[p]
                    = IF p = j + 1 THEN arr[j] ELSE IF p = j THEN arr[j + 1] ELSE arr[p]
        BY <1>1, <2>2, ExchangedPermutes
      <4> QED BY <3>x, <4>1
    <3>2. Bubble!TypeOK'
      <4>1. i' \in 0 .. len' /\ j' \in 0 .. len' /\ len' \in 0 .. MaxLen
            /\ rank' \in [0 .. len' - 1 -> Rank]
        BY <1>1, <2>1, <2>2
      <4>2. Permutes(arr', len')
        BY <2>1, <3>1
      <4>3. Bubble!Permutes(arr', len')
        BY <4>2 DEF Bubble!Permutes, Permutes
      <4> QED BY <4>1, <4>3 DEF Bubble!TypeOK, Bubble!Permutes
    <3> DEFINE S(p) == rank[arr'[p]]
    <3>3. /\ S(j) = R(j + 1) /\ S(j + 1) = R(j)
          /\ \A p \in 0 .. len - 1 : p # j /\ p # j + 1 => S(p) = R(p) /\ arr'[p] = arr[p]
          /\ arr'[j] = arr[j + 1] /\ arr'[j + 1] = arr[j]
      BY <1>1, <2>2, <3>1
    <3> HIDE DEF R, S
    <3>4. ASSUME NEW p \in 0 .. len - 1, p >= len - i, NEW q \in 0 .. p - 1
          PROVE  S(q) <= S(p)
      <4>1. p # j /\ p # j + 1 /\ j \in 0 .. p - 1 /\ j + 1 \in 0 .. p - 1 /\ q \in 0 .. len - 1
        BY <1>1, <2>2, <3>4
      <4>2. \A x \in 0 .. p - 1 : R(x) <= R(p)
        BY <1>3, <3>4
      <4> QED BY <3>3, <4>1, <4>2
    <3>5. ASSUME NEW q \in 0 .. (j + 1) - 1 PROVE S(q) <= S(j + 1)
      <4>1. q \in 0 .. len - 1 /\ q # j + 1 /\ (q = j \/ q \in 0 .. j - 1)
        BY <1>1, <2>2
      <4>2. CASE q = j
        BY <1>2, <2>2, <2>4, <3>3, <4>2
      <4>3. CASE q \in 0 .. j - 1
        BY <1>3, <2>1, <3>3, <4>1, <4>3
      <4> QED BY <4>1, <4>2, <4>3
    <3>6. ASSUME NEW p \in 0 .. len - 1, NEW q \in 0 .. p - 1, S(q) = S(p)
          PROVE  arr'[q] < arr'[p]
      <4>1. q \in 0 .. len - 1 /\ q < p
        BY <1>1
      <4>t. /\ \A x \in 0 .. len - 1 : R(x) \in Int /\ arr[x] \in Int
            /\ \A x, y \in 0 .. len - 1 : y < x /\ R(y) = R(x) => arr[y] < arr[x]
        <5>1. \A x \in 0 .. len - 1 : R(x) \in Int /\ arr[x] \in Int
          BY <1>2
        <5>2. ASSUME NEW x \in 0 .. len - 1, NEW y \in 0 .. len - 1, y < x, R(y) = R(x)
              PROVE arr[y] < arr[x]
          <6>1. y \in 0 .. x - 1
            BY <1>1, <5>2
          <6> QED BY <1>3, <5>2, <6>1
        <5> QED BY <5>1, <5>2
      <4>2. CASE p = j
        <5>1. q # j /\ q # j + 1 /\ q < j + 1
          BY <1>1, <2>2, <4>1, <4>2
        <5> QED BY <2>2, <3>3, <3>6, <4>1, <4>2, <4>t, <5>1
      <4>3. CASE p = j + 1
        <5>1. q = j \/ (q # j /\ q # j + 1 /\ q < j)
          BY <1>1, <2>2, <4>1, <4>3
        <5>2. CASE q = j
          BY <1>2, <2>2, <2>4, <3>3, <3>6, <4>3, <4>t, <5>2
        <5>3. CASE q # j /\ q # j + 1 /\ q < j
          BY <2>2, <3>3, <3>6, <4>1, <4>3, <4>t, <5>3
        <5> QED BY <5>1, <5>2, <5>3
      <4>4. CASE p # j /\ p # j + 1
        <5>1. CASE q = j
          <6>1. j + 1 < p
            BY <1>1, <2>2, <4>1, <4>4, <5>1
          <6> QED BY <2>2, <3>3, <3>6, <4>1, <4>4, <4>t, <5>1, <6>1
        <5>2. CASE q = j + 1
          <6>1. j < p
            BY <1>1, <2>2, <4>1, <4>4, <5>2
          <6> QED BY <2>2, <3>3, <3>6, <4>1, <4>4, <4>t, <5>2, <6>1
        <5>3. CASE q # j /\ q # j + 1
          BY <3>3, <3>6, <4>1, <4>4, <4>t, <5>3
        <5> QED BY <5>1, <5>2, <5>3
      <4> QED BY <4>2, <4>3, <4>4
    <3>7. Bubble!Settled'
      BY <2>1, <2>2, <3>4, <3>5, <3>6 DEF Bubble!Settled, Bubble!NotAfter, S
    <3> QED BY <3>2, <3>7 DEF BubbleInv
  <2> QED BY <2>3, <2>4
<1> QED BY <1>4, <1>5 DEF Bubble!Next

(* What the settled places are for.                                        *)
LEMMA BubbleSorts ==
    ASSUME BubbleInv
    PROVE  Bubble!SortsStably
<1> SUFFICES ASSUME i = len, NEW p \in 0 .. len - 1, NEW q \in 0 .. len - 1, p < q
             PROVE  Before(rank, arr[p], arr[q])
  BY DEF Bubble!SortsStably, Bubble!Done, Bubble!SortedStably,
         Bubble!Before, Before
<1>1. /\ len \in Nat /\ rank \in [0 .. len - 1 -> Rank] /\ Permutes(arr, len)
  BY ArrayAssumption DEF BubbleInv, Bubble!TypeOK, Bubble!Permutes, Permutes
<1>2. rank[arr[p]] \in Int /\ rank[arr[q]] \in Int
  BY <1>1, RankIsInt
<1>3. p \in 0 .. q - 1 /\ q >= len - len
  BY <1>1
<1>4. rank[arr[p]] <= rank[arr[q]] /\ (rank[arr[p]] = rank[arr[q]] => arr[p] < arr[q])
  BY <1>3 DEF BubbleInv, Bubble!Settled, Bubble!NotAfter
<1> QED BY <1>2, <1>4 DEF Before
---------------------------------------------------------------------------
(* insertion_sort, its types and its sorted prefix in the terms of Arrays; *)
(* the index passes the length only when there is nothing to sort.         *)
InsertionInv ==
    /\ len \in 0 .. MaxLen /\ rank \in [0 .. len - 1 -> Rank]
    /\ i \in 1 .. MaxLen + 1 /\ j \in -1 .. len /\ inner \in BOOLEAN
    /\ fault \in {"none", "no_memory", "before_array"}
    /\ arr \in [0 .. len - 1 -> 0 .. len - 1] /\ (i <= len \/ len = 0)
    /\ ~inner => Permutes(arr, len)
    /\ inner => /\ i < len /\ j < i /\ key = i
                /\ Permutes([arr EXCEPT ![j + 1] = key], len)
    /\ \A p \in i .. len - 1 : p > i \/ ~inner => arr[p] = p
    /\ ~inner /\ i <= len =>
          \A p, q \in 0 .. i - 1 : p < q => Before(rank, arr[p], arr[q])
    /\ inner => /\ \A p, q \in (0 .. i) \ {j + 1} : p < q => Before(rank, arr[p], arr[q])
                /\ \A q \in j + 2 .. i : rank[key] < rank[arr[q]]

(* What the invariant is for.                                              *)
LEMMA InsertionImplies ==
    ASSUME InsertionInv
    PROVE  Insertion!TypeOK /\ Insertion!PrefixSorted /\ Insertion!SortsStably
<1>1. Insertion!PrefixSorted
  BY DEF InsertionInv, Insertion!PrefixSorted, Insertion!SortedStably, Insertion!Before, Before
<1>2. Permutes(IF inner THEN [arr EXCEPT ![j + 1] = key] ELSE arr, len)
  BY DEF InsertionInv
<1>3. Insertion!TypeOK
  BY <1>2 DEF InsertionInv, Insertion!TypeOK, Insertion!Permutes, Permutes, Insertion!Held
<1>4. ASSUME Insertion!Done PROVE Insertion!SortedStably(rank, arr, 0, len)
  <2>1. ~inner /\ i >= len /\ len \in Nat /\ i \in Nat /\ (i <= len \/ len = 0)
    BY <1>4, ArrayAssumption DEF InsertionInv, Insertion!Done
  <2>2. CASE len = 0
    BY <2>2 DEF Insertion!SortedStably
  <2>3. CASE i = len
    BY <2>1, <2>3 DEF InsertionInv, Insertion!SortedStably, Insertion!Before, Before
  <2> QED BY <2>1, <2>2, <2>3
<1> QED BY <1>1, <1>3, <1>4 DEF Insertion!SortsStably

(* The first state of insertion_sort.                                      *)
LEMMA InsertionInit ==
    ASSUME Insertion!Init
    PROVE  InsertionInv
<1>1. /\ rank \in Arrays /\ len \in 0 .. MaxLen /\ DOMAIN rank = 0 .. len - 1
      /\ arr = Unsorted(len) /\ i = 1 /\ j = 0 /\ key = 0 /\ inner = FALSE
      /\ fault \in {"none", "no_memory"}
  BY DEF Insertion!Init, Insertion!Arrays, Arrays, Insertion!Unsorted, Unsorted
<1>2. len \in Nat /\ rank \in [0 .. len - 1 -> Rank]
  BY <1>1, ArraysOfLength
<1>3. Permutes(arr, len) /\ (\A p \in 0 .. len - 1 : arr[p] = p)
      /\ arr \in [0 .. len - 1 -> 0 .. len - 1]
  BY <1>1, <1>2, UnsortedPermutes DEF Permutes
<1>4. MaxLen \in Nat
  BY ArrayAssumption
<1>5. i \in 1 .. MaxLen + 1 /\ j \in -1 .. len /\ (i <= len \/ len = 0)
  BY <1>1, <1>2, <1>4
<1>6. \A p \in i .. len - 1 : p > i \/ ~inner => arr[p] = p
  BY <1>1, <1>2, <1>3
<1>7. \A p, q \in 0 .. i - 1 : ~(p < q)
  BY <1>1
<1> QED BY <1>1, <1>2, <1>3, <1>5, <1>6, <1>7 DEF InsertionInv

(* Every step of insertion_sort.                                           *)
LEMMA InsertionKeeps ==
    ASSUME InsertionInv, Insertion!Next
    PROVE  InsertionInv'
<1> DEFINE n == len
<1>1. /\ len \in Nat /\ MaxLen \in Nat /\ len <= MaxLen /\ i \in Nat /\ i >= 1
      /\ j \in Int /\ inner \in BOOLEAN /\ rank \in [0 .. len - 1 -> Rank]
      /\ arr \in [0 .. len - 1 -> 0 .. len - 1] /\ (i <= len \/ len = 0)
      /\ len \in 0 .. MaxLen /\ i \in 1 .. MaxLen + 1 /\ j \in -1 .. len
      /\ fault \in {"none", "no_memory", "before_array"}
  BY ArrayAssumption DEF InsertionInv
<1>2. \A x \in 0 .. len - 1 : rank[x] \in Int
  BY <1>1, ArrayAssumption
<1>t. CASE Insertion!TakeOut
  <2>1. /\ ~inner /\ i < len /\ key' = arr[i] /\ j' = i - 1 /\ inner' = TRUE
        /\ len' = len /\ rank' = rank /\ arr' = arr /\ i' = i /\ fault' = fault
    BY <1>t DEF Insertion!TakeOut, Insertion!input
  <2>2. key' = i
    BY <1>1, <2>1 DEF InsertionInv
  <2>3. Permutes([arr' EXCEPT ![j' + 1] = key'], len)
    <3>1. j' + 1 = i /\ arr' = arr
      BY <1>1, <2>1
    <3>2. [arr EXCEPT ![i] = arr[i]] = arr
      BY <1>1
    <3>3. [arr' EXCEPT ![j' + 1] = key'] = arr
      BY <2>1, <3>1, <3>2
    <3> QED BY <2>1, <3>3 DEF InsertionInv
  <2>4. \A p, q \in (0 .. i) \ {j' + 1} : p < q => Before(rank, arr[p], arr[q])
    <3>0. i \in Int /\ j' + 1 = i
      BY <1>1, <2>1
    <3>1. (0 .. i) \ {j' + 1} = 0 .. i - 1
      BY <3>0
    <3>2. \A p, q \in 0 .. i - 1 : p < q => Before(rank, arr[p], arr[q])
      BY <2>1 DEF InsertionInv
    <3> QED BY <3>1, <3>2
  <2>5. \A q \in j' + 2 .. i : FALSE
    BY <1>1, <2>1
  <2>6. \A p \in i .. len - 1 : arr[p] = p
    BY <2>1 DEF InsertionInv
  <2>7. j' \in -1 .. len /\ j' < i
    BY <1>1, <2>1
  <2> QED BY <1>1, <2>1, <2>2, <2>3, <2>4, <2>5, <2>6, <2>7 DEF InsertionInv, Before
<1>s. CASE Insertion!Shift
  <2>1. /\ inner /\ j >= 0 /\ rank[arr[j]] > rank[key]
        /\ arr' = [arr EXCEPT ![j + 1] = arr[j]] /\ j' = j - 1
        /\ len' = len /\ rank' = rank /\ i' = i /\ key' = key /\ inner' = inner
        /\ fault' = fault
    BY <1>s DEF Insertion!Shift, Insertion!input
  <2>2. /\ i < len /\ j < i /\ key = i
        /\ Permutes([arr EXCEPT ![j + 1] = key], len)
        /\ \A p \in i .. len - 1 : p > i => arr[p] = p
        /\ \A p, q \in (0 .. i) \ {j + 1} : p < q => Before(rank, arr[p], arr[q])
        /\ \A q \in j + 2 .. i : rank[key] < rank[arr[q]]
    BY <2>1 DEF InsertionInv
  <2>3. /\ j \in 0 .. len - 1 /\ j + 1 \in 0 .. len - 1 /\ j # j + 1 /\ j' + 1 = j
        /\ key \in 0 .. len - 1
    BY <1>1, <2>1, <2>2
  <2>a. i \in Nat /\ len \in Nat /\ j \in Nat /\ i < len /\ j < i
    BY <1>1, <2>1, <2>2
  <2>4. /\ arr' \in [0 .. len - 1 -> 0 .. len - 1]
        /\ \A p \in 0 .. len - 1 : arr'[p] = IF p = j + 1 THEN arr[j] ELSE arr[p]
    BY <1>1, <2>1, <2>3
  <2>5. Permutes([arr' EXCEPT ![j] = key], len)
    <3> DEFINE u == [arr EXCEPT ![j + 1] = key]
               w == [arr' EXCEPT ![j] = key]
    <3>1. /\ u \in [0 .. len - 1 -> 0 .. len - 1]
          /\ \A p \in 0 .. len - 1 : u[p] = IF p = j + 1 THEN key ELSE arr[p]
      BY <1>1, <2>3
    <3>2. /\ w \in [0 .. len - 1 -> 0 .. len - 1]
          /\ \A p \in 0 .. len - 1 :
                w[p] = IF p = j THEN key ELSE IF p = j + 1 THEN arr[j] ELSE arr[p]
      BY <2>3, <2>4
    <3>3. \A p, q \in 0 .. len - 1 : u[p] = u[q] => p = q
      BY <2>2 DEF Permutes
    <3> HIDE DEF u, w
    <3>4. ASSUME NEW p \in 0 .. len - 1, NEW q \in 0 .. len - 1, w[p] = w[q] PROVE p = q
      <4>1. \A x \in 0 .. len - 1 :
               w[x] = IF x = j THEN u[j + 1] ELSE IF x = j + 1 THEN u[j] ELSE u[x]
        BY <2>3, <3>1, <3>2
      <4> QED BY <2>3, <3>3, <3>4, <4>1
    <3> QED BY <3>2, <3>4 DEF Permutes, w
  <2>6. ASSUME NEW p \in (0 .. i) \ {j}, NEW q \in (0 .. i) \ {j}, p < q
        PROVE  Before(rank, arr'[p], arr'[q])
    <3> DEFINE o(x) == IF x = j + 1 THEN j ELSE x
    <3>1. /\ p \in 0 .. len - 1 /\ q \in 0 .. len - 1
          /\ o(p) \in (0 .. i) \ {j + 1} /\ o(q) \in (0 .. i) \ {j + 1} /\ o(p) < o(q)
      BY <2>a, <2>6
    <3>2. arr'[p] = arr[o(p)] /\ arr'[q] = arr[o(q)]
      BY <2>4, <3>1
    <3> HIDE DEF o
    <3>3. Before(rank, arr[o(p)], arr[o(q)])
      BY <2>2, <3>1
    <3> QED BY <3>2, <3>3
  <2>7. ASSUME NEW q \in j + 1 .. i PROVE rank[key] < rank[arr'[q]]
    <3>1. q \in 0 .. len - 1 /\ (q = j + 1 \/ q \in j + 2 .. i)
      BY <2>a
    <3>2. CASE q = j + 1
      <4>1. arr'[q] = arr[j]
        BY <2>4, <3>1, <3>2
      <4>2. arr[j] \in 0 .. len - 1 /\ rank[arr[j]] \in Int /\ rank[key] \in Int
        BY <1>1, <1>2, <2>3
      <4> QED BY <2>1, <4>1, <4>2
    <3>3. CASE q # j + 1
      <4>1. arr'[q] = arr[q]
        BY <2>4, <3>1, <3>3
      <4> QED BY <2>2, <3>1, <3>3, <4>1
    <3> QED BY <3>2, <3>3
  <2>8. \A p \in i .. len - 1 : p > i => arr'[p] = p
    <3> SUFFICES ASSUME NEW p \in i .. len - 1, p > i PROVE arr'[p] = p
      OBVIOUS
    <3>1. p \in 0 .. len - 1 /\ p # j + 1
      BY <1>1, <2>2
    <3> QED BY <2>2, <2>4, <3>1
  <2>9. j' \in -1 .. len /\ j' < i
    BY <1>1, <2>1, <2>2
  <2>10. j' + 2 = j + 1
    BY <1>1, <2>1
  <2> HIDE DEF n
  <2>11. /\ \A p, q \in (0 .. i) \ {j' + 1} : p < q => Before(rank, arr'[p], arr'[q])
         /\ \A q \in j' + 2 .. i : rank[key] < rank[arr'[q]]
         /\ Permutes([arr' EXCEPT ![j' + 1] = key], len)
    BY <2>3, <2>5, <2>6, <2>7, <2>10
  <2>12. /\ len' \in 0 .. MaxLen /\ rank' \in [0 .. len' - 1 -> Rank]
         /\ i' \in 1 .. MaxLen + 1 /\ j' \in -1 .. len' /\ inner' = TRUE
         /\ fault' \in {"none", "no_memory", "before_array"}
         /\ arr' \in [0 .. len' - 1 -> 0 .. len' - 1] /\ (i' <= len' \/ len' = 0)
         /\ i' < len' /\ j' < i' /\ key' = i'
    BY <1>1, <2>1, <2>2, <2>4, <2>9
  <2>13. \A p \in i' .. len' - 1 : p > i' => arr'[p] = p
    BY <2>1, <2>8
  <2>14. /\ \A p, q \in (0 .. i') \ {j' + 1} : p < q => Before(rank', arr'[p], arr'[q])
         /\ \A q \in j' + 2 .. i' : rank'[key'] < rank'[arr'[q]]
         /\ Permutes([arr' EXCEPT ![j' + 1] = key'], len')
    BY <2>1, <2>11
  <2> QED BY <2>12, <2>13, <2>14 DEF InsertionInv
<1>p. CASE Insertion!Place
  <2>1. /\ inner /\ (j >= 0 => rank[arr[j]] <= rank[key])
        /\ arr' = [arr EXCEPT ![j + 1] = key] /\ j' = j
        /\ len' = len /\ rank' = rank /\ i' = i + 1 /\ inner' = FALSE
        /\ fault' = fault
    BY <1>p DEF Insertion!Place, Insertion!input
  <2>2. /\ i < len /\ j < i /\ key = i
        /\ Permutes([arr EXCEPT ![j + 1] = key], len)
        /\ \A p \in i .. len - 1 : p > i => arr[p] = p
        /\ \A p, q \in (0 .. i) \ {j + 1} : p < q => Before(rank, arr[p], arr[q])
        /\ \A q \in j + 2 .. i : rank[key] < rank[arr[q]]
    BY <2>1 DEF InsertionInv
  <2>3. j + 1 \in 0 .. len - 1 /\ key \in 0 .. len - 1 /\ i \in 0 .. len - 1
    BY <1>1, <2>2
  <2>a. i \in Nat /\ len \in Nat /\ j \in Int /\ j >= -1 /\ i < len /\ j < i
    BY <1>1, <2>1, <2>2
  <2>b. key = i
    BY <2>2
  <2>4. /\ arr' \in [0 .. len - 1 -> 0 .. len - 1]
        /\ \A p \in 0 .. len - 1 : arr'[p] = IF p = j + 1 THEN key ELSE arr[p]
    BY <1>1, <2>1, <2>3
  <2>5. Permutes(arr', len) /\ \A p, q \in 0 .. len - 1 : arr'[p] = arr'[q] => p = q
    BY <2>1, <2>2 DEF Permutes
  <2>6. \A p \in i + 1 .. len - 1 : arr'[p] = p
    <3> SUFFICES ASSUME NEW p \in i + 1 .. len - 1 PROVE arr'[p] = p
      OBVIOUS
    <3>1. p \in 0 .. len - 1 /\ p # j + 1 /\ p \in i .. len - 1 /\ p > i
      BY <2>a
    <3> QED BY <2>2, <2>4, <3>1
  <2>7. \A p \in 0 .. i : p # j + 1 => arr'[p] < i
    <3> SUFFICES ASSUME NEW p \in 0 .. i, p # j + 1, ~(arr'[p] < i) PROVE FALSE
      OBVIOUS
    <3>1. p \in 0 .. len - 1
      BY <2>a
    <3>2. arr'[p] \in 0 .. len - 1 /\ arr'[p] # i
      BY <2>2, <2>3, <2>4, <2>5, <3>1
    <3>3. PICK x \in i + 1 .. len - 1 : x = arr'[p]
      BY <2>a, <3>2
    <3>4. x \in 0 .. len - 1 /\ arr'[x] = x /\ x # p
      BY <2>a, <2>6
    <3> QED BY <2>5, <3>1, <3>3, <3>4
  <2>8. ASSUME NEW p \in 0 .. i, NEW q \in 0 .. i, p < q
        PROVE  Before(rank, arr'[p], arr'[q])
    <3>1. p \in 0 .. len - 1 /\ q \in 0 .. len - 1
      BY <2>a
    <3>2. CASE p = j + 1
      <4>q. q \in j + 2 .. i /\ q # j + 1
        BY <2>a, <2>8, <3>2
      <4>1. q \in j + 2 .. i /\ q # j + 1 /\ arr'[p] = key /\ arr'[q] = arr[q]
        BY <2>4, <3>1, <3>2, <4>q
      <4> QED BY <2>2, <4>1 DEF Before
    <3>3. CASE q = j + 1
      <4>1. p # j + 1 /\ arr'[q] = key /\ arr'[p] = arr[p] /\ arr[p] < key
        <5>1. p # j + 1
          BY <2>a, <2>8, <3>3
        <5>2. arr'[p] < i
          BY <2>7, <5>1
        <5> QED BY <2>4, <2>b, <3>1, <3>3, <5>1, <5>2
      <4>2. j >= 0 /\ j \in 0 .. len - 1 /\ rank[arr[j]] <= rank[key] /\ (p = j \/ p < j)
        <5>1. j >= 0 /\ j \in 0 .. len - 1 /\ (p = j \/ p < j)
          BY <2>a, <2>8, <3>3
        <5> QED BY <2>1, <5>1
      <4>3. rank[arr[p]] \in Int /\ rank[arr[j]] \in Int /\ rank[key] \in Int
        BY <1>1, <1>2, <2>3, <3>1, <4>2
      <4>4. CASE p = j
        BY <4>1, <4>2, <4>3, <4>4 DEF Before
      <4>5. CASE p < j
        <5>1. p \in (0 .. i) \ {j + 1} /\ j \in (0 .. i) \ {j + 1}
          BY <1>1, <2>2, <4>1, <4>2
        <5>2. Before(rank, arr[p], arr[j])
          BY <2>2, <4>5, <5>1
        <5> QED BY <4>1, <4>2, <4>3, <5>2 DEF Before
      <4> QED BY <4>2, <4>4, <4>5
    <3>4. CASE p # j + 1 /\ q # j + 1
      <4>1. arr'[p] = arr[p] /\ arr'[q] = arr[q]
        BY <2>4, <3>1, <3>4
      <4> QED BY <2>2, <2>8, <3>4, <4>1
    <3> QED BY <3>2, <3>3, <3>4
  <2>9. i + 1 \in 1 .. MaxLen + 1 /\ i + 1 <= len /\ (i + 1) - 1 = i
    BY <1>1, <2>2
  <2> HIDE DEF n
  <2>10. \A p, q \in 0 .. i' - 1 : p < q => Before(rank, arr'[p], arr'[q])
    BY <2>1, <2>8, <2>9
  <2>11. /\ len' \in 0 .. MaxLen /\ rank' \in [0 .. len' - 1 -> Rank]
         /\ i' \in 1 .. MaxLen + 1 /\ j' \in -1 .. len' /\ inner' = FALSE
         /\ fault' \in {"none", "no_memory", "before_array"}
         /\ arr' \in [0 .. len' - 1 -> 0 .. len' - 1] /\ (i' <= len' \/ len' = 0)
    BY <1>1, <2>1, <2>4, <2>9
  <2>12. \A p \in i' .. len' - 1 : arr'[p] = p
    BY <2>1, <2>6
  <2>13. Permutes(arr', len')
    BY <2>1, <2>5
  <2>14. \A p, q \in 0 .. i' - 1 : p < q => Before(rank', arr'[p], arr'[q])
    BY <2>1, <2>10
  <2> QED BY <2>11, <2>12, <2>13, <2>14 DEF InsertionInv
<1>q. CASE Insertion!PassTheStart
  <2>1. /\ len' = len /\ rank' = rank /\ arr' = arr /\ i' = i /\ j' = j /\ key' = key
        /\ inner' = inner /\ fault' = "before_array"
    BY <1>q DEF Insertion!PassTheStart, Insertion!input
  <2> QED BY <2>1 DEF InsertionInv, Before
<1> QED BY <1>t, <1>s, <1>p, <1>q DEF Insertion!Next
---------------------------------------------------------------------------
(* quick_sort, its types and what it has divided in the terms of Arrays.   *)
(* The ranges of the calls under way do not overlap, and each is half as   *)
(* long, or less, as the one below it was when it was divided.             *)
Ranges == [lo : Int, hi : Int]

(* One of the ranges has both places.                                      *)
InOne(cs, p, q) ==
    \E c \in 1 .. Len(cs) : /\ cs[c].lo <= p /\ p <= cs[c].hi
                            /\ cs[c].lo <= q /\ q <= cs[c].hi

(* Two places that no range has both of are in order.                      *)
Divided(r, a, n, cs) ==
    \A p, q \in 0 .. n - 1 : p < q /\ ~InOne(cs, p, q) => r[a[p]] <= r[a[q]]

(* No two ranges overlap.                                                  *)
Apart(cs) ==
    \A c, d \in 1 .. Len(cs) : c = d \/ cs[c].hi < cs[d].lo \/ cs[d].hi < cs[c].lo

(* The ranges lie in the array, the upper one at most half as long as the  *)
(* one below it was.                                                       *)
Within(cs, n) ==
    \A c \in 1 .. Len(cs) : /\ 0 <= cs[c].lo /\ cs[c].lo <= cs[c].hi + 1 /\ cs[c].hi < n
                            /\ (cs[c].hi - cs[c].lo + 2) * 2 ^ (Len(cs) - c) <= n + 1

(* As many calls are under way as the length has binary digits, or fewer.  *)
Shallow(cs, n) == Len(cs) <= 1 \/ 2 ^ (Len(cs) - 1) <= n

QuickInv ==
    /\ len \in 0 .. MaxLen /\ rank \in [0 .. len - 1 -> Rank] /\ Permutes(arr, len)
    /\ calls \in Seq(Ranges) /\ idx \in Int /\ i \in Int /\ partitioning \in BOOLEAN
    /\ Within(calls, len) /\ Apart(calls) /\ Divided(rank, arr, len, calls)
    /\ Shallow(calls, len)
    /\ partitioning =>
          /\ calls # <<>> /\ calls[1].lo < calls[1].hi
          /\ calls[1].lo - 1 <= idx /\ idx < i /\ calls[1].lo <= i /\ i <= calls[1].hi
          /\ \A p \in calls[1].lo .. idx : rank[arr[p]] <= rank[arr[calls[1].hi]]
          /\ \A p \in idx + 1 .. i - 1 : rank[arr[p]] > rank[arr[calls[1].hi]]

(* What no range still to be sorted has both of stays in order when two    *)
(* elements of one range are exchanged.                                    *)
LEMMA ExchangeKeepsDivided ==
    ASSUME NEW n \in Nat, NEW r \in [0 .. n - 1 -> Rank], NEW a, Permutes(a, n),
           NEW cs \in Seq(Ranges), Apart(cs), Within(cs, n), Divided(r, a, n, cs),
           NEW c \in 1 .. Len(cs), NEW x \in Int, NEW y \in Int,
           cs[c].lo <= x, x <= cs[c].hi, cs[c].lo <= y, y <= cs[c].hi
    PROVE  Divided(r, Exchanged(a, x, y), n, cs)
<1> DEFINE b == Exchanged(a, x, y)
           s(p) == IF p = y THEN x ELSE IF p = x THEN y ELSE p
<1>1. \A d \in 1 .. Len(cs) : cs[d].lo \in Int /\ cs[d].hi \in Int
  <2>1. \A d \in 1 .. Len(cs) : cs[d] \in Ranges
    BY ElementOfSeq
  <2> QED BY <2>1 DEF Ranges
<1>2. x \in 0 .. n - 1 /\ y \in 0 .. n - 1
  <2>1. 0 <= cs[c].lo /\ cs[c].hi < n
    BY DEF Within
  <2> QED BY <1>1, <2>1
<1>3. \A p \in 0 .. n - 1 : b[p] = a[s(p)] /\ s(p) \in 0 .. n - 1
  <2>1. \A p \in 0 .. n - 1 : b[p] = IF p = y THEN a[x] ELSE IF p = x THEN a[y] ELSE a[p]
    BY <1>2, ExchangedPermutes
  <2> HIDE DEF b
  <2> QED BY <1>2, <2>1
<1> HIDE DEF b
<1>4. ASSUME NEW p \in 0 .. n - 1, NEW q \in 0 .. n - 1, p < q, ~InOne(cs, p, q)
      PROVE  s(p) < s(q) /\ ~InOne(cs, s(p), s(q))
  <2>1. \A d \in 1 .. Len(cs) : ~ (/\ cs[d].lo <= p /\ p <= cs[d].hi
                                   /\ cs[d].lo <= q /\ q <= cs[d].hi)
    BY <1>4 DEF InOne
  <2>2. \A d \in 1 .. Len(cs) : c = d \/ cs[c].hi < cs[d].lo \/ cs[d].hi < cs[c].lo
    BY DEF Apart
  <2> DEFINE f == cs[c].lo
             g == cs[c].hi
  <2>3. f \in Int /\ g \in Int /\ f <= x /\ x <= g /\ f <= y /\ y <= g
    BY <1>1
  <2>4. ~(f <= p /\ p <= g /\ f <= q /\ q <= g)
    BY <2>1
  <2> HIDE DEF f, g
  <2>5. s(p) < s(q)
    <3>1. CASE p = x \/ p = y
      BY <1>4, <2>3, <2>4, <3>1
    <3>2. CASE p # x /\ p # y
      BY <1>4, <2>3, <2>4, <3>2
    <3> QED BY <3>1, <3>2
  <2>6. ASSUME NEW d \in 1 .. Len(cs),
               cs[d].lo <= s(p), s(p) <= cs[d].hi, cs[d].lo <= s(q), s(q) <= cs[d].hi
        PROVE  FALSE
    <3> DEFINE u == cs[d].lo
               v == cs[d].hi
    <3>1. u \in Int /\ v \in Int /\ u <= s(p) /\ s(p) <= v /\ u <= s(q) /\ s(q) <= v
      BY <1>1, <2>6
    <3>2. ~(u <= p /\ p <= v /\ u <= q /\ q <= v)
      BY <2>1
    <3>3. (u = f /\ v = g) \/ g < u \/ v < f
      BY <2>2 DEF f, g
    <3> HIDE DEF u, v
    <3>4. CASE p = x \/ p = y
      BY <1>4, <2>3, <2>4, <3>1, <3>2, <3>3, <3>4
    <3>5. CASE p # x /\ p # y
      BY <1>4, <2>3, <2>4, <3>1, <3>2, <3>3, <3>5
    <3> QED BY <3>4, <3>5
  <2>7. ~InOne(cs, s(p), s(q))
    <3> HIDE DEF s
    <3> QED BY <2>6 DEF InOne
  <2> QED BY <2>5, <2>7
<1> HIDE DEF s
<1>5. ASSUME NEW p \in 0 .. n - 1, NEW q \in 0 .. n - 1, p < q, ~InOne(cs, p, q)
      PROVE  r[b[p]] <= r[b[q]]
  <2>1. s(p) < s(q) /\ ~InOne(cs, s(p), s(q))
    BY <1>4, <1>5
  <2>2. s(p) \in 0 .. n - 1 /\ s(q) \in 0 .. n - 1 /\ b[p] = a[s(p)] /\ b[q] = a[s(q)]
    BY <1>3
  <2>3. r[a[s(p)]] <= r[a[s(q)]]
    BY <2>1, <2>2 DEF Divided
  <2> QED BY <2>2, <2>3
<1> QED BY <1>5 DEF Divided, b

(* A product grows with its factor.                                        *)
LEMMA ProductGrows ==
    ASSUME NEW u \in Nat, NEW v \in Nat, NEW x \in Nat, u <= v
    PROVE  u * x <= v * x /\ u * (2 * x) = (2 * u) * x
OBVIOUS

(* A range of at most one place is sorted and needs no call any more.      *)
LEMMA RangeReturned ==
    ASSUME NEW n \in Nat, NEW r, NEW a, NEW cs \in Seq(Ranges), cs # << >>,
           Apart(cs), Within(cs, n), Divided(r, a, n, cs), cs[1].lo >= cs[1].hi
    PROVE  /\ Tail(cs) \in Seq(Ranges) /\ Apart(Tail(cs)) /\ Within(Tail(cs), n)
           /\ Divided(r, a, n, Tail(cs))
<1> DEFINE ds == Tail(cs)
<1>1. /\ ds \in Seq(Ranges) /\ Len(ds) = Len(cs) - 1 /\ Len(cs) \in Nat
      /\ \A c \in 1 .. Len(ds) : ds[c] = cs[c + 1]
  BY HeadTailProperties, LenProperties
<1> HIDE DEF ds
<1>2. \A c \in 1 .. Len(ds) : c + 1 \in 1 .. Len(cs) /\ Len(ds) - c = Len(cs) - (c + 1)
  BY <1>1
<1>3. Apart(ds)
  <2> SUFFICES ASSUME NEW c \in 1 .. Len(ds), NEW d \in 1 .. Len(ds)
               PROVE  c = d \/ ds[c].hi < ds[d].lo \/ ds[d].hi < ds[c].lo
    BY DEF Apart
  <2>1. c + 1 = d + 1 \/ cs[c + 1].hi < cs[d + 1].lo \/ cs[d + 1].hi < cs[c + 1].lo
    BY <1>2 DEF Apart
  <2>2. c + 1 = d + 1 => c = d
    OBVIOUS
  <2> QED BY <1>1, <2>1, <2>2
<1>4. Within(ds, n)
  <2> SUFFICES ASSUME NEW c \in 1 .. Len(ds)
               PROVE  /\ 0 <= ds[c].lo /\ ds[c].lo <= ds[c].hi + 1 /\ ds[c].hi < n
                      /\ (ds[c].hi - ds[c].lo + 2) * 2 ^ (Len(ds) - c) <= n + 1
    BY DEF Within
  <2>1. ds[c] = cs[c + 1] /\ c + 1 \in 1 .. Len(cs) /\ Len(ds) - c = Len(cs) - (c + 1)
    BY <1>1, <1>2
  <2>2. /\ 0 <= cs[c + 1].lo /\ cs[c + 1].lo <= cs[c + 1].hi + 1 /\ cs[c + 1].hi < n
        /\ (cs[c + 1].hi - cs[c + 1].lo + 2) * 2 ^ (Len(cs) - (c + 1)) <= n + 1
    BY <2>1 DEF Within
  <2> QED BY <2>1, <2>2
<1>5. Divided(r, a, n, ds)
  <2> SUFFICES ASSUME NEW p \in 0 .. n - 1, NEW q \in 0 .. n - 1, p < q, ~InOne(ds, p, q)
               PROVE  ~InOne(cs, p, q)
    BY DEF Divided
  <2> SUFFICES ASSUME NEW c \in 1 .. Len(cs), cs[c].lo <= p, p <= cs[c].hi,
                      cs[c].lo <= q, q <= cs[c].hi
               PROVE  FALSE
    BY DEF InOne
  <2>1. c # 1
    <3>1. cs[1] \in Ranges
      BY <1>1, ElementOfSeq
    <3>2. cs[1].lo \in Int /\ cs[1].hi \in Int
      BY <3>1 DEF Ranges
    <3> QED BY <3>2
  <2>2. c - 1 \in 1 .. Len(ds) /\ ds[c - 1] = cs[c]
    <3>1. c - 1 \in 1 .. Len(ds) /\ (c - 1) + 1 = c
      BY <1>1, <2>1
    <3> QED BY <1>1, <3>1
  <2> QED BY <2>2 DEF InOne
<1> QED BY <1>1, <1>3, <1>4, <1>5 DEF ds

(* The two sides of a range, of which the first is the smaller: both are   *)
(* within it, apart, and the smaller is at most half of it.                *)
LEMMA SidesOfRange ==
    ASSUME NEW n \in Nat, NEW low \in Int, NEW top \in Int, NEW x \in Int,
           0 <= low, low <= x, x <= top, top < n,
           NEW el \in Int, NEW eh \in Int, NEW fl \in Int, NEW fh \in Int, eh - el <= fh - fl,
           \/ el = low /\ eh = x - 1 /\ fl = x + 1 /\ fh = top
           \/ fl = low /\ fh = x - 1 /\ el = x + 1 /\ eh = top
    PROVE  /\ 0 <= el /\ el <= eh + 1 /\ eh < n
           /\ 0 <= fl /\ fl <= fh + 1 /\ fh < n
           /\ eh < fl \/ fh < el
           /\ \A g \in Int, h \in Int : h < low \/ top < g =>
                 (h < el \/ eh < g) /\ (h < fl \/ fh < g)
           /\ eh - el + 2 \in Nat /\ fh - fl + 2 \in Nat /\ top - low + 2 \in Nat
           /\ 2 * (eh - el + 2) \in Nat
           /\ 2 * (eh - el + 2) <= top - low + 2 /\ fh - fl + 2 <= top - low + 2
<1>1. CASE el = low /\ eh = x - 1 /\ fl = x + 1 /\ fh = top
  BY <1>1
<1>2. CASE fl = low /\ fh = x - 1 /\ el = x + 1 /\ eh = top
  BY <1>2
<1> QED BY <1>1, <1>2

(* The range at hand is divided at its pivot, and the smaller side, which  *)
(* is at most half of it, is called first.                                 *)
LEMMA RangeDivided ==
    ASSUME NEW n \in Nat, NEW r \in [0 .. n - 1 -> Rank], NEW a, Permutes(a, n),
           NEW cs \in Seq(Ranges), cs # << >>,
           Apart(cs), Within(cs, n), Divided(r, a, n, cs),
           NEW x \in Int, cs[1].lo <= x, x <= cs[1].hi,
           \A p \in cs[1].lo .. x - 1 : r[a[p]] <= r[a[x]],
           \A p \in x + 1 .. cs[1].hi : r[a[x]] <= r[a[p]],
           NEW e \in Ranges, NEW f \in Ranges, e.hi - e.lo <= f.hi - f.lo,
           \/ e.lo = cs[1].lo /\ e.hi = x - 1 /\ f.lo = x + 1 /\ f.hi = cs[1].hi
           \/ f.lo = cs[1].lo /\ f.hi = x - 1 /\ e.lo = x + 1 /\ e.hi = cs[1].hi
    PROVE  /\ <<e, f>> \o Tail(cs) \in Seq(Ranges) /\ Apart(<<e, f>> \o Tail(cs))
           /\ Within(<<e, f>> \o Tail(cs), n) /\ Divided(r, a, n, <<e, f>> \o Tail(cs))
<1> DEFINE ds == <<e, f>> \o Tail(cs)
<1>0. /\ Len(cs) \in Nat /\ 1 \in 1 .. Len(cs)
      /\ \A c \in 1 .. Len(cs) : cs[c].lo \in Int /\ cs[c].hi \in Int
  <2>1. Len(cs) \in Nat
    BY LenProperties
  <2>2. Len(cs) # 0
    BY EmptySeq, Zenon
  <2>3. \A c \in 1 .. Len(cs) : cs[c] \in Ranges
    BY ElementOfSeq
  <2>4. \A c \in 1 .. Len(cs) : cs[c].lo \in Int /\ cs[c].hi \in Int
    BY <2>3 DEF Ranges
  <2> QED BY <2>1, <2>2, <2>4
<1>1. /\ ds \in Seq(Ranges) /\ Len(ds) = Len(cs) + 1 /\ ds[1] = e /\ ds[2] = f
      /\ \A c \in 3 .. Len(ds) : ds[c] = cs[c - 1]
  <2>1. /\ ds \in Seq(Ranges) /\ Len(ds) = Len(cs) + 1 /\ ds[1] = e /\ ds[2] = f
        /\ \A c \in 3 .. Len(cs) + 1 : ds[c] = cs[c - 1]
    BY TwoOntoTail
  <2> HIDE DEF ds
  <2> QED BY <2>1
<1> HIDE DEF ds
<1> DEFINE low == cs[1].lo
           top == cs[1].hi
<1>2. /\ low \in Int /\ top \in Int /\ 0 <= low /\ top < n /\ low <= x /\ x <= top
      /\ e.lo \in Int /\ e.hi \in Int /\ f.lo \in Int /\ f.hi \in Int
  BY <1>0 DEF Within, Ranges
<1>2w. (top - low + 2) * 2 ^ (Len(cs) - 1) <= n + 1
  BY <1>0 DEF Within
<1>3. \/ e.lo = low /\ e.hi = x - 1 /\ f.lo = x + 1 /\ f.hi = top
      \/ f.lo = low /\ f.hi = x - 1 /\ e.lo = x + 1 /\ e.hi = top
  OBVIOUS
<1>4. \A c \in 3 .. Len(ds) : /\ c - 1 \in 1 .. Len(cs) /\ c - 1 # 1
                              /\ Len(ds) - c = Len(cs) - (c - 1)
  BY <1>0, <1>1
<1>5. \A c \in 1 .. Len(ds) : c = 1 \/ c = 2 \/ c \in 3 .. Len(ds)
  BY <1>0, <1>1
<1>6. \A c \in 1 .. Len(cs) : c = 1 \/ cs[c].hi < low \/ top < cs[c].lo
  BY <1>0 DEF Apart
<1> DEFINE el == e.lo
           eh == e.hi
           fl == f.lo
           fh == f.hi
<1>2i. el \in Int /\ eh \in Int /\ fl \in Int /\ fh \in Int
  BY <1>2
<1>3i. /\ eh - el <= fh - fl
       /\ \/ el = low /\ eh = x - 1 /\ fl = x + 1 /\ fh = top
          \/ fl = low /\ fh = x - 1 /\ el = x + 1 /\ eh = top
  BY <1>3
<1> HIDE DEF low, top, el, eh, fl, fh
<1>4i. /\ 0 <= el /\ el <= eh + 1 /\ eh < n
       /\ 0 <= fl /\ fl <= fh + 1 /\ fh < n
       /\ eh < fl \/ fh < el
       /\ \A g \in Int, h \in Int : h < low \/ top < g =>
             (h < el \/ eh < g) /\ (h < fl \/ fh < g)
       /\ eh - el + 2 \in Nat /\ fh - fl + 2 \in Nat /\ top - low + 2 \in Nat
       /\ 2 * (eh - el + 2) \in Nat
       /\ 2 * (eh - el + 2) <= top - low + 2 /\ fh - fl + 2 <= top - low + 2
  BY <1>2, <1>2i, <1>3i, SidesOfRange, SMTT(20)
<1>7. Apart(ds)
  <2>1. e.hi < f.lo \/ f.hi < e.lo
    BY <1>4i DEF el, eh, fl, fh
  <2>2. \A c \in 3 .. Len(ds) : /\ (ds[c].hi < e.lo \/ e.hi < ds[c].lo)
                                /\ (ds[c].hi < f.lo \/ f.hi < ds[c].lo)
    <3> SUFFICES ASSUME NEW c \in 3 .. Len(ds)
                 PROVE  /\ (ds[c].hi < e.lo \/ e.hi < ds[c].lo)
                        /\ (ds[c].hi < f.lo \/ f.hi < ds[c].lo)
      OBVIOUS
    <3>1. /\ ds[c].hi \in Int /\ ds[c].lo \in Int
          /\ (ds[c].hi < low \/ top < ds[c].lo)
      BY <1>0, <1>1, <1>4, <1>6
    <3>2. PICK g \in Int, h \in Int : g = ds[c].lo /\ h = ds[c].hi
      BY <3>1
    <3>3. (h < el \/ eh < g) /\ (h < fl \/ fh < g)
      <4>1. h < low \/ top < g
        BY <3>1, <3>2
      <4> QED BY <1>4i, <4>1
    <3> QED BY <3>2, <3>3 DEF el, eh, fl, fh
  <2>3. ASSUME NEW c \in 3 .. Len(ds), NEW d \in 3 .. Len(ds), c # d
        PROVE  ds[c].hi < ds[d].lo \/ ds[d].hi < ds[c].lo
    <3>1. c - 1 \in 1 .. Len(cs) /\ d - 1 \in 1 .. Len(cs) /\ c - 1 # d - 1
      BY <1>4, <2>3
    <3>2. cs[c - 1].hi < cs[d - 1].lo \/ cs[d - 1].hi < cs[c - 1].lo
      BY <3>1 DEF Apart
    <3> QED BY <1>1, <3>2
  <2> SUFFICES ASSUME NEW c \in 1 .. Len(ds), NEW d \in 1 .. Len(ds), c # d
               PROVE  ds[c].hi < ds[d].lo \/ ds[d].hi < ds[c].lo
    BY DEF Apart
  <2>4. CASE c = 1
    BY <1>1, <1>5, <2>1, <2>2, <2>4
  <2>5. CASE c = 2
    BY <1>1, <1>5, <2>1, <2>2, <2>5
  <2>6. CASE c \in 3 .. Len(ds)
    <3>1. CASE d \in 3 .. Len(ds)
      BY <2>3, <2>6, <3>1
    <3>2. CASE d = 1 \/ d = 2
      BY <1>1, <2>2, <2>6, <3>2
    <3> QED BY <1>5, <3>1, <3>2
  <2> QED BY <1>5, <2>4, <2>5, <2>6
<1>8. Within(ds, n)
  <2>1. Len(cs) - 1 \in Nat /\ Len(ds) - 1 = (Len(cs) - 1) + 1 /\ Len(ds) - 2 = Len(cs) - 1
    BY <1>0, <1>1
  <2>2. PICK u \in Nat : u = 2 ^ (Len(cs) - 1)
    BY <2>1, PowerOfTwo
  <2>3. 2 ^ (Len(ds) - 1) = 2 * u /\ 2 ^ (Len(ds) - 2) = u
    BY <2>1, <2>2, PowerOfTwo
  <2>4. PICK g \in Nat, h \in Nat, v \in Nat :
           g = eh - el + 2 /\ h = fh - fl + 2 /\ v = top - low + 2
    BY <1>4i
  <2>5. 2 * g \in Nat /\ 2 * g <= v /\ h <= v
    BY <1>4i, <2>4
  <2>6. v * u <= n + 1
    BY <1>2w, <2>2, <2>4
  <2>7. g * (2 * u) = (2 * g) * u /\ (2 * g) * u <= v * u /\ h * u <= v * u
    BY <2>5, ProductGrows
  <2>8. g * (2 * u) <= n + 1 /\ h * u <= n + 1
    <3>1. v * u \in Int /\ g * (2 * u) \in Int /\ h * u \in Int
      OBVIOUS
    <3> QED BY <2>6, <2>7, <3>1
  <2>9. /\ 0 <= e.lo /\ e.lo <= e.hi + 1 /\ e.hi < n
        /\ 0 <= f.lo /\ f.lo <= f.hi + 1 /\ f.hi < n
    BY <1>4i DEF el, eh, fl, fh
  <2> SUFFICES ASSUME NEW c \in 1 .. Len(ds)
               PROVE  /\ 0 <= ds[c].lo /\ ds[c].lo <= ds[c].hi + 1 /\ ds[c].hi < n
                      /\ (ds[c].hi - ds[c].lo + 2) * 2 ^ (Len(ds) - c) <= n + 1
    BY DEF Within
  <2>10. CASE c = 1
    <3>1. (e.hi - e.lo + 2) * 2 ^ (Len(ds) - 1) <= n + 1
      BY <2>3, <2>4, <2>8 DEF el, eh
    <3> QED BY <1>1, <2>9, <2>10, <3>1
  <2>11. CASE c = 2
    <3>1. (f.hi - f.lo + 2) * 2 ^ (Len(ds) - 2) <= n + 1
      BY <2>3, <2>4, <2>8 DEF fl, fh
    <3> QED BY <1>1, <2>9, <2>11, <3>1
  <2>12. CASE c \in 3 .. Len(ds)
    <3>1. ds[c] = cs[c - 1] /\ c - 1 \in 1 .. Len(cs) /\ Len(ds) - c = Len(cs) - (c - 1)
      BY <1>1, <1>4, <2>12
    <3>2. /\ 0 <= cs[c - 1].lo /\ cs[c - 1].lo <= cs[c - 1].hi + 1 /\ cs[c - 1].hi < n
          /\ (cs[c - 1].hi - cs[c - 1].lo + 2) * 2 ^ (Len(cs) - (c - 1)) <= n + 1
      BY <3>1 DEF Within
    <3> QED BY <3>1, <3>2
  <2> QED BY <1>5, <2>10, <2>11, <2>12
<1>9. Divided(r, a, n, ds)
  <2> SUFFICES ASSUME NEW p \in 0 .. n - 1, NEW q \in 0 .. n - 1, p < q, ~InOne(ds, p, q)
               PROVE  r[a[p]] <= r[a[q]]
    BY DEF Divided
  <2>1. \A c \in 1 .. Len(ds) : ~ (/\ ds[c].lo <= p /\ p <= ds[c].hi
                                   /\ ds[c].lo <= q /\ q <= ds[c].hi)
    BY DEF InOne
  <2>2. CASE low <= p /\ p <= top /\ low <= q /\ q <= top
    <3>1. 1 \in 1 .. Len(ds) /\ 2 \in 1 .. Len(ds)
      BY <1>0, <1>1
    <3>2. /\ ~(el <= p /\ p <= eh /\ el <= q /\ q <= eh)
          /\ ~(fl <= p /\ p <= fh /\ fl <= q /\ q <= fh)
      BY <1>1, <2>1, <3>1 DEF el, eh, fl, fh
    <3>3. p <= x /\ x <= q
      <4>1. p \in Int /\ q \in Int /\ p < q
        OBVIOUS
      <4>2. x \in Int /\ low \in Int /\ top \in Int
        BY <1>2
      <4>3. CASE el = low /\ eh = x - 1 /\ fl = x + 1 /\ fh = top
        BY <2>2, <3>2, <4>1, <4>2, <4>3
      <4>4. CASE fl = low /\ fh = x - 1 /\ el = x + 1 /\ eh = top
        BY <2>2, <3>2, <4>1, <4>2, <4>4
      <4> QED BY <1>3i, <4>3, <4>4
    <3>4. (p = x \/ p \in low .. x - 1) /\ (q = x \/ q \in x + 1 .. top)
      <4>1. p \in Int /\ q \in Int /\ x \in Int /\ low \in Int /\ top \in Int
        BY <1>2
      <4> HIDE DEF low, top
      <4> QED BY <2>2, <3>3, <4>1
    <3>5. x \in 0 .. n - 1
      BY <1>2
    <3>6. r[a[p]] \in Int /\ r[a[q]] \in Int /\ r[a[x]] \in Int
      BY <3>5, RankIsInt
    <3>7. r[a[p]] <= r[a[x]] /\ r[a[x]] <= r[a[q]]
      BY <3>4, <3>6 DEF low, top
    <3> QED BY <3>6, <3>7
  <2>3. CASE ~(low <= p /\ p <= top /\ low <= q /\ q <= top)
    <3>1. ~InOne(cs, p, q)
      <4> SUFFICES ASSUME NEW c \in 1 .. Len(cs), cs[c].lo <= p, p <= cs[c].hi,
                          cs[c].lo <= q, q <= cs[c].hi
                   PROVE  FALSE
        BY DEF InOne
      <4>1. c # 1
        BY <2>3 DEF low, top
      <4>2. c + 1 \in 1 .. Len(ds) /\ ds[c + 1] = cs[c]
        <5>1. c + 1 \in 3 .. Len(ds) /\ (c + 1) - 1 = c /\ c + 1 \in 1 .. Len(ds)
          BY <1>0, <1>1, <4>1
        <5> QED BY <1>1, <5>1
      <4> QED BY <2>1, <4>2
    <3> QED BY <3>1 DEF Divided
  <2> QED BY <2>2, <2>3
<1> QED BY <1>1, <1>7, <1>8, <1>9 DEF ds

(* A return leaves one call less.                                          *)
LEMMA ShallowReturned ==
    ASSUME NEW n \in Nat, NEW cs \in Seq(Ranges), cs # << >>, Shallow(cs, n)
    PROVE  Shallow(Tail(cs), n)
<1>1. Len(Tail(cs)) = Len(cs) - 1 /\ Len(cs) \in Nat
  BY HeadTailProperties, LenProperties
<1> SUFFICES ASSUME Len(cs) - 1 > 1
             PROVE  2 ^ (Len(cs) - 2) <= n
  <2>1. (Len(cs) - 1) - 1 = Len(cs) - 2
    BY <1>1
  <2> QED BY <1>1, <2>1 DEF Shallow
<1>2. 2 ^ (Len(cs) - 1) <= n
  BY <1>1 DEF Shallow
<1>3. Len(cs) - 2 \in Nat /\ (Len(cs) - 2) + 1 = Len(cs) - 1
  BY <1>1
<1>4. PICK u \in Nat : u = 2 ^ (Len(cs) - 2)
  BY <1>3, PowerOfTwo
<1>5. 2 * u <= n
  BY <1>2, <1>3, <1>4, PowerOfTwo
<1>6. u <= n
  BY <1>5
<1> QED BY <1>4, <1>6

(* One call more: the range at hand has two places or more, so that three  *)
(* times the bound there was is at most the length and one, and two times  *)
(* at most the length.                                                     *)
LEMMA ShallowDivided ==
    ASSUME NEW n \in Nat, NEW cs \in Seq(Ranges), cs # << >>, Within(cs, n),
           cs[1].lo < cs[1].hi, NEW ds, Len(ds) = Len(cs) + 1
    PROVE  Shallow(ds, n)
<1>1. Len(cs) \in Nat /\ 1 \in 1 .. Len(cs)
  <2>1. Len(cs) \in Nat \ {0}
    BY EmptySeq
  <2> QED BY <2>1
<1>2. cs[1].lo \in Int /\ cs[1].hi \in Int
  <2>1. cs[1] \in Ranges
    BY <1>1, ElementOfSeq
  <2> QED BY <2>1 DEF Ranges
<1>3. (cs[1].hi - cs[1].lo + 2) * 2 ^ (Len(cs) - 1) <= n + 1
  BY <1>1 DEF Within
<1>4. Len(cs) - 1 \in Nat /\ (Len(cs) - 1) + 1 = Len(ds) - 1
  BY <1>1
<1>5. PICK u \in Nat : u = 2 ^ (Len(cs) - 1) /\ 1 <= u
  BY <1>4, PowerOfTwo
<1>6. PICK v \in Nat : v = cs[1].hi - cs[1].lo + 2 /\ 3 <= v
  <2>1. PICK l \in Int, h \in Int : l = cs[1].lo /\ h = cs[1].hi
    BY <1>2
  <2>2. l < h
    BY <2>1
  <2>3. h - l + 2 \in Nat /\ 3 <= h - l + 2
    BY <2>2
  <2> QED BY <2>1, <2>3
<1>7. 3 * u <= v * u /\ v * u <= n + 1 /\ v * u \in Int
  <2>1. 3 * u <= v * u
    BY <1>6, ProductGrows
  <2>2. v * u <= n + 1 /\ v * u \in Int
    BY <1>3, <1>5, <1>6
  <2> QED BY <2>1, <2>2
<1>8. 2 * u <= n
  BY <1>5, <1>7
<1>9. 2 ^ (Len(ds) - 1) = 2 * u
  BY <1>4, <1>5, PowerOfTwo
<1> QED BY <1>8, <1>9 DEF Shallow

(* The first state of quick_sort: one range, the whole array.              *)
LEMMA QuickInit ==
    ASSUME Quick!Init
    PROVE  QuickInv
<1>1. /\ rank \in Arrays /\ len \in 0 .. MaxLen /\ DOMAIN rank = 0 .. len - 1
      /\ arr = Unsorted(len) /\ calls = <<[lo |-> 0, hi |-> len - 1]>>
      /\ idx = 0 /\ i = 0 /\ partitioning = FALSE
  BY DEF Quick!Init, Quick!Arrays, Arrays, Quick!Unsorted, Unsorted, Quick!Range
<1>2. len \in Nat /\ rank \in [0 .. len - 1 -> Rank]
  BY <1>1, ArraysOfLength
<1>3. Permutes(arr, len)
  BY <1>1, <1>2, UnsortedPermutes
<1>4. /\ calls \in Seq(Ranges) /\ Len(calls) = 1 /\ calls[1].lo = 0 /\ calls[1].hi = len - 1
      /\ \A c \in 1 .. Len(calls) : c = 1
  <2>1. [lo |-> 0, hi |-> len - 1] \in Ranges
    BY <1>2 DEF Ranges
  <2> QED BY <1>1, <2>1
<1>5. Within(calls, len)
  <2>1. 0 <= 0 /\ 0 <= len - 1 + 1 /\ len - 1 < len
    BY <1>2
  <2>2. (len - 1 - 0 + 2) * 2 ^ (1 - 1) <= len + 1
    <3>1. 2 ^ 0 = 1 /\ 1 - 1 = 0
      OBVIOUS
    <3> QED BY <1>2, <3>1
  <2> QED BY <1>4, <2>1, <2>2 DEF Within
<1>6. Apart(calls)
  BY <1>4 DEF Apart
<1>7. Divided(rank, arr, len, calls)
  <2> SUFFICES ASSUME NEW p \in 0 .. len - 1, NEW q \in 0 .. len - 1 PROVE InOne(calls, p, q)
    BY DEF Divided
  <2>1. 1 \in 1 .. Len(calls) /\ 0 <= p /\ p <= len - 1 /\ 0 <= q /\ q <= len - 1
    BY <1>2, <1>4
  <2> QED BY <1>4, <2>1 DEF InOne
<1>8. idx \in Int /\ i \in Int /\ partitioning \in BOOLEAN /\ ~partitioning
  <2>1. idx = 0 /\ i = 0 /\ partitioning = FALSE
    BY <1>1
  <2>2. idx \in Int /\ i \in Int
    BY <2>1
  <2>3. partitioning \in BOOLEAN /\ ~partitioning
    BY <2>1, Zenon
  <2> QED BY <2>2, <2>3
<1> QED
  <2>1. calls \in Seq(Ranges) /\ len \in 0 .. MaxLen /\ Shallow(calls, len)
    BY <1>1, <1>4 DEF Shallow
  <2> QED BY <1>2, <1>3, <1>5, <1>6, <1>7, <1>8, <2>1 DEF QuickInv

(* Every step of quick_sort.                                               *)
LEMMA QuickKeeps ==
    ASSUME QuickInv, Quick!Next
    PROVE  QuickInv'
<1>1. /\ len \in Nat /\ len \in 0 .. MaxLen /\ rank \in [0 .. len - 1 -> Rank]
      /\ Permutes(arr, len) /\ calls \in Seq(Ranges) /\ idx \in Int /\ i \in Int
      /\ partitioning \in BOOLEAN
      /\ Within(calls, len) /\ Apart(calls) /\ Divided(rank, arr, len, calls)
      /\ Shallow(calls, len)
  BY ArrayAssumption DEF QuickInv
<1>2. \A x \in 0 .. len - 1 : arr[x] \in 0 .. len - 1 /\ rank[arr[x]] \in Int
  BY <1>1, RankIsInt
<1>3. ASSUME calls # <<>>
      PROVE  /\ Head(calls) = calls[1] /\ 1 \in 1 .. Len(calls)
             /\ calls[1].lo \in Int /\ calls[1].hi \in Int
             /\ 0 <= calls[1].lo /\ calls[1].hi < len
  <2>1. Len(calls) \in Nat \ {0}
    BY <1>1, <1>3, EmptySeq
  <2>2. 1 \in 1 .. Len(calls)
    BY <2>1
  <2>3. calls[1] \in Ranges
    BY <1>1, <2>2, ElementOfSeq
  <2>4. Head(calls) = calls[1]
    BY <1>1, <1>3
  <2> QED BY <1>1, <2>2, <2>3, <2>4 DEF Ranges, Within
<1> DEFINE low == calls[1].lo
           top == calls[1].hi
<1>4. CASE Quick!Return
  <2>1. /\ calls # <<>> /\ ~partitioning /\ Head(calls).lo >= Head(calls).hi
        /\ calls' = Tail(calls)
        /\ len' = len /\ rank' = rank /\ arr' = arr /\ idx' = idx /\ i' = i
        /\ partitioning' = partitioning
    BY <1>4 DEF Quick!Return, Quick!Now, Quick!input
  <2>2. /\ calls' \in Seq(Ranges) /\ Apart(calls') /\ Within(calls', len)
        /\ Divided(rank, arr, len, calls') /\ Shallow(calls', len)
    BY <1>1, <1>3, <2>1, RangeReturned, ShallowReturned
  <2> QED BY <1>1, <2>1, <2>2 DEF QuickInv
<1>5. CASE Quick!BeginPartition
  <2>1. /\ calls # <<>> /\ Head(calls).lo < Head(calls).hi
        /\ idx' = Head(calls).lo - 1 /\ i' = Head(calls).lo /\ partitioning' = TRUE
        /\ len' = len /\ rank' = rank /\ arr' = arr /\ calls' = calls
    BY <1>5 DEF Quick!BeginPartition, Quick!Now, Quick!input
  <2>2. /\ idx' = low - 1 /\ i' = low /\ low \in Int /\ top \in Int /\ low < top
    BY <1>3, <2>1
  <2> HIDE DEF low, top
  <2>3. /\ idx' \in Int /\ i' \in Int /\ low - 1 <= idx' /\ idx' < i' /\ low <= i' /\ i' <= top
        /\ (\A p \in low .. idx' : FALSE) /\ \A p \in idx' + 1 .. i' - 1 : FALSE
    BY <2>2
  <2> QED BY <1>1, <2>1, <2>2, <2>3 DEF QuickInv, low, top
<1>6. CASE Quick!Compare
  <2>1. /\ partitioning = TRUE /\ i < Head(calls).hi
        /\ i' = i + 1
        /\ len' = len /\ rank' = rank /\ calls' = calls /\ partitioning' = partitioning
    BY <1>1, <1>6 DEF Quick!Compare, Quick!Now, Quick!input
  <2>2. /\ calls # <<>> /\ low < top /\ low - 1 <= idx /\ idx < i /\ low <= i
        /\ \A p \in low .. idx : rank[arr[p]] <= rank[arr[top]]
        /\ \A p \in idx + 1 .. i - 1 : rank[arr[p]] > rank[arr[top]]
    BY <2>1 DEF QuickInv
  <2>3. /\ Head(calls) = calls[1] /\ 1 \in 1 .. Len(calls) /\ low \in Int /\ top \in Int
        /\ 0 <= low /\ top < len /\ i < top
    BY <1>3, <2>1, <2>2
  <2>4. IF rank[arr[i]] <= rank[arr[top]]
        THEN idx' = idx + 1 /\ arr' = Exchanged(arr, idx + 1, i)
        ELSE idx' = idx /\ arr' = arr
    BY <1>6, <2>3 DEF Quick!Compare, Quick!Now, Quick!Pivot, Quick!Exchanged, Exchanged
  <2>5. /\ i \in 0 .. len - 1 /\ idx + 1 \in 0 .. len - 1 /\ top \in 0 .. len - 1
        /\ i # top /\ idx + 1 # top /\ low <= idx + 1 /\ idx + 1 <= i
        /\ idx + 1 <= top /\ i <= top
    <3> HIDE DEF low, top
    <3> QED BY <1>1, <2>1, <2>2, <2>3
  <2>6. CASE rank[arr[i]] <= rank[arr[top]]
    <3>1. idx' = idx + 1 /\ arr' = Exchanged(arr, idx + 1, i)
      BY <2>4, <2>6
    <3>2. /\ Permutes(Exchanged(arr, idx + 1, i), len)
          /\ \A p \in 0 .. len - 1 :
                Exchanged(arr, idx + 1, i)[p]
                  = IF p = i THEN arr[idx + 1] ELSE IF p = idx + 1 THEN arr[i] ELSE arr[p]
      <4>1. len \in Nat /\ Permutes(arr, len) /\ idx + 1 \in 0 .. len - 1 /\ i \in 0 .. len - 1
        BY <1>1, <2>5
      <4> DEFINE y == idx + 1
      <4> HIDE DEF y
      <4>2. /\ Permutes(Exchanged(arr, y, i), len)
            /\ \A p \in 0 .. len - 1 :
                  Exchanged(arr, y, i)[p]
                    = IF p = i THEN arr[y] ELSE IF p = y THEN arr[i] ELSE arr[p]
        <5>1. y \in 0 .. len - 1
          BY <4>1 DEF y
        <5> QED BY <4>1, <5>1, ExchangedPermutes
      <4> QED BY <4>2 DEF y
    <3>3. Divided(rank, Exchanged(arr, idx + 1, i), len, calls)
      <4> DEFINE y == idx + 1
      <4>1. /\ len \in Nat /\ rank \in [0 .. len - 1 -> Rank] /\ Permutes(arr, len)
            /\ calls \in Seq(Ranges) /\ Apart(calls) /\ Within(calls, len)
            /\ Divided(rank, arr, len, calls)
        BY <1>1
      <4>2. 1 \in 1 .. Len(calls) /\ i \in Int /\ y \in Int
        BY <1>1, <2>3
      <4>3. calls[1].lo <= y /\ y <= calls[1].hi /\ calls[1].lo <= i /\ i <= calls[1].hi
        BY <2>2, <2>5
      <4> HIDE DEF y, low, top
      <4>4. Divided(rank, Exchanged(arr, y, i), len, calls)
        BY <4>1, <4>2, <4>3, ExchangeKeepsDivided
      <4> QED BY <4>4 DEF y
    <3>4. /\ Permutes(arr', len) /\ Divided(rank, arr', len, calls)
          /\ \A p \in 0 .. len - 1 :
                arr'[p] = IF p = i THEN arr[idx + 1] ELSE IF p = idx + 1 THEN arr[i] ELSE arr[p]
      BY <3>1, <3>2, <3>3
    <3> HIDE DEF low, top
    <3>5. arr'[top] = arr[top]
      BY <2>5, <3>4
    <3>6. ASSUME NEW p \in low .. idx + 1 PROVE rank[arr'[p]] <= rank[arr'[top]]
      <4>1. p \in 0 .. len - 1 /\ (p = idx + 1 \/ (p \in low .. idx /\ p # i /\ p # idx + 1))
        BY <1>1, <2>2, <2>3, <2>5
      <4>2. CASE p = idx + 1
        <5>1. arr'[p] = arr[i]
          BY <2>5, <3>4, <4>2
        <5> QED BY <2>6, <3>5, <5>1
      <4>3. CASE p \in low .. idx /\ p # i /\ p # idx + 1
        <5>1. arr'[p] = arr[p]
          BY <3>4, <4>1, <4>3
        <5> QED BY <2>2, <3>5, <4>3, <5>1
      <4> QED BY <4>1, <4>2, <4>3
    <3>7. ASSUME NEW p \in (idx + 1) + 1 .. (i + 1) - 1
          PROVE  rank[arr'[p]] > rank[arr'[top]]
      <4>1. p \in 0 .. len - 1 /\ p # idx + 1
        BY <1>1, <2>5
      <4>2. CASE p = i
        <5>1. arr'[p] = arr[idx + 1] /\ idx + 1 \in idx + 1 .. i - 1
          BY <1>1, <2>5, <3>4, <4>1, <4>2
        <5> QED BY <2>2, <3>5, <5>1
      <4>3. CASE p # i
        <5>1. arr'[p] = arr[p] /\ p \in idx + 1 .. i - 1
          BY <1>1, <3>4, <4>1, <4>3
        <5> QED BY <2>2, <3>5, <5>1
      <4> QED BY <4>2, <4>3
    <3>8. /\ idx' \in Int /\ i' \in Int /\ low - 1 <= idx' /\ idx' < i' /\ low <= i' /\ i' <= top
      BY <1>1, <2>1, <2>2, <2>3, <3>1, <2>5
    <3>9. /\ \A p \in low .. idx' : rank[arr'[p]] <= rank[arr'[top]]
          /\ \A p \in idx' + 1 .. i' - 1 : rank[arr'[p]] > rank[arr'[top]]
      BY <2>1, <3>1, <3>6, <3>7
    <3> QED BY <1>1, <2>1, <2>2, <3>4, <3>8, <3>9 DEF QuickInv, low, top
  <2>7. CASE ~(rank[arr[i]] <= rank[arr[top]])
    <3>1. idx' = idx /\ arr' = arr
      BY <2>4, <2>7
    <3>2. rank[arr[i]] > rank[arr[top]]
      BY <1>2, <2>5, <2>7
    <3> HIDE DEF low, top
    <3>3. ASSUME NEW p \in idx + 1 .. (i + 1) - 1 PROVE rank[arr[p]] > rank[arr[top]]
      <4>1. p = i \/ p \in idx + 1 .. i - 1
        BY <1>1
      <4> QED BY <2>2, <3>2, <4>1
    <3>4. idx' \in Int /\ i' \in Int /\ low - 1 <= idx' /\ idx' < i' /\ low <= i' /\ i' <= top
      BY <1>1, <2>1, <2>2, <2>3, <3>1
    <3>5. \A p \in idx' + 1 .. i' - 1 : rank[arr'[p]] > rank[arr'[top]]
      BY <2>1, <3>1, <3>3
    <3> QED BY <1>1, <2>1, <2>2, <3>1, <3>4, <3>5 DEF QuickInv, low, top
  <2> QED BY <2>6, <2>7
<1>7. CASE Quick!EndPartition
  <2>1. /\ partitioning = TRUE /\ i >= Head(calls).hi
        /\ partitioning' = FALSE /\ len' = len /\ rank' = rank /\ idx' = idx /\ i' = i
    BY <1>1, <1>7 DEF Quick!EndPartition, Quick!Now, Quick!input
  <2>2. /\ calls # <<>> /\ low < top /\ low - 1 <= idx /\ idx < i /\ low <= i /\ i <= top
        /\ \A p \in low .. idx : rank[arr[p]] <= rank[arr[top]]
        /\ \A p \in idx + 1 .. i - 1 : rank[arr[p]] > rank[arr[top]]
    BY <2>1 DEF QuickInv
  <2>3. /\ Head(calls) = calls[1] /\ 1 \in 1 .. Len(calls) /\ low \in Int /\ top \in Int
        /\ 0 <= low /\ top < len
    BY <1>3, <2>2
  <2>4. i = top
    <3>1. i >= top
      BY <2>1, <2>3
    <3> HIDE DEF low, top
    <3> QED BY <1>1, <2>2, <2>3, <3>1
  <2> DEFINE x == idx + 1
             e == IF x - low < top - x THEN [lo |-> low, hi |-> x - 1] ELSE [lo |-> x + 1, hi |-> top]
             f == IF x - low < top - x THEN [lo |-> x + 1, hi |-> top] ELSE [lo |-> low, hi |-> x - 1]
  <2>5. /\ arr' = Exchanged(arr, x, top)
        /\ calls' = <<e, f>> \o Tail(calls)
    BY <1>7, <2>3 DEF Quick!EndPartition, Quick!Now, Quick!Exchanged, Exchanged, Quick!Divide,
                      Quick!Range
  <2>6. /\ x \in 0 .. len - 1 /\ top \in 0 .. len - 1 /\ low <= x /\ x <= top /\ low <= top
        /\ x \in Int
    <3> HIDE DEF low, top
    <3> QED BY <1>1, <2>2, <2>3, <2>4
  <2>7. /\ e \in Ranges /\ f \in Ranges /\ e.hi - e.lo <= f.hi - f.lo
        /\ \/ e.lo = low /\ e.hi = x - 1 /\ f.lo = x + 1 /\ f.hi = top
           \/ f.lo = low /\ f.hi = x - 1 /\ e.lo = x + 1 /\ e.hi = top
    <3> HIDE DEF low, top, x
    <3>1. CASE x - low < top - x
      <4>1. /\ e.lo = low /\ e.hi = x - 1 /\ f.lo = x + 1 /\ f.hi = top
            /\ e = [lo |-> low, hi |-> x - 1] /\ f = [lo |-> x + 1, hi |-> top]
        BY <3>1
      <4>2. (x - 1) - low <= top - (x + 1)
        BY <2>3, <2>6, <3>1
      <4>3. e \in Ranges /\ f \in Ranges
        BY <2>3, <2>6, <4>1 DEF Ranges
      <4> QED BY <4>1, <4>2, <4>3
    <3>2. CASE ~(x - low < top - x)
      <4>1. /\ f.lo = low /\ f.hi = x - 1 /\ e.lo = x + 1 /\ e.hi = top
            /\ f = [lo |-> low, hi |-> x - 1] /\ e = [lo |-> x + 1, hi |-> top]
        BY <3>2
      <4>2. top - (x + 1) <= (x - 1) - low
        BY <2>3, <2>6, <3>2
      <4>3. e \in Ranges /\ f \in Ranges
        BY <2>3, <2>6, <4>1 DEF Ranges
      <4> QED BY <4>1, <4>2, <4>3
    <3> QED BY <3>1, <3>2
  <2> HIDE DEF e, f
  <2>8. /\ Permutes(Exchanged(arr, x, top), len)
        /\ \A p \in 0 .. len - 1 :
              Exchanged(arr, x, top)[p]
                = IF p = top THEN arr[x] ELSE IF p = x THEN arr[top] ELSE arr[p]
    <3>1. len \in Nat /\ Permutes(arr, len) /\ x \in 0 .. len - 1 /\ top \in 0 .. len - 1
      BY <1>1, <2>6
    <3> HIDE DEF x, top
    <3> QED BY <3>1, ExchangedPermutes
  <2>9. Divided(rank, Exchanged(arr, x, top), len, calls)
    <3>1. /\ 1 \in 1 .. Len(calls) /\ x \in Int /\ top \in Int
          /\ calls[1].lo <= x /\ x <= calls[1].hi
          /\ calls[1].lo <= top /\ top <= calls[1].hi
      BY <2>3, <2>6
    <3> HIDE DEF x, low, top
    <3> QED BY <1>1, <3>1, ExchangeKeepsDivided
  <2>10. /\ Permutes(arr', len) /\ Divided(rank, arr', len, calls)
         /\ \A p \in 0 .. len - 1 :
               arr'[p] = IF p = top THEN arr[x] ELSE IF p = x THEN arr[top] ELSE arr[p]
    BY <2>5, <2>8, <2>9
  <2>11. \A p \in 0 .. len - 1 : rank[arr'[p]] \in Int
    BY <1>1, <2>10, RankIsInt
  <2>12. arr'[x] = arr[top]
    BY <2>6, <2>10
  <2>13. ASSUME NEW p \in low .. x - 1 PROVE rank[arr'[p]] <= rank[arr'[x]]
    <3> HIDE DEF low, top
    <3>1. p \in low .. idx /\ p \in 0 .. len - 1 /\ p # x /\ p # top
      BY <1>1, <2>3, <2>6
    <3>2. arr'[p] = arr[p]
      BY <2>10, <3>1
    <3> QED BY <2>2, <2>12, <3>1, <3>2
  <2>14. ASSUME NEW p \in x + 1 .. top PROVE rank[arr'[x]] <= rank[arr'[p]]
    <3> HIDE DEF low, top
    <3>1. p \in 0 .. len - 1 /\ p # x
      BY <1>1, <2>3, <2>6
    <3>2. PICK q \in idx + 1 .. i - 1 : arr'[p] = arr[q]
      <4>1. CASE p = top
        <5>1. x \in idx + 1 .. i - 1 /\ arr'[p] = arr[x]
          BY <1>1, <2>4, <2>6, <2>10, <3>1, <4>1
        <5> QED BY <5>1
      <4>2. CASE p # top
        <5>1. p \in idx + 1 .. i - 1 /\ arr'[p] = arr[p]
          BY <1>1, <2>3, <2>4, <2>6, <2>10, <3>1, <4>2
        <5> QED BY <5>1
      <4> QED BY <4>1, <4>2
    <3>3. rank[arr'[p]] > rank[arr'[x]]
      BY <2>2, <2>12, <3>2
    <3>4. rank[arr'[p]] \in Int /\ rank[arr'[x]] \in Int
      BY <2>6, <2>11, <3>1
    <3> QED BY <3>3, <3>4
  <2>15. /\ calls' \in Seq(Ranges) /\ Apart(calls') /\ Within(calls', len)
         /\ Divided(rank, arr', len, calls')
    <3>1. /\ calls # <<>> /\ calls[1].lo <= x /\ x <= calls[1].hi
          /\ \A p \in calls[1].lo .. x - 1 : rank[arr'[p]] <= rank[arr'[x]]
          /\ \A p \in x + 1 .. calls[1].hi : rank[arr'[x]] <= rank[arr'[p]]
      BY <2>2, <2>6, <2>13, <2>14
    <3>2. \/ e.lo = calls[1].lo /\ e.hi = x - 1 /\ f.lo = x + 1 /\ f.hi = calls[1].hi
          \/ f.lo = calls[1].lo /\ f.hi = x - 1 /\ e.lo = x + 1 /\ e.hi = calls[1].hi
      BY <2>7
    <3>3. /\ len \in Nat /\ rank \in [0 .. len - 1 -> Rank] /\ Permutes(arr', len)
          /\ calls \in Seq(Ranges) /\ Apart(calls) /\ Within(calls, len)
          /\ Divided(rank, arr', len, calls)
          /\ x \in Int /\ e \in Ranges /\ f \in Ranges /\ e.hi - e.lo <= f.hi - f.lo
      BY <1>1, <2>6, <2>7, <2>10
    <3> HIDE DEF x, low, top
    <3>4. LET ds == <<e, f>> \o Tail(calls)
          IN  ds \in Seq(Ranges) /\ Apart(ds) /\ Within(ds, len) /\ Divided(rank, arr', len, ds)
      BY <3>1, <3>2, <3>3, RangeDivided
    <3> QED BY <2>5, <3>4
  <2>16. Shallow(calls', len)
    <3>1. Len(calls') = Len(calls) + 1
      BY <1>1, <2>2, <2>5, <2>7, TwoOntoTail
    <3> QED BY <1>1, <2>2, <3>1, ShallowDivided
  <2> QED BY <1>1, <2>1, <2>10, <2>15, <2>16 DEF QuickInv
<1> QED BY <1>4, <1>5, <1>6, <1>7 DEF Quick!Next

(* What the invariant is for.                                              *)
LEMMA QuickImplies ==
    ASSUME QuickInv
    PROVE  Quick!TypeOK /\ Quick!Partitioned /\ Quick!ShallowStack /\ Quick!Sorts
<1>1. /\ len \in Nat /\ len \in 0 .. MaxLen /\ rank \in [0 .. len - 1 -> Rank]
      /\ Permutes(arr, len) /\ calls \in Seq(Ranges) /\ idx \in Int /\ i \in Int
      /\ partitioning \in BOOLEAN
      /\ Within(calls, len) /\ Apart(calls) /\ Divided(rank, arr, len, calls)
  BY ArrayAssumption DEF QuickInv
<1>2. \A x \in 0 .. len - 1 : rank[arr[x]] \in Int
  BY <1>1, RankIsInt
<1>3. DOMAIN calls = 1 .. Len(calls) /\ Len(calls) \in Nat
  BY <1>1
<1>4. \A c \in 1 .. Len(calls) : calls[c].lo \in Int /\ calls[c].hi \in Int
  <2>1. \A c \in 1 .. Len(calls) : calls[c] \in Ranges
    BY <1>1, ElementOfSeq
  <2> QED BY <2>1 DEF Ranges
<1>5. calls # <<>> => Head(calls) = calls[1] /\ 1 \in 1 .. Len(calls)
  BY <1>1, EmptySeq
<1>6. Quick!TypeOK
  <2>1. Quick!Permutes(arr, len)
    BY <1>1 DEF Quick!Permutes, Permutes
  <2>2. \A c \in DOMAIN calls : 0 <= calls[c].lo /\ calls[c].hi < len
    BY <1>1, <1>3 DEF Within
  <2>3. partitioning => Head(calls).lo - 1 <= idx /\ idx < i /\ i <= Head(calls).hi
    BY <1>5 DEF QuickInv
  <2> QED BY <1>1, <2>1, <2>2, <2>3 DEF Quick!TypeOK, Quick!Now
<1>7. ASSUME NEW p \in 0 .. len - 1, NEW q \in 0 .. len - 1, p < q, ~Quick!SameRange(p, q)
      PROVE  rank[arr[p]] <= rank[arr[q]]
  <2>1. ~InOne(calls, p, q)
    <3> SUFFICES ASSUME NEW c \in 1 .. Len(calls), calls[c].lo <= p, p <= calls[c].hi,
                        calls[c].lo <= q, q <= calls[c].hi
                 PROVE  FALSE
      BY DEF InOne
    <3>1. {p, q} \subseteq calls[c].lo .. calls[c].hi
      BY <1>4
    <3> QED BY <1>3, <1>7, <3>1 DEF Quick!SameRange
  <2> QED BY <1>1, <1>7, <2>1 DEF Divided
<1>8. Quick!Partitioned
  <2>1. \A p, q \in 0 .. len - 1 :
           p < q /\ ~Quick!SameRange(p, q) => Quick!NotAfter(rank, arr[p], arr[q])
    BY <1>7 DEF Quick!NotAfter
  <2>2. ASSUME partitioning
        PROVE  /\ \A p \in Head(calls).lo .. idx : rank[arr[p]] <= rank[arr[Head(calls).hi]]
               /\ \A p \in idx + 1 .. i - 1 : ~(rank[arr[p]] <= rank[arr[Head(calls).hi]])
    <3>1. /\ calls # <<>> /\ calls[1].lo - 1 <= idx /\ idx < i /\ i <= calls[1].hi
          /\ \A p \in calls[1].lo .. idx : rank[arr[p]] <= rank[arr[calls[1].hi]]
          /\ \A p \in idx + 1 .. i - 1 : rank[arr[p]] > rank[arr[calls[1].hi]]
      BY <2>2 DEF QuickInv
    <3>2. Head(calls) = calls[1] /\ calls[1].lo \in Int /\ calls[1].hi \in Int
          /\ 0 <= calls[1].lo /\ calls[1].hi < len
      BY <1>1, <1>4, <1>5, <3>1 DEF Within
    <3>3. \A p \in idx + 1 .. i - 1 : ~(rank[arr[p]] <= rank[arr[calls[1].hi]])
      <4> SUFFICES ASSUME NEW p \in idx + 1 .. i - 1
                   PROVE  ~(rank[arr[p]] <= rank[arr[calls[1].hi]])
        OBVIOUS
      <4> DEFINE low == calls[1].lo
                 top == calls[1].hi
      <4>1. low - 1 <= idx /\ idx < i /\ i <= top /\ low \in Int /\ top \in Int
            /\ 0 <= low /\ top < len
        BY <3>1, <3>2
      <4> HIDE DEF low, top
      <4>2. p \in 0 .. len - 1 /\ top \in 0 .. len - 1
        BY <1>1, <4>1
      <4>3. rank[arr[p]] > rank[arr[top]] /\ rank[arr[p]] \in Int /\ rank[arr[top]] \in Int
        BY <1>2, <3>1, <4>2 DEF top
      <4>4. ~(rank[arr[p]] <= rank[arr[top]])
        BY <4>3
      <4> QED BY <4>4 DEF top
    <3> QED BY <3>1, <3>2, <3>3
  <2> QED BY <2>1, <2>2 DEF Quick!Partitioned, Quick!NotAfter, Quick!Now, Quick!Pivot
<1>9. Quick!ShallowStack
  BY DEF QuickInv, Shallow, Quick!ShallowStack
<1>10. Quick!Sorts
  <2> SUFFICES ASSUME calls = <<>>, NEW p \in 0 .. len - 1, NEW q \in 0 .. len - 1, p < q
               PROVE  rank[arr[p]] <= rank[arr[q]]
    BY DEF Quick!Sorts, Quick!Done, Quick!Sorted, Quick!NotAfter
  <2>1. ~InOne(calls, p, q)
    BY DEF InOne
  <2> QED BY <1>1, <2>1 DEF Divided
<1> QED BY <1>6, <1>8, <1>9, <1>10
---------------------------------------------------------------------------
(* binary_search: the places still in question, fewer by half with every   *)
(* comparison, are all that the needle can be at.                          *)
SearchInv ==
    /\ len \in 0 .. MaxSearched /\ arr \in [0 .. len - 1 -> Needles] /\ needle \in Needles
    /\ \A p, q \in 0 .. len - 1 : p <= q => arr[p] <= arr[q]
    /\ lo \in Nat /\ hi \in Nat /\ hi <= len /\ tried \in Nat /\ result \in {-1, 0, 1}
    /\ result = 1 => IF len = 0 THEN lo = 0 /\ hi = 0 /\ tried = 0
                     ELSE lo < hi /\ (hi - lo) * 2 ^ tried <= len
    /\ tried > 0 => 2 ^ (tried - 1) <= IF len = 0 THEN 1 ELSE len
    /\ result = -1 => lo >= hi
    /\ result = 0 /\ len > 0 => \E p \in 0 .. len - 1 : arr[p] = needle
    /\ result # 0 => \A p \in 0 .. len - 1 : arr[p] = needle => lo <= p /\ p < hi

(* What the invariant is for.                                              *)
LEMMA SearchImplies ==
    ASSUME SearchInv
    PROVE  Search!Halved /\ Search!StillAhead /\ Search!Decides
<1>1. len \in Nat /\ DOMAIN arr = 0 .. len - 1 /\ lo \in Nat /\ hi \in Nat
      /\ result \in {-1, 0, 1}
  BY CallAssumption DEF SearchInv, Search!ArrayAssumption
<1>2. Search!Halved
  BY <1>1 DEF SearchInv, Search!Halved
<1>3. Search!StillAhead
  BY <1>1 DEF SearchInv, Search!StillAhead
<1>4. Search!Decides
  <2> SUFFICES ASSUME result # 1, len > 0
               PROVE  result = 0 <=> \E p \in 0 .. len - 1 : arr[p] = needle
    BY <1>1 DEF Search!Decides
  <2>1. CASE result = 0
    BY <2>1 DEF SearchInv
  <2>2. CASE result = -1
    <3>1. lo >= hi /\ \A p \in 0 .. len - 1 : arr[p] = needle => lo <= p /\ p < hi
      BY <2>2 DEF SearchInv
    <3>2. \A p \in 0 .. len - 1 : ~(lo <= p /\ p < hi)
      BY <1>1, <3>1
    <3> QED BY <2>2, <3>1, <3>2
  <2> QED BY <1>1, <2>1, <2>2
<1> QED BY <1>2, <1>3, <1>4

(* The first state of binary_search.                                       *)
LEMMA SearchInit ==
    ASSUME Search!Init
    PROVE  SearchInv
<1>1. /\ len \in 0 .. MaxSearched /\ DOMAIN arr = 0 .. len - 1 /\ needle \in Needles
      /\ \A p, q \in 0 .. len - 1 : p <= q => arr[p] <= arr[q]
      /\ lo = 0 /\ hi = len /\ tried = 0 /\ result = 1 /\ arr \in Search!Arrays
  BY DEF Search!Init
<1>2. len \in Nat
  BY <1>1, CallAssumption DEF Search!ArrayAssumption
<1>3. arr \in [0 .. len - 1 -> Needles]
  BY <1>1 DEF Search!Arrays
<1>4. (len - 0) * 2 ^ 0 <= len
  <2>1. 2 ^ 0 = 1
    OBVIOUS
  <2> QED BY <1>2, <2>1
<1>5. \A p \in 0 .. len - 1 : lo <= p /\ p < hi
  BY <1>1, <1>2
<1>6. lo \in Nat /\ hi \in Nat /\ hi <= len /\ tried \in Nat /\ result \in {-1, 0, 1}
      /\ result # -1 /\ result # 0 /\ ~(tried > 0)
  BY <1>1, <1>2
<1>7. IF len = 0 THEN lo = 0 /\ hi = 0 /\ tried = 0
      ELSE lo < hi /\ (hi - lo) * 2 ^ tried <= len
  BY <1>1, <1>2, <1>4
<1> QED BY <1>1, <1>3, <1>5, <1>6, <1>7 DEF SearchInv

(* Each side of the middle has at most half of the places.                 *)
LEMMA MiddleHalves ==
    ASSUME NEW x \in Nat, NEW y \in Nat, x < y, NEW m \in Int, m = x + (y - x) \div 2
    PROVE  x <= m /\ m < y /\ 2 * (y - (m + 1)) <= y - x /\ 2 * (m - x) <= y - x
OBVIOUS

(* Half of the places, once more multiplied, is no more than before.       *)
LEMMA HalfAsMany ==
    ASSUME NEW u \in Nat, NEW v \in Nat, NEW w \in Nat, NEW n \in Nat,
           2 * u <= v, 1 <= v, v * w <= n
    PROVE  u * (2 * w) <= n /\ w <= n
<1>1. (2 * u) * w <= v * w /\ u * (2 * w) = (2 * u) * w
  BY ProductGrows
<1>2. 1 * w <= v * w
  BY ProductGrows
<1>3. v * w \in Nat /\ u * (2 * w) \in Nat /\ 1 * w = w
  OBVIOUS
<1> QED BY <1>1, <1>2, <1>3

(* The length of what is still in question.                                *)
LEMMA RangeLength ==
    \A x, y \in Nat : x < y => y - x \in Nat /\ 1 <= y - x
OBVIOUS

(* Every comparison.                                                       *)
LEMMA SearchKeeps ==
    ASSUME SearchInv, Search!Halve
    PROVE  SearchInv'
<1> DEFINE m == lo + (hi - lo) \div 2
<1>1. /\ len \in Nat /\ len \in 0 .. MaxSearched /\ arr \in [0 .. len - 1 -> Needles]
      /\ needle \in Needles /\ Needles \subseteq Int
      /\ \A p, q \in 0 .. len - 1 : p <= q => arr[p] <= arr[q]
      /\ lo \in Nat /\ hi \in Nat /\ hi <= len /\ tried \in Nat /\ result = 1
      /\ IF len = 0 THEN lo = 0 /\ hi = 0 /\ tried = 0
         ELSE lo < hi /\ (hi - lo) * 2 ^ tried <= len
      /\ \A p \in 0 .. len - 1 : arr[p] = needle => lo <= p /\ p < hi
  BY CallAssumption DEF SearchInv, Search!Halve, Search!ArrayAssumption
<1>2. /\ tried' = tried + 1 /\ arr' = arr /\ len' = len /\ needle' = needle
  BY DEF Search!Halve, Search!input
<1>3. PICK cmp \in Search!Sign :
        /\ lo' = IF cmp < 0 THEN m + 1 ELSE lo
        /\ hi' = IF cmp > 0 THEN m ELSE hi
        /\ result' = IF cmp = 0 THEN 0 ELSE IF lo' < hi' THEN 1 ELSE -1
  BY DEF Search!Halve, Search!Middle
<1>4. cmp \in IF m < len THEN {arr[m] - needle} ELSE {-1, 0, 1}
  BY DEF Search!Sign, Search!Middle
<1>5. 2 ^ tried \in Nat /\ 2 ^ (tried + 1) = 2 * 2 ^ tried
      /\ (tried + 1) - 1 = tried /\ tried + 1 \in Nat
  BY <1>1, PowerOfTwo
<1>6. m \in Int
  BY <1>1
<1> HIDE DEF m
<1>7. CASE len = 0
  <2>1. lo = 0 /\ hi = 0 /\ tried = 0 /\ m = 0
    BY <1>1, <1>7 DEF m
  <2>2. cmp \in {-1, 0, 1}
    BY <1>4, <1>7, <2>1
  <2>3. lo' \in {0, 1} /\ hi' = 0 /\ result' \in {0, -1}
    BY <1>3, <2>1, <2>2
  <2>4. 2 ^ (tried' - 1) <= 1
    <3>1. tried' - 1 = 0 /\ 2 ^ 0 = 1
      BY <1>2, <2>1
    <3> QED BY <3>1
  <2>5. /\ lo' \in Nat /\ hi' \in Nat /\ hi' <= len' /\ tried' \in Nat /\ result' \in {-1, 0, 1}
        /\ result' # 1 /\ lo' >= hi' /\ ~(len' > 0)
    BY <1>1, <1>2, <1>5, <1>7, <2>3
  <2>6. \A p \in 0 .. len' - 1 : FALSE
    BY <1>2, <1>7
  <2>7. 2 ^ (tried' - 1) <= IF len' = 0 THEN 1 ELSE len'
    BY <1>2, <1>7, <2>4
  <2>8. /\ len' \in 0 .. MaxSearched /\ arr' \in [0 .. len' - 1 -> Needles] /\ needle' \in Needles
        /\ \A p, q \in 0 .. len' - 1 : p <= q => arr'[p] <= arr'[q]
    BY <1>1, <1>2
  <2> QED BY <2>5, <2>6, <2>7, <2>8 DEF SearchInv
<1>8. CASE len # 0
  <2>1. lo < hi /\ (hi - lo) * 2 ^ tried <= len
    BY <1>1, <1>8
  <2>2. lo <= m /\ m < hi /\ 2 * (hi - (m + 1)) <= hi - lo /\ 2 * (m - lo) <= hi - lo
    BY <1>1, <1>6, <2>1, MiddleHalves DEF m
  <2>3. m \in 0 .. len - 1 /\ m < len
    BY <1>1, <1>6, <2>2
  <2>4. cmp = arr[m] - needle /\ arr[m] \in Int /\ needle \in Int /\ cmp \in Int
    <3>1. arr[m] \in Int /\ needle \in Int
      BY <1>1, <2>3
    <3> QED BY <1>4, <2>3, <3>1
  <2>5. 2 ^ tried <= len
    <3>1. hi - lo \in Nat /\ 1 <= hi - lo /\ 0 \in Nat /\ 2 * 0 <= hi - lo
      BY <1>1, <2>1
    <3> QED BY <1>1, <1>5, <2>1, <3>1, HalfAsMany
  <2>6. 2 ^ (tried' - 1) <= IF len' = 0 THEN 1 ELSE len'
    BY <1>2, <1>5, <1>8, <2>5
  <2>7. /\ len' \in 0 .. MaxSearched /\ arr' \in [0 .. len' - 1 -> Needles] /\ needle' \in Needles
        /\ \A p, q \in 0 .. len' - 1 : p <= q => arr'[p] <= arr'[q]
        /\ tried' \in Nat
    BY <1>1, <1>2, <1>5
  <2>8. CASE cmp = 0
    <3>1. lo' = lo /\ hi' = hi /\ result' = 0
      BY <1>3, <2>8
    <3>2. arr[m] = needle
      BY <2>4, <2>8
    <3>3. \E p \in 0 .. len' - 1 : arr'[p] = needle'
      BY <1>2, <2>3, <3>2
    <3>4. lo' \in Nat /\ hi' \in Nat /\ hi' <= len' /\ result' \in {-1, 0, 1}
          /\ result' # 1 /\ result' # -1
      BY <1>1, <1>2, <3>1
    <3> QED BY <2>6, <2>7, <3>1, <3>3, <3>4 DEF SearchInv
  <2>9. ASSUME cmp # 0, lo' \in Nat, hi' \in Nat, hi' <= len, 2 * (hi' - lo') <= hi - lo,
               \A p \in 0 .. len - 1 : arr[p] = needle => lo' <= p /\ p < hi'
        PROVE  SearchInv'
    <3>1. result' = IF lo' < hi' THEN 1 ELSE -1
      BY <1>3, <2>9
    <3>2. result' \in {-1, 1} /\ (result' = 1 => lo' < hi') /\ (result' = -1 => lo' >= hi')
      BY <2>9, <3>1
    <3>3. ASSUME lo' < hi' PROVE (hi' - lo') * 2 ^ tried' <= len
      <4>1. hi' - lo' \in Nat /\ hi - lo \in Nat /\ 1 <= hi - lo
        <5>1. lo' \in Nat /\ hi' \in Nat /\ lo \in Nat /\ hi \in Nat /\ lo < hi
          BY <1>1, <2>1, <2>9
        <5>2. hi' - lo' \in Nat
          BY Zenon, <3>3, <5>1, RangeLength
        <5>3. hi - lo \in Nat /\ 1 <= hi - lo
          BY Zenon, <5>1, RangeLength
        <5> QED BY <5>2, <5>3
      <4>2. (hi' - lo') * (2 * 2 ^ tried) <= len
        BY <1>1, <1>5, <2>1, <2>9, <4>1, HalfAsMany
      <4> QED BY <1>2, <1>5, <4>2
    <3>4. /\ result' = 1 => lo' < hi' /\ (hi' - lo') * 2 ^ tried' <= len'
          /\ len' # 0 /\ hi' <= len' /\ result' \in {-1, 0, 1} /\ result' # 0
      BY <1>2, <1>8, <2>9, <3>2, <3>3
    <3>5. \A p \in 0 .. len' - 1 : arr'[p] = needle' => lo' <= p /\ p < hi'
      BY <1>2, <2>9
    <3> QED BY <2>6, <2>7, <2>9, <3>2, <3>4, <3>5 DEF SearchInv
  <2>10. CASE cmp < 0
    <3>1. lo' = m + 1 /\ hi' = hi
      BY <1>3, <2>4, <2>10
    <3>2. lo' \in Nat /\ hi' \in Nat /\ hi' <= len /\ 2 * (hi' - lo') <= hi - lo
      BY <1>1, <1>6, <2>2, <3>1
    <3>3. ASSUME NEW p \in 0 .. len - 1, arr[p] = needle PROVE lo' <= p /\ p < hi'
      <4>1. ~(p <= m)
        <5>1. p <= m => arr[p] <= arr[m]
          BY <1>1, <2>3
        <5> QED BY <2>4, <2>10, <3>3, <5>1
      <4>2. p < hi /\ p \in Int
        BY <1>1, <3>3
      <4> QED BY <1>1, <1>6, <3>1, <4>1, <4>2
    <3> QED BY <2>4, <2>9, <2>10, <3>2, <3>3
  <2>11. CASE cmp > 0
    <3>1. lo' = lo /\ hi' = m
      BY <1>3, <2>4, <2>11
    <3>2. lo' \in Nat /\ hi' \in Nat /\ hi' <= len /\ 2 * (hi' - lo') <= hi - lo
      BY <1>1, <1>6, <2>2, <3>1
    <3>3. ASSUME NEW p \in 0 .. len - 1, arr[p] = needle PROVE lo' <= p /\ p < hi'
      <4>1. ~(m <= p)
        <5>1. m <= p => arr[m] <= arr[p]
          BY <1>1, <2>3
        <5> QED BY <2>4, <2>11, <3>3, <5>1
      <4>2. lo <= p /\ p \in Int
        BY <1>1, <3>3
      <4> QED BY <1>6, <3>1, <4>1, <4>2
    <3> QED BY <2>4, <2>9, <2>11, <3>2, <3>3
  <2> QED BY <2>4, <2>8, <2>10, <2>11
<1> QED BY <1>7, <1>8

(* What binary_search relies on holds at the beginning and after every     *)
(* comparison.                                                             *)
LEMMA SearchInvariant == Spec => [](part = "binary_search" => SearchInv)
<1> DEFINE Inv == part = "binary_search" => SearchInv
<1>1. Init => Inv
  BY SearchInit DEF Init
<1>2. Inv /\ [Next]_vars => Inv'
  <2> SUFFICES ASSUME Inv, [Next]_vars, part' = "binary_search" PROVE SearchInv'
    OBVIOUS
  <2>1. CASE UNCHANGED vars
    BY <2>1 DEF SearchInv, vars, sorted, searching
  <2>2. CASE Next
    <3>1. part = "binary_search" /\ Search!Halve
      BY <2>2 DEF Next, Goes, Calls
    <3> QED BY <3>1, SearchKeeps
  <2> QED BY <2>1, <2>2
<1> QED BY <1>1, <1>2, PTL DEF Spec

(* binary_search answers 0 if and only if the needle is in the array,      *)
(* for a sorted array of any length; of an empty one nothing is said,      *)
(* since it compares what lies behind it (vlib.h:88).                      *)
THEOREM SearchDecides == Spec => [](part = "binary_search" => Search!Decides)
<1>1. (part = "binary_search" => SearchInv) => (part = "binary_search" => Search!Decides)
  BY SearchImplies
<1> QED BY <1>1, SearchInvariant, PTL
---------------------------------------------------------------------------
(* get_random_bytes: what it has made blocks of are the counters below the *)
(* one it stands at, and what the call at hand still has to make ends      *)
(* before the counter wraps; only what is asked for last can be less than  *)
(* a block.                                                                *)
MadeBlock == [seed : Entropy \cup Clock, counter : Nat, bytes : 1 .. BlockSize]

RandomInv ==
    /\ seed_initialized \in BOOLEAN /\ counter \in Nat /\ len \in Nat
    /\ pc \in {"idle", "seed", "fill"}
    /\ \A u \in used : u[2] \in Nat /\ u[2] < counter
    /\ counter + Random!Blocks(len) <= MaxBlocks

(* What a call has filled so far: whole blocks, but for the last one when  *)
(* nothing is left, each with a seed that was read or made up.             *)
FillInv ==
    /\ asked \in Nat /\ out \in Seq(MadeBlock) /\ Random!Filled + len = asked
    /\ seed_initialized \/ pc = "fill" => seed \in Entropy \cup Clock
    /\ pc = "seed" => out = <<>>
    /\ \A b \in 1 .. Len(out) : b < Len(out) \/ len > 0 => out[b].bytes = BlockSize

(* The block size divides what is left into blocks, one less when one is   *)
(* filled.                                                                 *)
LEMMA BlocksCount ==
    ASSUME NEW n \in Nat
    PROVE  /\ Random!Blocks(n) \in Nat
           /\ n = 0 => Random!Blocks(n) = 0
           /\ n > 0 => Random!Blocks(n) >= 1
           /\ n > BlockSize => Random!Blocks(n - BlockSize) = Random!Blocks(n) - 1
<1>1. BlockSize \in Nat \ {0}
  BY CallAssumption DEF Random!RandomAssumption
<1>2. (n + BlockSize - 1) \div BlockSize \in Nat
  BY <1>1
<1>3. n = 0 => (n + BlockSize - 1) \div BlockSize = 0
  BY <1>1
<1>4. n > 0 => (n + BlockSize - 1) \div BlockSize >= 1
  BY <1>1
<1>5. n > BlockSize => ((n - BlockSize) + BlockSize - 1) \div BlockSize
                          = (n + BlockSize - 1) \div BlockSize - 1
  BY <1>1
<1> QED BY <1>2, <1>3, <1>4, <1>5 DEF Random!Blocks

(* The first state of get_random_bytes.                                    *)
LEMMA RandomInit ==
    ASSUME Random!Init
    PROVE  RandomInv
<1>1. Random!Blocks(0) = 0 /\ MaxBlocks \in Nat
  BY BlocksCount, CallAssumption DEF Random!RandomAssumption
<1>2. /\ seed_initialized = FALSE /\ counter = 0 /\ len = 0 /\ pc = "idle" /\ used = {}
  BY DEF Random!Init
<1>3. Random!Blocks(len) = 0
  BY <1>1, <1>2
<1>4. \A u \in used : u[2] \in Nat /\ u[2] < counter
  BY <1>2
<1>5. counter + Random!Blocks(len) <= MaxBlocks
  BY <1>1, <1>2, <1>3
<1>6. counter \in Nat /\ len \in Nat /\ seed_initialized \in BOOLEAN
  BY <1>2
<1> QED BY <1>2, <1>4, <1>5, <1>6 DEF RandomInv

(* Every step of get_random_bytes and every call of it.                    *)
LEMMA RandomKeeps ==
    ASSUME RandomInv, Random!Next
    PROVE  RandomInv'
<1>1. /\ BlockSize \in Nat \ {0} /\ Lengths \subseteq Nat
      /\ Word \in Nat /\ MaxBlocks \in Nat /\ MaxBlocks < Word
  BY CallAssumption DEF Random!RandomAssumption
<1>2. Random!Blocks(len) \in Nat
  BY BlocksCount DEF RandomInv
<1>3. CASE Random!Calls
  <2>1. PICK n \in Lengths : Random!Call(n)
    BY <1>3 DEF Random!Calls
  <2>2. Random!Blocks(n) \in Nat
    BY <1>1, BlocksCount
  <2> QED BY <1>1, <2>1, <2>2 DEF RandomInv, Random!Call, Random!Blocks
<1>4. CASE Random!Seed
  BY <1>4 DEF RandomInv, Random!Seed, Random!Blocks
<1>5. CASE Random!Fill
  <2>1. /\ len > 0 /\ pc' = pc /\ seed_initialized' = seed_initialized
        /\ used' = used \cup {<<seed, counter>>}
        /\ counter' = (counter + 1) % Word
        /\ len' = len - (IF len > BlockSize THEN BlockSize ELSE len)
    BY <1>5 DEF Random!Fill, Random!Copied
  <2>2. Random!Blocks(len) >= 1 /\ len \in Nat
    BY <2>1, BlocksCount DEF RandomInv
  <2>3. counter \in Nat /\ counter + 1 <= MaxBlocks
    BY <1>1, <1>2, <2>2 DEF RandomInv
  <2>4. counter' = counter + 1
    BY <1>1, <2>1, <2>3
  <2>5. len' \in Nat /\ Random!Blocks(len') <= Random!Blocks(len) - 1
                     /\ Random!Blocks(len') \in Nat
    <3>1. CASE len > BlockSize
      <4>1. Random!Blocks(len - BlockSize) = Random!Blocks(len) - 1
        BY <2>2, <3>1, BlocksCount
      <4>2. len' = len - BlockSize /\ len' \in Nat
        BY <1>1, <2>1, <2>2, <3>1
      <4> QED BY <1>2, <2>2, <4>1, <4>2
    <3>2. CASE ~(len > BlockSize)
      <4>1. len' = 0
        BY <1>1, <2>1, <2>2, <3>2
      <4>2. Random!Blocks(0) = 0
        BY BlocksCount
      <4> QED BY <1>2, <2>2, <4>1, <4>2
    <3> QED BY <3>1, <3>2
  <2>6. counter' + Random!Blocks(len') <= MaxBlocks
    BY <1>1, <1>2, <2>3, <2>4, <2>5 DEF RandomInv
  <2>7. \A u \in used' : u[2] \in Nat /\ u[2] < counter'
    BY <2>1, <2>3, <2>4 DEF RandomInv
  <2>8. Random!Blocks(len)' = Random!Blocks(len')
    BY DEF Random!Blocks
  <2> QED BY <2>1, <2>3, <2>4, <2>5, <2>6, <2>7, <2>8 DEF RandomInv
<1>6. CASE Random!Return
  BY <1>6 DEF RandomInv, Random!Return, Random!Blocks
<1> QED BY <1>3, <1>4, <1>5, <1>6 DEF Random!Next, Random!Step

(* A step that leaves the variables leaves what is said of them.           *)
LEMMA RandomRests ==
    ASSUME RandomInv, UNCHANGED vars
    PROVE  RandomInv'
BY DEF RandomInv, vars, filling, sorted, Random!Blocks

(* What the invariant of the blocks is for.                                *)
LEMMA FillImplies ==
    ASSUME FillInv
    PROVE  Random!FillsWhatWasAsked
<1>1. Null \notin Entropy \cup Clock
  BY CallAssumption DEF Random!RandomAssumption
<1>2. \A b \in 1 .. Len(out) : out[b].seed # Null /\ out[b].bytes \in 1 .. BlockSize
  <2> SUFFICES ASSUME NEW b \in 1 .. Len(out)
               PROVE  out[b].seed # Null /\ out[b].bytes \in 1 .. BlockSize
    OBVIOUS
  <2>1. out[b] \in MadeBlock
    BY ElementOfSeq DEF FillInv
  <2>2. out[b].seed \in Entropy \cup Clock /\ out[b].bytes \in 1 .. BlockSize
    BY Zenon, <2>1 DEF MadeBlock
  <2> QED BY <1>1, <2>2
<1> QED BY <1>2 DEF FillInv, Random!FillsWhatWasAsked

(* The first state of get_random_bytes has filled nothing.                 *)
LEMMA FillInit ==
    ASSUME Random!Init
    PROVE  FillInv
<1>1. /\ seed_initialized = FALSE /\ len = 0 /\ asked = 0 /\ out = <<>> /\ pc = "idle"
  BY DEF Random!Init
<1>2. Random!Filled = 0 /\ Len(out) = 0
  BY <1>1 DEF Random!Filled
<1>3. ~seed_initialized /\ pc # "fill"
  BY <1>1
<1>4. out \in Seq(MadeBlock) /\ asked \in Nat /\ Random!Filled + len = asked
  BY <1>1, <1>2
<1> QED BY <1>1, <1>2, <1>3, <1>4 DEF FillInv

(* One more block comes after whole ones.                                  *)
LEMMA FilledGrows ==
    ASSUME NEW o \in Seq(MadeBlock), NEW e \in MadeBlock, NEW w, w = Append(o, e),
           BlockSize \in Nat, \A b \in 1 .. Len(o) : o[b].bytes = BlockSize
    PROVE  /\ w \in Seq(MadeBlock) /\ w # <<>> /\ Len(w) = Len(o) + 1 /\ w[Len(w)] = e
           /\ \A b \in 1 .. Len(w) : b < Len(w) => w[b].bytes = BlockSize
           /\ (Len(w) - 1) * BlockSize + w[Len(w)].bytes
                = (IF o = <<>> THEN 0 ELSE (Len(o) - 1) * BlockSize + o[Len(o)].bytes) + e.bytes
<1>1. /\ Len(o) \in Nat /\ w \in Seq(MadeBlock) /\ Len(w) = Len(o) + 1
      /\ \A b \in 1 .. Len(o) : w[b] = o[b]
      /\ w[Len(o) + 1] = e
  BY LenProperties, AppendProperties
<1>2. w # <<>>
  BY <1>1, EmptySeq
<1>3. \A b \in 1 .. Len(w) : b < Len(w) => w[b].bytes = BlockSize
  <2> SUFFICES ASSUME NEW b \in 1 .. Len(w), b < Len(w) PROVE w[b].bytes = BlockSize
    OBVIOUS
  <2>1. b \in 1 .. Len(o)
    BY <1>1
  <2> QED BY <1>1, <2>1
<1>4. (IF o = <<>> THEN 0 ELSE (Len(o) - 1) * BlockSize + o[Len(o)].bytes) = Len(o) * BlockSize
  <2>1. CASE o = <<>>
    <3>1. Len(o) = 0
      BY <2>1
    <3> QED BY <2>1, <3>1
  <2>2. CASE o # <<>>
    <3>1. Len(o) \in 1 .. Len(o)
      <4>1. Len(o) # 0
        BY <2>2, EmptySeq, Zenon
      <4> QED BY <1>1, <4>1
    <3>2. o[Len(o)].bytes = BlockSize
      BY <3>1
    <3>3. (Len(o) - 1) * BlockSize + BlockSize = Len(o) * BlockSize
      BY <1>1
    <3> QED BY <2>2, <3>2, <3>3
  <2> QED BY <2>1, <2>2
<1>5. (Len(w) - 1) * BlockSize = Len(o) * BlockSize /\ w[Len(w)] = e
  <2>1. Len(w) - 1 = Len(o)
    BY <1>1
  <2> QED BY <1>1, <2>1
<1>6. (Len(w) - 1) * BlockSize + w[Len(w)].bytes
        = (IF o = <<>> THEN 0 ELSE (Len(o) - 1) * BlockSize + o[Len(o)].bytes) + e.bytes
  BY <1>4, <1>5
<1> QED BY <1>1, <1>2, <1>3, <1>5, <1>6

(* Every step of get_random_bytes and every call of it keeps account of    *)
(* the blocks.                                                             *)
LEMMA FillKeeps ==
    ASSUME RandomInv, FillInv, Random!Next
    PROVE  FillInv'
<1>1. /\ BlockSize \in Nat \ {0} /\ Lengths \subseteq Nat /\ len \in Nat /\ counter \in Nat
  BY CallAssumption DEF Random!RandomAssumption, RandomInv
<1>3. CASE Random!Calls
  <2>1. PICK n \in Lengths : Random!Call(n)
    BY <1>3 DEF Random!Calls
  <2>2. /\ len' = n /\ asked' = n /\ out' = <<>> /\ pc' = "seed" /\ pc = "idle"
        /\ seed_initialized' = seed_initialized /\ seed' = seed
    BY <2>1 DEF Random!Call
  <2>3. Random!Filled' = 0 /\ Len(out') = 0 /\ out' \in Seq(MadeBlock)
    BY <2>2 DEF Random!Filled
  <2>4. asked' \in Nat /\ Random!Filled' + len' = asked'
    BY <1>1, <2>2, <2>3
  <2>5. seed_initialized' \/ pc' = "fill" => seed' \in Entropy \cup Clock
    BY <2>2 DEF FillInv
  <2>6. \A b \in 1 .. Len(out') : FALSE
    BY <2>3
  <2> QED BY <2>2, <2>3, <2>4, <2>5, <2>6 DEF FillInv
<1>4. CASE Random!Seed
  <2>1. /\ len' = len /\ asked' = asked /\ out' = out /\ pc' = "fill" /\ pc = "seed"
    BY <1>4 DEF Random!Seed
  <2>2. seed' \in Entropy \cup Clock
    BY <1>4 DEF Random!Seed, FillInv
  <2>3. Random!Filled' = Random!Filled
    BY <2>1 DEF Random!Filled
  <2> QED BY <2>1, <2>2, <2>3 DEF FillInv
<1>5. CASE Random!Fill
  <2> DEFINE e == [seed |-> seed, counter |-> counter, bytes |-> Random!Copied]
  <2>1. /\ len > 0 /\ pc = "fill" /\ pc' = pc /\ seed' = seed /\ asked' = asked
        /\ out' = Append(out, e) /\ len' = len - Random!Copied
    BY <1>5 DEF Random!Fill
  <2>2. /\ Random!Copied \in 1 .. BlockSize /\ len - Random!Copied \in Nat
        /\ len - Random!Copied > 0 => Random!Copied = BlockSize
    BY <1>1, <2>1 DEF Random!Copied
  <2>3. e \in MadeBlock /\ e.bytes = Random!Copied
    BY <1>1, <2>1, <2>2 DEF FillInv, MadeBlock
  <2>4. out \in Seq(MadeBlock) /\ \A b \in 1 .. Len(out) : out[b].bytes = BlockSize
    BY <2>1 DEF FillInv
  <2> HIDE DEF e
  <2>5. /\ out' \in Seq(MadeBlock) /\ out' # <<>> /\ out'[Len(out')] = e
        /\ \A b \in 1 .. Len(out') : b < Len(out') => out'[b].bytes = BlockSize
        /\ (Len(out') - 1) * BlockSize + out'[Len(out')].bytes = Random!Filled + e.bytes
        /\ Len(out') \in Nat
    BY <1>1, <2>1, <2>3, <2>4, FilledGrows, LenProperties DEF Random!Filled
  <2>6. Random!Filled' = Random!Filled + Random!Copied
    BY <2>3, <2>5 DEF Random!Filled
  <2>7. Random!Filled' + len' = asked'
    <3>1. Random!Filled + len = asked /\ asked \in Nat
      BY DEF FillInv
    <3>2. Random!Filled \in Int
      <4>1. CASE out = <<>>
        BY <4>1 DEF Random!Filled
      <4>2. CASE out # <<>>
        <5>1. Len(out) \in Nat /\ Len(out) \in 1 .. Len(out)
          <6>1. Len(out) \in Nat /\ Len(out) # 0
            BY <2>4, <4>2, LenProperties, EmptySeq
          <6> QED BY <6>1
        <5>2. out[Len(out)].bytes = BlockSize
          BY <2>4, <5>1
        <5> QED BY <1>1, <4>2, <5>1, <5>2 DEF Random!Filled
      <4> QED BY <4>1, <4>2
    <3>3. Random!Copied \in Int
      BY <2>2
    <3> QED BY <1>1, <2>1, <2>6, <3>1, <3>2, <3>3
  <2>8. ASSUME NEW b \in 1 .. Len(out'), b < Len(out') \/ len' > 0
        PROVE  out'[b].bytes = BlockSize
    <3>1. CASE b < Len(out')
      BY <2>5, <3>1
    <3>2. CASE ~(b < Len(out'))
      <4>1. b = Len(out')
        BY <2>5, <3>2
      <4>2. Random!Copied = BlockSize
        BY <2>1, <2>2, <2>8, <3>2
      <4> QED BY <2>3, <2>5, <4>1, <4>2
    <3> QED BY <3>1, <3>2
  <2>9. asked' \in Nat /\ seed' \in Entropy \cup Clock /\ pc' # "seed"
    BY <2>1 DEF FillInv
  <2> QED BY <2>5, <2>7, <2>8, <2>9 DEF FillInv
<1>6. CASE Random!Return
  <2>1. /\ len' = len /\ asked' = asked /\ out' = out /\ pc' = "idle" /\ seed' = seed
        /\ seed_initialized' = seed_initialized
    BY <1>6 DEF Random!Return
  <2>2. Random!Filled' = Random!Filled
    BY <2>1 DEF Random!Filled
  <2> QED BY <2>1, <2>2 DEF FillInv
<1> QED BY <1>3, <1>4, <1>5, <1>6 DEF Random!Next, Random!Step

(* A block is made of a counter not used before, and a seed read is kept.  *)
LEMMA RandomSteps ==
    ASSUME RandomInv, Random!Next
    PROVE  Random!NoBlockTwice /\ Random!SeedStays
<1>1. Random!SeedStays
  BY DEF Random!SeedStays, Random!Next, Random!Step, Random!Calls, Random!Call,
         Random!Seed, Random!Fill, Random!Return, RandomInv
<1>2. <<seed, counter>> \notin used
  BY DEF RandomInv
<1> QED BY <1>1, <1>2 DEF Random!NoBlockTwice

(* MCAlgorithms' NoBlockTwice: no block of get_random_bytes is made twice, *)
(* whatever the block size, the width of the counter and the lengths asked *)
(* for, as long as the blocks in all are fewer than the counter has values.*)
THEOREM NoBlockTwiceHolds == Spec => NoBlockTwice
<1> DEFINE Inv == part = "random" => RandomInv
<1>1. Init => Inv
  BY RandomInit DEF Init
<1>2. Inv /\ [Next]_vars => Inv'
  <2> SUFFICES ASSUME Inv, [Next]_vars, part' = "random" PROVE RandomInv'
    OBVIOUS
  <2>1. CASE UNCHANGED vars
    BY <2>1, RandomRests DEF vars
  <2>2. CASE Next
    <3>1. part = "random" /\ Random!Next
      BY <2>2 DEF Next, Goes, Calls, Random!Next
    <3> QED BY <3>1, RandomKeeps
  <2> QED BY <2>1, <2>2
<1>3. Inv /\ [Next]_vars => [part = "random" => Random!NoBlockTwice /\ Random!SeedStays]_vars
  <2> SUFFICES ASSUME Inv, Next, part = "random"
               PROVE  Random!NoBlockTwice /\ Random!SeedStays
    BY DEF vars
  <2>1. Random!Next
    BY DEF Next, Goes, Calls, Random!Next
  <2> QED BY <2>1, RandomSteps
<1> QED BY <1>1, <1>2, <1>3, PTL DEF Spec, NoBlockTwice

(* The account of the blocks is kept too.                                  *)
LEMMA FillInvariant == Spec => [](part = "random" => FillInv)
<1> DEFINE Inv == part = "random" => RandomInv /\ FillInv
<1>1. Init => Inv
  BY RandomInit, FillInit DEF Init
<1>2. Inv /\ [Next]_vars => Inv'
  <2> SUFFICES ASSUME Inv, [Next]_vars, part' = "random" PROVE RandomInv' /\ FillInv'
    OBVIOUS
  <2>1. CASE UNCHANGED vars
    <3>1. RandomInv'
      BY <2>1, RandomRests DEF vars
    <3>2. FillInv'
      BY <2>1 DEF FillInv, vars, filling, sorted, Random!Filled
    <3> QED BY <3>1, <3>2
  <2>2. CASE Next
    <3>1. part = "random" /\ Random!Next
      BY <2>2 DEF Next, Goes, Calls, Random!Next
    <3> QED BY <3>1, RandomKeeps, FillKeeps
  <2> QED BY <2>1, <2>2
<1>3. Inv => (part = "random" => FillInv)
  OBVIOUS
<1> QED BY <1>1, <1>2, <1>3, PTL DEF Spec
---------------------------------------------------------------------------
(* merge_sort.                                                             *)

(* What is left to do: ranges to sort and halves to join.                  *)
Tasks == [what : {"sort", "join"}, l : Int, m : Int, r : Int]

(* An entry that does not touch a range, and one that lies in it.          *)
Beside(e, x, y) == e.r < x \/ y < e.l
Inside(e, x, y) == x <= e.l /\ e.r <= y

(* When it is the turn of the entry c, one above it has sorted the places  *)
(* x to y, or they are sorted and none above it touches them.              *)
Due(r, a, td, c, x, y) ==
    \/ \E d \in 1 .. c - 1 : td[d].l = x /\ td[d].r = y
    \/ /\ \A p, q \in x .. y : p < q => Before(r, a[p], a[q])
       /\ \A d \in 1 .. c - 1 : Beside(td[d], x, y)

(* The entries are ranges of the array, and halves to be joined are not    *)
(* empty.                                                                  *)
Spans(td, n) ==
    \A c \in 1 .. Len(td) : /\ 0 <= td[c].l /\ td[c].l <= td[c].r /\ td[c].r < n
                            /\ td[c].what = "join" => td[c].l <= td[c].m /\ td[c].m < td[c].r

(* An entry lies beside those above it, or it joins halves they lie in.    *)
Nested(td) ==
    \A c \in 1 .. Len(td) : \A d \in 1 .. c - 1 :
        \/ Beside(td[d], td[c].l, td[c].r)
        \/ /\ td[c].what = "join"
           /\ Inside(td[d], td[c].l, td[c].m) \/ Inside(td[d], td[c].m + 1, td[c].r)

(* The longer the range still to be sorted, the nearer the bottom it is.   *)
Low(td, n) ==
    \A c \in 1 .. Len(td) :
        /\ Len(td) - c + 1 <= 2 * n
        /\ td[c].what = "sort" => Len(td) - c + 1 <= 2 * n - 2 * (td[c].r - td[c].l + 1) + 1

(* What is still to be sorted is as it was before the call, and what is to *)
(* be joined has in each half what was there.                              *)
Ready(r, a, td, mg) ==
    \A c \in 1 .. Len(td) :
        /\ td[c].what = "sort" => \A p \in td[c].l .. td[c].r : a[p] = p
        /\ td[c].what = "join" =>
              \/ c = 1 /\ mg
              \/ /\ \A p \in td[c].l .. td[c].m : a[p] \in td[c].l .. td[c].m
                 /\ \A p \in td[c].m + 1 .. td[c].r : a[p] \in td[c].m + 1 .. td[c].r
                 /\ Due(r, a, td, c, td[c].l, td[c].m)
                 /\ Due(r, a, td, c, td[c].m + 1, td[c].r)

(* The fields of the entries.                                              *)
LEMMA TaskTypes ==
    ASSUME NEW td \in Seq(Tasks)
    PROVE  /\ Len(td) \in Nat
           /\ \A c \in 1 .. Len(td) : /\ td[c].what \in {"sort", "join"} /\ td[c].l \in Int
                                      /\ td[c].m \in Int /\ td[c].r \in Int
<1>1. Len(td) \in Nat
  BY LenProperties
<1>2. \A c \in 1 .. Len(td) : td[c] \in Tasks
  BY ElementOfSeq
<1> QED BY <1>1, <1>2 DEF Tasks

(* When the first entry has sorted its places, those below it find them so.*)
LEMMA DueOfTail ==
    ASSUME NEW r, NEW a, NEW td \in Seq(Tasks), td # << >>, NEW c \in 1 .. Len(td),
           NEW x \in Int, NEW y \in Int, Due(r, a, td, c + 1, x, y),
           \A p, q \in td[1].l .. td[1].r : p < q => Before(r, a[p], a[q]),
           td[1].l = x /\ td[1].r = y => \A d \in 2 .. c : Beside(td[d], x, y)
    PROVE  Due(r, a, Tail(td), c, x, y)
<1> DEFINE ds == Tail(td)
<1>1. /\ Len(td) \in Nat /\ Len(ds) = Len(td) - 1
      /\ \A d \in 1 .. Len(ds) : ds[d] = td[d + 1]
  BY HeadTailProperties, LenProperties
<1> HIDE DEF ds
<1>2. \A d \in 1 .. c - 1 : ds[d] = td[d + 1] /\ d + 1 \in 2 .. c /\ d + 1 \in 1 .. (c + 1) - 1
  <2> SUFFICES ASSUME NEW d \in 1 .. c - 1
               PROVE  ds[d] = td[d + 1] /\ d + 1 \in 2 .. c /\ d + 1 \in 1 .. (c + 1) - 1
    OBVIOUS
  <2>1. d \in 1 .. Len(ds) /\ d + 1 \in 2 .. c /\ d + 1 \in 1 .. (c + 1) - 1
    BY <1>1
  <2> QED BY <1>1, <2>1
<1>3. CASE \E d \in 1 .. (c + 1) - 1 : td[d].l = x /\ td[d].r = y
  <2>1. PICK d \in 1 .. (c + 1) - 1 : td[d].l = x /\ td[d].r = y
    BY <1>3
  <2>2. CASE d = 1
    <3>1. \A f \in 1 .. c - 1 : Beside(ds[f], x, y)
      BY <1>2, <2>1, <2>2
    <3>2. \A p, q \in x .. y : p < q => Before(r, a[p], a[q])
      BY <2>1, <2>2
    <3> QED BY <3>1, <3>2 DEF Due, ds
  <2>3. CASE d # 1
    <3>1. d - 1 \in 1 .. c - 1 /\ (d - 1) + 1 = d
      BY <2>3
    <3>2. ds[d - 1] = td[d]
      BY <1>2, <3>1
    <3>3. \E f \in 1 .. c - 1 : ds[f].l = x /\ ds[f].r = y
      BY <2>1, <3>1, <3>2
    <3> QED BY <3>3 DEF Due, ds
  <2> QED BY <2>2, <2>3
<1>4. CASE /\ \A p, q \in x .. y : p < q => Before(r, a[p], a[q])
           /\ \A d \in 1 .. (c + 1) - 1 : Beside(td[d], x, y)
  <2>1. \A d \in 1 .. c - 1 : Beside(ds[d], x, y)
    BY <1>2, <1>4
  <2> QED BY <1>4, <2>1 DEF Due, ds
<1> QED BY <1>3, <1>4 DEF Due

(* The first entry is done: its places are sorted.                         *)
LEMMA TaskDone ==
    ASSUME NEW n \in Nat, NEW r, NEW a, NEW td \in Seq(Tasks), td # << >>, NEW mg,
           Spans(td, n), Nested(td), Low(td, n), Ready(r, a, td, mg),
           \A p, q \in td[1].l .. td[1].r : p < q => Before(r, a[p], a[q])
    PROVE  /\ Tail(td) \in Seq(Tasks) /\ Spans(Tail(td), n) /\ Nested(Tail(td))
           /\ Low(Tail(td), n) /\ Ready(r, a, Tail(td), FALSE)
           /\ Due(r, a, td, Len(td) + 1, 0, n - 1)
                 => Due(r, a, Tail(td), Len(Tail(td)) + 1, 0, n - 1)
<1> DEFINE ds == Tail(td)
<1>0. Len(td) \in Nat /\ Len(td) >= 1
  <2>1. Len(td) \in Nat \ {0}
    BY EmptySeq
  <2> QED BY <2>1
<1>1. /\ ds \in Seq(Tasks) /\ Len(ds) = Len(td) - 1
      /\ \A d \in 1 .. Len(ds) : ds[d] = td[d + 1]
  BY HeadTailProperties
<1>2. \A d \in 1 .. Len(ds) : ds[d] = td[d + 1] /\ d + 1 \in 1 .. Len(td) /\ d + 1 # 1
                              /\ d + 1 \in 2 .. Len(td) /\ Len(ds) - d = Len(td) - (d + 1)
  <2> HIDE DEF ds
  <2> QED BY <1>0, <1>1
<1>3. \A c \in 1 .. Len(td) : /\ td[c].what \in {"sort", "join"} /\ td[c].l \in Int
                              /\ td[c].m \in Int /\ td[c].r \in Int
  BY TaskTypes
<1>4. Spans(ds, n)
  <2> HIDE DEF ds
  <2> QED BY <1>2 DEF Spans
<1>5. Nested(ds)
  <2> HIDE DEF ds
  <2> SUFFICES ASSUME NEW c \in 1 .. Len(ds), NEW d \in 1 .. c - 1
               PROVE  \/ Beside(ds[d], ds[c].l, ds[c].r)
                      \/ /\ ds[c].what = "join"
                         /\ \/ Inside(ds[d], ds[c].l, ds[c].m)
                            \/ Inside(ds[d], ds[c].m + 1, ds[c].r)
    BY DEF Nested
  <2>1. d \in 1 .. Len(ds) /\ d + 1 \in 1 .. (c + 1) - 1
    BY <1>0, <1>1
  <2>2. ds[c] = td[c + 1] /\ ds[d] = td[d + 1] /\ c + 1 \in 1 .. Len(td)
    BY <1>2, <2>1
  <2> QED BY <2>1, <2>2 DEF Nested
<1>6. Low(ds, n)
  <2> HIDE DEF ds
  <2> SUFFICES ASSUME NEW c \in 1 .. Len(ds)
               PROVE  /\ Len(ds) - c + 1 <= 2 * n
                      /\ ds[c].what = "sort" =>
                            Len(ds) - c + 1 <= 2 * n - 2 * (ds[c].r - ds[c].l + 1) + 1
    BY DEF Low
  <2>1. ds[c] = td[c + 1] /\ c + 1 \in 1 .. Len(td) /\ Len(ds) - c = Len(td) - (c + 1)
    BY <1>2
  <2>2. /\ Len(td) - (c + 1) + 1 <= 2 * n
        /\ td[c + 1].what = "sort" =>
              Len(td) - (c + 1) + 1 <= 2 * n - 2 * (td[c + 1].r - td[c + 1].l + 1) + 1
    BY <2>1 DEF Low
  <2> QED BY <2>1, <2>2
<1>7. Ready(r, a, ds, FALSE)
  <2> HIDE DEF ds
  <2> SUFFICES ASSUME NEW c \in 1 .. Len(ds)
               PROVE  /\ ds[c].what = "sort" => \A p \in ds[c].l .. ds[c].r : a[p] = p
                      /\ ds[c].what = "join" =>
                            /\ \A p \in ds[c].l .. ds[c].m : a[p] \in ds[c].l .. ds[c].m
                            /\ \A p \in ds[c].m + 1 .. ds[c].r : a[p] \in ds[c].m + 1 .. ds[c].r
                            /\ Due(r, a, ds, c, ds[c].l, ds[c].m)
                            /\ Due(r, a, ds, c, ds[c].m + 1, ds[c].r)
    BY DEF Ready
  <2>1. /\ ds[c] = td[c + 1] /\ c + 1 \in 1 .. Len(td) /\ c + 1 # 1 /\ c \in 1 .. Len(td)
        /\ Len(ds) - c = Len(td) - (c + 1)
    BY <1>0, <1>1, <1>2
  <2>2. /\ td[c + 1].what = "sort" => \A p \in td[c + 1].l .. td[c + 1].r : a[p] = p
        /\ td[c + 1].what = "join" =>
              /\ \A p \in td[c + 1].l .. td[c + 1].m : a[p] \in td[c + 1].l .. td[c + 1].m
              /\ \A p \in td[c + 1].m + 1 .. td[c + 1].r :
                    a[p] \in td[c + 1].m + 1 .. td[c + 1].r
              /\ Due(r, a, td, c + 1, td[c + 1].l, td[c + 1].m)
              /\ Due(r, a, td, c + 1, td[c + 1].m + 1, td[c + 1].r)
    BY <2>1 DEF Ready
  <2>3. ASSUME td[c + 1].what = "join", NEW x \in Int, NEW y \in Int,
               \/ x = td[c + 1].l /\ y = td[c + 1].m
               \/ x = td[c + 1].m + 1 /\ y = td[c + 1].r,
               td[1].l = x, td[1].r = y, NEW d \in 2 .. c
        PROVE  Beside(td[d], x, y)
    <3>1. /\ d \in 1 .. Len(td) /\ d \in 1 .. (c + 1) - 1 /\ 1 \in 1 .. d - 1
          /\ 1 \in 1 .. Len(td)
      BY <1>0, <2>1
    <3> DEFINE el == td[d].l
               em == td[d].m
               er == td[d].r
               fl == td[c + 1].l
               fm == td[c + 1].m
               fr == td[c + 1].r
    <3>2. /\ el \in Int /\ em \in Int /\ er \in Int /\ fl \in Int /\ fm \in Int /\ fr \in Int
      BY <1>3, <2>1, <3>1
    <3>3. /\ el <= er /\ fl <= fm /\ fm < fr /\ (td[d].what = "join" => el <= em /\ em < er)
          /\ td[1].l <= td[1].r
      BY <2>1, <2>3, <3>1 DEF Spans
    <3>4. \/ er < fl \/ fr < el
          \/ (fl <= el /\ er <= fm) \/ (fm + 1 <= el /\ er <= fr)
      BY <2>1, <3>1 DEF Nested, Beside, Inside
    <3>5. \/ y < el \/ er < x
          \/ td[d].what = "join" /\ ((el <= x /\ y <= em) \/ (em + 1 <= x /\ y <= er))
      BY <2>3, <3>1 DEF Nested, Beside, Inside
    <3>6. (x = fl /\ y = fm) \/ (x = fm + 1 /\ y = fr)
      BY <2>3
    <3>7. x <= y
      BY <2>3, <3>3
    <3> HIDE DEF el, em, er, fl, fm, fr
    <3>8. er < x \/ y < el
      <4>1. CASE td[d].what = "join"
        BY <3>2, <3>3, <3>4, <3>5, <3>6, <3>7, <4>1
      <4>2. CASE td[d].what # "join"
        BY <3>5, <4>2
      <4> QED BY <4>1, <4>2
    <3> QED BY <3>8 DEF Beside, el, er
  <2>4. ASSUME td[c + 1].what = "join"
        PROVE  /\ Due(r, a, ds, c, td[c + 1].l, td[c + 1].m)
               /\ Due(r, a, ds, c, td[c + 1].m + 1, td[c + 1].r)
    <3>1. td[c + 1].l \in Int /\ td[c + 1].m \in Int /\ td[c + 1].r \in Int
          /\ td[c + 1].m + 1 \in Int
      BY <1>3, <2>1
    <3>2. td[1].l = td[c + 1].l /\ td[1].r = td[c + 1].m =>
             \A d \in 2 .. c : Beside(td[d], td[c + 1].l, td[c + 1].m)
      BY <2>3, <2>4, <3>1
    <3>3. td[1].l = td[c + 1].m + 1 /\ td[1].r = td[c + 1].r =>
             \A d \in 2 .. c : Beside(td[d], td[c + 1].m + 1, td[c + 1].r)
      BY <2>3, <2>4, <3>1
    <3>4. Due(r, a, Tail(td), c, td[c + 1].l, td[c + 1].m)
      BY <2>1, <2>2, <2>4, <3>1, <3>2, DueOfTail
    <3>5. Due(r, a, Tail(td), c, td[c + 1].m + 1, td[c + 1].r)
      BY <2>1, <2>2, <2>4, <3>1, <3>3, DueOfTail
    <3> QED BY <3>4, <3>5 DEF ds
  <2> QED BY <2>1, <2>2, <2>4
<1>8. ASSUME Due(r, a, td, Len(td) + 1, 0, n - 1)
      PROVE  Due(r, a, ds, Len(ds) + 1, 0, n - 1)
  <2>1. ASSUME td[1].l = 0, td[1].r = n - 1, NEW d \in 2 .. Len(td)
        PROVE  FALSE
    <3>1. d \in 1 .. Len(td) /\ 1 \in 1 .. d - 1
      BY <1>0
    <3> DEFINE el == td[d].l
               em == td[d].m
               er == td[d].r
    <3>2. el \in Int /\ em \in Int /\ er \in Int /\ 0 <= el /\ el <= er /\ er < n
          /\ (td[d].what = "join" => el <= em /\ em < er)
      BY <1>3, <3>1 DEF Spans
    <3>3. \/ n - 1 < el \/ er < 0
          \/ td[d].what = "join" /\ ((el <= 0 /\ n - 1 <= em) \/ (em + 1 <= 0 /\ n - 1 <= er))
      BY <2>1, <3>1 DEF Nested, Beside, Inside
    <3> HIDE DEF el, em, er
    <3>4. CASE td[d].what = "join"
      BY <3>2, <3>3, <3>4
    <3>5. CASE td[d].what # "join"
      BY <3>2, <3>3, <3>5
    <3> QED BY <3>4, <3>5
  <2>2. Len(td) \in 1 .. Len(td) /\ 0 \in Int /\ n - 1 \in Int
    BY <1>0
  <2>3. Due(r, a, Tail(td), Len(td), 0, n - 1)
    BY <1>8, <2>1, <2>2, DueOfTail
  <2>4. Len(ds) + 1 = Len(td)
    BY <1>0, <1>1
  <2> QED BY <2>3, <2>4 DEF ds
<1> QED BY <1>1, <1>4, <1>5, <1>6, <1>7, <1>8 DEF ds

(* The first entry, a join, moves elements about among its own places.     *)
LEMMA DueRearranged ==
    ASSUME NEW n \in Nat, NEW r, NEW a, NEW b, NEW td \in Seq(Tasks), td # << >>,
           \A p \in 0 .. n - 1 : ~(td[1].l <= p /\ p <= td[1].r) => b[p] = a[p],
           NEW c \in 2 .. Len(td) + 1, NEW x \in Int, NEW y \in Int, 0 <= x, y < n,
           Due(r, a, td, c, x, y)
    PROVE  Due(r, b, td, c, x, y)
<1>0. /\ Len(td) \in Nat /\ 1 \in 1 .. c - 1 /\ 1 \in 1 .. Len(td)
  <2>1. Len(td) \in Nat \ {0}
    BY EmptySeq
  <2> QED BY <2>1
<1>1. CASE \E d \in 1 .. c - 1 : td[d].l = x /\ td[d].r = y
  BY <1>1 DEF Due
<1>2. CASE /\ \A p, q \in x .. y : p < q => Before(r, a[p], a[q])
           /\ \A d \in 1 .. c - 1 : Beside(td[d], x, y)
  <2>1. td[1].l \in Int /\ td[1].r \in Int
    BY <1>0, TaskTypes
  <2>2. td[1].r < x \/ y < td[1].l
    BY <1>0, <1>2 DEF Beside
  <2>3. \A p \in x .. y : b[p] = a[p]
    <3> SUFFICES ASSUME NEW p \in x .. y PROVE b[p] = a[p]
      OBVIOUS
    <3>1. p \in 0 .. n - 1 /\ ~(td[1].l <= p /\ p <= td[1].r)
      BY <2>1, <2>2
    <3> QED BY <3>1
  <2>4. \A p, q \in x .. y : p < q => Before(r, b[p], b[q])
    BY <1>2, <2>3
  <2> QED BY <1>2, <2>4 DEF Due
<1> QED BY <1>1, <1>2 DEF Due

(* The other entries find what they found before, in the places they have. *)
LEMMA TaskRearranged ==
    ASSUME NEW n \in Nat, NEW r, NEW a, NEW b, NEW td \in Seq(Tasks), td # << >>,
           Spans(td, n), Nested(td), Ready(r, a, td, TRUE), td[1].what = "join",
           \A p \in 0 .. n - 1 : ~(td[1].l <= p /\ p <= td[1].r) => b[p] = a[p],
           \A p \in td[1].l .. td[1].r : \E q \in td[1].l .. td[1].r : b[p] = a[q]
    PROVE  /\ Ready(r, b, td, TRUE)
           /\ Due(r, a, td, Len(td) + 1, 0, n - 1) => Due(r, b, td, Len(td) + 1, 0, n - 1)
<1>0. /\ Len(td) \in Nat /\ Len(td) >= 1
  <2>1. Len(td) \in Nat \ {0}
    BY EmptySeq
  <2> QED BY <2>1
<1>1. \A c \in 1 .. Len(td) : /\ td[c].what \in {"sort", "join"} /\ td[c].l \in Int
                              /\ td[c].m \in Int /\ td[c].r \in Int
  BY TaskTypes
<1>2. Due(r, a, td, Len(td) + 1, 0, n - 1) => Due(r, b, td, Len(td) + 1, 0, n - 1)
  <2>1. Len(td) + 1 \in 2 .. Len(td) + 1 /\ 0 \in Int /\ n - 1 \in Int /\ 0 <= 0 /\ n - 1 < n
    BY <1>0
  <2> QED BY <2>1, DueRearranged
<1>3. ASSUME NEW c \in 1 .. Len(td), td[c].what = "sort", NEW p \in td[c].l .. td[c].r
      PROVE  b[p] = p
  <2>1. c # 1 /\ 1 \in 1 .. c - 1 /\ 1 \in 1 .. Len(td)
    BY <1>0, <1>3
  <2>2. td[1].r < td[c].l \/ td[c].r < td[1].l
    BY <1>3, <2>1 DEF Nested, Beside
  <2> DEFINE l0 == td[1].l
             r0 == td[1].r
             l1 == td[c].l
             r1 == td[c].r
  <2>3. /\ l0 \in Int /\ r0 \in Int /\ l1 \in Int /\ r1 \in Int
        /\ 0 <= l1 /\ r1 < n /\ p \in l1 .. r1 /\ (r0 < l1 \/ r1 < l0)
    BY <1>1, <1>3, <2>1, <2>2 DEF Spans
  <2>4. p \in 0 .. n - 1 /\ ~(l0 <= p /\ p <= r0)
    <3> HIDE DEF l0, r0, l1, r1
    <3> QED BY <2>3
  <2>5. a[p] = p
    BY <1>3 DEF Ready
  <2> QED BY <2>4, <2>5
<1>4. ASSUME NEW c \in 1 .. Len(td), td[c].what = "join", c # 1
      PROVE  /\ \A p \in td[c].l .. td[c].m : b[p] \in td[c].l .. td[c].m
             /\ \A p \in td[c].m + 1 .. td[c].r : b[p] \in td[c].m + 1 .. td[c].r
             /\ Due(r, b, td, c, td[c].l, td[c].m)
             /\ Due(r, b, td, c, td[c].m + 1, td[c].r)
  <2>1. 1 \in 1 .. c - 1 /\ 1 \in 1 .. Len(td) /\ c \in 2 .. Len(td) + 1
    BY <1>0, <1>4
  <2>2. /\ \A p \in td[c].l .. td[c].m : a[p] \in td[c].l .. td[c].m
        /\ \A p \in td[c].m + 1 .. td[c].r : a[p] \in td[c].m + 1 .. td[c].r
        /\ Due(r, a, td, c, td[c].l, td[c].m)
        /\ Due(r, a, td, c, td[c].m + 1, td[c].r)
    BY <1>4 DEF Ready
  <2> DEFINE l0 == td[1].l
             r0 == td[1].r
             l1 == td[c].l
             m1 == td[c].m
             r1 == td[c].r
  <2>3. /\ l0 \in Int /\ r0 \in Int /\ l1 \in Int /\ m1 \in Int /\ r1 \in Int
        /\ 0 <= l1 /\ l1 <= m1 /\ m1 < r1 /\ r1 < n /\ l0 <= r0
    BY <1>1, <1>4, <2>1 DEF Spans
  <2>4. r0 < l1 \/ r1 < l0 \/ (l1 <= l0 /\ r0 <= m1) \/ (m1 + 1 <= l0 /\ r0 <= r1)
    BY <2>1 DEF Nested, Beside, Inside
  <2>5. /\ \A p \in 0 .. n - 1 : ~(l0 <= p /\ p <= r0) => b[p] = a[p]
        /\ \A p \in l0 .. r0 : \E q \in l0 .. r0 : b[p] = a[q]
        /\ \A p \in l1 .. m1 : a[p] \in l1 .. m1
        /\ \A p \in m1 + 1 .. r1 : a[p] \in m1 + 1 .. r1
    BY <2>2
  <2>6. Due(r, b, td, c, l1, m1)
    <3>1. l1 \in Int /\ m1 \in Int /\ 0 <= l1 /\ m1 < n /\ Due(r, a, td, c, l1, m1)
      BY <2>2, <2>3
    <3> HIDE DEF l1, m1
    <3> QED BY <2>1, <3>1, DueRearranged
  <2>7. Due(r, b, td, c, m1 + 1, r1)
    <3>1. /\ m1 + 1 \in Int /\ r1 \in Int /\ 0 <= m1 + 1 /\ r1 < n
          /\ Due(r, a, td, c, m1 + 1, r1)
      BY <2>2, <2>3
    <3> HIDE DEF m1, r1
    <3> QED BY <2>1, <3>1, DueRearranged
  <2> HIDE DEF l0, r0, l1, m1, r1
  <2>8. ASSUME NEW p \in l1 .. m1 PROVE b[p] \in l1 .. m1
    <3>1. p \in 0 .. n - 1
      BY <2>3
    <3>2. CASE l0 <= p /\ p <= r0
      <4>1. p \in l0 .. r0
        BY <2>3, <3>2
      <4>2. PICK q \in l0 .. r0 : b[p] = a[q]
        BY <2>5, <4>1
      <4>3. q \in l1 .. m1
        BY <2>3, <2>4, <3>2
      <4> QED BY <2>5, <4>2, <4>3
    <3>3. CASE ~(l0 <= p /\ p <= r0)
      BY <2>5, <3>1, <3>3
    <3> QED BY <3>2, <3>3
  <2>9. ASSUME NEW p \in m1 + 1 .. r1 PROVE b[p] \in m1 + 1 .. r1
    <3>1. p \in 0 .. n - 1
      BY <2>3
    <3>2. CASE l0 <= p /\ p <= r0
      <4>1. p \in l0 .. r0
        BY <2>3, <3>2
      <4>2. PICK q \in l0 .. r0 : b[p] = a[q]
        BY <2>5, <4>1
      <4>3. q \in m1 + 1 .. r1
        BY <2>3, <2>4, <3>2
      <4> QED BY <2>5, <4>2, <4>3
    <3>3. CASE ~(l0 <= p /\ p <= r0)
      BY <2>5, <3>1, <3>3
    <3> QED BY <3>2, <3>3
  <2> QED BY <2>6, <2>7, <2>8, <2>9 DEF l1, m1, r1
<1>5. Ready(r, b, td, TRUE)
  BY <1>3, <1>4 DEF Ready
<1> QED BY <1>2, <1>5

(* Of three entries in the place of one, those below the three.            *)
LEMMA BelowThree ==
    ASSUME NEW n \in Nat, NEW c \in 2 .. n + 1, NEW d \in 1 .. (c + 2) - 1
    PROVE  d \in 1 .. 3 \/ (d \in 4 .. n + 2 /\ d - 2 \in 1 .. c - 1)
OBVIOUS

(* A range is split: its halves are to be sorted, the first one first, and *)
(* then joined.                                                            *)
LEMMA DueOfSplit ==
    ASSUME NEW r, NEW a, NEW td \in Seq(Tasks), td # << >>, NEW ds,
           NEW x \in Int, NEW y \in Int, NEW c \in 2 .. Len(td) + 1,
           \A d \in 1 .. 3 : td[1].l <= ds[d].l /\ ds[d].r <= td[1].r
                             /\ ds[d].l \in Int /\ ds[d].r \in Int,
           ds[3].l = td[1].l, ds[3].r = td[1].r,
           \A d \in 4 .. Len(td) + 2 : ds[d] = td[d - 2],
           Due(r, a, td, c, x, y)
    PROVE  Due(r, a, ds, c + 2, x, y)
<1>0. /\ Len(td) \in Nat /\ 1 \in 1 .. c - 1 /\ 1 \in 1 .. Len(td)
  <2>1. Len(td) \in Nat \ {0}
    BY EmptySeq
  <2> QED BY <2>1
<1>1. CASE \E d \in 1 .. c - 1 : td[d].l = x /\ td[d].r = y
  <2>1. PICK d \in 1 .. c - 1 : td[d].l = x /\ td[d].r = y
    BY <1>1
  <2>2. CASE d = 1
    <3>1. 3 \in 1 .. (c + 2) - 1 /\ ds[3].l = x /\ ds[3].r = y
      BY <1>0, <2>1, <2>2
    <3>2. \E f \in 1 .. (c + 2) - 1 : ds[f].l = x /\ ds[f].r = y
      BY <3>1
    <3> QED BY <3>2 DEF Due
  <2>3. CASE d # 1
    <3>1. d + 2 \in 1 .. (c + 2) - 1 /\ d + 2 \in 4 .. Len(td) + 2 /\ (d + 2) - 2 = d
      BY <1>0, <2>3
    <3>2. ds[d + 2] = td[d]
      BY <3>1
    <3>3. \E f \in 1 .. (c + 2) - 1 : ds[f].l = x /\ ds[f].r = y
      BY <2>1, <3>1, <3>2
    <3> QED BY <3>3 DEF Due
  <2> QED BY <2>2, <2>3
<1>2. CASE /\ \A p, q \in x .. y : p < q => Before(r, a[p], a[q])
           /\ \A d \in 1 .. c - 1 : Beside(td[d], x, y)
  <2>1. ASSUME NEW d \in 1 .. (c + 2) - 1 PROVE Beside(ds[d], x, y)
    <3>1. CASE d \in 1 .. 3
      <4>1. td[1].r < x \/ y < td[1].l
        BY <1>0, <1>2 DEF Beside
      <4>2. td[1].l \in Int /\ td[1].r \in Int
        BY <1>0, TaskTypes
      <4>3. /\ td[1].l <= ds[d].l /\ ds[d].r <= td[1].r
            /\ ds[d].l \in Int /\ ds[d].r \in Int
        BY <3>1
      <4>4. ds[d].r < x \/ y < ds[d].l
        BY <4>1, <4>2, <4>3
      <4> QED BY <4>4 DEF Beside
    <3>2. CASE d \notin 1 .. 3
      <4>1. d \in 4 .. Len(td) + 2 /\ d - 2 \in 1 .. c - 1
        BY Zenon, <1>0, <3>2, BelowThree
      <4> QED BY <1>2, <4>1
    <3> QED BY <3>1, <3>2
  <2> QED BY <1>2, <2>1 DEF Due
<1> QED BY <1>1, <1>2 DEF Due

(* A range that is split leaves the stack as it should be.                 *)
LEMMA TaskSplit ==
    ASSUME NEW n \in Nat, NEW r, NEW a, NEW td \in Seq(Tasks), td # << >>, NEW mg,
           Spans(td, n), Nested(td), Low(td, n), Ready(r, a, td, mg), td[1].what = "sort",
           NEW h \in Int, td[1].l <= h, h < td[1].r,
           NEW ds \in Seq(Tasks), Len(ds) = Len(td) + 2,
           ds[1] = [what |-> "sort", l |-> td[1].l, m |-> 0, r |-> h],
           ds[2] = [what |-> "sort", l |-> h + 1, m |-> 0, r |-> td[1].r],
           ds[3] = [what |-> "join", l |-> td[1].l, m |-> h, r |-> td[1].r],
           \A c \in 4 .. Len(td) + 2 : ds[c] = td[c - 2]
    PROVE  /\ Spans(ds, n) /\ Nested(ds) /\ Low(ds, n) /\ Ready(r, a, ds, FALSE)
           /\ Due(r, a, td, Len(td) + 1, 0, n - 1) => Due(r, a, ds, Len(ds) + 1, 0, n - 1)
<1>0. /\ Len(td) \in Nat /\ Len(td) >= 1 /\ 1 \in 1 .. Len(td)
  <2>1. Len(td) \in Nat \ {0}
    BY EmptySeq
  <2> QED BY <2>1
<1>1. \A c \in 1 .. Len(td) : /\ td[c].what \in {"sort", "join"} /\ td[c].l \in Int
                              /\ td[c].m \in Int /\ td[c].r \in Int
  BY TaskTypes
<1> DEFINE lo0 == td[1].l
           hi0 == td[1].r
<1>2. /\ lo0 \in Int /\ hi0 \in Int /\ 0 <= lo0 /\ lo0 <= h /\ h < hi0 /\ hi0 < n
      /\ \A p \in lo0 .. hi0 : a[p] = p
      /\ Len(td) <= 2 * n - 2 * (hi0 - lo0 + 1) + 1 /\ Len(td) <= 2 * n
  <2>1. lo0 \in Int /\ hi0 \in Int /\ 0 <= lo0 /\ hi0 < n
    BY <1>0, <1>1 DEF Spans
  <2>2. \A p \in lo0 .. hi0 : a[p] = p
    BY <1>0 DEF Ready
  <2>3. /\ Len(td) - 1 + 1 <= 2 * n
        /\ Len(td) - 1 + 1 <= 2 * n - 2 * (td[1].r - td[1].l + 1) + 1
    BY <1>0 DEF Low
  <2>4. Len(td) - 1 + 1 = Len(td)
    BY <1>0
  <2> QED BY <2>1, <2>2, <2>3, <2>4
<1>3. /\ ds[1].what = "sort" /\ ds[1].l = lo0 /\ ds[1].r = h
      /\ ds[2].what = "sort" /\ ds[2].l = h + 1 /\ ds[2].r = hi0
      /\ ds[3].what = "join" /\ ds[3].l = lo0 /\ ds[3].m = h /\ ds[3].r = hi0
  OBVIOUS
<1>4. \A c \in 1 .. Len(ds) : c \notin 1 .. 3 =>
          /\ ds[c] = td[c - 2] /\ c - 2 \in 1 .. Len(td) /\ c - 2 # 1 /\ c - 2 \in 2 .. Len(td)
          /\ c - 2 \in 2 .. Len(td) + 1 /\ c \in 4 .. Len(td) + 2 /\ 1 \in 1 .. (c - 2) - 1
          /\ Len(ds) - c = Len(td) - (c - 2) /\ (c - 2) + 2 = c
  <2> SUFFICES ASSUME NEW c \in 1 .. Len(ds), c \notin 1 .. 3
               PROVE  /\ c - 2 \in 1 .. Len(td) /\ c - 2 # 1 /\ c - 2 \in 2 .. Len(td)
                      /\ c - 2 \in 2 .. Len(td) + 1 /\ c \in 4 .. Len(td) + 2
                      /\ 1 \in 1 .. (c - 2) - 1
                      /\ Len(ds) - c = Len(td) - (c - 2) /\ (c - 2) + 2 = c
    OBVIOUS
  <2>1. c \in Int /\ c >= 4 /\ c <= Len(td) + 2
    BY <1>0
  <2>2. Len(ds) - c = Len(td) - (c - 2)
    BY <1>0, <2>1
  <2> QED BY <1>0, <2>1, <2>2
<1>5. \A c \in 1 .. 3 : c = 1 \/ c = 2 \/ c = 3
  OBVIOUS
<1>6. \A d \in 1 .. 3 : /\ lo0 <= ds[d].l /\ ds[d].r <= hi0
                        /\ ds[d].l \in Int /\ ds[d].r \in Int
  <2> HIDE DEF lo0, hi0
  <2>0. lo0 \in Int /\ hi0 \in Int /\ lo0 <= h /\ h < hi0
    BY <1>2
  <2>1. /\ lo0 <= h + 1 /\ h <= hi0 /\ h + 1 \in Int
    <3>1. h + 1 \in Int
      OBVIOUS
    <3>2. lo0 <= h + 1
      BY <2>0
    <3>3. h <= hi0
      BY <2>0
    <3> QED BY <3>1, <3>2, <3>3
  <2>5. lo0 <= lo0 /\ hi0 <= hi0
    BY <2>0
  <2>2. lo0 <= ds[1].l /\ ds[1].r <= hi0 /\ ds[1].l \in Int /\ ds[1].r \in Int
    BY <1>3, <2>0, <2>1, <2>5
  <2>3. lo0 <= ds[2].l /\ ds[2].r <= hi0 /\ ds[2].l \in Int /\ ds[2].r \in Int
    BY <1>3, <2>0, <2>1, <2>5
  <2>4. lo0 <= ds[3].l /\ ds[3].r <= hi0 /\ ds[3].l \in Int /\ ds[3].r \in Int
    BY <1>3, <2>0, <2>5
  <2> QED BY <1>5, <2>2, <2>3, <2>4
<1>7. \A c \in 2 .. Len(td) + 1, x, y \in Int :
          Due(r, a, td, c, x, y) => Due(r, a, ds, c + 2, x, y)
  <2> SUFFICES ASSUME NEW c \in 2 .. Len(td) + 1, NEW x \in Int, NEW y \in Int,
                      Due(r, a, td, c, x, y)
               PROVE  Due(r, a, ds, c + 2, x, y)
    OBVIOUS
  <2>1. /\ \A d \in 1 .. 3 : td[1].l <= ds[d].l /\ ds[d].r <= td[1].r
                             /\ ds[d].l \in Int /\ ds[d].r \in Int
        /\ ds[3].l = td[1].l /\ ds[3].r = td[1].r
    BY <1>3, <1>6
  <2> QED BY <2>1, DueOfSplit
<1>8. Spans(ds, n)
  <2> SUFFICES ASSUME NEW c \in 1 .. Len(ds)
               PROVE  /\ 0 <= ds[c].l /\ ds[c].l <= ds[c].r /\ ds[c].r < n
                      /\ ds[c].what = "join" => ds[c].l <= ds[c].m /\ ds[c].m < ds[c].r
    BY DEF Spans
  <2>1. CASE c \in 1 .. 3
    <3> HIDE DEF lo0, hi0
    <3>1. CASE c = 1
      BY <1>2, <1>3, <3>1
    <3>2. CASE c = 2
      BY <1>2, <1>3, <3>2
    <3>3. CASE c = 3
      BY <1>2, <1>3, <3>3
    <3> QED BY <1>5, <2>1, <3>1, <3>2, <3>3
  <2>2. CASE c \notin 1 .. 3
    BY <1>4, <2>2 DEF Spans
  <2> QED BY <2>1, <2>2
<1>9. Nested(ds)
  <2> SUFFICES ASSUME NEW c \in 1 .. Len(ds), NEW d \in 1 .. c - 1
               PROVE  \/ Beside(ds[d], ds[c].l, ds[c].r)
                      \/ /\ ds[c].what = "join"
                         /\ \/ Inside(ds[d], ds[c].l, ds[c].m)
                            \/ Inside(ds[d], ds[c].m + 1, ds[c].r)
    BY DEF Nested
  <2>0. d \in 1 .. Len(ds)
    BY <1>0
  <2>1. CASE c \in 1 .. 3
    <3> HIDE DEF lo0, hi0
    <3>1. c # 1
      OBVIOUS
    <3>2. CASE c = 2
      <4>1. d = 1
        BY <3>2
      <4> QED BY <1>2, <1>3, <3>2, <4>1 DEF Beside
    <3>3. CASE c = 3
      <4>1. d = 1 \/ d = 2
        BY <3>3
      <4> QED BY <1>2, <1>3, <3>3, <4>1 DEF Inside
    <3> QED BY <1>5, <2>1, <3>1, <3>2, <3>3
  <2>2. CASE c \notin 1 .. 3 /\ d \in 1 .. 3
    <3>1. /\ ds[c] = td[c - 2] /\ c - 2 \in 1 .. Len(td) /\ 1 \in 1 .. (c - 2) - 1
      BY <1>4, <2>2
    <3> DEFINE l1 == ds[c].l
               m1 == ds[c].m
               r1 == ds[c].r
    <3>2. l1 \in Int /\ m1 \in Int /\ r1 \in Int
      BY <1>1, <3>1
    <3>3. \/ hi0 < l1 \/ r1 < lo0
          \/ ds[c].what = "join" /\ ((l1 <= lo0 /\ hi0 <= m1) \/ (m1 + 1 <= lo0 /\ hi0 <= r1))
      BY <3>1 DEF Nested, Beside, Inside
    <3> DEFINE f == ds[d].l
               g == ds[d].r
    <3>4. lo0 <= f /\ g <= hi0 /\ f \in Int /\ g \in Int /\ lo0 \in Int /\ hi0 \in Int
      BY <1>2, <1>6, <2>2
    <3>5. \/ g < l1 \/ r1 < f
          \/ ds[c].what = "join" /\ ((l1 <= f /\ g <= m1) \/ (m1 + 1 <= f /\ g <= r1))
      <4> HIDE DEF l1, m1, r1, lo0, hi0, f, g
      <4>1. CASE hi0 < l1 \/ r1 < lo0
        BY <3>2, <3>4, <4>1
      <4>2. CASE ds[c].what = "join" /\ l1 <= lo0 /\ hi0 <= m1
        BY <3>2, <3>4, <4>2
      <4>3. CASE ds[c].what = "join" /\ m1 + 1 <= lo0 /\ hi0 <= r1
        BY <3>2, <3>4, <4>3
      <4> QED BY <3>3, <4>1, <4>2, <4>3
    <3> QED BY <3>5 DEF Beside, Inside
  <2>3. CASE c \notin 1 .. 3 /\ d \notin 1 .. 3
    <3>1. /\ ds[c] = td[c - 2] /\ c - 2 \in 1 .. Len(td)
          /\ ds[d] = td[d - 2] /\ d - 2 \in 1 .. Len(td)
      BY <1>4, <2>0, <2>3
    <3>2. d - 2 \in 1 .. (c - 2) - 1
      BY <1>0, <3>1
    <3> QED BY <3>1, <3>2 DEF Nested
  <2> QED BY <2>1, <2>2, <2>3
<1>10. Low(ds, n)
  <2> SUFFICES ASSUME NEW c \in 1 .. Len(ds)
               PROVE  /\ Len(ds) - c + 1 <= 2 * n
                      /\ ds[c].what = "sort" =>
                            Len(ds) - c + 1 <= 2 * n - 2 * (ds[c].r - ds[c].l + 1) + 1
    BY DEF Low
  <2>1. CASE c \in 1 .. 3
    <3> HIDE DEF lo0, hi0
    <3> DEFINE e == Len(td)
    <3>0. e \in Int /\ Len(ds) = e + 2 /\ e <= 2 * n - 2 * (hi0 - lo0 + 1) + 1 /\ e <= 2 * n
      BY <1>0, <1>2
    <3> HIDE DEF e
    <3>1. CASE c = 1
      <4>1. /\ e + 2 - 1 + 1 <= 2 * n
            /\ e + 2 - 1 + 1 <= 2 * n - 2 * (h - lo0 + 1) + 1
        BY <1>2, <3>0
      <4> QED BY <1>3, <3>0, <3>1, <4>1
    <3>2. CASE c = 2
      <4>1. /\ e + 2 - 2 + 1 <= 2 * n
            /\ e + 2 - 2 + 1 <= 2 * n - 2 * (hi0 - (h + 1) + 1) + 1
        BY <1>2, <3>0
      <4> QED BY <1>3, <3>0, <3>2, <4>1
    <3>3. CASE c = 3
      <4>1. e + 2 - 3 + 1 <= 2 * n
        BY <3>0
      <4> QED BY <1>3, <3>0, <3>3, <4>1
    <3> QED BY <1>5, <2>1, <3>1, <3>2, <3>3
  <2>2. CASE c \notin 1 .. 3
    <3>1. ds[c] = td[c - 2] /\ c - 2 \in 1 .. Len(td) /\ Len(ds) - c = Len(td) - (c - 2)
      BY <1>4, <2>2
    <3>2. /\ Len(td) - (c - 2) + 1 <= 2 * n
          /\ td[c - 2].what = "sort" =>
               Len(td) - (c - 2) + 1 <= 2 * n - 2 * (td[c - 2].r - td[c - 2].l + 1) + 1
      BY <3>1 DEF Low
    <3> QED BY <3>1, <3>2
  <2> QED BY <2>1, <2>2
<1>11. ASSUME NEW c \in 1 .. Len(ds), c \notin 1 .. 3
       PROVE  /\ ds[c].what = "sort" => \A p \in ds[c].l .. ds[c].r : a[p] = p
              /\ ds[c].what = "join" =>
                    /\ \A p \in ds[c].l .. ds[c].m : a[p] \in ds[c].l .. ds[c].m
                    /\ \A p \in ds[c].m + 1 .. ds[c].r : a[p] \in ds[c].m + 1 .. ds[c].r
                    /\ Due(r, a, ds, c, ds[c].l, ds[c].m)
                    /\ Due(r, a, ds, c, ds[c].m + 1, ds[c].r)
  <2>1. /\ ds[c] = td[c - 2] /\ c - 2 \in 1 .. Len(td) /\ c - 2 # 1
        /\ c - 2 \in 2 .. Len(td) + 1 /\ (c - 2) + 2 = c
    BY <1>4, <1>11
  <2>2. /\ td[c - 2].what = "sort" => \A p \in td[c - 2].l .. td[c - 2].r : a[p] = p
        /\ td[c - 2].what = "join" =>
              /\ \A p \in td[c - 2].l .. td[c - 2].m : a[p] \in td[c - 2].l .. td[c - 2].m
              /\ \A p \in td[c - 2].m + 1 .. td[c - 2].r :
                    a[p] \in td[c - 2].m + 1 .. td[c - 2].r
              /\ Due(r, a, td, c - 2, td[c - 2].l, td[c - 2].m)
              /\ Due(r, a, td, c - 2, td[c - 2].m + 1, td[c - 2].r)
    BY <2>1 DEF Ready
  <2>3. /\ td[c - 2].l \in Int /\ td[c - 2].m \in Int /\ td[c - 2].r \in Int
        /\ td[c - 2].m + 1 \in Int
    BY <1>1, <2>1
  <2>4. ASSUME td[c - 2].what = "join"
        PROVE  /\ Due(r, a, ds, (c - 2) + 2, td[c - 2].l, td[c - 2].m)
               /\ Due(r, a, ds, (c - 2) + 2, td[c - 2].m + 1, td[c - 2].r)
    BY <1>7, <2>1, <2>2, <2>3, <2>4
  <2> QED BY <2>1, <2>2, <2>4
<1>12. /\ \A p \in lo0 .. h : a[p] = p
       /\ \A p \in h + 1 .. hi0 : a[p] = p
  <2> HIDE DEF lo0, hi0
  <2>1. \A p \in lo0 .. h : p \in lo0 .. hi0
    BY <1>2
  <2>2. \A p \in h + 1 .. hi0 : p \in lo0 .. hi0
    BY <1>2
  <2> QED BY <1>2, <2>1, <2>2
<1>13. /\ Due(r, a, ds, 3, lo0, h) /\ Due(r, a, ds, 3, h + 1, hi0)
  <2> HIDE DEF lo0, hi0
  <2>1. 1 \in 1 .. 3 - 1 /\ 2 \in 1 .. 3 - 1
    OBVIOUS
  <2> QED BY <1>3, <2>1 DEF Due
<1>14. Ready(r, a, ds, FALSE)
  <2> HIDE DEF lo0, hi0
  <2>1. ASSUME NEW c \in 1 .. 3
        PROVE  /\ ds[c].what = "sort" => \A p \in ds[c].l .. ds[c].r : a[p] = p
               /\ ds[c].what = "join" =>
                    /\ \A p \in ds[c].l .. ds[c].m : a[p] \in ds[c].l .. ds[c].m
                    /\ \A p \in ds[c].m + 1 .. ds[c].r : a[p] \in ds[c].m + 1 .. ds[c].r
                    /\ Due(r, a, ds, c, ds[c].l, ds[c].m)
                    /\ Due(r, a, ds, c, ds[c].m + 1, ds[c].r)
    <3>1. CASE c = 1
      BY <1>3, <1>12, <3>1
    <3>2. CASE c = 2
      BY <1>3, <1>12, <3>2
    <3>3. CASE c = 3
      BY <1>3, <1>12, <1>13, <3>3
    <3> QED BY <1>5, <3>1, <3>2, <3>3
  <2> QED BY <1>11, <2>1 DEF Ready
<1>15. Due(r, a, td, Len(td) + 1, 0, n - 1) => Due(r, a, ds, Len(ds) + 1, 0, n - 1)
  <2>1. Len(td) + 1 \in 2 .. Len(td) + 1 /\ 0 \in Int /\ n - 1 \in Int
        /\ (Len(td) + 1) + 2 = Len(ds) + 1
    BY <1>0
  <2> QED BY <1>7, <2>1
<1> QED BY <1>8, <1>9, <1>10, <1>14, <1>15

---------------------------------------------------------------------------
(* A merge of the places l to m with m + 1 to h, after x elements of the   *)
(* first half and y of the second: the array with the rest of tmp back in  *)
(* it, and which of the elements of tmp are not placed yet.                *)
MergedBack(a, t, n, l, m, h, x, y) ==
    [p \in 0 .. n - 1 |-> IF p < l + x + y \/ p > h THEN a[p]
                          ELSE IF p <= m + y THEN t[p - l - y] ELSE t[p - l]]

(* The places of tmp that are not merged yet.                              *)
Waits(q, l, m, x, y) == (x <= q /\ q <= m - l) \/ m - l + 1 + y <= q

(* A merge is between the beginnings and the ends of its halves.           *)
Between(n, l, m, h, x, y) ==
    /\ 0 <= l /\ l <= m /\ m < h /\ h < n
    /\ x \in 0 .. m - l + 1 /\ y \in 0 .. h - m

(* tmp has both halves, sorted, the first one's elements the older ones.   *)
Halved(r, t, n, l, m, h) ==
    /\ t \in [0 .. h - l -> 0 .. n - 1]
    /\ \A p, q \in 0 .. m - l : p < q => Before(r, t[p], t[q])
    /\ \A p, q \in m - l + 1 .. h - l : p < q => Before(r, t[p], t[q])
    /\ \A p \in 0 .. m - l, q \in m - l + 1 .. h - l : t[p] < t[q]

(* What has been placed is sorted and comes before all that waits.         *)
Placed(r, a, t, l, m, h, x, y) ==
    /\ \A p, q \in l .. l + x + y - 1 : p < q => Before(r, a[p], a[q])
    /\ \A p \in l .. l + x + y - 1, q \in 0 .. h - l :
          Waits(q, l, m, x, y) => Before(r, a[p], t[q])

(* f is c, but the place s has what w had, and what was between moved up.  *)
Rotated(f, c, n, s, w) ==
    \A p \in 0 .. n - 1 :
        f[p] = c[IF p = s THEN w ELSE IF s < p /\ p <= w THEN p - 1 ELSE p]

(* The stable order is transitive.                                         *)
LEMMA BeforeTransitive ==
    ASSUME NEW r, NEW u \in Int, NEW v \in Int, NEW w \in Int,
           r[u] \in Int, r[v] \in Int, r[w] \in Int, Before(r, u, v), Before(r, v, w)
    PROVE  Before(r, u, w)
BY DEF Before

(* What tmp holds are elements.                                            *)
LEMMA ElementsOfTmp ==
    ASSUME NEW n \in Nat, NEW r \in [0 .. n - 1 -> Rank], NEW t,
           NEW l \in Int, NEW m \in Int, NEW h \in Int, Halved(r, t, n, l, m, h)
    PROVE  \A q \in 0 .. h - l : t[q] \in 0 .. n - 1 /\ t[q] \in Int /\ r[t[q]] \in Int
<1> SUFFICES ASSUME NEW q \in 0 .. h - l
             PROVE  t[q] \in 0 .. n - 1 /\ t[q] \in Int /\ r[t[q]] \in Int
  OBVIOUS
<1>1. t[q] \in 0 .. n - 1
  BY DEF Halved
<1>2. r[t[q]] \in Int
  BY <1>1, ArrayAssumption
<1>3. t[q] \in Int
  BY <1>1
<1> QED BY <1>1, <1>2, <1>3

(* The next place gets an element that all placed ones come before.        *)
LEMMA PlacedNext ==
    ASSUME NEW n \in Nat, NEW r, NEW a \in [0 .. n - 1 -> 0 .. n - 1], NEW l \in Nat,
           NEW s \in 0 .. n - 1, NEW e \in 0 .. n - 1, l <= s,
           \A p, q \in l .. s - 1 : p < q => Before(r, a[p], a[q]),
           \A p \in l .. s - 1 : Before(r, a[p], e)
    PROVE  /\ [a EXCEPT ![s] = e] \in [0 .. n - 1 -> 0 .. n - 1]
           /\ \A p \in 0 .. n - 1 : [a EXCEPT ![s] = e][p] = IF p = s THEN e ELSE a[p]
           /\ \A p, q \in l .. s :
                 p < q => Before(r, [a EXCEPT ![s] = e][p], [a EXCEPT ![s] = e][q])
<1> DEFINE b == [a EXCEPT ![s] = e]
<1>1. /\ b \in [0 .. n - 1 -> 0 .. n - 1]
      /\ \A p \in 0 .. n - 1 : b[p] = IF p = s THEN e ELSE a[p]
  OBVIOUS
<1> HIDE DEF b
<1>2. ASSUME NEW p \in l .. s, NEW q \in l .. s, p < q PROVE Before(r, b[p], b[q])
  <2>1. p \in l .. s - 1 /\ p \in 0 .. n - 1 /\ q \in 0 .. n - 1 /\ p # s
    BY <1>2
  <2>2. b[p] = a[p]
    BY <1>1, <2>1
  <2>3. CASE q = s
    BY <1>1, <2>1, <2>2, <2>3
  <2>4. CASE q # s
    <3>1. q \in l .. s - 1 /\ b[q] = a[q]
      BY <1>1, <2>1, <2>4
    <3> QED BY <1>2, <2>1, <2>2, <3>1
  <2> QED BY <2>3, <2>4
<1> QED BY <1>1, <1>2 DEF b

(* The first half's next element is placed: the elements stay where they   *)
(* would be put back.                                                      *)
LEMMA MergeLeft ==
    ASSUME NEW n \in Nat, NEW r \in [0 .. n - 1 -> Rank],
           NEW a \in [0 .. n - 1 -> 0 .. n - 1], NEW t,
           NEW l \in Int, NEW m \in Int, NEW h \in Int, NEW x \in Int, NEW y \in Int,
           Between(n, l, m, h, x, y), Halved(r, t, n, l, m, h), Placed(r, a, t, l, m, h, x, y),
           x <= m - l, y < h - m, r[t[x]] <= r[t[m - l + 1 + y]]
    PROVE  LET b == [a EXCEPT ![l + x + y] = t[x]]
           IN  /\ b \in [0 .. n - 1 -> 0 .. n - 1]
               /\ Between(n, l, m, h, x + 1, y)
               /\ Placed(r, b, t, l, m, h, x + 1, y)
<1> DEFINE s == l + x + y
           z == m - l + 1 + y
           e == t[x]
           b == [a EXCEPT ![s] = e]
<1>0. /\ 0 <= l /\ l <= m /\ m < h /\ h < n /\ 0 <= x /\ 0 <= y
  BY DEF Between
<1>1. /\ s \in 0 .. n - 1 /\ l <= s /\ l \in Nat /\ s \in Int /\ s <= m + y
      /\ x \in 0 .. m - l /\ z \in m - l + 1 .. h - l
      /\ x \in 0 .. h - l /\ z \in 0 .. h - l /\ l + (x + 1) + y - 1 = s
      /\ l + x + y - 1 = s - 1 /\ l + (x + 1) + y = s + 1
  <2>1. s \in 0 .. n - 1 /\ l <= s /\ l \in Nat /\ s \in Int /\ s <= m + y
    BY <1>0
  <2>2. x \in 0 .. m - l /\ z \in m - l + 1 .. h - l /\ x \in 0 .. h - l
    BY <1>0
  <2>3. z \in 0 .. h - l
    BY <1>0
  <2>4. /\ l + (x + 1) + y - 1 = s /\ l + x + y - 1 = s - 1 /\ l + (x + 1) + y = s + 1
    OBVIOUS
  <2> QED BY <2>1, <2>2, <2>3, <2>4
<1>2. \A q \in 0 .. h - l : t[q] \in 0 .. n - 1 /\ t[q] \in Int /\ r[t[q]] \in Int
  BY ElementsOfTmp
<1>3. Between(n, l, m, h, x + 1, y)
  BY DEF Between
<1>4. Before(r, t[x], t[z])
  <2>1. t[x] < t[z]
    BY <1>1 DEF Halved
  <2>2. r[t[x]] <= r[t[z]] /\ r[t[x]] \in Int /\ r[t[z]] \in Int
    BY <1>1, <1>2
  <2>3. r[t[x]] < r[t[z]] \/ r[t[x]] = r[t[z]]
    BY <2>2
  <2> QED BY <2>1, <2>3 DEF Before
<1>5. ASSUME NEW q \in 0 .. h - l, Waits(q, l, m, x + 1, y)
      PROVE  Waits(q, l, m, x, y) /\ Before(r, t[x], t[q])
  <2>1. CASE x + 1 <= q /\ q <= m - l
    <3>1. x <= q /\ q \in 0 .. m - l /\ x < q
      BY <1>1, <2>1
    <3>2. Before(r, t[x], t[q])
      BY <1>1, <3>1 DEF Halved
    <3> QED BY <2>1, <3>1, <3>2 DEF Waits
  <2>2. CASE z <= q
    <3>1. q \in m - l + 1 .. h - l /\ (q = z \/ z < q)
      BY <1>1, <2>2
    <3>2. q = z \/ Before(r, t[z], t[q])
      BY <1>1, <3>1 DEF Halved
    <3>3. Before(r, t[x], t[q])
      <4>1. CASE q = z
        BY <1>4, <4>1
      <4>2. CASE Before(r, t[z], t[q])
        <5> HIDE DEF z
        <5> QED BY <1>1, <1>2, <1>4, <4>2, BeforeTransitive
      <4> QED BY <3>2, <4>1, <4>2
    <3> QED BY <2>2, <3>3 DEF Waits
  <2> QED BY <1>5, <2>1, <2>2 DEF Waits
<1>6. Waits(x, l, m, x, y)
  BY <1>1 DEF Waits
<1>7. /\ \A p, q \in l .. s - 1 : p < q => Before(r, a[p], a[q])
      /\ \A p \in l .. s - 1 : Before(r, a[p], e)
  BY <1>1, <1>6 DEF Placed
<1>8. e \in 0 .. n - 1
  BY <1>1, <1>2
<1>9. /\ b \in [0 .. n - 1 -> 0 .. n - 1]
      /\ \A p \in 0 .. n - 1 : b[p] = IF p = s THEN e ELSE a[p]
      /\ \A p, q \in l .. s : p < q => Before(r, b[p], b[q])
  <2>1. \A p, q \in l .. s - 1 : p < q => Before(r, a[p], a[q])
    BY <1>7
  <2>2. \A p \in l .. s - 1 : Before(r, a[p], e)
    BY <1>7
  <2>3. l \in Nat /\ s \in 0 .. n - 1 /\ l <= s
    BY <1>1
  <2> HIDE DEF s, e
  <2>4. [a EXCEPT ![s] = e] \in [0 .. n - 1 -> 0 .. n - 1]
    BY <1>8, <2>1, <2>2, <2>3, PlacedNext
  <2>5. \A p \in 0 .. n - 1 : [a EXCEPT ![s] = e][p] = IF p = s THEN e ELSE a[p]
    BY <1>8, <2>1, <2>2, <2>3, PlacedNext
  <2>6. \A p, q \in l .. s :
           p < q => Before(r, [a EXCEPT ![s] = e][p], [a EXCEPT ![s] = e][q])
    BY <1>8, <2>1, <2>2, <2>3, PlacedNext
  <2> QED BY <2>4, <2>5, <2>6
<1> HIDE DEF b
<1>10. ASSUME NEW p \in l .. s, NEW q \in 0 .. h - l, Waits(q, l, m, x + 1, y)
       PROVE  Before(r, b[p], t[q])
  <2>1. p \in 0 .. n - 1
    BY <1>1
  <2>2. CASE p = s
    BY <1>5, <1>9, <1>10, <2>1, <2>2
  <2>3. CASE p # s
    <3>1. p \in l .. s - 1 /\ b[p] = a[p]
      BY <1>1, <1>9, <2>1, <2>3
    <3>2. Before(r, a[p], t[q])
      BY <1>1, <1>5, <1>10, <3>1 DEF Placed
    <3> QED BY <3>1, <3>2
  <2> QED BY <2>2, <2>3
<1>11. Placed(r, b, t, l, m, h, x + 1, y)
  BY <1>1, <1>9, <1>10 DEF Placed
<1> QED BY <1>3, <1>9, <1>11 DEF b

(* The elements stay where they would be put back.                         *)
LEMMA MergeLeftBack ==
    ASSUME NEW n \in Nat, NEW a, NEW b, NEW t,
           NEW l \in Int, NEW m \in Int, NEW h \in Int, NEW x \in Int, NEW y \in Int,
           Between(n, l, m, h, x, y), x <= m - l, y < h - m,
           \A f \in 0 .. n - 1 : b[f] = IF f = l + x + y THEN t[x] ELSE a[f]
    PROVE  Rotated(MergedBack(b, t, n, l, m, h, x + 1, y), MergedBack(a, t, n, l, m, h, x, y),
                   n, l + x + y, l + x + y)
<1> DEFINE s == l + x + y
           e == t[x]
<1>0. /\ 0 <= l /\ l <= m /\ m < h /\ h < n /\ 0 <= x /\ 0 <= y
  BY DEF Between
<1>1. s \in 0 .. n - 1 /\ s \in Int /\ s <= m + y /\ l + (x + 1) + y = s + 1
  BY <1>0
<1>9. \A p \in 0 .. n - 1 : b[p] = IF p = s THEN e ELSE a[p]
  OBVIOUS
<1>12. ASSUME NEW p \in 0 .. n - 1
       PROVE  (IF p < s + 1 \/ p > h THEN b[p]
               ELSE IF p <= m + y THEN t[p - l - y] ELSE t[p - l])
              = (IF p < s \/ p > h THEN a[p]
                 ELSE IF p <= m + y THEN t[p - l - y] ELSE t[p - l])
  <2>1. CASE p = s
    <3>1. s - l - y = x /\ s <= m + y /\ ~(s < s) /\ s < s + 1 /\ ~(s > h)
      BY <1>0, <1>1
    <3> QED BY <1>9, <2>1, <3>1
  <2>2. CASE p # s
    <3>1. p < s + 1 <=> p < s
      BY <1>1, <2>2
    <3> QED BY <1>9, <2>2, <3>1
  <2> QED BY <2>1, <2>2
<1>13. ASSUME NEW p \in 0 .. n - 1
       PROVE  MergedBack(b, t, n, l, m, h, x + 1, y)[p]
                 = MergedBack(a, t, n, l, m, h, x, y)[p]
  BY <1>1, <1>12 DEF MergedBack
<1>14. \A p \in 0 .. n - 1 : (IF p = s THEN s ELSE IF s < p /\ p <= s THEN p - 1 ELSE p) = p
  BY <1>1
<1> HIDE DEF s
<1> QED BY <1>13, <1>14 DEF Rotated, s

(* The second half's next element is placed: those of the first half that  *)
(* wait are put back one place further on.                                 *)
LEMMA MergeRight ==
    ASSUME NEW n \in Nat, NEW r \in [0 .. n - 1 -> Rank],
           NEW a \in [0 .. n - 1 -> 0 .. n - 1], NEW t,
           NEW l \in Int, NEW m \in Int, NEW h \in Int, NEW x \in Int, NEW y \in Int,
           Between(n, l, m, h, x, y), Halved(r, t, n, l, m, h), Placed(r, a, t, l, m, h, x, y),
           x <= m - l, y < h - m, r[t[x]] > r[t[m - l + 1 + y]]
    PROVE  LET b == [a EXCEPT ![l + x + y] = t[m - l + 1 + y]]
           IN  /\ b \in [0 .. n - 1 -> 0 .. n - 1]
               /\ Between(n, l, m, h, x, y + 1)
               /\ Placed(r, b, t, l, m, h, x, y + 1)
<1> DEFINE s == l + x + y
           z == m - l + 1 + y
           e == t[z]
           b == [a EXCEPT ![s] = e]
<1>0. /\ 0 <= l /\ l <= m /\ m < h /\ h < n /\ 0 <= x /\ 0 <= y
  BY DEF Between
<1>1. /\ s \in 0 .. n - 1 /\ l <= s /\ l \in Nat /\ s \in Int /\ s <= m + y
      /\ x \in 0 .. m - l /\ z \in m - l + 1 .. h - l
      /\ x \in 0 .. h - l /\ z \in 0 .. h - l /\ l + x + (y + 1) - 1 = s
      /\ l + x + y - 1 = s - 1 /\ l + x + (y + 1) = s + 1
  <2>1. s \in 0 .. n - 1 /\ l <= s /\ l \in Nat /\ s \in Int /\ s <= m + y
    BY <1>0
  <2>2. x \in 0 .. m - l /\ z \in m - l + 1 .. h - l /\ x \in 0 .. h - l
    BY <1>0
  <2>3. z \in 0 .. h - l
    BY <1>0
  <2>4. /\ l + x + (y + 1) - 1 = s /\ l + x + y - 1 = s - 1 /\ l + x + (y + 1) = s + 1
    OBVIOUS
  <2> QED BY <2>1, <2>2, <2>3, <2>4
<1>2. \A q \in 0 .. h - l : t[q] \in 0 .. n - 1 /\ t[q] \in Int /\ r[t[q]] \in Int
  BY ElementsOfTmp
<1>3. Between(n, l, m, h, x, y + 1)
  BY DEF Between
<1>4. Before(r, t[z], t[x])
  BY <1>1, <1>2 DEF Before
<1>5. ASSUME NEW q \in 0 .. h - l, Waits(q, l, m, x, y + 1)
      PROVE  Waits(q, l, m, x, y) /\ Before(r, t[z], t[q])
  <2>1. CASE x <= q /\ q <= m - l
    <3>1. q \in 0 .. m - l /\ (q = x \/ x < q)
      BY <1>1, <2>1
    <3>2. q = x \/ Before(r, t[x], t[q])
      BY <1>1, <3>1 DEF Halved
    <3>3. Before(r, t[z], t[q])
      <4>1. CASE q = x
        BY <1>4, <4>1
      <4>2. CASE Before(r, t[x], t[q])
        <5> HIDE DEF z
        <5> QED BY <1>1, <1>2, <1>4, <4>2, BeforeTransitive
      <4> QED BY <3>2, <4>1, <4>2
    <3> QED BY <2>1, <3>3 DEF Waits
  <2>2. CASE z + 1 <= q
    <3>1. q \in m - l + 1 .. h - l /\ z < q /\ z <= q
      BY <1>1, <2>2
    <3>2. Before(r, t[z], t[q])
      BY <1>1, <3>1 DEF Halved
    <3> QED BY <3>1, <3>2 DEF Waits
  <2>3. m - l + 1 + (y + 1) = z + 1
    OBVIOUS
  <2> QED BY <1>5, <2>1, <2>2, <2>3 DEF Waits
<1>6. Waits(z, l, m, x, y)
  BY <1>1 DEF Waits
<1>7. /\ \A p, q \in l .. s - 1 : p < q => Before(r, a[p], a[q])
      /\ \A p \in l .. s - 1 : Before(r, a[p], e)
  BY <1>1, <1>6 DEF Placed
<1>8. e \in 0 .. n - 1
  BY <1>1, <1>2
<1>9. /\ b \in [0 .. n - 1 -> 0 .. n - 1]
      /\ \A p \in 0 .. n - 1 : b[p] = IF p = s THEN e ELSE a[p]
      /\ \A p, q \in l .. s : p < q => Before(r, b[p], b[q])
  <2>1. \A p, q \in l .. s - 1 : p < q => Before(r, a[p], a[q])
    BY <1>7
  <2>2. \A p \in l .. s - 1 : Before(r, a[p], e)
    BY <1>7
  <2>3. l \in Nat /\ s \in 0 .. n - 1 /\ l <= s
    BY <1>1
  <2> HIDE DEF s, e
  <2>4. [a EXCEPT ![s] = e] \in [0 .. n - 1 -> 0 .. n - 1]
    BY <1>8, <2>1, <2>2, <2>3, PlacedNext
  <2>5. \A p \in 0 .. n - 1 : [a EXCEPT ![s] = e][p] = IF p = s THEN e ELSE a[p]
    BY <1>8, <2>1, <2>2, <2>3, PlacedNext
  <2>6. \A p, q \in l .. s :
           p < q => Before(r, [a EXCEPT ![s] = e][p], [a EXCEPT ![s] = e][q])
    BY <1>8, <2>1, <2>2, <2>3, PlacedNext
  <2> QED BY <2>4, <2>5, <2>6
<1> HIDE DEF b
<1>10. ASSUME NEW p \in l .. s, NEW q \in 0 .. h - l, Waits(q, l, m, x, y + 1)
       PROVE  Before(r, b[p], t[q])
  <2>1. p \in 0 .. n - 1
    BY <1>1
  <2>2. CASE p = s
    BY <1>5, <1>9, <1>10, <2>1, <2>2
  <2>3. CASE p # s
    <3>1. p \in l .. s - 1 /\ b[p] = a[p]
      BY <1>1, <1>9, <2>1, <2>3
    <3>2. Before(r, a[p], t[q])
      BY <1>1, <1>5, <1>10, <3>1 DEF Placed
    <3> QED BY <3>1, <3>2
  <2> QED BY <2>2, <2>3
<1>11. Placed(r, b, t, l, m, h, x, y + 1)
  BY <1>1, <1>9, <1>10 DEF Placed
<1> QED BY <1>3, <1>9, <1>11 DEF b

(* What the array with the rest back has then.                             *)
LEMMA MergeRightBack ==
    ASSUME NEW n \in Nat, NEW a, NEW b, NEW t,
           NEW l \in Int, NEW m \in Int, NEW h \in Int, NEW x \in Int, NEW y \in Int,
           Between(n, l, m, h, x, y), x <= m - l, y < h - m,
           \A f \in 0 .. n - 1 : b[f] = IF f = l + x + y THEN t[m - l + 1 + y] ELSE a[f]
    PROVE  Rotated(MergedBack(b, t, n, l, m, h, x, y + 1), MergedBack(a, t, n, l, m, h, x, y),
                   n, l + x + y, m + 1 + y)
<1> DEFINE s == l + x + y
           z == m - l + 1 + y
           e == t[z]
<1>0. /\ 0 <= l /\ l <= m /\ m < h /\ h < n /\ 0 <= x /\ 0 <= y
  BY DEF Between
<1>1. s \in 0 .. n - 1 /\ s \in Int /\ s <= m + y /\ l + x + (y + 1) = s + 1
  BY <1>0
<1>9. \A f \in 0 .. n - 1 : b[f] = IF f = s THEN e ELSE a[f]
  OBVIOUS
<1> DEFINE w == m + 1 + y
           M(f) == IF f < s \/ f > h THEN a[f]
                   ELSE IF f <= m + y THEN t[f - l - y] ELSE t[f - l]
           N(f) == IF f < s + 1 \/ f > h THEN b[f]
                   ELSE IF f <= m + (y + 1) THEN t[f - l - (y + 1)] ELSE t[f - l]
           v(f) == IF f = s THEN w ELSE IF s < f /\ f <= w THEN f - 1 ELSE f
<1>12. w \in 0 .. n - 1 /\ s <= w /\ w <= h /\ w = m + y + 1 /\ w - l = z
       /\ m + (y + 1) = w /\ w \in Int
  BY <1>0
<1>13. ASSUME NEW p \in 0 .. n - 1
       PROVE  N(p) = M(v(p)) /\ v(p) \in 0 .. n - 1
  <2>1. CASE p = s
    <3>1. v(p) = w /\ ~(w < s \/ w > h) /\ ~(w <= m + y) /\ s < s + 1
      BY <1>1, <1>12, <2>1
    <3>2. M(w) = t[w - l]
      BY <3>1
    <3>3. N(p) = e
      BY <1>9, <2>1, <3>1
    <3> QED BY <1>12, <3>1, <3>2, <3>3
  <2>2. CASE s < p /\ p <= w
    <3>1. /\ v(p) = p - 1 /\ ~(p - 1 < s \/ p - 1 > h) /\ p - 1 <= m + y
          /\ ~(p < s + 1 \/ p > h) /\ p <= m + (y + 1) /\ p - 1 \in 0 .. n - 1
      <4>1. s \in Int /\ 0 <= s /\ w \in Int /\ w = m + y + 1 /\ w <= h /\ m + (y + 1) = w
        BY <1>1, <1>12
      <4> HIDE DEF s, w
      <4>2. v(p) = p - 1
        BY <2>2, <4>1
      <4>3. ~(p - 1 < s \/ p - 1 > h) /\ p - 1 <= m + y
        BY <2>2, <4>1
      <4>4. ~(p < s + 1 \/ p > h) /\ p <= m + (y + 1) /\ p - 1 \in 0 .. n - 1
        BY <2>2, <4>1
      <4> QED BY <4>2, <4>3, <4>4
    <3>2. p - l - (y + 1) = (p - 1) - l - y
      OBVIOUS
    <3> QED BY <3>1, <3>2
  <2>3. CASE p < s \/ p > w
    <3>1. v(p) = p /\ p # s /\ (p < s + 1 <=> p < s)
      <4>1. s \in Int /\ w \in Int /\ s <= w
        BY <1>1, <1>12
      <4> HIDE DEF s, w
      <4> QED BY <2>3, <4>1
    <3>2. CASE p < s \/ p > h
      <4>1. b[p] = a[p]
        BY <1>9, <3>1
      <4> QED BY <3>1, <3>2, <4>1
    <3>3. CASE ~(p < s \/ p > h)
      <4>1. ~(p <= m + y) /\ ~(p <= m + (y + 1)) /\ ~(p < s + 1 \/ p > h)
        BY <1>1, <1>12, <2>3, <3>1, <3>3
      <4> QED BY <3>1, <3>3, <4>1
    <3> QED BY <3>2, <3>3
  <2>4. p = s \/ (s < p /\ p <= w) \/ p < s \/ p > w
    BY <1>1, <1>12
  <2> QED BY <2>1, <2>2, <2>3, <2>4
<1>14. /\ MergedBack(a, t, n, l, m, h, x, y) = [f \in 0 .. n - 1 |-> M(f)]
       /\ MergedBack(b, t, n, l, m, h, x, y + 1) = [f \in 0 .. n - 1 |-> N(f)]
  BY <1>1 DEF MergedBack
<1>15. ASSUME NEW p \in 0 .. n - 1
       PROVE  MergedBack(b, t, n, l, m, h, x, y + 1)[p]
                 = MergedBack(a, t, n, l, m, h, x, y)[v(p)]
  <2> HIDE DEF M, N, v
  <2> QED BY <1>13, <1>14
<1> QED BY <1>15 DEF Rotated

(* One place gets what a later one had, and those between move up by one:  *)
(* each element is still there once, and where it was but between the two. *)
LEMMA Rotation ==
    ASSUME NEW n \in Nat, NEW c, Permutes(c, n), NEW s \in 0 .. n - 1, NEW w \in 0 .. n - 1,
           s <= w, NEW f, Rotated(f, c, n, s, w)
    PROVE  /\ \A p \in 0 .. n - 1 : f[p] \in 0 .. n - 1
           /\ \A p, q \in 0 .. n - 1 : f[p] = f[q] => p = q
           /\ \A p \in 0 .. n - 1 : ~(s <= p /\ p <= w) => f[p] = c[p]
           /\ \A p \in s .. w : \E q \in s .. w : f[p] = c[q]
<1> DEFINE v(p) == IF p = s THEN w ELSE IF s < p /\ p <= w THEN p - 1 ELSE p
<1>1. \A p \in 0 .. n - 1 : /\ v(p) \in 0 .. n - 1
                            /\ s <= p /\ p <= w => v(p) \in s .. w
                            /\ ~(s <= p /\ p <= w) => v(p) = p
  OBVIOUS
<1>2. \A p, q \in 0 .. n - 1 : v(p) = v(q) => p = q
  OBVIOUS
<1>3. \A p \in 0 .. n - 1 : f[p] = c[v(p)]
  BY DEF Rotated
<1> HIDE DEF v
<1>4. /\ \A p \in 0 .. n - 1 : c[p] \in 0 .. n - 1
      /\ \A p, q \in 0 .. n - 1 : c[p] = c[q] => p = q
  BY DEF Permutes
<1>5. \A p \in 0 .. n - 1 : f[p] \in 0 .. n - 1
  BY <1>1, <1>3, <1>4
<1>7. ASSUME NEW p \in 0 .. n - 1, NEW q \in 0 .. n - 1, f[p] = f[q] PROVE p = q
  <2>1. v(p) \in 0 .. n - 1 /\ v(q) \in 0 .. n - 1 /\ c[v(p)] = c[v(q)]
    BY <1>1, <1>3, <1>7
  <2>2. v(p) = v(q)
    BY <1>4, <2>1
  <2> QED BY <1>2, <2>2
<1>8. \A p \in s .. w : p \in 0 .. n - 1 /\ s <= p /\ p <= w
  OBVIOUS
<1>9. \A p \in s .. w : \E q \in s .. w : f[p] = c[q]
  BY <1>1, <1>3, <1>8
<1> QED BY <1>1, <1>3, <1>5, <1>7, <1>9

(* Halves that adjoin are one sorted range.                                *)
LEMMA HalvesAdjoin ==
    ASSUME NEW n \in Nat, NEW r, NEW a, NEW l \in Int, NEW m \in Int, NEW h \in Int,
           0 <= l, l <= m, m < h, h < n, \A p \in 0 .. n - 1 : a[p] \in Int /\ r[a[p]] \in Int,
           \A p \in l .. m : a[p] \in l .. m, \A p \in m + 1 .. h : a[p] \in m + 1 .. h,
           \A p, q \in l .. m : p < q => Before(r, a[p], a[q]),
           \A p, q \in m + 1 .. h : p < q => Before(r, a[p], a[q]),
           r[a[m]] <= r[a[m + 1]]
    PROVE  \A p, q \in l .. h : p < q => Before(r, a[p], a[q])
<1>1. m \in l .. m /\ m + 1 \in m + 1 .. h /\ m \in 0 .. n - 1 /\ m + 1 \in 0 .. n - 1
  OBVIOUS
<1>2. Before(r, a[m], a[m + 1])
  <2>1. a[m] \in l .. m /\ a[m + 1] \in m + 1 .. h /\ r[a[m]] \in Int /\ r[a[m + 1]] \in Int
    BY <1>1
  <2>2. a[m] < a[m + 1]
    BY <2>1
  <2> QED BY <2>1, <2>2 DEF Before
<1>3. ASSUME NEW p \in l .. m PROVE p \in 0 .. n - 1 /\ Before(r, a[p], a[m + 1])
  <2>1. p \in 0 .. n - 1 /\ (p = m \/ p < m)
    OBVIOUS
  <2>2. CASE p = m
    BY <1>2, <2>1, <2>2
  <2>3. CASE p < m
    <3>1. Before(r, a[p], a[m])
      BY <1>1, <2>3
    <3>2. /\ a[p] \in Int /\ a[m] \in Int /\ a[m + 1] \in Int
          /\ r[a[p]] \in Int /\ r[a[m]] \in Int /\ r[a[m + 1]] \in Int
      BY <1>1, <2>1
    <3>3. Before(r, a[p], a[m + 1])
      BY <1>2, <3>1, <3>2, BeforeTransitive
    <3> QED BY <2>1, <3>3
  <2> QED BY <2>1, <2>2, <2>3
<1>4. ASSUME NEW p \in l .. m, NEW q \in m + 1 .. h PROVE Before(r, a[p], a[q])
  <2>1. q \in 0 .. n - 1 /\ (q = m + 1 \/ m + 1 < q)
    OBVIOUS
  <2>2. CASE q = m + 1
    BY <1>3, <2>2
  <2>3. CASE m + 1 < q
    <3>1. Before(r, a[m + 1], a[q])
      BY <1>1, <2>3
    <3>2. /\ a[p] \in Int /\ a[m + 1] \in Int /\ a[q] \in Int
          /\ r[a[p]] \in Int /\ r[a[m + 1]] \in Int /\ r[a[q]] \in Int
      BY <1>1, <1>3, <2>1
    <3> QED BY <1>3, <3>1, <3>2, BeforeTransitive
  <2> QED BY <2>1, <2>2, <2>3
<1>5. \A p \in l .. h : p \in l .. m \/ p \in m + 1 .. h
  OBVIOUS
<1>6. \A p \in m + 1 .. h, q \in l .. m : ~(p < q)
  OBVIOUS
<1> QED BY <1>4, <1>5, <1>6

(* Nothing has changed yet.                                                *)
LEMMA MergeBeginsBack ==
    ASSUME NEW n \in Nat, NEW a \in [0 .. n - 1 -> 0 .. n - 1], NEW t,
           NEW l \in Int, NEW m \in Int, NEW h \in Int,
           \A p \in 0 .. h - l : t[p] = a[l + p]
    PROVE  MergedBack(a, t, n, l, m, h, 0, 0) = a
<1>1. ASSUME NEW p \in 0 .. n - 1
       PROVE  (IF p < l + 0 + 0 \/ p > h THEN a[p]
               ELSE IF p <= m + 0 THEN t[p - l - 0] ELSE t[p - l]) = a[p]
  <2>1. CASE p < l + 0 + 0 \/ p > h
    BY <2>1
  <2>2. CASE ~(p < l + 0 + 0 \/ p > h)
    <3>1. p - l \in 0 .. h - l /\ p - l - 0 = p - l /\ l + (p - l) = p
      BY <2>2
    <3>2. t[p - l] = a[p]
      BY <3>1
    <3> QED BY <2>2, <3>1, <3>2
  <2> QED BY <2>1, <2>2
<1>2. MergedBack(a, t, n, l, m, h, 0, 0) = [p \in 0 .. n - 1 |-> a[p]]
  BY <1>1 DEF MergedBack
<1>3. [p \in 0 .. n - 1 |-> a[p]] = a
  OBVIOUS
<1> QED BY <1>2, <1>3

(* A merge begins: tmp has the halves, and nothing is placed yet.          *)
LEMMA MergeBegins ==
    ASSUME NEW n \in Nat, NEW r, NEW a \in [0 .. n - 1 -> 0 .. n - 1], NEW t,
           NEW l \in Int, NEW m \in Int, NEW h \in Int,
           0 <= l, l <= m, m < h, h < n,
           \A p \in l .. m : a[p] \in l .. m, \A p \in m + 1 .. h : a[p] \in m + 1 .. h,
           \A p, q \in l .. m : p < q => Before(r, a[p], a[q]),
           \A p, q \in m + 1 .. h : p < q => Before(r, a[p], a[q]),
           t \in [0 .. h - l -> 0 .. n - 1], \A p \in 0 .. h - l : t[p] = a[l + p]
    PROVE  /\ Between(n, l, m, h, 0, 0) /\ Halved(r, t, n, l, m, h)
           /\ Placed(r, a, t, l, m, h, 0, 0)
<1>3. \A p \in 0 .. h - l : t[p] = a[l + p]
  OBVIOUS
<1>5. Between(n, l, m, h, 0, 0)
  BY DEF Between
<1>6. \A p \in 0 .. m - l : p \in 0 .. h - l /\ l + p \in l .. m /\ t[p] = a[l + p]
  <2>1. \A p \in 0 .. m - l : p \in 0 .. h - l /\ l + p \in l .. m
    OBVIOUS
  <2> QED BY <1>3, <2>1
<1>7. \A p \in m - l + 1 .. h - l : p \in 0 .. h - l /\ l + p \in m + 1 .. h /\ t[p] = a[l + p]
  <2>1. \A p \in m - l + 1 .. h - l : p \in 0 .. h - l /\ l + p \in m + 1 .. h
    OBVIOUS
  <2> QED BY <1>3, <2>1
<1>8. \A p, q \in Int : p < q => l + p < l + q
  OBVIOUS
<1>9. ASSUME NEW p \in 0 .. m - l, NEW q \in 0 .. m - l, p < q PROVE Before(r, t[p], t[q])
  BY <1>6, <1>8, <1>9
<1>10. ASSUME NEW p \in m - l + 1 .. h - l, NEW q \in m - l + 1 .. h - l, p < q
       PROVE  Before(r, t[p], t[q])
  <2>1. t[p] = a[l + p] /\ t[q] = a[l + q] /\ l + p \in m + 1 .. h /\ l + q \in m + 1 .. h
    BY <1>7
  <2>2. l + p < l + q
    BY <1>8, <1>10
  <2>3. Before(r, a[l + p], a[l + q])
    BY <2>1, <2>2
  <2> QED BY <2>1, <2>3
<1>11. ASSUME NEW p \in 0 .. m - l, NEW q \in m - l + 1 .. h - l PROVE t[p] < t[q]
  <2>1. PICK u \in l .. m : t[p] = u
    BY <1>6
  <2>2. PICK w \in m + 1 .. h : t[q] = w
    BY <1>7
  <2>3. u < w
    OBVIOUS
  <2> QED BY <2>1, <2>2, <2>3
<1>12. Halved(r, t, n, l, m, h)
  BY <1>9, <1>10, <1>11 DEF Halved
<1>13. Placed(r, a, t, l, m, h, 0, 0)
  <2>1. \A p \in l .. l + 0 + 0 - 1 : FALSE
    OBVIOUS
  <2> QED BY <2>1 DEF Placed
<1> QED BY <1>5, <1>12, <1>13

(* One half is used up: with the rest of the other back the range is       *)
(* sorted.                                                                 *)
LEMMA MergeEnds ==
    ASSUME NEW n \in Nat, NEW r, NEW a, NEW t,
           NEW l \in Int, NEW m \in Int, NEW h \in Int, NEW x \in Int, NEW y \in Int,
           Between(n, l, m, h, x, y), Halved(r, t, n, l, m, h), Placed(r, a, t, l, m, h, x, y),
           x = m - l + 1 \/ y = h - m
    PROVE  \A p, q \in l .. h : p < q =>
               Before(r, MergedBack(a, t, n, l, m, h, x, y)[p],
                         MergedBack(a, t, n, l, m, h, x, y)[q])
<1> DEFINE d == MergedBack(a, t, n, l, m, h, x, y)
           s == l + x + y
           v(p) == IF p <= m + y THEN p - l - y ELSE p - l
<1>1. /\ 0 <= l /\ l <= m /\ m < h /\ h < n /\ 0 <= x /\ 0 <= y /\ x <= m - l + 1 /\ y <= h - m
  BY DEF Between
<1>2. \A p \in l .. h : p \in 0 .. n - 1 /\ (p < s => p \in l .. l + x + y - 1)
  BY <1>1
<1>3. \A p \in l .. h : d[p] = IF p < s THEN a[p] ELSE t[v(p)]
  <2> SUFFICES ASSUME NEW p \in l .. h PROVE d[p] = IF p < s THEN a[p] ELSE t[v(p)]
    OBVIOUS
  <2>1. /\ p \in 0 .. n - 1 /\ ~(p > h)
    BY <1>2
  <2>2. d[p] = IF p < s \/ p > h THEN a[p] ELSE IF p <= m + y THEN t[p - l - y] ELSE t[p - l]
    BY <2>1 DEF MergedBack
  <2> QED BY <2>1, <2>2
<1>4. ASSUME NEW p \in l .. h, ~(p < s) PROVE v(p) \in 0 .. h - l /\ Waits(v(p), l, m, x, y)
  <2>1. CASE p <= m + y
    <3>1. x <= p - l - y /\ p - l - y <= m - l /\ p - l - y \in 0 .. h - l
      BY <1>1, <1>4, <2>1
    <3> QED BY <2>1, <3>1 DEF Waits
  <2>2. CASE ~(p <= m + y)
    <3>1. m - l + 1 + y <= p - l /\ p - l \in 0 .. h - l
      BY <1>1, <1>4, <2>2
    <3> QED BY <2>2, <3>1 DEF Waits
  <2> QED BY <2>1, <2>2
<1>5. ASSUME NEW p \in l .. h, NEW q \in l .. h, p < q, ~(p < s), ~(q < s)
      PROVE  /\ v(p) < v(q)
             /\ \/ v(p) \in 0 .. m - l /\ v(q) \in 0 .. m - l
                \/ v(p) \in m - l + 1 .. h - l /\ v(q) \in m - l + 1 .. h - l
  <2>1. CASE x = m - l + 1
    <3>1. ~(p <= m + y) /\ ~(q <= m + y)
      BY <1>1, <1>5, <2>1
    <3>2. p - l \in m - l + 1 .. h - l /\ q - l \in m - l + 1 .. h - l /\ p - l < q - l
      BY <1>1, <1>5, <3>1
    <3> QED BY <3>1, <3>2
  <2>2. CASE y = h - m
    <3>1. p <= m + y /\ q <= m + y
      BY <1>1, <1>5, <2>2
    <3>2. p - l - y \in 0 .. m - l /\ q - l - y \in 0 .. m - l /\ p - l - y < q - l - y
      BY <1>1, <1>5, <3>1
    <3> QED BY <3>1, <3>2
  <2> QED BY <2>1, <2>2
<1>6. ASSUME NEW p \in l .. h, NEW q \in l .. h, p < q PROVE Before(r, d[p], d[q])
  <2>1. CASE q < s
    <3>1. p < s
      BY <1>1, <1>6, <2>1
    <3>2. p \in l .. l + x + y - 1 /\ q \in l .. l + x + y - 1 /\ d[p] = a[p] /\ d[q] = a[q]
      BY <1>2, <1>3, <2>1, <3>1
    <3> QED BY <1>6, <3>2 DEF Placed
  <2>2. CASE p < s /\ ~(q < s)
    <3>1. p \in l .. l + x + y - 1 /\ d[p] = a[p] /\ d[q] = t[v(q)]
      BY <1>2, <1>3, <2>2
    <3>2. v(q) \in 0 .. h - l /\ Waits(v(q), l, m, x, y)
      BY <1>4, <2>2
    <3> HIDE DEF v
    <3> QED BY <3>1, <3>2 DEF Placed
  <2>3. CASE ~(p < s) /\ ~(q < s)
    <3>1. d[p] = t[v(p)] /\ d[q] = t[v(q)]
      BY <1>3, <2>3
    <3>2. /\ v(p) < v(q)
          /\ \/ v(p) \in 0 .. m - l /\ v(q) \in 0 .. m - l
             \/ v(p) \in m - l + 1 .. h - l /\ v(q) \in m - l + 1 .. h - l
      BY <1>5, <1>6, <2>3
    <3> HIDE DEF v
    <3> QED BY <3>1, <3>2 DEF Halved
  <2> QED BY <2>1, <2>2, <2>3
<1> QED BY <1>6 DEF d

---------------------------------------------------------------------------
(* merge_sort: the stack is as it should be for the array with everything  *)
(* put back in it, whose elements are those of the beginning; and a merge  *)
(* has placed, so far, a sorted part that all it has left comes after.     *)
Back == IF merging
        THEN MergedBack(arr, tmp, len, todo[1].l, todo[1].m, todo[1].r, i, j)
        ELSE arr

MergeInv ==
    /\ len \in 0 .. MaxLen /\ rank \in [0 .. len - 1 -> Rank]
    /\ fault \in {"none", "no_memory", "wraps"} /\ merging \in BOOLEAN
    /\ arr \in [0 .. len - 1 -> 0 .. len - 1] /\ todo \in Seq(Tasks)
    /\ Permutes(Back, len)
    /\ Spans(todo, len) /\ Nested(todo) /\ Low(todo, len) /\ Ready(rank, Back, todo, merging)
    /\ fault = "none" => Due(rank, Back, todo, Len(todo) + 1, 0, len - 1)
    /\ merging =>
          /\ todo # <<>> /\ todo[1].what = "join" /\ k = todo[1].l + i + j
          /\ Between(len, todo[1].l, todo[1].m, todo[1].r, i, j)
          /\ Halved(rank, tmp, len, todo[1].l, todo[1].m, todo[1].r)
          /\ Placed(rank, arr, tmp, todo[1].l, todo[1].m, todo[1].r, i, j)

(* The first state of merge_sort.                                          *)
LEMMA MergeInit ==
    ASSUME Halving!Init
    PROVE  MergeInv
<1>1. /\ rank \in Arrays /\ len \in 0 .. MaxLen /\ DOMAIN rank = 0 .. len - 1
      /\ arr = Unsorted(len) /\ merging = FALSE
      /\ \/ fault = "no_memory" /\ todo = <<>>
         \/ len = 0 /\ fault = "wraps" /\ todo = <<>>
         \/ len > 0 /\ fault = "none"
            /\ todo = <<[what |-> "sort", l |-> 0, m |-> 0, r |-> len - 1]>>
  BY DEF Halving!Init, Halving!Arrays, Arrays, Halving!Unsorted, Unsorted, Halving!Sort
<1>2. len \in Nat /\ rank \in [0 .. len - 1 -> Rank]
  BY <1>1, ArraysOfLength
<1>3. Permutes(arr, len) /\ \A p \in 0 .. len - 1 : arr[p] = p
  BY <1>1, <1>2, UnsortedPermutes
<1>4. Back = arr /\ arr \in [0 .. len - 1 -> 0 .. len - 1]
  BY <1>1, <1>3 DEF Back, Permutes
<1>5. CASE todo = <<>>
  <2>1. todo \in Seq(Tasks) /\ Len(todo) = 0 /\ fault # "none"
        /\ fault \in {"none", "no_memory", "wraps"}
    BY <1>1, <1>5
  <2>2. Spans(todo, len) /\ Nested(todo) /\ Low(todo, len) /\ Ready(rank, arr, todo, merging)
    BY <2>1 DEF Spans, Nested, Low, Ready
  <2> QED BY <1>1, <1>2, <1>3, <1>4, <2>1, <2>2 DEF MergeInv
<1>6. CASE todo # <<>>
  <2> DEFINE e == [what |-> "sort", l |-> 0, m |-> 0, r |-> len - 1]
  <2>1. /\ len > 0 /\ fault = "none" /\ todo = <<e>> /\ e \in Tasks
        /\ e.what = "sort" /\ e.l = 0 /\ e.r = len - 1
    BY <1>1, <1>2, <1>6 DEF Tasks
  <2> HIDE DEF e
  <2>2. todo \in Seq(Tasks) /\ Len(todo) = 1 /\ todo[1] = e
    BY <2>1
  <2>3. \A c \in 1 .. Len(todo) : c = 1 /\ \A d \in 1 .. c - 1 : FALSE
    BY <2>2
  <2>4. Spans(todo, len)
    BY <1>2, <2>1, <2>2, <2>3 DEF Spans
  <2>5. Nested(todo)
    BY <2>3 DEF Nested
  <2>6. Low(todo, len)
    <3>1. 1 - 1 + 1 <= 2 * len /\ 1 - 1 + 1 <= 2 * len - 2 * (len - 1 - 0 + 1) + 1
      BY <1>2, <2>1
    <3> QED BY <2>1, <2>2, <2>3, <3>1 DEF Low
  <2>7. Ready(rank, arr, todo, merging)
    BY <1>3, <2>1, <2>2, <2>3 DEF Ready
  <2>8. Due(rank, arr, todo, Len(todo) + 1, 0, len - 1)
    <3>1. 1 \in 1 .. (Len(todo) + 1) - 1 /\ todo[1].l = 0 /\ todo[1].r = len - 1
      BY <2>1, <2>2
    <3>2. \E d \in 1 .. (Len(todo) + 1) - 1 : todo[d].l = 0 /\ todo[d].r = len - 1
      BY <3>1
    <3> QED BY <3>2 DEF Due
  <2> QED BY <1>1, <1>2, <1>3, <1>4, <2>1, <2>2, <2>4, <2>5, <2>6, <2>7, <2>8 DEF MergeInv
<1> QED BY <1>5, <1>6

(* The first entry of the stack.                                           *)
LEMMA FirstTask ==
    ASSUME MergeInv, todo # <<>>
    PROVE  /\ Head(todo) = todo[1] /\ 1 \in 1 .. Len(todo) /\ len \in Nat
           /\ todo[1].what \in {"sort", "join"} /\ todo[1].l \in Int
           /\ todo[1].m \in Int /\ todo[1].r \in Int
           /\ 0 <= todo[1].l /\ todo[1].l <= todo[1].r /\ todo[1].r < len
           /\ todo[1].what = "join" => todo[1].l <= todo[1].m /\ todo[1].m < todo[1].r
<1>1. /\ todo \in Seq(Tasks) /\ len \in Nat /\ Spans(todo, len)
  BY ArrayAssumption DEF MergeInv
<1>2. Head(todo) = todo[1] /\ 1 \in 1 .. Len(todo)
  <2>1. Len(todo) \in Nat \ {0}
    BY <1>1, EmptySeq
  <2> QED BY <2>1
<1>3. /\ todo[1].what \in {"sort", "join"} /\ todo[1].l \in Int
      /\ todo[1].m \in Int /\ todo[1].r \in Int
  BY <1>1, <1>2, TaskTypes
<1> QED BY <1>1, <1>2, <1>3 DEF Spans

(* A step takes an entry off, or splits it, and merges nothing after it.   *)
LEMMA TaskTaken ==
    ASSUME MergeInv, rank' = rank, len' = len, fault' = fault, arr' = Back, merging' = FALSE,
           todo' \in Seq(Tasks), Spans(todo', len), Nested(todo'), Low(todo', len),
           Ready(rank, Back, todo', FALSE),
           Due(rank, Back, todo, Len(todo) + 1, 0, len - 1)
               => Due(rank, Back, todo', Len(todo') + 1, 0, len - 1)
    PROVE  MergeInv'
<1>1. /\ len \in 0 .. MaxLen /\ rank \in [0 .. len - 1 -> Rank] /\ Permutes(Back, len)
      /\ fault \in {"none", "no_memory", "wraps"}
      /\ fault = "none" => Due(rank, Back, todo, Len(todo) + 1, 0, len - 1)
  BY DEF MergeInv
<1>2. Back \in [0 .. len - 1 -> 0 .. len - 1]
  BY <1>1 DEF Permutes
<1>3. Back' = Back
  BY DEF Back
<1> HIDE DEF Back
<1>4. len' \in 0 .. MaxLen /\ rank' \in [0 .. len' - 1 -> Rank]
      /\ fault' \in {"none", "no_memory", "wraps"} /\ merging' \in BOOLEAN
      /\ arr' \in [0 .. len' - 1 -> 0 .. len' - 1] /\ todo' \in Seq(Tasks)
  BY <1>1, <1>2
<1>5. Permutes(Back', len')
  BY <1>1, <1>3
<1>6. Spans(todo', len') /\ Nested(todo') /\ Low(todo', len')
  OBVIOUS
<1>7. Ready(rank', Back', todo', merging')
  BY <1>3
<1>8. fault' = "none" => Due(rank', Back', todo', Len(todo') + 1, 0, len' - 1)
  BY <1>1, <1>3
<1>9. Permutes(Back, len)' /\ Spans(todo, len)' /\ Nested(todo)' /\ Low(todo, len)'
      /\ Ready(rank, Back, todo, merging)'
      /\ (fault = "none" => Due(rank, Back, todo, Len(todo) + 1, 0, len - 1))'
  BY <1>5, <1>6, <1>7, <1>8
<1> QED BY <1>4, <1>9 DEF MergeInv

(* A merge goes on, or begins: the entry stays, and the array with the     *)
(* rest of tmp back in it has its elements.                                *)
LEMMA MergeGoesOn ==
    ASSUME MergeInv, rank' = rank, len' = len, fault' = fault, todo' = todo, merging' = TRUE,
           arr' \in [0 .. len - 1 -> 0 .. len - 1],
           todo # <<>>, todo[1].what = "join", k' = todo[1].l + i' + j',
           Between(len, todo[1].l, todo[1].m, todo[1].r, i', j'),
           Halved(rank, tmp', len, todo[1].l, todo[1].m, todo[1].r),
           Placed(rank, arr', tmp', todo[1].l, todo[1].m, todo[1].r, i', j'),
           Permutes(Back', len), Ready(rank, Back', todo, TRUE),
           Due(rank, Back, todo, Len(todo) + 1, 0, len - 1)
               => Due(rank, Back', todo, Len(todo) + 1, 0, len - 1)
    PROVE  MergeInv'
<1>1. /\ len \in 0 .. MaxLen /\ rank \in [0 .. len - 1 -> Rank]
      /\ fault \in {"none", "no_memory", "wraps"} /\ todo \in Seq(Tasks)
      /\ Spans(todo, len) /\ Nested(todo) /\ Low(todo, len)
      /\ fault = "none" => Due(rank, Back, todo, Len(todo) + 1, 0, len - 1)
  BY DEF MergeInv
<1> HIDE DEF Back
<1>2. /\ len' \in 0 .. MaxLen /\ rank' \in [0 .. len' - 1 -> Rank]
      /\ fault' \in {"none", "no_memory", "wraps"} /\ merging' \in BOOLEAN
      /\ arr' \in [0 .. len' - 1 -> 0 .. len' - 1] /\ todo' \in Seq(Tasks)
  BY <1>1
<1>3. /\ Permutes(Back, len)' /\ Spans(todo, len)' /\ Nested(todo)' /\ Low(todo, len)'
      /\ Ready(rank, Back, todo, merging)'
      /\ (fault = "none" => Due(rank, Back, todo, Len(todo) + 1, 0, len - 1))'
  BY <1>1
<1>4. /\ (todo # <<>>)' /\ (todo[1].what = "join")' /\ (k = todo[1].l + i + j)'
      /\ Between(len, todo[1].l, todo[1].m, todo[1].r, i, j)'
      /\ Halved(rank, tmp, len, todo[1].l, todo[1].m, todo[1].r)'
      /\ Placed(rank, arr, tmp, todo[1].l, todo[1].m, todo[1].r, i, j)'
  OBVIOUS
<1> QED BY <1>2, <1>3, <1>4 DEF MergeInv

(* The steps between merges.                                               *)
LEMMA SplitKeeps ==
    ASSUME MergeInv, Halving!Split
    PROVE  MergeInv'
<1>1. /\ todo # <<>> /\ Head(todo).what = "sort" /\ Head(todo).l < Head(todo).r
      /\ rank' = rank /\ len' = len /\ fault' = fault /\ arr' = arr /\ merging' = merging
  BY DEF Halving!Split, Halving!input, Halving!cursor, Halving!Now
<1>2. /\ Head(todo) = todo[1] /\ len \in Nat /\ todo[1].l \in Int /\ todo[1].r \in Int
  BY <1>1, FirstTask
<1> DEFINE l0 == todo[1].l
           r0 == todo[1].r
           h == l0 + (r0 - l0) \div 2
           e == [what |-> "sort", l |-> l0, m |-> 0, r |-> h]
           f == [what |-> "sort", l |-> h + 1, m |-> 0, r |-> r0]
           g == [what |-> "join", l |-> l0, m |-> h, r |-> r0]
           ds == <<e, f, g>> \o Tail(todo)
<1>3. todo' = ds
  <2>1. todo' = LET m == Halving!Half(Head(todo).l, Head(todo).r)
                IN  <<Halving!Sort(Head(todo).l, m), Halving!Sort(m + 1, Head(todo).r),
                      Halving!Join(Head(todo).l, m, Head(todo).r)>> \o Tail(todo)
    BY DEF Halving!Split, Halving!Now
  <2> QED BY <1>2, <2>1 DEF Halving!Half, Halving!Sort, Halving!Join
<1>4. h \in Int /\ l0 <= h /\ h < r0 /\ l0 \in Int /\ r0 \in Int
  <2>1. l0 < r0
    BY <1>1, <1>2
  <2> HIDE DEF l0, r0
  <2> QED BY <1>2, <2>1 DEF l0, r0
<1>5. e \in Tasks /\ f \in Tasks /\ g \in Tasks
  <2> HIDE DEF h, l0, r0
  <2> QED BY <1>4 DEF Tasks
<1>6. /\ todo \in Seq(Tasks) /\ Spans(todo, len) /\ Nested(todo) /\ Low(todo, len)
      /\ Ready(rank, Back, todo, merging)
  BY DEF MergeInv
<1>7. merging' = FALSE /\ arr' = Back
  <2>1. merging \in BOOLEAN /\ (merging => todo[1].what = "join")
    BY DEF MergeInv
  <2>2. todo[1].what = "sort"
    BY <1>1, <1>2
  <2>3. merging = FALSE
    BY <2>1, <2>2
  <2> QED BY <1>1, <2>3 DEF Back
<1> HIDE DEF e, f, g
<1>8. /\ ds \in Seq(Tasks) /\ Len(ds) = Len(todo) + 2 /\ ds[1] = e /\ ds[2] = f /\ ds[3] = g
      /\ \A c \in 4 .. Len(todo) + 2 : ds[c] = todo[c - 2]
  <2>1. ds \in Seq(Tasks)
    BY <1>1, <1>5, <1>6, ThreeOntoTail
  <2>2. Len(ds) = Len(todo) + 2
    BY <1>1, <1>5, <1>6, ThreeOntoTail
  <2>3. ds[1] = e /\ ds[2] = f /\ ds[3] = g
    BY <1>1, <1>5, <1>6, ThreeOntoTail
  <2>4. \A c \in 4 .. Len(todo) + 2 : ds[c] = todo[c - 2]
    BY <1>1, <1>5, <1>6, ThreeOntoTail
  <2> QED BY <2>1, <2>2, <2>3, <2>4
<1> HIDE DEF ds, h
<1>9. /\ Spans(ds, len) /\ Nested(ds) /\ Low(ds, len) /\ Ready(rank, Back, ds, FALSE)
      /\ Due(rank, Back, todo, Len(todo) + 1, 0, len - 1)
            => Due(rank, Back, ds, Len(ds) + 1, 0, len - 1)
  <2>1. /\ ds[1] = [what |-> "sort", l |-> todo[1].l, m |-> 0, r |-> h]
        /\ ds[2] = [what |-> "sort", l |-> h + 1, m |-> 0, r |-> todo[1].r]
        /\ ds[3] = [what |-> "join", l |-> todo[1].l, m |-> h, r |-> todo[1].r]
        /\ todo[1].l <= h /\ h < todo[1].r /\ todo[1].what = "sort"
    BY <1>1, <1>2, <1>4, <1>8 DEF e, f, g
  <2>2. h \in Int /\ len \in Nat
    BY <1>2, <1>4
  <2> HIDE DEF Back
  <2> QED BY <1>1, <1>6, <1>8, <2>1, <2>2, TaskSplit
<1> QED BY <1>1, <1>3, <1>7, <1>8, <1>9, TaskTaken

(* The first entry's places are sorted, as a step puts the array.          *)
LEMMA DoneKeeps ==
    ASSUME MergeInv, todo # <<>>, rank' = rank, len' = len, fault' = fault, arr' = Back,
           merging' = FALSE, todo' = Tail(todo),
           \A p, q \in todo[1].l .. todo[1].r : p < q => Before(rank, Back[p], Back[q])
    PROVE  MergeInv'
<1>1. /\ todo \in Seq(Tasks) /\ Spans(todo, len) /\ Nested(todo) /\ Low(todo, len)
      /\ Ready(rank, Back, todo, merging)
  BY DEF MergeInv
<1>2. len \in Nat
  BY FirstTask
<1> DEFINE ds == Tail(todo)
<1>3. /\ ds \in Seq(Tasks) /\ Spans(ds, len) /\ Nested(ds)
      /\ Low(ds, len) /\ Ready(rank, Back, ds, FALSE)
      /\ Due(rank, Back, todo, Len(todo) + 1, 0, len - 1)
            => Due(rank, Back, ds, Len(ds) + 1, 0, len - 1)
  <2> HIDE DEF Back
  <2> QED BY <1>1, <1>2, TaskDone
<1> HIDE DEF ds
<1>4. todo' = ds
  BY DEF ds
<1> QED BY <1>3, <1>4, TaskTaken

(* A range of at most one element is sorted.                               *)
LEMMA SingleKeeps ==
    ASSUME MergeInv, Halving!Single
    PROVE  MergeInv'
<1>1. /\ todo # <<>> /\ Head(todo).what = "sort" /\ Head(todo).l >= Head(todo).r
      /\ rank' = rank /\ len' = len /\ fault' = fault /\ arr' = arr /\ merging' = merging
      /\ todo' = Tail(todo)
  BY DEF Halving!Single, Halving!input, Halving!cursor, Halving!Now
<1>2. /\ Head(todo) = todo[1] /\ todo[1].l \in Int /\ todo[1].r \in Int
      /\ todo[1].l <= todo[1].r
  BY <1>1, FirstTask
<1>3. merging' = FALSE /\ arr' = Back
  <2>1. merging \in BOOLEAN /\ (merging => todo[1].what = "join")
    BY DEF MergeInv
  <2>2. todo[1].what = "sort"
    BY <1>1, <1>2
  <2>3. merging = FALSE
    BY <2>1, <2>2
  <2> QED BY <1>1, <2>3 DEF Back
<1>4. \A p, q \in todo[1].l .. todo[1].r : ~(p < q)
  BY <1>1, <1>2
<1> QED BY <1>1, <1>3, <1>4, DoneKeeps

(* A join that has not begun finds two sorted halves, of older elements    *)
(* and of younger ones.                                                    *)
LEMMA HalvesReady ==
    ASSUME MergeInv, todo # <<>>, todo[1].what = "join", ~merging
    PROVE  /\ Back = arr /\ merging = FALSE
           /\ \A p \in todo[1].l .. todo[1].m : arr[p] \in todo[1].l .. todo[1].m
           /\ \A p \in todo[1].m + 1 .. todo[1].r : arr[p] \in todo[1].m + 1 .. todo[1].r
           /\ \A p, q \in todo[1].l .. todo[1].m : p < q => Before(rank, arr[p], arr[q])
           /\ \A p, q \in todo[1].m + 1 .. todo[1].r : p < q => Before(rank, arr[p], arr[q])
           /\ \A p \in 0 .. len - 1 : arr[p] \in Int /\ rank[arr[p]] \in Int
<1>1. 1 \in 1 .. Len(todo) /\ len \in Nat
  BY FirstTask
<1>2. Back = arr /\ merging = FALSE
  BY DEF Back, MergeInv
<1>3. /\ rank \in [0 .. len - 1 -> Rank] /\ Permutes(arr, len)
      /\ Ready(rank, arr, todo, FALSE)
  BY <1>2 DEF MergeInv
<1>4. /\ \A p \in todo[1].l .. todo[1].m : arr[p] \in todo[1].l .. todo[1].m
      /\ \A p \in todo[1].m + 1 .. todo[1].r : arr[p] \in todo[1].m + 1 .. todo[1].r
      /\ Due(rank, arr, todo, 1, todo[1].l, todo[1].m)
      /\ Due(rank, arr, todo, 1, todo[1].m + 1, todo[1].r)
  BY <1>1, <1>3 DEF Ready
<1>5. \A d \in 1 .. 1 - 1 : FALSE
  OBVIOUS
<1>6. /\ \A p, q \in todo[1].l .. todo[1].m : p < q => Before(rank, arr[p], arr[q])
      /\ \A p, q \in todo[1].m + 1 .. todo[1].r : p < q => Before(rank, arr[p], arr[q])
  BY <1>4, <1>5 DEF Due
<1>7. \A p \in 0 .. len - 1 : arr[p] \in 0 .. len - 1 /\ rank[arr[p]] \in Int
  BY <1>1, <1>3, RankIsInt
<1>8. \A p \in 0 .. len - 1 : arr[p] \in Int
  BY <1>7
<1> QED BY <1>2, <1>4, <1>6, <1>7, <1>8

(* Halves that adjoin are joined as they are.                              *)
LEMMA AdjoinKeeps ==
    ASSUME MergeInv, Halving!Adjoin
    PROVE  MergeInv'
<1>1. /\ todo # <<>> /\ Head(todo).what = "join" /\ ~merging
      /\ rank[arr[Head(todo).m]] <= rank[arr[Head(todo).m + 1]]
      /\ rank' = rank /\ len' = len /\ fault' = fault /\ arr' = arr /\ merging' = merging
      /\ todo' = Tail(todo)
  BY DEF Halving!Adjoin, Halving!input, Halving!cursor, Halving!Now
<1>2. /\ Head(todo) = todo[1] /\ len \in Nat
      /\ todo[1].l \in Int /\ todo[1].m \in Int /\ todo[1].r \in Int
      /\ 0 <= todo[1].l /\ todo[1].l <= todo[1].m /\ todo[1].m < todo[1].r /\ todo[1].r < len
  BY <1>1, FirstTask
<1>3. /\ Back = arr /\ merging = FALSE
      /\ \A p \in todo[1].l .. todo[1].m : arr[p] \in todo[1].l .. todo[1].m
      /\ \A p \in todo[1].m + 1 .. todo[1].r : arr[p] \in todo[1].m + 1 .. todo[1].r
      /\ \A p, q \in todo[1].l .. todo[1].m : p < q => Before(rank, arr[p], arr[q])
      /\ \A p, q \in todo[1].m + 1 .. todo[1].r : p < q => Before(rank, arr[p], arr[q])
      /\ \A p \in 0 .. len - 1 : arr[p] \in Int /\ rank[arr[p]] \in Int
  BY <1>1, <1>2, HalvesReady
<1>4. \A p, q \in todo[1].l .. todo[1].r : p < q => Before(rank, arr[p], arr[q])
  <2>1. rank[arr[todo[1].m]] <= rank[arr[todo[1].m + 1]]
    BY <1>1, <1>2
  <2> QED BY <1>2, <1>3, <2>1, HalvesAdjoin
<1> QED BY <1>1, <1>3, <1>4, DoneKeeps

(* A merge begins with everything in tmp.                                  *)
LEMMA BeginMergeKeeps ==
    ASSUME MergeInv, Halving!BeginMerge
    PROVE  MergeInv'
<1>1. /\ todo # <<>> /\ Head(todo).what = "join" /\ ~merging
      /\ i' = 0 /\ j' = 0 /\ k' = Head(todo).l /\ merging' = TRUE
      /\ rank' = rank /\ len' = len /\ fault' = fault /\ arr' = arr /\ todo' = todo
      /\ tmp' = [p \in 0 .. (Head(todo).m - Head(todo).l + 1)
                             + (Head(todo).r - Head(todo).m) - 1 |-> arr[Head(todo).l + p]]
  BY DEF Halving!BeginMerge, Halving!input, Halving!Now, Halving!N1, Halving!N2
<1>2. /\ Head(todo) = todo[1] /\ len \in Nat
      /\ todo[1].l \in Int /\ todo[1].m \in Int /\ todo[1].r \in Int
      /\ 0 <= todo[1].l /\ todo[1].l <= todo[1].m /\ todo[1].m < todo[1].r /\ todo[1].r < len
  BY <1>1, FirstTask
<1>3. /\ Back = arr /\ merging = FALSE
      /\ \A p \in todo[1].l .. todo[1].m : arr[p] \in todo[1].l .. todo[1].m
      /\ \A p \in todo[1].m + 1 .. todo[1].r : arr[p] \in todo[1].m + 1 .. todo[1].r
      /\ \A p, q \in todo[1].l .. todo[1].m : p < q => Before(rank, arr[p], arr[q])
      /\ \A p, q \in todo[1].m + 1 .. todo[1].r : p < q => Before(rank, arr[p], arr[q])
  BY <1>1, <1>2, HalvesReady
<1>4. arr \in [0 .. len - 1 -> 0 .. len - 1] /\ Permutes(Back, len)
      /\ Ready(rank, Back, todo, merging)
  BY DEF MergeInv
<1> DEFINE l0 == todo[1].l
           m0 == todo[1].m
           h0 == todo[1].r
           t == [p \in 0 .. (m0 - l0 + 1) + (h0 - m0) - 1 |-> arr[l0 + p]]
<1>5. tmp' = t
  BY <1>1, <1>2
<1>6. /\ Between(len, l0, m0, h0, 0, 0) /\ Halved(rank, t, len, l0, m0, h0)
      /\ Placed(rank, arr, t, l0, m0, h0, 0, 0)
      /\ MergedBack(arr, t, len, l0, m0, h0, 0, 0) = arr
  <2>1. /\ l0 \in Int /\ m0 \in Int /\ h0 \in Int /\ len \in Nat
        /\ 0 <= l0 /\ l0 <= m0 /\ m0 < h0 /\ h0 < len
        /\ arr \in [0 .. len - 1 -> 0 .. len - 1]
    BY <1>2, <1>4
  <2>2. /\ \A p \in l0 .. m0 : arr[p] \in l0 .. m0
        /\ \A p \in m0 + 1 .. h0 : arr[p] \in m0 + 1 .. h0
        /\ \A p, q \in l0 .. m0 : p < q => Before(rank, arr[p], arr[q])
        /\ \A p, q \in m0 + 1 .. h0 : p < q => Before(rank, arr[p], arr[q])
    BY <1>3
  <2> HIDE DEF l0, m0, h0
  <2>7. (m0 - l0 + 1) + (h0 - m0) - 1 = h0 - l0 /\ \A p \in 0 .. h0 - l0 : l0 + p \in 0 .. len - 1
    BY <2>1
  <2>8. t = [p \in 0 .. h0 - l0 |-> arr[l0 + p]]
    BY <2>7
  <2>9. t \in [0 .. h0 - l0 -> 0 .. len - 1] /\ \A p \in 0 .. h0 - l0 : t[p] = arr[l0 + p]
    BY <2>1, <2>7, <2>8
  <2> HIDE DEF t
  <2>3. Between(len, l0, m0, h0, 0, 0)
    BY <2>1 DEF Between
  <2>4. Halved(rank, t, len, l0, m0, h0)
    BY <2>1, <2>2, <2>9, MergeBegins
  <2>5. Placed(rank, arr, t, l0, m0, h0, 0, 0)
    BY <2>1, <2>2, <2>9, MergeBegins
  <2>6. MergedBack(arr, t, len, l0, m0, h0, 0, 0) = arr
    BY <2>1, <2>9, MergeBeginsBack
  <2> QED BY <2>3, <2>4, <2>5, <2>6
<1> HIDE DEF t
<1>7. Back' = Back
  BY <1>1, <1>3, <1>5, <1>6 DEF Back
<1>8. Ready(rank, Back, todo, TRUE)
  BY <1>3, <1>4 DEF Ready
<1>9. /\ Between(len, todo[1].l, todo[1].m, todo[1].r, i', j')
      /\ Halved(rank, tmp', len, todo[1].l, todo[1].m, todo[1].r)
      /\ Placed(rank, arr', tmp', todo[1].l, todo[1].m, todo[1].r, i', j')
  BY <1>1, <1>5, <1>6
<1>10. todo[1].what = "join" /\ k' = todo[1].l + i' + j'
  BY <1>1, <1>2
<1> HIDE DEF Back
<1> QED BY <1>1, <1>4, <1>7, <1>8, <1>9, <1>10, MergeGoesOn

(* What a merge finds.                                                     *)
LEMMA MergeFacts ==
    ASSUME MergeInv, merging
    PROVE  /\ todo # <<>> /\ Head(todo) = todo[1] /\ len \in Nat
           /\ todo[1].l \in Int /\ todo[1].m \in Int /\ todo[1].r \in Int
           /\ i \in Int /\ j \in Int /\ todo[1].what = "join" /\ k = todo[1].l + i + j
           /\ Between(len, todo[1].l, todo[1].m, todo[1].r, i, j)
           /\ Halved(rank, tmp, len, todo[1].l, todo[1].m, todo[1].r)
           /\ Placed(rank, arr, tmp, todo[1].l, todo[1].m, todo[1].r, i, j)
           /\ Back = MergedBack(arr, tmp, len, todo[1].l, todo[1].m, todo[1].r, i, j)
           /\ Ready(rank, Back, todo, TRUE)
           /\ rank \in [0 .. len - 1 -> Rank] /\ arr \in [0 .. len - 1 -> 0 .. len - 1]
           /\ todo \in Seq(Tasks) /\ Spans(todo, len) /\ Nested(todo) /\ Permutes(Back, len)
<1>1. /\ todo # <<>> /\ todo[1].what = "join" /\ k = todo[1].l + i + j
      /\ Between(len, todo[1].l, todo[1].m, todo[1].r, i, j)
      /\ Halved(rank, tmp, len, todo[1].l, todo[1].m, todo[1].r)
      /\ Placed(rank, arr, tmp, todo[1].l, todo[1].m, todo[1].r, i, j)
      /\ merging = TRUE
  BY DEF MergeInv
<1>2. /\ Head(todo) = todo[1] /\ len \in Nat
      /\ todo[1].l \in Int /\ todo[1].m \in Int /\ todo[1].r \in Int
  BY <1>1, FirstTask
<1>3. i \in Int /\ j \in Int
  BY <1>1 DEF Between
<1>4. /\ Ready(rank, Back, todo, TRUE)
      /\ rank \in [0 .. len - 1 -> Rank] /\ arr \in [0 .. len - 1 -> 0 .. len - 1]
      /\ todo \in Seq(Tasks) /\ Spans(todo, len) /\ Nested(todo) /\ Permutes(Back, len)
  BY <1>1 DEF MergeInv
<1>5. Back = MergedBack(arr, tmp, len, todo[1].l, todo[1].m, todo[1].r, i, j)
  BY DEF Back
<1> HIDE DEF Back
<1> QED BY <1>1, <1>2, <1>3, <1>4, <1>5

(* An element is merged: one of the first half leaves the array with the   *)
(* rest back as it is, one of the second half rotates a part of it.        *)
LEMMA MergeKeepsGoing ==
    ASSUME MergeInv, Halving!Merge
    PROVE  MergeInv'
<1> DEFINE l0 == todo[1].l
           m0 == todo[1].m
           h0 == todo[1].r
           z == m0 - l0 + 1 + j
           s == l0 + i + j
           w == m0 + 1 + j
<1>1. /\ merging /\ i < Head(todo).m - Head(todo).l + 1 /\ j < Head(todo).r - Head(todo).m
      /\ rank' = rank /\ len' = len /\ fault' = fault /\ todo' = todo
      /\ merging' = merging /\ tmp' = tmp /\ k' = k + 1
      /\ IF rank[tmp[i]] <= rank[tmp[Head(todo).m - Head(todo).l + 1 + j]]
         THEN arr' = [arr EXCEPT ![k] = tmp[i]] /\ i' = i + 1 /\ j' = j
         ELSE arr' = [arr EXCEPT ![k] = tmp[Head(todo).m - Head(todo).l + 1 + j]]
              /\ j' = j + 1 /\ i' = i
  BY DEF Halving!Merge, Halving!input, Halving!Now, Halving!N1, Halving!N2,
         Halving!Left, Halving!Right, Halving!TakesLeft
<1>2. /\ todo # <<>> /\ Head(todo) = todo[1] /\ len \in Nat
      /\ l0 \in Int /\ m0 \in Int /\ h0 \in Int /\ i \in Int /\ j \in Int
      /\ todo[1].what = "join" /\ k = s
      /\ Between(len, l0, m0, h0, i, j) /\ Halved(rank, tmp, len, l0, m0, h0)
      /\ Placed(rank, arr, tmp, l0, m0, h0, i, j)
      /\ Back = MergedBack(arr, tmp, len, l0, m0, h0, i, j)
      /\ Ready(rank, Back, todo, TRUE)
      /\ rank \in [0 .. len - 1 -> Rank] /\ arr \in [0 .. len - 1 -> 0 .. len - 1]
      /\ todo \in Seq(Tasks) /\ Spans(todo, len) /\ Nested(todo) /\ Permutes(Back, len)
  BY <1>1, MergeFacts
<1>3. i <= m0 - l0 /\ j < h0 - m0 /\ merging' = TRUE
  <2>1. i < m0 - l0 + 1 /\ j < h0 - m0 /\ merging' = TRUE
    BY <1>1, <1>2 DEF MergeInv
  <2>2. l0 \in Int /\ m0 \in Int /\ h0 \in Int /\ i \in Int /\ j \in Int
    BY <1>2
  <2> HIDE DEF l0, m0, h0
  <2>3. i <= m0 - l0
    BY <2>1, <2>2
  <2> QED BY <2>1, <2>3
<1>4. Back' = MergedBack(arr', tmp, len, l0, m0, h0, i', j')
  BY <1>1, <1>3 DEF Back
<1>5. \A q \in 0 .. h0 - l0 : rank[tmp[q]] \in Int
  <2> HIDE DEF l0, m0, h0
  <2> QED BY <1>2, ElementsOfTmp
<1>6. i \in 0 .. h0 - l0 /\ z \in 0 .. h0 - l0
  <2>1. /\ 0 <= l0 /\ l0 <= m0 /\ m0 < h0 /\ 0 <= i /\ 0 <= j
    BY <1>2 DEF Between
  <2>2. l0 \in Int /\ m0 \in Int /\ h0 \in Int /\ i \in Int /\ j \in Int
    BY <1>2
  <2> HIDE DEF l0, m0, h0
  <2>3. i \in 0 .. h0 - l0
    BY <1>3, <2>1, <2>2
  <2>4. z \in 0 .. h0 - l0
    BY <1>3, <2>1, <2>2
  <2> QED BY <2>3, <2>4
<1>7. CASE rank[tmp[i]] <= rank[tmp[z]]
  <2> DEFINE b == [arr EXCEPT ![s] = tmp[i]]
  <2>1. arr' = b /\ i' = i + 1 /\ j' = j
    BY <1>1, <1>2, <1>7
  <2>2. /\ b \in [0 .. len - 1 -> 0 .. len - 1] /\ Between(len, l0, m0, h0, i + 1, j)
        /\ Placed(rank, b, tmp, l0, m0, h0, i + 1, j)
        /\ MergedBack(b, tmp, len, l0, m0, h0, i + 1, j)
              = MergedBack(arr, tmp, len, l0, m0, h0, i, j)
    <3> HIDE DEF l0, m0, h0
    <3>1. b \in [0 .. len - 1 -> 0 .. len - 1]
      BY <1>2, <1>3, <1>7, MergeLeft
    <3>2. Between(len, l0, m0, h0, i + 1, j)
      BY <1>2, <1>3, <1>7, MergeLeft
    <3>3. Placed(rank, b, tmp, l0, m0, h0, i + 1, j)
      BY <1>2, <1>3, <1>7, MergeLeft
    <3>4. MergedBack(b, tmp, len, l0, m0, h0, i + 1, j)
             = MergedBack(arr, tmp, len, l0, m0, h0, i, j)
      <4>1. \A p \in 0 .. len - 1 : b[p] = IF p = l0 + i + j THEN tmp[i] ELSE arr[p]
        BY <1>2
      <4> HIDE DEF b
      <4>2. Rotated(MergedBack(b, tmp, len, l0, m0, h0, i + 1, j),
                    MergedBack(arr, tmp, len, l0, m0, h0, i, j), len, s, s)
        BY <1>2, <1>3, <4>1, MergeLeftBack
      <4>3. s \in Int
        BY <1>2
      <4> HIDE DEF s
      <4>4. \A p \in 0 .. len - 1 : MergedBack(b, tmp, len, l0, m0, h0, i + 1, j)[p]
                                     = MergedBack(arr, tmp, len, l0, m0, h0, i, j)[p]
        BY <4>2, <4>3 DEF Rotated
      <4> QED BY <4>4 DEF MergedBack
    <3> QED BY <3>1, <3>2, <3>3, <3>4
  <2> HIDE DEF b
  <2>3. Back' = Back
    BY <1>2, <1>4, <2>1, <2>2
  <2>4. /\ arr' \in [0 .. len - 1 -> 0 .. len - 1] /\ Between(len, l0, m0, h0, i', j')
        /\ Halved(rank, tmp', len, l0, m0, h0) /\ Placed(rank, arr', tmp', l0, m0, h0, i', j')
    BY <1>1, <1>2, <2>1, <2>2
  <2>5. k' = l0 + i' + j'
    <3>1. k' = l0 + i + j + 1 /\ l0 \in Int /\ i \in Int /\ j \in Int
      BY <1>1, <1>2
    <3> HIDE DEF l0
    <3> QED BY <2>1, <3>1
  <2> HIDE DEF Back
  <2> QED BY <1>1, <1>2, <1>3, <2>3, <2>4, <2>5, MergeGoesOn
<1>8. CASE ~(rank[tmp[i]] <= rank[tmp[z]])
  <2> DEFINE b == [arr EXCEPT ![s] = tmp[z]]
  <2>1. arr' = b /\ i' = i /\ j' = j + 1
    BY <1>1, <1>2, <1>8
  <2>2. rank[tmp[i]] > rank[tmp[z]]
    BY <1>5, <1>6, <1>8
  <2>3. /\ b \in [0 .. len - 1 -> 0 .. len - 1] /\ Between(len, l0, m0, h0, i, j + 1)
        /\ Placed(rank, b, tmp, l0, m0, h0, i, j + 1)
        /\ Rotated(MergedBack(b, tmp, len, l0, m0, h0, i, j + 1),
                   MergedBack(arr, tmp, len, l0, m0, h0, i, j), len, s, w)
    <3> HIDE DEF l0, m0, h0
    <3>1. b \in [0 .. len - 1 -> 0 .. len - 1]
      BY <1>2, <1>3, <2>2, MergeRight
    <3>2. Between(len, l0, m0, h0, i, j + 1)
      BY <1>2, <1>3, <2>2, MergeRight
    <3>3. Placed(rank, b, tmp, l0, m0, h0, i, j + 1)
      BY <1>2, <1>3, <2>2, MergeRight
    <3>4. Rotated(MergedBack(b, tmp, len, l0, m0, h0, i, j + 1),
                  MergedBack(arr, tmp, len, l0, m0, h0, i, j), len, s, w)
      <4>1. \A p \in 0 .. len - 1 :
               b[p] = IF p = l0 + i + j THEN tmp[m0 - l0 + 1 + j] ELSE arr[p]
        BY <1>2
      <4> HIDE DEF b
      <4> QED BY <1>2, <1>3, <4>1, MergeRightBack
    <3> QED BY <3>1, <3>2, <3>3, <3>4
  <2> HIDE DEF b
  <2>4. s \in 0 .. len - 1 /\ w \in 0 .. len - 1 /\ s <= w /\ l0 <= s /\ w <= h0
    <3>1. /\ 0 <= l0 /\ l0 <= m0 /\ m0 < h0 /\ h0 < len /\ 0 <= i /\ 0 <= j
      BY <1>2 DEF Between
    <3>2. /\ l0 \in Int /\ m0 \in Int /\ h0 \in Int /\ i \in Int /\ j \in Int
          /\ len \in Nat
      BY <1>2
    <3> HIDE DEF l0, m0, h0
    <3>3. s \in 0 .. len - 1 /\ l0 <= s
      BY <1>3, <3>1, <3>2
    <3>4. w \in 0 .. len - 1 /\ s <= w /\ w <= h0
      BY <1>3, <3>1, <3>2
    <3> QED BY <3>3, <3>4
  <2> HIDE DEF s, w
  <2>5. /\ Back' = [p \in 0 .. len - 1 |-> Back'[p]]
        /\ Rotated(Back', Back, len, s, w)
    <3>1. Back' = MergedBack(b, tmp, len, l0, m0, h0, i, j + 1)
      BY <1>4, <2>1
    <3>2. MergedBack(b, tmp, len, l0, m0, h0, i, j + 1)
             = [p \in 0 .. len - 1 |-> MergedBack(b, tmp, len, l0, m0, h0, i, j + 1)[p]]
      BY DEF MergedBack
    <3> HIDE DEF Back
    <3> QED BY <1>2, <2>3, <3>1, <3>2
  <2>6. /\ Permutes(Back', len)
        /\ \A p \in 0 .. len - 1 : ~(s <= p /\ p <= w) => Back'[p] = Back[p]
        /\ \A p \in s .. w : \E q \in s .. w : Back'[p] = Back[q]
    <3> HIDE DEF Back
    <3>4. s \in 0 .. len - 1 /\ w \in 0 .. len - 1 /\ s <= w
      BY <2>4
    <3>5. Rotated(Back', Back, len, s, w)
      BY <2>5
    <3>6. len \in Nat /\ Permutes(Back, len)
      BY <1>2
    <3>7. \A p \in 0 .. len - 1 : Back'[p] \in 0 .. len - 1
      BY <3>4, <3>5, <3>6, Rotation
    <3>8. \A p, q \in 0 .. len - 1 : Back'[p] = Back'[q] => p = q
      BY <3>4, <3>5, <3>6, Rotation
    <3>1. Permutes(Back', len)
      <4>1. Back' \in [0 .. len - 1 -> 0 .. len - 1]
        BY <2>5, <3>7
      <4> QED BY <3>8, <4>1 DEF Permutes
    <3>2. \A p \in 0 .. len - 1 : ~(s <= p /\ p <= w) => Back'[p] = Back[p]
      BY <3>4, <3>5, <3>6, Rotation
    <3>3. \A p \in s .. w : \E q \in s .. w : Back'[p] = Back[q]
      BY <3>4, <3>5, <3>6, Rotation
    <3> QED BY <3>1, <3>2, <3>3
  <2>7. /\ \A p \in 0 .. len - 1 : ~(l0 <= p /\ p <= h0) => Back'[p] = Back[p]
        /\ \A p \in l0 .. h0 : \E q \in l0 .. h0 : Back'[p] = Back[q]
    <3>0. h0 < len /\ 0 <= l0
      BY <1>2 DEF Between
    <3> HIDE DEF Back, l0, h0
    <3>1. \A p \in 0 .. len - 1 : ~(l0 <= p /\ p <= h0) => ~(s <= p /\ p <= w)
      BY <1>2, <2>4
    <3>2. ASSUME NEW p \in l0 .. h0 PROVE \E q \in l0 .. h0 : Back'[p] = Back[q]
      <4>1. p \in 0 .. len - 1
        BY <1>2, <3>0
      <4>2. CASE s <= p /\ p <= w
        <5>1. p \in s .. w /\ \A q \in s .. w : q \in l0 .. h0
          BY <1>2, <2>4, <4>2
        <5> QED BY <2>6, <5>1
      <4>3. CASE ~(s <= p /\ p <= w)
        BY <2>6, <4>1, <4>3
      <4> QED BY <4>2, <4>3
    <3> QED BY <2>6, <3>1, <3>2
  <2>8. /\ Ready(rank, Back', todo, TRUE)
        /\ Due(rank, Back, todo, Len(todo) + 1, 0, len - 1)
              => Due(rank, Back', todo, Len(todo) + 1, 0, len - 1)
    <3> HIDE DEF Back
    <3>1. Ready(rank, Back', todo, TRUE)
      BY <1>2, <2>7, TaskRearranged
    <3>2. Due(rank, Back, todo, Len(todo) + 1, 0, len - 1)
             => Due(rank, Back', todo, Len(todo) + 1, 0, len - 1)
      BY <1>2, <2>7, TaskRearranged
    <3> QED BY <3>1, <3>2
  <2>9. /\ arr' \in [0 .. len - 1 -> 0 .. len - 1] /\ Between(len, l0, m0, h0, i', j')
        /\ Halved(rank, tmp', len, l0, m0, h0) /\ Placed(rank, arr', tmp', l0, m0, h0, i', j')
    BY <1>1, <1>2, <2>1, <2>3
  <2>10. k' = l0 + i' + j'
    <3>1. k' = l0 + i + j + 1 /\ l0 \in Int /\ i \in Int /\ j \in Int
      BY <1>1, <1>2 DEF s
    <3> HIDE DEF l0
    <3> QED BY <2>1, <3>1
  <2> HIDE DEF Back
  <2> QED BY <1>1, <1>2, <1>3, <2>6, <2>8, <2>9, <2>10, MergeGoesOn
<1> QED BY <1>7, <1>8

(* A merge ends: the rest goes back to the array, whose range is sorted.   *)
LEMMA EndMergeKeeps ==
    ASSUME MergeInv, Halving!EndMerge
    PROVE  MergeInv'
<1> DEFINE l0 == Head(todo).l
           m0 == Head(todo).m
           h0 == Head(todo).r
           A(p) == CASE i < m0 - l0 + 1 /\ p \in k .. k + (m0 - l0 + 1) - i - 1 -> tmp[i + p - k]
                     [] j < h0 - m0 /\ p \in k .. k + (h0 - m0) - j - 1
                            -> tmp[(m0 - l0 + 1) + (j + p - k)]
                     [] OTHER -> arr[p]
<1>1. /\ merging /\ (i >= Head(todo).m - Head(todo).l + 1 \/ j >= Head(todo).r - Head(todo).m)
      /\ rank' = rank /\ len' = len /\ fault' = fault /\ todo' = Tail(todo) /\ merging' = FALSE
  BY DEF Halving!EndMerge, Halving!input, Halving!Now, Halving!N1, Halving!N2
<1>2. /\ todo # <<>> /\ Head(todo) = todo[1] /\ len \in Nat
      /\ l0 \in Int /\ m0 \in Int /\ h0 \in Int /\ i \in Int /\ j \in Int
      /\ k = l0 + i + j
      /\ Between(len, l0, m0, h0, i, j) /\ Halved(rank, tmp, len, l0, m0, h0)
      /\ Placed(rank, arr, tmp, l0, m0, h0, i, j)
      /\ Back = MergedBack(arr, tmp, len, l0, m0, h0, i, j)
  BY <1>1, MergeFacts
<1>3. arr' = [p \in 0 .. len - 1 |-> A(p)]
  BY DEF Halving!EndMerge, Halving!Now, Halving!N1, Halving!N2, Halving!Left, Halving!Right
<1>4. /\ 0 <= l0 /\ l0 <= m0 /\ m0 < h0 /\ h0 < len /\ 0 <= i /\ 0 <= j
      /\ i <= m0 - l0 + 1 /\ j <= h0 - m0 /\ (i = m0 - l0 + 1 \/ j = h0 - m0)
  <2>1. i \in 0 .. m0 - l0 + 1 /\ j \in 0 .. h0 - m0
        /\ (i >= m0 - l0 + 1 \/ j >= h0 - m0)
        /\ 0 <= l0 /\ l0 <= m0 /\ m0 < h0 /\ h0 < len
    BY <1>1, <1>2 DEF Between
  <2>2. l0 \in Int /\ m0 \in Int /\ h0 \in Int
    BY <1>2
  <2> HIDE DEF l0, m0, h0
  <2> QED BY <2>1, <2>2
<1>5. l0 \in Int /\ m0 \in Int /\ h0 \in Int /\ i \in Int /\ j \in Int /\ k = l0 + i + j
  BY <1>2
<1>6. ASSUME NEW p \in 0 .. len - 1
      PROVE  A(p) = IF p < l0 + i + j \/ p > h0 THEN arr[p]
                    ELSE IF p <= m0 + j THEN tmp[p - l0 - j] ELSE tmp[p - l0]
  <2> HIDE DEF l0, m0, h0
  <2>1. CASE i < m0 - l0 + 1 /\ p \in k .. k + (m0 - l0 + 1) - i - 1
    <3>1. ~(j < h0 - m0)
      BY <1>4, <1>5, <2>1
    <3>2. A(p) = tmp[i + p - k]
      BY <2>1, <3>1
    <3>3. ~(p < l0 + i + j \/ p > h0) /\ p <= m0 + j
      BY <1>4, <1>5, <2>1
    <3>4. i + p - k = p - l0 - j
      BY <1>5
    <3> QED BY <3>2, <3>3, <3>4
  <2>2. CASE j < h0 - m0 /\ p \in k .. k + (h0 - m0) - j - 1
    <3>1. ~(i < m0 - l0 + 1) /\ i = m0 - l0 + 1
      BY <1>4, <1>5, <2>2
    <3>2. A(p) = tmp[(m0 - l0 + 1) + (j + p - k)]
      BY <2>2, <3>1
    <3>3. ~(p < l0 + i + j \/ p > h0) /\ ~(p <= m0 + j)
      BY <1>4, <1>5, <2>2, <3>1
    <3>4. (m0 - l0 + 1) + (j + p - k) = p - l0
      BY <1>5, <3>1
    <3> QED BY <3>2, <3>3, <3>4
  <2>3. CASE /\ ~(i < m0 - l0 + 1 /\ p \in k .. k + (m0 - l0 + 1) - i - 1)
             /\ ~(j < h0 - m0 /\ p \in k .. k + (h0 - m0) - j - 1)
    <3>1. A(p) = arr[p]
      BY <2>3
    <3>2. p < l0 + i + j \/ p > h0
      <4>1. CASE i = m0 - l0 + 1 /\ j = h0 - m0
        BY <1>4, <1>5, <4>1
      <4>2. CASE i = m0 - l0 + 1 /\ j < h0 - m0
        <5>1. p < k \/ p > k + (h0 - m0) - j - 1
          BY <1>4, <1>5, <2>3, <4>2
        <5> QED BY <1>4, <1>5, <4>2, <5>1
      <4>3. CASE i < m0 - l0 + 1 /\ j = h0 - m0
        <5>1. p < k \/ p > k + (m0 - l0 + 1) - i - 1
          BY <1>4, <1>5, <2>3, <4>3
        <5> QED BY <1>4, <1>5, <4>3, <5>1
      <4> QED BY <1>4, <1>5, <4>1, <4>2, <4>3
    <3> QED BY <3>1, <3>2
  <2> QED BY <2>1, <2>2, <2>3
<1>7. arr' = Back
  <2>1. arr' = MergedBack(arr, tmp, len, l0, m0, h0, i, j)
    <3> HIDE DEF A, l0, m0, h0
    <3> QED BY <1>3, <1>6 DEF MergedBack
  <2> QED BY <1>2, <2>1
<1>8. \A p, q \in l0 .. h0 : p < q => Before(rank, Back[p], Back[q])
  <2>1. \A p, q \in l0 .. h0 : p < q =>
             Before(rank, MergedBack(arr, tmp, len, l0, m0, h0, i, j)[p],
                          MergedBack(arr, tmp, len, l0, m0, h0, i, j)[q])
    <3> HIDE DEF l0, m0, h0
    <3> QED BY <1>2, <1>4, MergeEnds
  <2> QED BY <1>2, <2>1
<1>9. \A p, q \in todo[1].l .. todo[1].r : p < q => Before(rank, Back[p], Back[q])
  BY <1>2, <1>8
<1> QED BY <1>1, <1>2, <1>7, <1>9, DoneKeeps

(* Every step of merge_sort.                                               *)
LEMMA MergeKeeps ==
    ASSUME MergeInv, Halving!Next
    PROVE  MergeInv'
BY SplitKeeps, SingleKeeps, AdjoinKeeps, BeginMergeKeeps, MergeKeepsGoing, EndMergeKeeps
   DEF Halving!Next

(* What the run checks of merge_sort.                                      *)
LEMMA MergeImplies ==
    ASSUME MergeInv
    PROVE  Halving!TypeOK /\ Halving!HalvesSorted /\ Halving!SortsStably
<1>1. /\ len \in Nat /\ len \in 0 .. MaxLen /\ MaxLen \in Nat /\ rank \in [0 .. len - 1 -> Rank]
      /\ fault \in {"none", "no_memory", "wraps"} /\ merging \in BOOLEAN
      /\ todo \in Seq(Tasks) /\ Len(todo) \in Nat /\ Permutes(Back, len) /\ Low(todo, len)
      /\ fault = "none" => Due(rank, Back, todo, Len(todo) + 1, 0, len - 1)
  BY ArrayAssumption, LenProperties DEF MergeInv
<1>2. ASSUME merging
      PROVE  Halving!PutBack = Back
  <2> DEFINE l0 == todo[1].l
             m0 == todo[1].m
             h0 == todo[1].r
  <2>1. /\ Head(todo) = todo[1] /\ l0 \in Int /\ m0 \in Int /\ h0 \in Int
        /\ i \in Int /\ j \in Int /\ k = l0 + i + j
        /\ Back = MergedBack(arr, tmp, len, l0, m0, h0, i, j)
    BY <1>2, MergeFacts
  <2> DEFINE A(p) == IF p < k \/ p > h0 THEN arr[p]
                     ELSE IF p - k < (m0 - l0 + 1) - i THEN tmp[i + p - k]
                     ELSE tmp[(m0 - l0 + 1) + (j + p - k - ((m0 - l0 + 1) - i))]
  <2>2. Halving!PutBack = [p \in 0 .. len - 1 |-> A(p)]
    BY <1>2, <2>1 DEF Halving!PutBack, Halving!Now, Halving!N1, Halving!Left, Halving!Right
  <2>3. ASSUME NEW p \in 0 .. len - 1
        PROVE  A(p) = IF p < l0 + i + j \/ p > h0 THEN arr[p]
                      ELSE IF p <= m0 + j THEN tmp[p - l0 - j] ELSE tmp[p - l0]
    <3>1. l0 \in Int /\ m0 \in Int /\ h0 \in Int /\ i \in Int /\ j \in Int /\ k = l0 + i + j
      BY <2>1
    <3> HIDE DEF l0, m0, h0
    <3>2. p - k < (m0 - l0 + 1) - i <=> p <= m0 + j
      BY <3>1
    <3>3. i + p - k = p - l0 - j
      BY <3>1
    <3>4. (m0 - l0 + 1) + (j + p - k - ((m0 - l0 + 1) - i)) = p - l0
      BY <3>1
    <3> QED BY <3>1, <3>2, <3>3, <3>4
  <2> HIDE DEF A, l0, m0, h0
  <2> QED BY <2>1, <2>2, <2>3 DEF MergedBack
<1>3. ASSUME ~merging
      PROVE  Halving!PutBack = Back /\ Back = arr
  BY <1>3 DEF Halving!PutBack, Back, MergeInv
<1>4. Halving!TypeOK
  <2>1. Halving!Permutes(Halving!PutBack, len)
    <3>1. Halving!PutBack = Back
      BY <1>2, <1>3
    <3>2. Permutes(Halving!PutBack, len)
      BY <1>1, <3>1
    <3> HIDE DEF Halving!PutBack
    <3> QED BY <3>2 DEF Permutes, Halving!Permutes
  <2>2. Len(todo) <= 2 * MaxLen
    <3>1. CASE Len(todo) = 0
      BY <1>1, <3>1
    <3>2. CASE Len(todo) # 0
      <4>1. 1 \in 1 .. Len(todo)
        BY <1>1, <3>2
      <4>2. Len(todo) - 1 + 1 <= 2 * len
        BY <1>1, <4>1 DEF Low
      <4> QED BY <1>1, <4>2
    <3> QED BY <3>1, <3>2
  <2> QED BY <1>1, <2>1, <2>2 DEF Halving!TypeOK
<1>5. Halving!SortsStably
  <2> SUFFICES ASSUME fault = "none", todo = <<>>
               PROVE  \A p, q \in 0 .. len - 1 : p < q => Before(rank, arr[p], arr[q])
    BY DEF Halving!SortsStably, Halving!Done, Halving!SortedStably, Halving!Before, Before
  <2>1. ~merging
    BY DEF MergeInv
  <2>2. Due(rank, arr, todo, Len(todo) + 1, 0, len - 1)
    BY <1>1, <1>3, <2>1
  <2>3. Len(todo) = 0 /\ \A d \in 1 .. (Len(todo) + 1) - 1 : FALSE
    OBVIOUS
  <2> QED BY <2>2, <2>3 DEF Due
<1>6. ASSUME todo # <<>>, Head(todo).what = "join", merging
      PROVE  /\ k = Head(todo).l + i + j /\ i <= Head(todo).m - Head(todo).l + 1
             /\ j <= Head(todo).r - Head(todo).m
             /\ \A p, q \in Head(todo).l .. k - 1 : p < q => Before(rank, arr[p], arr[q])
             /\ \A p \in Head(todo).l .. k - 1 :
                   /\ \A q \in i .. (Head(todo).m - Head(todo).l + 1) - 1 :
                         Before(rank, arr[p], tmp[q])
                   /\ \A q \in j .. Head(todo).r - Head(todo).m - 1 :
                         Before(rank, arr[p], tmp[Head(todo).m - Head(todo).l + 1 + q])
  <2> DEFINE l0 == todo[1].l
             m0 == todo[1].m
             h0 == todo[1].r
  <2>1. /\ Head(todo) = todo[1] /\ l0 \in Int /\ m0 \in Int /\ h0 \in Int
        /\ i \in Int /\ j \in Int /\ k = l0 + i + j
        /\ Between(len, l0, m0, h0, i, j) /\ Placed(rank, arr, tmp, l0, m0, h0, i, j)
    BY <1>6, MergeFacts
  <2>2. /\ l0 <= m0 /\ m0 < h0 /\ i \in 0 .. m0 - l0 + 1 /\ j \in 0 .. h0 - m0
    BY <2>1 DEF Between
  <2> HIDE DEF l0, m0, h0
  <2>3. i <= m0 - l0 + 1 /\ j <= h0 - m0
    BY <2>1, <2>2
  <2>4. \A p, q \in l0 .. k - 1 : p < q => Before(rank, arr[p], arr[q])
    BY <2>1 DEF Placed
  <2>5. \A q \in i .. (m0 - l0 + 1) - 1 : q \in 0 .. h0 - l0 /\ Waits(q, l0, m0, i, j)
    BY <2>1, <2>2 DEF Waits
  <2>6. \A q \in j .. h0 - m0 - 1 :
            m0 - l0 + 1 + q \in 0 .. h0 - l0 /\ Waits(m0 - l0 + 1 + q, l0, m0, i, j)
    BY <2>1, <2>2 DEF Waits
  <2>7. \A p \in l0 .. k - 1 :
           /\ \A q \in i .. (m0 - l0 + 1) - 1 : Before(rank, arr[p], tmp[q])
           /\ \A q \in j .. h0 - m0 - 1 : Before(rank, arr[p], tmp[m0 - l0 + 1 + q])
    BY <2>1, <2>5, <2>6 DEF Placed
  <2> QED BY <2>1, <2>3, <2>4, <2>7 DEF l0, m0, h0
<1>7. ASSUME todo # <<>>, Head(todo).what = "join", ~merging
      PROVE  /\ \A p, q \in Head(todo).l .. (Head(todo).m + 1) - 1 :
                   p < q => Before(rank, arr[p], arr[q])
             /\ \A p, q \in Head(todo).m + 1 .. (Head(todo).r + 1) - 1 :
                   p < q => Before(rank, arr[p], arr[q])
             /\ \A p \in Head(todo).l .. Head(todo).m, q \in Head(todo).m + 1 .. Head(todo).r :
                   arr[p] < arr[q]
  <2> DEFINE l0 == todo[1].l
             m0 == todo[1].m
             h0 == todo[1].r
  <2>1. /\ Head(todo) = todo[1] /\ l0 \in Int /\ m0 \in Int /\ h0 \in Int
    BY <1>7, FirstTask
  <2>2. /\ \A p \in l0 .. m0 : arr[p] \in l0 .. m0
        /\ \A p \in m0 + 1 .. h0 : arr[p] \in m0 + 1 .. h0
        /\ \A p, q \in l0 .. m0 : p < q => Before(rank, arr[p], arr[q])
        /\ \A p, q \in m0 + 1 .. h0 : p < q => Before(rank, arr[p], arr[q])
    BY <1>7, <2>1, HalvesReady
  <2> HIDE DEF l0, m0, h0
  <2>3. (m0 + 1) - 1 = m0 /\ (h0 + 1) - 1 = h0
    BY <2>1
  <2>4. ASSUME NEW p \in l0 .. m0, NEW q \in m0 + 1 .. h0 PROVE arr[p] < arr[q]
    <3>1. PICK u \in l0 .. m0 : arr[p] = u
      BY <2>2
    <3>2. PICK v \in m0 + 1 .. h0 : arr[q] = v
      BY <2>2
    <3>3. u < v
      BY <2>1
    <3> QED BY <3>1, <3>2, <3>3
  <2> QED BY <2>1, <2>2, <2>3, <2>4 DEF l0, m0, h0
<1>8. Halving!HalvesSorted
  <2>1. ASSUME todo # <<>>, Head(todo).what = "join", merging
        PROVE  /\ k = Halving!Now.l + i + j /\ i <= Halving!N1 /\ j <= Halving!N2
               /\ Halving!SortedStably(rank, arr, Halving!Now.l, k)
               /\ \A p \in Halving!Now.l .. k - 1 :
                     /\ \A q \in i .. Halving!N1 - 1 :
                           Halving!Before(rank, arr[p], Halving!Left(q))
                     /\ \A q \in j .. Halving!N2 - 1 :
                           Halving!Before(rank, arr[p], Halving!Right(q))
    <3>1. /\ k = Halving!Now.l + i + j /\ i <= Halving!N1 /\ j <= Halving!N2
      BY <1>6, <2>1 DEF Halving!Now, Halving!N1, Halving!N2
    <3>2. Halving!SortedStably(rank, arr, Halving!Now.l, k)
      BY <1>6, <2>1 DEF Halving!Now, Halving!SortedStably, Halving!Before, Before
    <3>3. \A p \in Halving!Now.l .. k - 1 : \A q \in i .. Halving!N1 - 1 :
             Halving!Before(rank, arr[p], Halving!Left(q))
      BY <1>6, <2>1 DEF Halving!Now, Halving!N1, Halving!Left, Halving!Before, Before
    <3>4. \A p \in Halving!Now.l .. k - 1 : \A q \in j .. Halving!N2 - 1 :
             Halving!Before(rank, arr[p], Halving!Right(q))
      BY <1>6, <2>1 DEF Halving!Now, Halving!N1, Halving!N2, Halving!Right, Halving!Before, Before
    <3> QED BY <3>1, <3>2, <3>3, <3>4
  <2>2. ASSUME todo # <<>>, Head(todo).what = "join", ~merging
        PROVE  /\ Halving!SortedStably(rank, arr, Halving!Now.l, Halving!Now.m + 1)
               /\ Halving!SortedStably(rank, arr, Halving!Now.m + 1, Halving!Now.r + 1)
               /\ \A p \in Halving!Now.l .. Halving!Now.m,
                     q \in Halving!Now.m + 1 .. Halving!Now.r : arr[p] < arr[q]
    <3>1. Halving!SortedStably(rank, arr, Halving!Now.l, Halving!Now.m + 1)
      BY <1>7, <2>2 DEF Halving!Now, Halving!SortedStably, Halving!Before, Before
    <3>2. Halving!SortedStably(rank, arr, Halving!Now.m + 1, Halving!Now.r + 1)
      BY <1>7, <2>2 DEF Halving!Now, Halving!SortedStably, Halving!Before, Before
    <3>3. \A p \in Halving!Now.l .. Halving!Now.m,
            q \in Halving!Now.m + 1 .. Halving!Now.r : arr[p] < arr[q]
      BY <1>7, <2>2 DEF Halving!Now
    <3> QED BY <3>1, <3>2, <3>3
  <2>3. Halving!Now = Head(todo)
    BY DEF Halving!Now
  <2> QED BY <2>1, <2>2, <2>3, Zenon DEF Halving!HalvesSorted
<1> QED BY <1>4, <1>5, <1>8

---------------------------------------------------------------------------
(* The binary tree.  A node is a path from the root.                       *)
Path == Seq({0, 1})
Under(p, q) == Len(p) <= Len(q) /\ \A n \in 1 .. Len(p) : q[n] = p[n]

(* A set of nodes that has, with a node, those above it.                   *)
Rooted(D, m) ==
    /\ D \subseteq Path /\ IsFiniteSet(D)
    /\ \A p \in D : Len(p) < m
    /\ \A q \in D : \A p \in Path : Under(p, q) => p \in D

(* A turn from a node.                                                     *)
LEMMA Turned ==
    ASSUME NEW p \in Path, NEW d \in {0, 1}
    PROVE  /\ Append(p, d) \in Path /\ Len(p) \in Nat
           /\ Len(Append(p, d)) = Len(p) + 1 /\ Append(p, d)[Len(p) + 1] = d
           /\ \A n \in 1 .. Len(p) : Append(p, d)[n] = p[n] /\ p[n] \in {0, 1}
<1>1. p \in Seq({0, 1})
  BY DEF Path
<1>2. \A n \in 1 .. Len(p) : p[n] \in {0, 1}
  BY <1>1, ElementOfSeq
<1> QED BY <1>1, <1>2, AppendProperties, LenProperties DEF Path

(* What is under a node is the node, or under one of its children.         *)
LEMMA UnderTurned ==
    ASSUME NEW p \in Path, NEW q \in Path
    PROVE  /\ Under(p, p)
           /\ Under(p, q) <=> q = p \/ Under(Append(p, 0), q) \/ Under(Append(p, 1), q)
           /\ ~ (Under(Append(p, 0), q) /\ Under(Append(p, 1), q))
           /\ \A d \in {0, 1} : Under(Append(p, d), q) => q # p
<1> DEFINE a == Append(p, 0)
           b == Append(p, 1)
           h == Len(p)
<1>1. /\ h \in Nat /\ Len(a) = h + 1 /\ Len(b) = h + 1 /\ a[h + 1] = 0 /\ b[h + 1] = 1
      /\ \A n \in 1 .. h : a[n] = p[n] /\ b[n] = p[n]
  BY Turned
<1>2. Len(q) \in Nat /\ q \in Seq({0, 1}) /\ p \in Seq({0, 1}) /\ \A n \in 1 .. Len(q) : q[n] \in {0, 1}
  BY LenProperties, ElementOfSeq DEF Path
<1>3. h = Len(p)
  OBVIOUS
<1> HIDE DEF a, b, h
<1>4. Under(p, p)
  BY <1>1, <1>3 DEF Under
<1>5. ASSUME Under(p, q) PROVE q = p \/ Under(a, q) \/ Under(b, q)
  <2>1. CASE Len(q) = h
    <3>1. q = p
      BY <1>2, <1>3, <1>5, <2>1, SeqEqual DEF Under
    <3> QED BY <3>1
  <2>2. CASE Len(q) # h
    <3>1. Len(q) >= h + 1 /\ q[h + 1] \in {0, 1}
      BY <1>1, <1>2, <1>3, <1>5, <2>2 DEF Under
    <3>2. \A n \in 1 .. h + 1 : n = h + 1 \/ n \in 1 .. h
      BY <1>1
    <3> QED BY <1>1, <1>3, <1>5, <3>1, <3>2 DEF Under
  <2> QED BY <2>1, <2>2
<1>6. ASSUME Under(a, q) PROVE Under(p, q) /\ q # p /\ q[h + 1] = 0
  <2>1. Len(q) >= h + 1 /\ \A n \in 1 .. h + 1 : q[n] = a[n]
    BY <1>1, <1>6 DEF Under
  <2> QED BY <1>1, <1>2, <1>3, <2>1 DEF Under
<1>7. ASSUME Under(b, q) PROVE Under(p, q) /\ q # p /\ q[h + 1] = 1
  <2>1. Len(q) >= h + 1 /\ \A n \in 1 .. h + 1 : q[n] = b[n]
    BY <1>1, <1>7 DEF Under
  <2> QED BY <1>1, <1>2, <1>3, <2>1 DEF Under
<1>8. \A d \in {0, 1} : Append(p, d) = a \/ Append(p, d) = b
  BY DEF a, b
<1> QED BY <1>4, <1>5, <1>6, <1>7, <1>8 DEF a, b

(* The root, and no node.                                                  *)
LEMMA RootIs ==
    /\ <<>> \in Path /\ Len(<<>>) = 0 /\ \A q \in Path : Under(<<>>, q)
    /\ Rooted({}, 0)
<1>1. <<>> \in Path /\ Len(<<>>) = 0
  BY EmptySeq DEF Path
<1>2. \A q \in Path : Len(q) \in Nat
  BY LenProperties DEF Path
<1>3. \A q \in Path : Under(<<>>, q)
  BY <1>1, <1>2 DEF Under
<1> QED BY <1>1, <1>3, FS_EmptySet DEF Rooted

(* A tree with a node more.                                                *)
LEMMA GrownRooted ==
    ASSUME NEW m \in Nat, NEW P, Rooted(P, m), NEW Q \in Binary!Grown(P)
    PROVE  Rooted(Q, m + 1)
<1>1. /\ P \subseteq Path /\ IsFiniteSet(P) /\ \A p \in P : Len(p) < m
      /\ \A q \in P : \A p \in Path : Under(p, q) => p \in P
  BY DEF Rooted
<1>2. \A p \in Path : Len(p) \in Nat
  BY LenProperties DEF Path
<1>3. CASE P = {}
  <2>1. Q = {<<>>}
    BY <1>3 DEF Binary!Grown, Binary!Root
  <2>2. IsFiniteSet(Q)
    BY <2>1, FS_Singleton
  <2>3. ASSUME NEW p \in Path, Under(p, <<>>) PROVE p = <<>>
    <3>1. Len(p) = 0
      BY <1>2, <2>3, RootIs DEF Under
    <3> QED BY <3>1, EmptySeq DEF Path
  <2> QED BY <2>1, <2>2, <2>3, RootIs DEF Rooted
<1>4. CASE P # {}
  <2>1. PICK c : c \in UNION {{Binary!LeftOf(q), Binary!RightOf(q)} : q \in P} \ P /\ Q = P \cup {c}
    BY <1>4 DEF Binary!Grown
  <2>2. PICK q \in P : c \in {Binary!LeftOf(q), Binary!RightOf(q)}
    BY <2>1
  <2>3. PICK d \in {0, 1} : c = Append(q, d)
    BY <2>2 DEF Binary!LeftOf, Binary!RightOf
  <2>4. /\ q \in Path /\ c \in Path /\ Len(c) = Len(q) + 1 /\ Len(q) < m
        /\ \A n \in 1 .. Len(q) : c[n] = q[n]
    BY <1>1, <2>3, Turned
  <2>5. IsFiniteSet(Q)
    BY <1>1, <2>1, FS_AddElement
  <2>6. ASSUME NEW p \in Path, Under(p, c) PROVE p \in Q
    <3>1. CASE Len(p) = Len(c)
      <4>1. p = c
        BY <2>4, <2>6, <3>1, SeqEqual DEF Under, Path
      <4> QED BY <2>1, <4>1
    <3>2. CASE Len(p) # Len(c)
      <4>1. Len(p) <= Len(q)
        BY <1>2, <2>4, <2>6, <3>2 DEF Under
      <4>2. \A n \in 1 .. Len(p) : n \in 1 .. Len(q)
        BY <1>2, <2>4, <4>1
      <4>3. Under(p, q)
        BY <2>4, <2>6, <4>1, <4>2 DEF Under
      <4> QED BY <1>1, <2>1, <4>3
    <3> QED BY <3>1, <3>2
  <2>7. \A p \in Q : Len(p) < m + 1
    <3>1. \A p \in P : Len(p) < m + 1
      BY <1>1, <1>2
    <3>2. Len(c) < m + 1
      BY <1>2, <2>4
    <3> QED BY <2>1, <3>1, <3>2
  <2> QED BY <1>1, <2>1, <2>4, <2>5, <2>6, <2>7 DEF Rooted
<1> QED BY <1>3, <1>4

(* Every tree is one.                                                      *)
LEMMA TreesAreRooted ==
    ASSUME NEW max \in Nat, NEW t \in Binary!TreesUpTo(max)
    PROVE  Rooted(DOMAIN t, max) /\ t \in [DOMAIN t -> Data]
<1> DEFINE S == SUBSET SUBSET Path
           g == [a \in (1 .. max) \X S |-> a[2] \cup UNION {Binary!Grown(P) : P \in a[2]}]
           IsF(f) == f = [n \in 0 .. max |-> IF n = 0 THEN {{}}
                              ELSE f[n - 1] \cup UNION {Binary!Grown(P) : P \in f[n - 1]}]
           F == CHOOSE f : IsF(f)
<1>1. \E f : IsF(f) /\ f \in [0 .. max -> S]
  <2>1. \A P \in SUBSET Path : Binary!Grown(P) \subseteq SUBSET Path
    <3>1. \A p \in Path : Binary!LeftOf(p) \in Path /\ Binary!RightOf(p) \in Path
      BY Turned DEF Binary!LeftOf, Binary!RightOf
    <3>2. {<<>>} \in SUBSET Path
      BY RootIs
    <3> QED BY <3>1, <3>2 DEF Binary!Grown, Binary!Root
  <2>2. ASSUME NEW a \in (1 .. max) \X S PROVE g[a] \in S
    <3>1. a[2] \in S
      OBVIOUS
    <3>2. UNION {Binary!Grown(P) : P \in a[2]} \in S
      BY <2>1, <3>1
    <3> QED BY <3>1, <3>2
  <2>3. {{}} \in S /\ g \in [(1 .. max) \X S -> S]
    BY <2>2
  <2>4. \A n \in 1 .. max, s \in S : g[<<n, s>>] = s \cup UNION {Binary!Grown(P) : P \in s}
    <3>1. \A n \in 1 .. max, s \in S : <<n, s>> \in (1 .. max) \X S
      OBVIOUS
    <3> QED BY <3>1
  <2> HIDE DEF g, S
  <2>5. PICK f : IsRecursion(f, S, max, {{}}, g)
    BY <2>3, RecursionExists
  <2>6. f \in [0 .. max -> S] /\ \A n \in 0 .. max : f[n] = IF n = 0 THEN {{}} ELSE g[<<n, f[n - 1]>>]
    BY <2>5 DEF IsRecursion
  <2>7. \A n \in 0 .. max : f[n] = IF n = 0 THEN {{}}
                                   ELSE f[n - 1] \cup UNION {Binary!Grown(P) : P \in f[n - 1]}
    <3>1. \A n \in 0 .. max : n # 0 => n \in 1 .. max /\ n - 1 \in 0 .. max
      OBVIOUS
    <3> QED BY <2>4, <2>6, <3>1
  <2>8. IsF(f)
    BY <2>6, <2>7
  <2> QED BY <2>6, <2>8
<1>2. IsF(F)
  <2> HIDE DEF IsF, S
  <2> QED BY <1>1
<1>3. t \in UNION {[P -> Data] : P \in F[max]}
  BY DEF Binary!TreesUpTo
<1>4. \A n \in 0 .. max : F[n] = IF n = 0 THEN {{}}
                                 ELSE F[n - 1] \cup UNION {Binary!Grown(P) : P \in F[n - 1]}
  <2> HIDE DEF F
  <2> QED BY <1>2
<1> HIDE DEF F, IsF, S, g
<1> DEFINE R == {n \in 0 .. max : \A P \in F[n] : Rooted(P, n)}
<1>5. 0 \in R
  <2>1. 0 \in 0 .. max
    OBVIOUS
  <2>2. F[0] = {{}}
    BY <1>4, <2>1, Zenon
  <2> QED BY <2>1, <2>2, RootIs
<1>6. ASSUME NEW n \in 0 .. max - 1, n \in R PROVE n + 1 \in R
  <2>1. n + 1 \in 0 .. max /\ n + 1 # 0 /\ (n + 1) - 1 = n /\ n \in Nat
    BY <1>6
  <2>2. F[n + 1] = F[n] \cup UNION {Binary!Grown(P) : P \in F[n]}
    BY <1>4, <2>1
  <2>3. \A P \in F[n] : Rooted(P, n + 1)
    <3>1. \A P \in F[n] : Rooted(P, n)
      BY <1>6
    <3>2. \A p \in Path : Len(p) < n => Len(p) < n + 1
      BY <2>1, LenProperties DEF Path
    <3> QED BY <3>1, <3>2 DEF Rooted
  <2>4. \A P \in F[n] : \A Q \in Binary!Grown(P) : Rooted(Q, n + 1)
    BY <1>6, <2>1, GrownRooted
  <2> QED BY <2>1, <2>2, <2>3, <2>4
<1>7. max \in R
  <2> HIDE DEF R
  <2>1. \A n \in 0 .. max : n \in R
    BY <1>5, <1>6, InductionTo
  <2> QED BY <2>1
<1> QED BY <1>3, <1>7

(* The number of a node by level is computed turn by turn.                 *)
IsNumbering(f, p) ==
    /\ f \in [0 .. Len(p) -> Nat]
    /\ \A n \in 0 .. Len(p) : f[n] = IF n = 0 THEN 1 ELSE 2 * f[n - 1] + p[n]

(* There is such a computation.                                            *)
LEMMA LevelIs ==
    ASSUME NEW p \in Path
    PROVE  \E f : IsNumbering(f, p) /\ Binary!Level(p) = f[Len(p)]
<1> DEFINE h == Len(p)
           g == [a \in (1 .. h) \X Nat |-> 2 * a[2] + p[a[1]]]
           IsF(f) == f = [n \in 0 .. h |-> IF n = 0 THEN 1 ELSE 2 * f[n - 1] + p[n]]
           F == CHOOSE f : IsF(f)
<1>1. h \in Nat /\ \A n \in 1 .. h : p[n] \in {0, 1}
  BY LenProperties, ElementOfSeq DEF Path
<1> HIDE DEF h
<1>2. \E f : IsF(f) /\ f \in [0 .. h -> Nat]
  <2>1. g \in [(1 .. h) \X Nat -> Nat]
    <3>1. ASSUME NEW a \in (1 .. h) \X Nat PROVE 2 * a[2] + p[a[1]] \in Nat
      <4>1. a[2] \in Nat /\ p[a[1]] \in {0, 1}
        BY <1>1
      <4> QED BY <4>1
    <3> QED BY <3>1
  <2>2. \A n \in 1 .. h, s \in Nat : g[<<n, s>>] = 2 * s + p[n]
    <3>1. \A n \in 1 .. h, s \in Nat : <<n, s>> \in (1 .. h) \X Nat
      OBVIOUS
    <3> QED BY <3>1
  <2> HIDE DEF g
  <2>3. PICK f : IsRecursion(f, Nat, h, 1, g)
    BY <1>1, <2>1, RecursionExists
  <2>4. f \in [0 .. h -> Nat] /\ \A n \in 0 .. h : f[n] = IF n = 0 THEN 1 ELSE g[<<n, f[n - 1]>>]
    BY <2>3 DEF IsRecursion
  <2>5. \A n \in 0 .. h : f[n] = IF n = 0 THEN 1 ELSE 2 * f[n - 1] + p[n]
    <3>1. \A n \in 0 .. h : n # 0 => n \in 1 .. h /\ n - 1 \in 0 .. h
      BY <1>1
    <3> QED BY <2>2, <2>4, <3>1
  <2> QED BY <2>4, <2>5
<1>3. IsF(F)
  <2> HIDE DEF IsF
  <2> QED BY <1>2
<1>4. Binary!Level(p) = F[h]
  BY DEF Binary!Level, h
<1>5. \A n \in 0 .. h : F[n] = IF n = 0 THEN 1 ELSE 2 * F[n - 1] + p[n]
  <2> HIDE DEF F
  <2> QED BY <1>3
<1>6. F = [n \in 0 .. h |-> F[n]]
  <2> HIDE DEF F
  <2> QED BY <1>3
<1> HIDE DEF F, IsF
<1> DEFINE R == {n \in 0 .. h : F[n] \in Nat}
<1>7. \A n \in 0 .. h : n \in R
  <2>1. 0 \in 0 .. h
    BY <1>1
  <2>2. F[0] = 1
    BY <1>5, <2>1, Zenon
  <2>3. ASSUME NEW n \in 0 .. h - 1, n \in R PROVE n + 1 \in R
    <3>1. n + 1 \in 0 .. h /\ n + 1 \in 1 .. h /\ n + 1 # 0 /\ (n + 1) - 1 = n
      BY <1>1
    <3>2. F[n + 1] = 2 * F[n] + p[n + 1]
      BY <1>5, <3>1
    <3>3. F[n] \in Nat /\ p[n + 1] \in {0, 1}
      BY <1>1, <2>3, <3>1
    <3> QED BY <3>1, <3>2, <3>3
  <2>4. 0 \in R
    BY <2>1, <2>2
  <2> HIDE DEF R
  <2> QED BY <1>1, <2>3, <2>4, InductionTo
<1>8. F \in [0 .. h -> Nat]
  BY <1>6, <1>7
<1>9. IsNumbering(F, p)
  BY <1>5, <1>8 DEF IsNumbering, h
<1> QED BY <1>4, <1>9 DEF h

(* The children of node number n have the numbers 2 n and 2 n + 1.         *)
LEMMA LevelTurned ==
    ASSUME NEW p \in Path
    PROVE  /\ Binary!Level(p) \in Nat \ {0}
           /\ \A d \in {0, 1} : Binary!Level(Append(p, d)) = 2 * Binary!Level(p) + d
<1>1. ASSUME NEW q \in Path PROVE Binary!Level(q) \in Nat \ {0}
  <2>1. PICK f : IsNumbering(f, q) /\ Binary!Level(q) = f[Len(q)]
    BY LevelIs
  <2> DEFINE h == Len(q)
             R == {n \in 0 .. h : f[n] # 0}
  <2>2. h \in Nat /\ \A n \in 1 .. h : q[n] \in {0, 1}
    BY LenProperties, ElementOfSeq DEF Path
  <2>3. f \in [0 .. h -> Nat] /\ \A n \in 0 .. h : f[n] = IF n = 0 THEN 1 ELSE 2 * f[n - 1] + q[n]
    BY <2>1 DEF IsNumbering
  <2>4. f[h] = Binary!Level(q)
    BY <2>1
  <2> HIDE DEF h
  <2>5. 0 \in R
    <3>1. 0 \in 0 .. h
      BY <2>2
    <3>2. f[0] = 1
      BY <2>3, <3>1, Zenon
    <3> QED BY <3>1, <3>2
  <2>6. ASSUME NEW n \in 0 .. h - 1, n \in R PROVE n + 1 \in R
    <3>1. n + 1 \in 0 .. h /\ n + 1 \in 1 .. h /\ n + 1 # 0 /\ (n + 1) - 1 = n /\ n \in 0 .. h
      BY <2>2
    <3>2. f[n + 1] = 2 * f[n] + q[n + 1]
      BY <2>3, <3>1
    <3>3. f[n] \in Nat /\ f[n] # 0 /\ q[n + 1] \in {0, 1}
      BY <2>2, <2>3, <2>6, <3>1
    <3> QED BY <3>1, <3>2, <3>3
  <2>7. h \in R
    <3> HIDE DEF R
    <3>1. \A n \in 0 .. h : n \in R
      BY <2>2, <2>5, <2>6, InductionTo
    <3> QED BY <2>2, <3>1
  <2> QED BY <2>2, <2>3, <2>4, <2>7
<1>2. ASSUME NEW d \in {0, 1} PROVE Binary!Level(Append(p, d)) = 2 * Binary!Level(p) + d
  <2> DEFINE c == Append(p, d)
             h == Len(p)
  <2>1. /\ c \in Path /\ h \in Nat /\ Len(c) = h + 1 /\ c[h + 1] = d
        /\ \A n \in 1 .. h : c[n] = p[n] /\ p[n] \in {0, 1}
    BY Turned
  <2>2. PICK f : IsNumbering(f, p) /\ Binary!Level(p) = f[h]
    BY LevelIs
  <2>3. PICK e : IsNumbering(e, c) /\ Binary!Level(c) = e[h + 1]
    BY <2>1, LevelIs
  <2>4. /\ f \in [0 .. h -> Nat]
        /\ \A n \in 0 .. h : f[n] = IF n = 0 THEN 1 ELSE 2 * f[n - 1] + p[n]
    BY <2>2 DEF IsNumbering
  <2>5. \A n \in 0 .. h + 1 : e[n] = IF n = 0 THEN 1 ELSE 2 * e[n - 1] + c[n]
    BY <2>1, <2>3 DEF IsNumbering
  <2> HIDE DEF c, h
  <2> DEFINE R == {n \in 0 .. h : e[n] = f[n]}
  <2>6. 0 \in R
    <3>1. 0 \in 0 .. h /\ 0 \in 0 .. h + 1
      BY <2>1
    <3>2. f[0] = 1 /\ e[0] = 1
      BY <2>4, <2>5, <3>1, Zenon
    <3> QED BY <3>1, <3>2
  <2>7. ASSUME NEW n \in 0 .. h - 1, n \in R PROVE n + 1 \in R
    <3>1. /\ n + 1 \in 0 .. h /\ n + 1 \in 0 .. h + 1 /\ n + 1 \in 1 .. h
          /\ n + 1 # 0 /\ (n + 1) - 1 = n
      BY <2>1
    <3>2. f[n + 1] = 2 * f[n] + p[n + 1] /\ e[n + 1] = 2 * e[n] + c[n + 1]
      BY <2>4, <2>5, <3>1
    <3> QED BY <2>1, <2>7, <3>1, <3>2
  <2>8. e[h] = f[h]
    <3> HIDE DEF R
    <3>1. \A n \in 0 .. h : n \in R
      BY <2>1, <2>6, <2>7, InductionTo
    <3> QED BY <2>1, <3>1 DEF R
  <2>9. e[h + 1] = 2 * e[h] + c[h + 1]
    <3>1. h + 1 \in 0 .. h + 1 /\ h + 1 # 0 /\ (h + 1) - 1 = h
      BY <2>1
    <3> QED BY <2>5, <3>1
  <2> QED BY <2>1, <2>2, <2>3, <2>8, <2>9 DEF c
<1> QED BY <1>1, <1>2

(* The paths that recursions go down.                                      *)
LEMMA PathsAre ==
    /\ MaxNodes \in Nat
    /\ \A p : p \in Binary!Paths <=> p \in Path /\ Len(p) \in 0 .. MaxNodes
<1>1. MaxNodes \in Nat
  BY CallAssumption DEF Binary!TreeAssumption
<1>2. ASSUME NEW p \in Binary!Paths PROVE p \in Path /\ Len(p) \in 0 .. MaxNodes
  <2>1. PICK n \in 0 .. MaxNodes : p \in [1 .. n -> {0, 1}]
    BY DEF Binary!Paths
  <2>2. p \in Seq({0, 1}) /\ Len(p) = n
    BY <1>1, <2>1, IntervalIsSeq
  <2> QED BY <2>1, <2>2 DEF Path
<1>3. ASSUME NEW p \in Path, Len(p) \in 0 .. MaxNodes PROVE p \in Binary!Paths
  <2>1. p \in [1 .. Len(p) -> {0, 1}]
    BY LenProperties DEF Path
  <2> QED BY <1>3, <2>1 DEF Binary!Paths
<1> QED BY <1>1, <1>2, <1>3

(* What the recursions on trees do at a node, given what they answer for   *)
(* its two children: the walks, and the comparison of t with u.            *)
Kinds == {"pre_order", "in_order", "post_order", "same"}
StepTo(kind, t, u, p, a, b) ==
    CASE kind = "pre_order" -> IF p \notin DOMAIN t THEN <<>> ELSE <<p>> \o a \o b
      [] kind = "in_order" -> IF p \notin DOMAIN t THEN <<>> ELSE a \o <<p>> \o b
      [] kind = "post_order" -> IF p \notin DOMAIN t THEN <<>> ELSE a \o b \o <<p>>
      [] kind = "same" -> IF p \notin DOMAIN t /\ p \notin DOMAIN u THEN TRUE
                          ELSE p \in DOMAIN t /\ p \in DOMAIN u /\ t[p] = u[p] /\ a /\ b
IsFold(f, kind, t, u) ==
    f = [p \in Binary!Paths |->
            StepTo(kind, t, u, p, f[Binary!LeftOf(p)], f[Binary!RightOf(p)])]

(* Where t has no node there is nothing to be given.                       *)
LEMMA StepToNoNode ==
    ASSUME NEW kind \in Kinds, NEW t, NEW u, NEW p, p \notin DOMAIN t, NEW a, NEW b
    PROVE  StepTo(kind, t, u, p, a, b) = StepTo(kind, t, u, p, 0, 0)
<1>1. CASE kind = "pre_order"
  BY <1>1 DEF StepTo
<1>2. CASE kind = "in_order"
  BY <1>2 DEF StepTo
<1>3. CASE kind = "post_order"
  BY <1>3 DEF StepTo
<1>4. CASE kind = "same"
  BY <1>4 DEF StepTo
<1> QED BY <1>1, <1>2, <1>3, <1>4 DEF Kinds

(* Such a recursion has an answer for every path.                          *)
LEMMA FoldExists ==
    ASSUME NEW kind \in Kinds, NEW t, NEW u, Rooted(DOMAIN t, MaxNodes)
    PROVE  \E f : IsFold(f, kind, t, u)
<1> DEFINE S == Binary!Paths
           N == MaxNodes
           A(p) == Binary!LeftOf(p)
           B(p) == Binary!RightOf(p)
           L(h) == {p \in S : N - Len(p) <= h}
           P == {h \in 0 .. N : \E f : f = [p \in L(h) |-> StepTo(kind, t, u, p, f[A(p)], f[B(p)])]}
<1>1. /\ N \in Nat
      /\ \A p \in S : Len(p) \in 0 .. N
      /\ \A p \in S : p \in DOMAIN t => /\ A(p) \in S /\ Len(A(p)) = Len(p) + 1
                                        /\ B(p) \in S /\ Len(B(p)) = Len(p) + 1
                                        /\ Len(p) < N
  <2>1. ASSUME NEW p \in S, p \in DOMAIN t
        PROVE  /\ A(p) \in S /\ Len(A(p)) = Len(p) + 1
               /\ B(p) \in S /\ Len(B(p)) = Len(p) + 1
               /\ Len(p) < N
    <3>1. Len(p) < N /\ p \in Path /\ Len(p) \in Nat /\ N \in Nat
      BY <2>1, PathsAre DEF Rooted
    <3>2. /\ A(p) \in Path /\ Len(A(p)) = Len(p) + 1
          /\ B(p) \in Path /\ Len(B(p)) = Len(p) + 1
      BY <3>1, Turned DEF Binary!LeftOf, Binary!RightOf
    <3>3. Len(p) + 1 \in 0 .. N
      BY <3>1
    <3> QED BY <3>1, <3>2, <3>3, PathsAre
  <2> QED BY <2>1, PathsAre
<1> HIDE DEF S, N, A, B
<1>2. 0 \in P
  <2> DEFINE f == [p \in L(0) |-> StepTo(kind, t, u, p, 0, 0)]
  <2>1. ASSUME NEW p \in L(0) PROVE f[p] = StepTo(kind, t, u, p, f[A(p)], f[B(p)])
    <3>1. p \notin DOMAIN t
      BY <1>1
    <3>2. f[p] = StepTo(kind, t, u, p, 0, 0)
      OBVIOUS
    <3> HIDE DEF f
    <3> QED BY <3>1, <3>2, StepToNoNode
  <2>2. f = [p \in L(0) |-> StepTo(kind, t, u, p, f[A(p)], f[B(p)])]
    <3>1. f = [p \in L(0) |-> f[p]]
      OBVIOUS
    <3> HIDE DEF f
    <3> QED BY <2>1, <3>1
  <2> HIDE DEF f, L
  <2> QED BY <1>1, <2>2
<1>3. ASSUME NEW h \in 0 .. N - 1, h \in P PROVE h + 1 \in P
  <2>1. PICK f : f = [p \in L(h) |-> StepTo(kind, t, u, p, f[A(p)], f[B(p)])]
    BY <1>3
  <2> DEFINE g == [p \in L(h + 1) |-> StepTo(kind, t, u, p, f[A(p)], f[B(p)])]
  <2>2. \A p \in L(h) : p \in L(h + 1) /\ g[p] = f[p]
    <3>1. \A p \in L(h) : p \in L(h + 1)
      BY <1>1, <1>3
    <3>2. \A p \in L(h) : f[p] = StepTo(kind, t, u, p, f[A(p)], f[B(p)])
      BY <2>1
    <3> HIDE DEF L
    <3> QED BY <3>1, <3>2
  <2>3. ASSUME NEW p \in L(h + 1)
        PROVE  StepTo(kind, t, u, p, f[A(p)], f[B(p)]) = StepTo(kind, t, u, p, g[A(p)], g[B(p)])
    <3>1. CASE p \notin DOMAIN t
      <4> HIDE DEF g
      <4>1. StepTo(kind, t, u, p, f[A(p)], f[B(p)]) = StepTo(kind, t, u, p, 0, 0)
        BY <3>1, StepToNoNode
      <4>2. StepTo(kind, t, u, p, g[A(p)], g[B(p)]) = StepTo(kind, t, u, p, 0, 0)
        BY <3>1, StepToNoNode
      <4> QED BY <4>1, <4>2
    <3>2. CASE p \in DOMAIN t
      <4>1. A(p) \in L(h) /\ B(p) \in L(h)
        BY <1>1, <1>3, <3>2
      <4>2. g[A(p)] = f[A(p)] /\ g[B(p)] = f[B(p)]
        <5> HIDE DEF g, L
        <5> QED BY <2>2, <4>1
      <4> HIDE DEF g, L
      <4> QED BY <4>2
    <3> QED BY <3>1, <3>2
  <2>4. g = [p \in L(h + 1) |-> StepTo(kind, t, u, p, g[A(p)], g[B(p)])]
    <3>1. ASSUME NEW p \in L(h + 1) PROVE g[p] = StepTo(kind, t, u, p, g[A(p)], g[B(p)])
      <4>1. g[p] = StepTo(kind, t, u, p, f[A(p)], f[B(p)])
        OBVIOUS
      <4> HIDE DEF g, L
      <4> QED BY <2>3, <4>1
    <3>2. g = [p \in L(h + 1) |-> g[p]]
      OBVIOUS
    <3> HIDE DEF g, L
    <3> QED BY <3>1, <3>2
  <2> HIDE DEF g, L
  <2>5. h + 1 \in 0 .. N
    BY <1>1, <1>3
  <2> QED BY <2>4, <2>5
<1> HIDE DEF P
<1>4. N \in P
  <2>1. \A h \in 0 .. N : h \in P
    BY <1>1, <1>2, <1>3, InductionTo
  <2> QED BY <1>1, <2>1
<1>5. L(N) = S
  BY <1>1
<1> HIDE DEF L
<1>6. PICK f : f = [p \in L(N) |-> StepTo(kind, t, u, p, f[A(p)], f[B(p)])]
  BY <1>4 DEF P
<1>7. f = [p \in S |-> StepTo(kind, t, u, p, f[A(p)], f[B(p)])]
  BY <1>5, <1>6
<1> QED BY <1>7 DEF S, A, B, IsFold

(* The walks and the comparison are such recursions.                       *)
Answering(f, kind, t, u) ==
    \A p \in Binary!Paths :
        f[p] = StepTo(kind, t, u, p, f[Binary!LeftOf(p)], f[Binary!RightOf(p)])

(* What a walk gives is what its recursion answers at the root.            *)
LEMMA WalksAnswer ==
    ASSUME Rooted(DOMAIN tree, MaxNodes)
    PROVE  /\ \E f : Binary!PreOrder = f[<<>>] /\ Answering(f, "pre_order", tree, tree)
           /\ \E f : Binary!InOrder = f[<<>>] /\ Answering(f, "in_order", tree, tree)
           /\ \E f : Binary!PostOrder = f[<<>>] /\ Answering(f, "post_order", tree, tree)
<1>1. \E f : Binary!PreOrder = f[<<>>] /\ Answering(f, "pre_order", tree, tree)
  <2> DEFINE IsF(f) == f = [p \in Binary!Paths |-> IF p \notin DOMAIN tree THEN <<>>
                               ELSE <<p>> \o f[Binary!LeftOf(p)] \o f[Binary!RightOf(p)]]
             F == CHOOSE f : IsF(f)
  <2>1. PICK f : IsFold(f, "pre_order", tree, tree)
    BY FoldExists DEF Kinds
  <2>2. IsF(f)
    BY <2>1 DEF IsFold, StepTo
  <2>3. IsF(F)
    <3> HIDE DEF IsF
    <3> QED BY <2>2
  <2>4. Binary!PreOrder = F[<<>>]
    BY DEF Binary!PreOrder, Binary!Root
  <2>5. Answering(F, "pre_order", tree, tree)
    <3> HIDE DEF F
    <3> QED BY <2>3 DEF Answering, StepTo
  <2> QED BY <2>4, <2>5
<1>2. \E f : Binary!InOrder = f[<<>>] /\ Answering(f, "in_order", tree, tree)
  <2> DEFINE IsF(f) == f = [p \in Binary!Paths |-> IF p \notin DOMAIN tree THEN <<>>
                               ELSE f[Binary!LeftOf(p)] \o <<p>> \o f[Binary!RightOf(p)]]
             F == CHOOSE f : IsF(f)
  <2>1. PICK f : IsFold(f, "in_order", tree, tree)
    BY FoldExists DEF Kinds
  <2>2. IsF(f)
    BY <2>1 DEF IsFold, StepTo
  <2>3. IsF(F)
    <3> HIDE DEF IsF
    <3> QED BY <2>2
  <2>4. Binary!InOrder = F[<<>>]
    BY DEF Binary!InOrder, Binary!Root
  <2>5. Answering(F, "in_order", tree, tree)
    <3> HIDE DEF F
    <3> QED BY <2>3 DEF Answering, StepTo
  <2> QED BY <2>4, <2>5
<1>3. \E f : Binary!PostOrder = f[<<>>] /\ Answering(f, "post_order", tree, tree)
  <2> DEFINE IsF(f) == f = [p \in Binary!Paths |-> IF p \notin DOMAIN tree THEN <<>>
                               ELSE f[Binary!LeftOf(p)] \o f[Binary!RightOf(p)] \o <<p>>]
             F == CHOOSE f : IsF(f)
  <2>1. PICK f : IsFold(f, "post_order", tree, tree)
    BY FoldExists DEF Kinds
  <2>2. IsF(f)
    BY <2>1 DEF IsFold, StepTo
  <2>3. IsF(F)
    <3> HIDE DEF IsF
    <3> QED BY <2>2
  <2>4. Binary!PostOrder = F[<<>>]
    BY DEF Binary!PostOrder, Binary!Root
  <2>5. Answering(F, "post_order", tree, tree)
    <3> HIDE DEF F
    <3> QED BY <2>3 DEF Answering, StepTo
  <2> QED BY <2>4, <2>5
<1> QED BY <1>1, <1>2, <1>3

(* A prefix is a node above or the node itself.                            *)
LEMMA PrefixIsUnder ==
    ASSUME NEW p \in Path, NEW q \in Path
    PROVE  /\ Binary!IsPrefix(p, q) <=> Under(p, q)
           /\ Binary!IsAbove(p, q) <=> Under(p, q) /\ p # q
<1>1. /\ p \in Seq({0, 1}) /\ q \in Seq({0, 1}) /\ Len(p) \in Nat /\ Len(q) \in Nat
      /\ (\A n \in 1 .. Len(p) : p[n] \in {0, 1}) /\ (\A n \in 1 .. Len(q) : q[n] \in {0, 1})
  BY LenProperties, ElementOfSeq DEF Path
<1>2. ASSUME Len(p) <= Len(q)
      PROVE  SubSeq(p, 1, Len(p)) = SubSeq(q, 1, Len(p)) <=> \A n \in 1 .. Len(p) : q[n] = p[n]
  <2> DEFINE h == Len(p)
             a == SubSeq(p, 1, h)
             b == SubSeq(q, 1, h)
  <2>1. \A n \in 1 .. h : n \in 1 .. Len(p) /\ n \in 1 .. Len(q) /\ 1 + n - 1 = n
    BY <1>1, <1>2
  <2>2. h \in Nat /\ h - 1 + 1 = h /\ (IF 1 <= h THEN h - 1 + 1 ELSE 0) = h
    <3>1. h \in Nat
      BY <1>1
    <3> HIDE DEF h
    <3> QED BY <3>1
  <2>3. /\ a \in Seq({0, 1}) /\ Len(a) = h /\ \A n \in 1 .. h : a[n] = p[n]
        /\ b \in Seq({0, 1}) /\ Len(b) = h /\ \A n \in 1 .. h : b[n] = q[n]
    <3>1. /\ \A n \in 1 .. h : p[n] \in {0, 1}
          /\ \A n \in 1 .. h : q[n] \in {0, 1}
      BY <1>1, <2>1
    <3>2. /\ a \in Seq({0, 1}) /\ Len(a) = IF 1 <= h THEN h - 1 + 1 ELSE 0
          /\ \A n \in 1 .. h - 1 + 1 : a[n] = p[1 + n - 1]
      BY <1>1, <2>2, <3>1, SubSeqProperties
    <3>3. /\ b \in Seq({0, 1}) /\ Len(b) = IF 1 <= h THEN h - 1 + 1 ELSE 0
          /\ \A n \in 1 .. h - 1 + 1 : b[n] = q[1 + n - 1]
      BY <1>1, <2>2, <3>1, SubSeqProperties
    <3> HIDE DEF a, b, h
    <3> QED BY <2>1, <2>2, <3>2, <3>3
  <2> HIDE DEF a, b
  <2>4. a = b <=> \A n \in 1 .. h : a[n] = b[n]
    BY <2>3, SeqEqual
  <2> QED BY <2>3, <2>4 DEF a, b
<1>3. Binary!IsPrefix(p, q) <=> Under(p, q)
  BY <1>2 DEF Binary!IsPrefix, Under
<1> QED BY <1>3 DEF Binary!IsAbove, Binary!IsStrictPrefix

(* Where what is under the children of a node goes in each order.          *)
LEMMA ChildGoes ==
    ASSUME NEW p \in Path, NEW q \in Path
    PROVE  /\ Under(Append(p, 0), q) => /\ Binary!GoesFirst("pre_order", p, q)
                                        /\ Binary!GoesFirst("in_order", q, p)
           /\ Under(Append(p, 1), q) => /\ Binary!GoesFirst("pre_order", p, q)
                                        /\ Binary!GoesFirst("in_order", p, q)
           /\ Under(Append(p, 0), q) \/ Under(Append(p, 1), q) =>
                  \A op \in {"post_order", "free"} : Binary!GoesFirst(op, q, p)
<1>1. ASSUME NEW d \in {0, 1}, Under(Append(p, d), q)
      PROVE  Binary!IsAbove(p, q) /\ q[Len(p) + 1] = d
  <2>1. /\ Len(p) \in Nat /\ Len(Append(p, d)) = Len(p) + 1 /\ Append(p, d)[Len(p) + 1] = d
    BY Turned
  <2>2. Under(p, q) /\ q # p
    BY <1>1, UnderTurned
  <2>3. Len(p) + 1 \in 1 .. Len(Append(p, d))
    BY <2>1
  <2>4. q[Len(p) + 1] = d
    BY <1>1, <2>1, <2>3 DEF Under
  <2> QED BY <2>2, <2>4, PrefixIsUnder
<1> QED BY <1>1 DEF Binary!GoesFirst

(* What is under the left child goes before what is under the right one.   *)
LEMMA SidesGo ==
    ASSUME NEW p \in Path, NEW x \in Path, NEW y \in Path,
           Under(Append(p, 0), x), Under(Append(p, 1), y), NEW op
    PROVE  Binary!GoesFirst(op, x, y)
<1> DEFINE h == Len(p) + 1
<1>1. /\ h \in Nat /\ h >= 1 /\ Len(Append(p, 0)) = h /\ Append(p, 0)[h] = 0
      /\ Len(Append(p, 1)) = h /\ Append(p, 1)[h] = 1
      /\ \A n \in 1 .. h - 1 : Append(p, 0)[n] = Append(p, 1)[n]
  <2>1. h - 1 = Len(p) /\ Len(p) \in Nat
    BY Turned
  <2> QED BY <2>1, Turned
<1> HIDE DEF h
<1>2. /\ Len(x) \in Nat /\ Len(y) \in Nat /\ DOMAIN x = 1 .. Len(x) /\ h <= Len(x) /\ h <= Len(y)
      /\ x[h] = 0 /\ y[h] = 1 /\ \A n \in 1 .. h - 1 : x[n] = y[n]
  <2>1. Len(x) \in Nat /\ Len(y) \in Nat /\ DOMAIN x = 1 .. Len(x)
    BY LenProperties DEF Path
  <2>2. h \in 1 .. h /\ \A n \in 1 .. h - 1 : n \in 1 .. h
    BY <1>1
  <2> QED BY <1>1, <2>1, <2>2 DEF Under
<1>3. ~Under(x, y) /\ ~Under(y, x)
  <2>1. h \in 1 .. Len(x) /\ h \in 1 .. Len(y)
    BY <1>1, <1>2
  <2> QED BY <1>2, <2>1 DEF Under
<1> DEFINE IsFork(n) == x[n] # y[n] /\ \A m \in 1 .. n - 1 : x[m] = y[m]
           c == CHOOSE n \in DOMAIN x : IsFork(n)
<1>4. h \in DOMAIN x /\ IsFork(h)
  BY <1>1, <1>2
<1>5. c \in DOMAIN x /\ IsFork(c)
  <2> HIDE DEF IsFork
  <2> QED BY <1>4
<1>6. Binary!Fork(x, y) = c
  BY DEF Binary!Fork
<1> HIDE DEF c
<1>7. c = h
  <2>1. c \in 1 .. Len(x) /\ x[c] # y[c] /\ \A m \in 1 .. c - 1 : x[m] = y[m]
    BY <1>2, <1>5
  <2>2. c < h => c \in 1 .. h - 1
    BY <1>1, <2>1
  <2>3. h < c => h \in 1 .. c - 1
    BY <1>1, <2>1
  <2> QED BY <1>1, <1>2, <2>1, <2>2, <2>3
<1>8. Binary!IsLeftOf(x, y)
  BY <1>2, <1>3, <1>6, <1>7, PrefixIsUnder DEF Binary!IsLeftOf
<1> QED BY <1>8 DEF Binary!GoesFirst

(* A sequence whose elements go in one of the orders.                      *)
Going(op, s) == \A m, n \in 1 .. Len(s) : m < n => Binary!GoesFirst(op, s[m], s[n])

(* One behind another.                                                     *)
LEMMA GoingJoined ==
    ASSUME NEW op, NEW S, NEW Z, NEW s \in Seq(S), NEW t \in Seq(Z), Going(op, s), Going(op, t),
           \A x \in S, y \in Z : Binary!GoesFirst(op, x, y)
    PROVE  Going(op, s \o t)
<1> DEFINE c == s \o t
           a == Len(s)
           b == Len(t)
           U == S \cup Z
<1>1. a \in Nat /\ b \in Nat /\ s \in [1 .. a -> S] /\ t \in [1 .. b -> Z]
  BY LenProperties
<1>2. s \in Seq(U) /\ t \in Seq(U)
  <2>1. s \in [1 .. a -> U] /\ t \in [1 .. b -> U]
    BY <1>1
  <2> QED BY <1>1, <2>1, IntervalIsSeq
<1>3. /\ Len(c) = a + b
      /\ \A n \in 1 .. a + b : c[n] = IF n <= a THEN s[n] ELSE t[n - a]
  <2> HIDE DEF U
  <2> QED BY <1>2, ConcatProperties
<1> HIDE DEF c, a, b
<1>4. ASSUME NEW m \in 1 .. a + b, NEW n \in 1 .. a + b, m < n PROVE Binary!GoesFirst(op, c[m], c[n])
  <2>1. CASE n <= a
    <3>1. m \in 1 .. a /\ n \in 1 .. a /\ m <= a
      BY <1>1, <1>4, <2>1
    <3>2. c[m] = s[m] /\ c[n] = s[n]
      BY <1>3, <2>1, <3>1
    <3> QED BY <1>4, <3>1, <3>2 DEF Going, a
  <2>2. CASE m > a
    <3>1. m - a \in 1 .. b /\ n - a \in 1 .. b /\ m - a < n - a /\ ~ (m <= a) /\ ~ (n <= a)
      BY <1>1, <1>4, <2>2
    <3>2. c[m] = t[m - a] /\ c[n] = t[n - a]
      BY <1>3, <3>1
    <3> QED BY <3>1, <3>2 DEF Going, b
  <2>3. CASE m <= a /\ n > a
    <3>1. m \in 1 .. a /\ n - a \in 1 .. b /\ ~ (n <= a)
      BY <1>1, <1>4, <2>3
    <3>2. c[m] = s[m] /\ c[n] = t[n - a]
      BY <1>3, <2>3, <3>1
    <3>3. c[m] \in S /\ c[n] \in Z
      BY <1>1, <3>1, <3>2
    <3> QED BY <3>3
  <2> QED BY <1>1, <2>1, <2>2, <2>3
<1> QED BY <1>3, <1>4 DEF Going, c

(* The orders in which walks go, and the one of them that a release takes. *)
Orders == {"pre_order", "in_order", "post_order"}
Takes(op, kind) == op = kind \/ (op = "free" /\ kind = "post_order")

(* A node between, before or behind what is under its children.            *)
LEMMA WalkJoined ==
    ASSUME NEW kind \in Orders, NEW op, Takes(op, kind), NEW t, NEW u, NEW p \in Path, p \in DOMAIN t,
           NEW A \in SUBSET Path, \A x \in A : Under(Append(p, 0), x),
           NEW B \in SUBSET Path, \A x \in B : Under(Append(p, 1), x),
           NEW a, ListsOnce(a, A), Going(op, a), NEW b, ListsOnce(b, B), Going(op, b)
    PROVE  /\ ListsOnce(StepTo(kind, t, u, p, a, b), {p} \cup A \cup B)
           /\ Going(op, StepTo(kind, t, u, p, a, b))
<1>1. a \in Seq(A) /\ b \in Seq(B) /\ <<p>> \in Seq({p})
  BY ShortLists DEF ListsOnce
<1>2. ListsOnce(<<p>>, {p})
  BY ShortLists
<1>3. Going(op, <<p>>)
  <2>1. Len(<<p>>) = 1 /\ \A m, n \in 1 .. 1 : ~(m < n)
    OBVIOUS
  <2> QED BY <2>1 DEF Going
<1>4. A \cap B = {} /\ p \notin A /\ p \notin B
  BY UnderTurned
<1>5. \A x \in A, y \in B : Binary!GoesFirst(op, x, y)
  BY SidesGo
<1>6. CASE kind = "pre_order"
  <2>1. op = "pre_order" /\ StepTo(kind, t, u, p, a, b) = <<p>> \o a \o b
    BY <1>6 DEF Takes, StepTo
  <2>2. \A x \in A \cup B : Binary!GoesFirst(op, p, x)
    BY <2>1, ChildGoes
  <2>3. ListsOnce(<<p>> \o a, {p} \cup A) /\ Going(op, <<p>> \o a)
    <3>1. {p} \cap A = {} /\ \A x \in {p}, y \in A : Binary!GoesFirst(op, x, y)
      BY <1>4, <2>2
    <3> QED BY <1>1, <1>2, <1>3, <3>1, ListsJoined, GoingJoined
  <2>4. ListsOnce(<<p>> \o a \o b, ({p} \cup A) \cup B) /\ Going(op, <<p>> \o a \o b)
    <3>1. ({p} \cup A) \cap B = {} /\ \A x \in {p} \cup A, y \in B : Binary!GoesFirst(op, x, y)
      BY <1>4, <1>5, <2>2
    <3>2. <<p>> \o a \in Seq({p} \cup A)
      BY <2>3 DEF ListsOnce
    <3> QED BY <1>1, <2>3, <3>1, <3>2, ListsJoined, GoingJoined
  <2> QED BY <2>1, <2>4
<1>7. CASE kind = "in_order"
  <2>1. op = "in_order" /\ StepTo(kind, t, u, p, a, b) = a \o <<p>> \o b
    BY <1>7 DEF Takes, StepTo
  <2>2. (\A x \in A : Binary!GoesFirst(op, x, p)) /\ \A x \in B : Binary!GoesFirst(op, p, x)
    BY <2>1, ChildGoes
  <2>3. ListsOnce(a \o <<p>>, A \cup {p}) /\ Going(op, a \o <<p>>)
    <3>1. A \cap {p} = {} /\ \A x \in A, y \in {p} : Binary!GoesFirst(op, x, y)
      BY <1>4, <2>2
    <3> QED BY <1>1, <1>2, <1>3, <3>1, ListsJoined, GoingJoined
  <2>4. ListsOnce(a \o <<p>> \o b, (A \cup {p}) \cup B) /\ Going(op, a \o <<p>> \o b)
    <3>1. (A \cup {p}) \cap B = {} /\ \A x \in A \cup {p}, y \in B : Binary!GoesFirst(op, x, y)
      BY <1>4, <1>5, <2>2
    <3>2. a \o <<p>> \in Seq(A \cup {p})
      BY <2>3 DEF ListsOnce
    <3> QED BY <1>1, <2>3, <3>1, <3>2, ListsJoined, GoingJoined
  <2>5. (A \cup {p}) \cup B = {p} \cup A \cup B
    OBVIOUS
  <2> QED BY <2>1, <2>4, <2>5
<1>8. CASE kind = "post_order"
  <2>1. op \in {"post_order", "free"} /\ StepTo(kind, t, u, p, a, b) = a \o b \o <<p>>
    BY <1>8 DEF Takes, StepTo
  <2>2. \A x \in A \cup B : Binary!GoesFirst(op, x, p)
    BY <2>1, ChildGoes
  <2>3. ListsOnce(a \o b, A \cup B) /\ Going(op, a \o b)
    BY <1>1, <1>4, <1>5, ListsJoined, GoingJoined
  <2>4. ListsOnce(a \o b \o <<p>>, (A \cup B) \cup {p}) /\ Going(op, a \o b \o <<p>>)
    <3>1. (A \cup B) \cap {p} = {} /\ \A x \in A \cup B, y \in {p} : Binary!GoesFirst(op, x, y)
      BY <1>4, <2>2
    <3>2. a \o b \in Seq(A \cup B)
      BY <2>3 DEF ListsOnce
    <3> QED BY <1>1, <1>2, <1>3, <2>3, <3>1, <3>2, ListsJoined, GoingJoined
  <2>5. (A \cup B) \cup {p} = {p} \cup A \cup B
    OBVIOUS
  <2> QED BY <2>1, <2>4, <2>5
<1> QED BY <1>6, <1>7, <1>8 DEF Orders

(* From the leaves to the root: what a child has if its paths are in P.    *)
LEMMA UpToRoot ==
    ASSUME NEW t, Rooted(DOMAIN t, MaxNodes), NEW P,
           \A p \in Binary!Paths : p \notin DOMAIN t => p \in P,
           \A p \in Binary!Paths :
              /\ p \in DOMAIN t
              /\ Append(p, 0) \in P /\ Append(p, 0) \in Binary!Paths
              /\ Append(p, 1) \in P /\ Append(p, 1) \in Binary!Paths
              => p \in P
    PROVE  <<>> \in P
<1> DEFINE N == MaxNodes
           R == {h \in 0 .. N : \A p \in Binary!Paths : N - Len(p) <= h => p \in P}
<1>1. N \in Nat /\ \A p \in Binary!Paths : p \in Path /\ Len(p) \in 0 .. N
  BY PathsAre
<1>2. \A p \in DOMAIN t : Len(p) < N
  BY DEF Rooted
<1> HIDE DEF N
<1>3. 0 \in R
  <2>1. ASSUME NEW p \in Binary!Paths, N - Len(p) <= 0 PROVE p \in P
    <3>1. p \notin DOMAIN t
      BY <1>1, <1>2, <2>1
    <3> QED BY <3>1
  <2> QED BY <1>1, <2>1
<1>4. ASSUME NEW h \in 0 .. N - 1, h \in R PROVE h + 1 \in R
  <2>1. ASSUME NEW p \in Binary!Paths, N - Len(p) <= h + 1 PROVE p \in P
    <3>1. CASE p \in DOMAIN t
      <4>1. ASSUME NEW d \in {0, 1} PROVE Append(p, d) \in P /\ Append(p, d) \in Binary!Paths
        <5>1. Append(p, d) \in Path /\ Len(Append(p, d)) = Len(p) + 1 /\ Len(p) \in 0 .. N /\ Len(p) < N
          BY <1>1, <1>2, <3>1, Turned
        <5>2. Len(Append(p, d)) \in 0 .. N /\ N - Len(Append(p, d)) <= h
          BY <1>1, <2>1, <5>1
        <5>3. Append(p, d) \in Binary!Paths
          BY <5>1, <5>2, PathsAre DEF N
        <5> QED BY <1>4, <5>2, <5>3
      <4> QED BY <3>1, <4>1
    <3>2. CASE p \notin DOMAIN t
      BY <3>2
    <3> QED BY <3>1, <3>2
  <2>2. h + 1 \in 0 .. N
    BY <1>1, <1>4
  <2> QED BY <2>1, <2>2
<1>5. N \in R
  <2> HIDE DEF R
  <2>1. \A h \in 0 .. N : h \in R
    BY <1>1, <1>3, <1>4, InductionTo
  <2> QED BY <1>1, <2>1
<1>6. <<>> \in Binary!Paths /\ N - Len(<<>>) <= N
  <2>1. Len(<<>>) \in 0 .. N /\ N - Len(<<>>) <= N
    BY <1>1, RootIs
  <2> QED BY <2>1, RootIs, PathsAre DEF N
<1> QED BY <1>5, <1>6

(* A walk gives the nodes, each once, in its order.                        *)
LEMMA WalkLists ==
    ASSUME NEW kind \in Orders, NEW op, Takes(op, kind), NEW t, NEW u, Rooted(DOMAIN t, MaxNodes),
           NEW f, Answering(f, kind, t, u)
    PROVE  ListsOnce(f[<<>>], DOMAIN t) /\ Going(op, f[<<>>])
<1> DEFINE D == DOMAIN t
           Beneath(p) == {q \in D : Under(p, q)}
           P == {p \in Binary!Paths : ListsOnce(f[p], Beneath(p)) /\ Going(op, f[p])}
<1>1. \A p \in Binary!Paths : f[p] = StepTo(kind, t, u, p, f[Append(p, 0)], f[Append(p, 1)])
  BY DEF Answering, Binary!LeftOf, Binary!RightOf
<1>2. \A p \in Binary!Paths : p \in Path
  BY PathsAre
<1>3. D \subseteq Path /\ \A q \in D : \A p \in Path : Under(p, q) => p \in D
  BY DEF Rooted
<1>4. ASSUME NEW p \in Binary!Paths, p \notin D PROVE p \in P
  <2>1. f[p] = <<>>
    BY <1>1, <1>4 DEF StepTo, Orders
  <2>2. Beneath(p) = {}
    BY <1>2, <1>3, <1>4
  <2>3. Going(op, <<>>)
    <3>1. Len(<<>>) = 0 /\ \A m \in 1 .. 0 : FALSE
      BY EmptySeq
    <3> QED BY <3>1 DEF Going
  <2> QED BY <2>1, <2>2, <2>3, ShortLists
<1>5. ASSUME NEW p \in Binary!Paths, p \in D, Append(p, 0) \in P, Append(p, 1) \in P PROVE p \in P
  <2> DEFINE A == Beneath(Append(p, 0))
             B == Beneath(Append(p, 1))
  <2>1. /\ ListsOnce(f[Append(p, 0)], A) /\ Going(op, f[Append(p, 0)])
        /\ ListsOnce(f[Append(p, 1)], B) /\ Going(op, f[Append(p, 1)])
    BY <1>5
  <2>2. A \in SUBSET Path /\ B \in SUBSET Path
    BY <1>3
  <2>3. (\A x \in A : Under(Append(p, 0), x)) /\ (\A x \in B : Under(Append(p, 1), x))
    OBVIOUS
  <2>4. Beneath(p) = {p} \cup A \cup B
    <3>1. p \in Path /\ \A q \in D : q \in Path
      BY <1>2, <1>3
    <3> QED BY <1>5, <3>1, UnderTurned
  <2> HIDE DEF A, B, Beneath
  <2>5. ListsOnce(f[p], {p} \cup A \cup B) /\ Going(op, f[p])
    <3>1. p \in Path /\ p \in DOMAIN t /\ f[p] = StepTo(kind, t, u, p, f[Append(p, 0)], f[Append(p, 1)])
      BY <1>1, <1>2, <1>5
    <3> QED BY <2>1, <2>2, <2>3, <3>1, WalkJoined
  <2> QED BY <2>4, <2>5
<1>6. <<>> \in P
  <2> HIDE DEF P
  <2> QED BY <1>4, <1>5, UpToRoot
<1>7. Beneath(<<>>) = D
  BY <1>3, RootIs
<1> QED BY <1>6, <1>7

(* Two trees have the same nodes with the same data from p on.             *)
SameFrom(t, u, p) ==
    \A q \in Path : Under(p, q) => /\ q \in DOMAIN t <=> q \in DOMAIN u
                                   /\ q \in DOMAIN t => t[q] = u[q]

(* The comparison answers that.                                            *)
LEMMA SameDecides ==
    ASSUME NEW t, Rooted(DOMAIN t, MaxNodes), NEW u, NEW m, Rooted(DOMAIN u, m),
           t = [p \in DOMAIN t |-> t[p]], u = [p \in DOMAIN u |-> u[p]]
    PROVE  Binary!SameNodes(t, u) <=> u = t
<1> DEFINE IsF(f) == f = [p \in Binary!Paths |->
                             IF p \notin DOMAIN t /\ p \notin DOMAIN u THEN TRUE
                             ELSE /\ p \in DOMAIN t /\ p \in DOMAIN u /\ t[p] = u[p]
                                  /\ f[Binary!LeftOf(p)] /\ f[Binary!RightOf(p)]]
           F == CHOOSE f : IsF(f)
           P == {p \in Binary!Paths : F[p] \in BOOLEAN /\ (F[p] <=> SameFrom(t, u, p))}
<1>1. PICK f : IsFold(f, "same", t, u)
  BY FoldExists DEF Kinds
<1>2. IsF(f)
  BY <1>1 DEF IsFold, StepTo
<1>3. IsF(F)
  <2> HIDE DEF IsF
  <2> QED BY <1>2
<1>4. Binary!SameNodes(t, u) = F[<<>>]
  BY DEF Binary!SameNodes, Binary!Root
<1>5. \A p \in Binary!Paths :
         F[p] = IF p \notin DOMAIN t /\ p \notin DOMAIN u THEN TRUE
                ELSE p \in DOMAIN t /\ p \in DOMAIN u /\ t[p] = u[p]
                     /\ F[Append(p, 0)] /\ F[Append(p, 1)]
  <2> HIDE DEF F
  <2> QED BY <1>3 DEF Binary!LeftOf, Binary!RightOf
<1> HIDE DEF F, IsF
<1>6. \A p \in Binary!Paths : p \in Path
  BY PathsAre
<1>7. /\ DOMAIN t \subseteq Path /\ \A q \in DOMAIN t : \A p \in Path : Under(p, q) => p \in DOMAIN t
      /\ DOMAIN u \subseteq Path /\ \A q \in DOMAIN u : \A p \in Path : Under(p, q) => p \in DOMAIN u
  BY DEF Rooted
<1>8. ASSUME NEW p \in Binary!Paths, p \notin DOMAIN t PROVE p \in P
  <2>1. p \in Path /\ Under(p, p)
    BY <1>6, UnderTurned
  <2>2. CASE p \in DOMAIN u
    <3>1. F[p] = FALSE
      BY <1>5, <1>8, <2>2
    <3>2. ~SameFrom(t, u, p)
      BY <1>8, <2>1, <2>2 DEF SameFrom
    <3> QED BY <3>1, <3>2
  <2>3. CASE p \notin DOMAIN u
    <3>1. F[p] = TRUE
      BY <1>5, <1>8, <2>3
    <3>2. SameFrom(t, u, p)
      BY <1>7, <1>8, <2>1, <2>3 DEF SameFrom
    <3> QED BY <3>1, <3>2
  <2> QED BY <2>2, <2>3
<1>9. ASSUME NEW p \in Binary!Paths, p \in DOMAIN t, Append(p, 0) \in P, Append(p, 1) \in P
      PROVE  p \in P
  <2>1. p \in Path /\ Under(p, p)
    BY <1>6, UnderTurned
  <2>2. CASE ~(p \in DOMAIN u /\ t[p] = u[p])
    <3>1. F[p] = FALSE
      BY <1>5, <1>9, <2>2
    <3>2. ~SameFrom(t, u, p)
      BY <1>9, <2>1, <2>2 DEF SameFrom
    <3> QED BY <3>1, <3>2
  <2>3. CASE p \in DOMAIN u /\ t[p] = u[p]
    <3>1. F[p] = (F[Append(p, 0)] /\ F[Append(p, 1)])
      BY <1>5, <1>9, <2>3
    <3>2. SameFrom(t, u, p) <=> SameFrom(t, u, Append(p, 0)) /\ SameFrom(t, u, Append(p, 1))
      BY <1>9, <2>1, <2>3, UnderTurned DEF SameFrom
    <3> QED BY <1>9, <3>1, <3>2
  <2> QED BY <2>2, <2>3
<1>10. F[<<>>] <=> SameFrom(t, u, <<>>)
  <2>1. <<>> \in P
    <3> HIDE DEF P
    <3> QED BY <1>8, <1>9, UpToRoot
  <2> QED BY <2>1
<1>11. SameFrom(t, u, <<>>) <=> u = t
  <2>1. ASSUME SameFrom(t, u, <<>>) PROVE u = t
    <3>1. \A q \in Path : /\ q \in DOMAIN t <=> q \in DOMAIN u
                          /\ q \in DOMAIN t => t[q] = u[q]
      BY <2>1, RootIs DEF SameFrom
    <3>2. DOMAIN t = DOMAIN u
      BY <1>7, <3>1
    <3>3. \A q \in DOMAIN t : t[q] = u[q]
      BY <1>7, <3>1
    <3> QED BY <3>2, <3>3
  <2>2. ASSUME u = t PROVE SameFrom(t, u, <<>>)
    BY <2>2 DEF SameFrom
  <2> QED BY <2>1, <2>2
<1> QED BY <1>4, <1>10, <1>11

(* A line of nodes as the search keeps it: from level to level and from    *)
(* left to right, and none at the place of a child of the first or behind. *)
Lined(q) ==
    /\ q \in Seq(Path)
    /\ \A m, n \in 1 .. Len(q) : m < n => Binary!Level(q[m]) < Binary!Level(q[n])
    /\ \A n \in 1 .. Len(q) : Binary!Level(q[n]) < 2 * Binary!Level(q[1])

(* The short lines.                                                        *)
LEMMA ShortLines == Lined(<<>>) /\ \A p \in Path : Lined(<<p>>)
<1>1. Lined(<<>>)
  <2>1. <<>> \in Seq(Path) /\ Len(<<>>) = 0 /\ \A n \in 1 .. 0 : FALSE
    BY EmptySeq
  <2> QED BY <2>1 DEF Lined
<1>2. ASSUME NEW p \in Path PROVE Lined(<<p>>)
  <2> DEFINE q == <<p>>
  <2>1. q \in Seq(Path) /\ Len(q) = 1 /\ q[1] = p
    OBVIOUS
  <2>2. Binary!Level(p) \in Nat \ {0}
    BY LevelTurned
  <2> HIDE DEF q
  <2>3. \A n \in 1 .. 1 : n = 1
    OBVIOUS
  <2>4. Binary!Level(p) < 2 * Binary!Level(p)
    BY <2>2
  <2>5. Lined(q)
    BY <2>1, <2>3, <2>4 DEF Lined
  <2> QED BY <2>5 DEF q
<1> QED BY <1>1, <1>2

(* The children that go in line, by their numbers.                         *)
LEMMA InLineIs ==
    ASSUME NEW p \in Path, NEW K \in SUBSET {Append(p, 0), Append(p, 1)}
    PROVE  LET w == Binary!InLine(p, K)
           IN  /\ w \in Seq(Path)
               /\ \A n \in 1 .. Len(w) :
                  /\ w[n] \in K
                  /\ Binary!Level(w[n]) \in 2 * Binary!Level(p) .. 2 * Binary!Level(p) + 1
               /\ \A m, n \in 1 .. Len(w) : m < n => Binary!Level(w[m]) < Binary!Level(w[n])
               /\ \A x \in K : \E n \in 1 .. Len(w) : w[n] = x
<1> DEFINE a == Append(p, 0)
           b == Append(p, 1)
           w == Binary!InLine(p, K)
           h == Binary!Level(p)
<1>1. /\ a \in Path /\ b \in Path
      /\ h \in Nat \ {0} /\ Binary!Level(a) = 2 * h /\ Binary!Level(b) = 2 * h + 1
  <2>1. Binary!Level(a) = 2 * h + 0 /\ Binary!Level(b) = 2 * h + 1 /\ h \in Nat \ {0}
    BY LevelTurned
  <2> QED BY <2>1, Turned
<1>2. w = (IF a \in K THEN <<a>> ELSE <<>>) \o (IF b \in K THEN <<b>> ELSE <<>>)
  BY DEF Binary!InLine, Binary!LeftOf, Binary!RightOf
<1>3. K \subseteq {a, b}
  OBVIOUS
<1> HIDE DEF a, b, w, h
<1>4. CASE a \in K /\ b \in K
  <2>1. w = <<a>> \o <<b>>
    BY <1>2, <1>4
  <2>2. /\ <<a>> \in Seq(Path) /\ Len(<<a>>) = 1 /\ <<a>>[1] = a
        /\ <<b>> \in Seq(Path) /\ Len(<<b>>) = 1 /\ <<b>>[1] = b
    BY <1>1
  <2>3. w \in Seq(Path) /\ Len(w) = 2 /\ w[1] = a /\ w[2] = b
    <3>1. 1 \in 1 .. 1 + 1 /\ 2 \in 1 .. 1 + 1 /\ 1 <= 1 /\ ~(2 <= 1) /\ 1 + 1 = 2 /\ 2 - 1 = 1
      OBVIOUS
    <3> QED BY <2>1, <2>2, <3>1, ConcatProperties
  <2>4. (\A n \in 1 .. 2 : n = 1 \/ n = 2) /\ 1 \in 1 .. 2 /\ 2 \in 1 .. 2
    OBVIOUS
  <2> QED BY <1>1, <1>3, <1>4, <2>3, <2>4 DEF w, h
<1>5. CASE a \in K /\ b \notin K
  <2>1. w = <<a>>
    BY <1>2, <1>5
  <2>2. w \in Seq(Path) /\ Len(w) = 1 /\ w[1] = a
    BY <1>1, <2>1
  <2>3. (\A n \in 1 .. 1 : n = 1) /\ 1 \in 1 .. 1
    OBVIOUS
  <2> QED BY <1>1, <1>3, <1>5, <2>2, <2>3 DEF w, h
<1>6. CASE a \notin K /\ b \in K
  <2>1. w = <<b>>
    BY <1>2, <1>6
  <2>2. w \in Seq(Path) /\ Len(w) = 1 /\ w[1] = b
    BY <1>1, <2>1
  <2>3. (\A n \in 1 .. 1 : n = 1) /\ 1 \in 1 .. 1
    OBVIOUS
  <2> QED BY <1>1, <1>3, <1>6, <2>2, <2>3 DEF w, h
<1>7. CASE a \notin K /\ b \notin K
  <2>1. w = <<>>
    BY <1>2, <1>7
  <2>2. w \in Seq(Path) /\ Len(w) = 0 /\ (\A n \in 1 .. 0 : FALSE)
    BY <2>1, EmptySeq
  <2> QED BY <1>3, <1>7, <2>2 DEF w, h
<1> QED BY <1>4, <1>5, <1>6, <1>7

(* The first of a line, q, taken out and children of it put behind the     *)
(* others, which makes it r.                                               *)
Moves(q, K, r) ==
    /\ q[1] \in Path /\ 1 \in 1 .. Len(q) /\ Lined(r)
    /\ \A n \in 1 .. Len(r) : Binary!Level(q[1]) < Binary!Level(r[n])
    /\ \A x : (\E n \in 1 .. Len(q) : q[n] = x) \/ x \in K
                => x = q[1] \/ \E n \in 1 .. Len(r) : r[n] = x

(* It stays a line.                                                        *)
LEMMA LineMoves ==
    ASSUME NEW q, Lined(q), q # <<>>, NEW K \in SUBSET {Append(q[1], 0), Append(q[1], 1)},
           NEW r, r = Tail(q) \o Binary!InLine(q[1], K)
    PROVE  Moves(q, K, r)
<1> DEFINE t == Tail(q)
           w == Binary!InLine(q[1], K)
           a == Len(q) - 1
           b == Len(w)
           L(x) == Binary!Level(x)
           h == L(q[1])
<1>1. q \in Seq(Path) /\ Len(q) \in Nat \ {0} /\ 1 \in 1 .. Len(q) /\ \A n \in 1 .. Len(q) : q[n] \in Path
  BY LenProperties, EmptySeq, ElementOfSeq DEF Lined
<1>2. /\ t \in Seq(Path) /\ Len(t) = a /\ \A n \in 1 .. a : t[n] = q[n + 1]
      /\ a \in Nat /\ Len(q) = a + 1
  BY <1>1, HeadTailProperties
<1>3. /\ w \in Seq(Path) /\ b \in Nat
      /\ \A n \in 1 .. b : w[n] \in K /\ L(w[n]) \in 2 * h .. 2 * h + 1
      /\ \A m, n \in 1 .. b : m < n => L(w[m]) < L(w[n])
      /\ \A x \in K : \E n \in 1 .. b : w[n] = x
  <2>1. q[1] \in Path
    BY <1>1
  <2> QED BY <2>1, InLineIs, LenProperties
<1>4. /\ \A m, n \in 1 .. a + 1 : m < n => L(q[m]) < L(q[n])
      /\ \A n \in 1 .. a + 1 : L(q[n]) < 2 * h
  BY <1>2 DEF Lined
<1>5. (\A n \in 1 .. a + 1 : L(q[n]) \in Nat \ {0}) /\ h \in Nat \ {0}
  BY <1>1, <1>2, LevelTurned
<1>6. /\ r \in Seq(Path) /\ Len(r) = a + b
      /\ \A n \in 1 .. a + b : r[n] = IF n <= a THEN t[n] ELSE w[n - a]
  BY <1>2, <1>3, ConcatProperties
<1> HIDE DEF t, w, a, b, L, h
<1>8. ASSUME NEW n \in 1 .. a + b
      PROVE  \/ n <= a /\ n + 1 \in 1 .. a + 1 /\ r[n] = q[n + 1]
             \/ ~ (n <= a) /\ n - a \in 1 .. b /\ r[n] = w[n - a]
  <2>1. n <= a => n \in 1 .. a /\ n + 1 \in 1 .. a + 1
    BY <1>2, <1>3
  <2>2. ~ (n <= a) => n - a \in 1 .. b
    BY <1>2, <1>3
  <2>3. r[n] = IF n <= a THEN t[n] ELSE w[n - a]
    BY <1>6
  <2>4. n <= a => r[n] = q[n + 1]
    BY <1>2, <2>1, <2>3
  <2> QED BY <2>1, <2>2, <2>3, <2>4
<1>9. ASSUME NEW n \in 1 .. a PROVE n + 1 \in 1 .. a + 1 /\ 1 < n + 1 /\ n \in 1 .. a + b /\ r[n] = q[n + 1]
  BY <1>2, <1>3, <1>6, <1>9
<1>10. ASSUME NEW n \in 1 .. b PROVE n + a \in 1 .. a + b /\ r[n + a] = w[n]
  <2>1. n + a \in 1 .. a + b /\ ~ (n + a <= a) /\ (n + a) - a = n
    BY <1>2, <1>3
  <2> QED BY <1>6, <2>1
<1>11. ASSUME NEW n \in 1 .. a + b
       PROVE  L(r[n]) \in Nat /\ h < L(r[n])
  <2>1. CASE n <= a
    <3>1. r[n] = q[n + 1] /\ n + 1 \in 1 .. a + 1 /\ 1 < n + 1 /\ 1 \in 1 .. a + 1
      BY <1>2, <1>8, <2>1
    <3>2. L(q[1]) < L(q[n + 1]) /\ L(q[n + 1]) \in Nat
      BY <1>4, <1>5, <3>1
    <3>3. L(r[n]) = L(q[n + 1]) /\ h = L(q[1])
      BY <3>1 DEF h
    <3> QED BY <3>2, <3>3, Zenon
  <2>2. CASE ~ (n <= a)
    <3>1. n - a \in 1 .. b /\ r[n] = w[n - a]
      BY <1>8, <2>2
    <3>2. L(w[n - a]) \in 2 * h .. 2 * h + 1
      BY <1>3, <3>1
    <3>3. \A x \in 2 * h .. 2 * h + 1 : x \in Nat /\ h < x
      BY <1>5
    <3>4. L(r[n]) = L(w[n - a])
      BY <3>1
    <3> QED BY <3>2, <3>3, <3>4, Zenon
  <2> QED BY <2>1, <2>2
<1>12. ASSUME NEW m \in 1 .. a + b, NEW n \in 1 .. a + b, m < n PROVE L(r[m]) < L(r[n])
  <2>1. CASE n <= a
    <3>1. m <= a /\ m + 1 < n + 1
      BY <1>2, <1>12, <2>1
    <3>2. /\ m + 1 \in 1 .. a + 1 /\ r[m] = q[m + 1]
          /\ n + 1 \in 1 .. a + 1 /\ r[n] = q[n + 1]
      BY <1>8, <2>1, <3>1
    <3> QED BY <1>4, <3>1, <3>2
  <2>2. CASE m <= a /\ ~ (n <= a)
    <3>1. /\ m + 1 \in 1 .. a + 1 /\ r[m] = q[m + 1]
          /\ n - a \in 1 .. b /\ r[n] = w[n - a]
      BY <1>8, <2>2
    <3>2. L(q[m + 1]) < 2 * h /\ L(q[m + 1]) \in Nat /\ L(w[n - a]) \in 2 * h .. 2 * h + 1
      BY <1>3, <1>4, <1>5, <3>1
    <3>3. L(q[m + 1]) < L(w[n - a])
      BY <1>5, <3>2
    <3> QED BY <3>1, <3>3
  <2>3. CASE ~ (m <= a)
    <3>1. ~ (n <= a)
      BY <1>2, <1>12, <2>3
    <3>2. /\ m - a \in 1 .. b /\ r[m] = w[m - a]
          /\ n - a \in 1 .. b /\ r[n] = w[n - a]
      BY <1>8, <2>3, <3>1
    <3>3. m - a < n - a
      BY <1>2, <1>12
    <3> QED BY <1>3, <3>2, <3>3
  <2> QED BY <2>1, <2>2, <2>3
<1>13. ASSUME NEW n \in 1 .. a + b PROVE L(r[n]) < 2 * L(r[1])
  <2>1. L(r[n]) \in Nat /\ 1 \in 1 .. a + b /\ L(r[1]) \in Nat /\ h < L(r[1])
    <3>1. 1 \in 1 .. a + b
      BY <1>2, <1>3
    <3> QED BY <1>11, <3>1
  <2>2. L(r[n]) <= 2 * h + 1
    <3>1. CASE n <= a
      <4>1. r[n] = q[n + 1] /\ n + 1 \in 1 .. a + 1
        BY <1>8, <3>1
      <4>2. L(q[n + 1]) < 2 * h /\ L(q[n + 1]) \in Nat
        BY <1>4, <1>5, <4>1
      <4>3. \A x \in Nat : x < 2 * h => x <= 2 * h + 1
        BY <1>5
      <4>4. L(r[n]) = L(q[n + 1])
        BY <4>1
      <4> QED BY <4>2, <4>3, <4>4, Zenon
    <3>2. CASE ~ (n <= a)
      <4>1. n - a \in 1 .. b /\ r[n] = w[n - a]
        BY <1>8, <3>2
      <4>2. L(w[n - a]) \in 2 * h .. 2 * h + 1
        BY <1>3, <4>1
      <4>3. \A x \in 2 * h .. 2 * h + 1 : x <= 2 * h + 1
        BY <1>5
      <4>4. L(r[n]) = L(w[n - a])
        BY <4>1
      <4> QED BY <4>2, <4>3, <4>4, Zenon
    <3> QED BY <3>1, <3>2
  <2>3. \A x, y \in Nat : h < y /\ x <= 2 * h + 1 => x < 2 * y
    BY <1>5
  <2> QED BY <2>1, <2>2, <2>3
<1>14. Lined(r)
  BY <1>6, <1>12, <1>13 DEF Lined, L
<1>15. ASSUME NEW n \in 1 .. Len(q) PROVE q[n] = q[1] \/ \E m \in 1 .. Len(r) : r[m] = q[n]
  <2>1. CASE n = 1
    BY <2>1
  <2>2. CASE n # 1
    <3>1. n - 1 \in 1 .. a /\ (n - 1) + 1 = n
      BY <1>2, <2>2
    <3>2. n - 1 \in 1 .. a + b /\ r[n - 1] = q[n]
      BY <1>9, <3>1
    <3> QED BY <1>6, <3>2
  <2> QED BY <2>1, <2>2
<1>16. ASSUME NEW x \in K PROVE \E m \in 1 .. Len(r) : r[m] = x
  <2>1. PICK n \in 1 .. b : w[n] = x
    BY <1>3
  <2>2. n + a \in 1 .. a + b /\ r[n + a] = x
    BY <1>10, <2>1
  <2> QED BY <1>6, <2>2
<1>17. \A n \in 1 .. Len(r) : L(q[1]) < L(r[n])
  BY <1>6, <1>11 DEF h
<1>18. \A x : (\E n \in 1 .. Len(q) : q[n] = x) \/ x \in K
              => x = q[1] \/ \E n \in 1 .. Len(r) : r[n] = x
  <2>1. ASSUME NEW x, NEW n \in 1 .. Len(q), q[n] = x PROVE x = q[1] \/ \E m \in 1 .. Len(r) : r[m] = x
    BY <1>15, <2>1, Zenon
  <2> QED BY <1>16, <2>1
<1>19. q[1] \in Path
  BY <1>1
<1> QED BY <1>1, <1>14, <1>17, <1>18, <1>19 DEF L, Moves

(* The search is on its way to every node of D from what it went past, V,  *)
(* and what is in line.                                                    *)
InLineOrPassed(q, V) == V \cup {q[n] : n \in 1 .. Len(q)}
Reaches(q, V, D) ==
    /\ <<>> \in InLineOrPassed(q, V)
    /\ \A p \in V : \A d \in {0, 1} : Append(p, d) \in D => Append(p, d) \in InLineOrPassed(q, V)

(* When nothing is in line any more it has been everywhere: a shortest     *)
(* path left out would be a child of one that is not.                      *)
LEMMA ReachesAll ==
    ASSUME NEW D, NEW m, Rooted(D, m), NEW V, Reaches(<<>>, V, D)
    PROVE  D \subseteq V
<1> DEFINE lengths == {Len(p) : p \in D \ V}
<1> SUFFICES ASSUME D \ V # {} PROVE FALSE
  OBVIOUS
<1>1. <<>> \in V /\ \A p \in V : \A d \in {0, 1} : Append(p, d) \in D => Append(p, d) \in V
  <2>1. \A n \in 1 .. Len(<<>>) : FALSE
    BY RootIs
  <2> QED BY <2>1 DEF Reaches, InLineOrPassed
<1>2. D \subseteq Path /\ \A q \in D : \A p \in Path : Under(p, q) => p \in D
  BY DEF Rooted
<1>3. \E h \in lengths : \A n \in lengths : h <= n
  <2>1. lengths \in SUBSET Nat /\ lengths # {}
    BY <1>2, LenProperties DEF Path
  <2> HIDE DEF lengths
  <2> QED BY <2>1, LeastNatural
<1>4. PICK h \in lengths : \A n \in lengths : h <= n
  BY <1>3
<1>5. PICK q \in D \ V : Len(q) = h
  BY <1>4
<1>6. \E p \in Path, d \in {0, 1} : q = Append(p, d)
  <2>1. q \in Seq({0, 1}) /\ q # <<>>
    BY <1>1, <1>2, <1>5 DEF Path
  <2>2. \E p \in Seq({0, 1}), d \in {0, 1} : q = Append(p, d)
    BY <2>1, SequenceEmptyOrAppend
  <2> QED BY <2>2 DEF Path
<1>7. PICK p \in Path, d \in {0, 1} : q = Append(p, d)
  BY <1>6
<1>8. Len(p) \in Nat /\ Len(q) = Len(p) + 1 /\ Under(p, q) /\ p \in D
  <2>1. q \in Path /\ Under(q, q)
    BY <1>2, <1>5, UnderTurned
  <2>2. Under(Append(p, d), q)
    BY <1>7, <2>1
  <2>3. d = 0 \/ d = 1
    OBVIOUS
  <2>4. Under(p, q)
    BY <2>1, <2>2, <2>3, UnderTurned
  <2> QED BY <1>2, <1>5, <1>7, <2>4, Turned
<1>9. p \notin V
  BY <1>1, <1>5, <1>7
<1>10. h <= Len(p)
  BY <1>4, <1>8, <1>9
<1> QED BY <1>5, <1>8, <1>10

(* Between the calls, and the steps of a search, the binary tree is one    *)
(* the client can have linked and the last answer holds; what a search     *)
(* went past is in the tree, has not what it looks for and lies before     *)
(* what is in line; and with no failure it still reaches every node.       *)
BinaryInv ==
    /\ tree \in Binary!TreesUpTo(MaxNodes) /\ freed \in BOOLEAN /\ lost \in BOOLEAN
    /\ Lined(queue) /\ visited \subseteq DOMAIN tree
    /\ \A p \in visited : \A n \in 1 .. Len(queue) : Binary!Level(p) < Binary!Level(queue[n])
    /\ needle # Null => \A p \in visited : tree[p] # needle
    /\ needle # Null /\ ~lost => Reaches(queue, visited, DOMAIN tree)
    /\ reply.op = "bfs" /\ reply.found => \E p \in DOMAIN tree : tree[p] = reply.out
    /\ reply.op = "bfs" /\ ~reply.found /\ needle = Null /\ ~lost =>
           \A p \in DOMAIN tree : tree[p] # reply.out
    /\ Binary!CompareDecides /\ Binary!WalksInOrder

(* The tree of the invariant.                                              *)
LEMMA TreeIs ==
    ASSUME BinaryInv
    PROVE  Rooted(DOMAIN tree, MaxNodes) /\ tree \in [DOMAIN tree -> Data]
<1>1. MaxNodes \in Nat /\ tree \in Binary!TreesUpTo(MaxNodes)
  BY PathsAre DEF BinaryInv
<1> QED BY <1>1, TreesAreRooted

(* What MCAlgorithms' Answers says of the binary tree.                     *)
LEMMA BinaryImplies ==
    ASSUME BinaryInv
    PROVE  /\ Binary!LevelOrder /\ Binary!BfsDecides
           /\ Binary!CompareDecides /\ Binary!WalksInOrder
<1>1. queue \in Seq(Path) /\ DOMAIN queue = 1 .. Len(queue)
  BY LenProperties DEF BinaryInv, Lined
<1>2. Binary!LevelOrder
  BY <1>1 DEF BinaryInv, Lined, Binary!LevelOrder
<1>3. ASSUME needle # Null, ~lost, NEW p \in visited
      PROVE  Binary!Children(p) \subseteq visited \cup Binary!ToSet(queue)
  <2>1. Reaches(queue, visited, DOMAIN tree)
    BY <1>3 DEF BinaryInv
  <2>2. InLineOrPassed(queue, visited) = visited \cup Binary!ToSet(queue)
    BY <1>1 DEF InLineOrPassed, Binary!ToSet
  <2> QED BY <1>3, <2>1, <2>2 DEF Reaches, Binary!Children, Binary!LeftOf, Binary!RightOf
<1>4. Binary!BfsDecides
  BY <1>3 DEF BinaryInv, Binary!BfsDecides
<1> QED BY <1>2, <1>4 DEF BinaryInv

(* A tree handed over by the client.                                       *)
LEMMA BinaryInit == Binary!Init => BinaryInv
<1> SUFFICES ASSUME Binary!Init PROVE BinaryInv
  OBVIOUS
<1>1. /\ tree \in Binary!TreesUpTo(MaxNodes) /\ freed = FALSE /\ lost = FALSE
      /\ queue = <<>> /\ needle = Null /\ visited = {}
      /\ reply.op = "none"
  BY DEF Binary!Init, Binary!Answer
<1>2. Lined(queue)
  BY <1>1, ShortLines
<1> QED BY <1>1, <1>2 DEF BinaryInv, Binary!CompareDecides, Binary!WalksInOrder

(* The steps of a search. *)
LEMMA SearchStepKeeps ==
    ASSUME BinaryInv, Binary!SearchStep
    PROVE  BinaryInv'
<1>1. CASE Binary!VisitNull
  BY <1>1 DEF Binary!VisitNull, Binary!search, BinaryInv, Binary!CompareDecides, Binary!WalksInOrder
<1>2. CASE Binary!Hit
  <2>1. /\ Head(queue) \in DOMAIN tree /\ tree[Head(queue)] = needle
        /\ queue' = <<>> /\ needle' = Null
        /\ reply'.op = "bfs" /\ reply'.out = needle /\ reply'.found = TRUE
        /\ UNCHANGED <<tree, freed, visited, lost>>
    BY <1>2 DEF Binary!Hit, Binary!Looking, Binary!Answer
  <2>2. Lined(queue') /\ \A n \in 1 .. Len(queue') : FALSE
    BY <2>1, ShortLines, RootIs
  <2>3. Binary!CompareDecides' /\ Binary!WalksInOrder'
    BY <2>1 DEF Binary!CompareDecides, Binary!WalksInOrder
  <2> QED BY <2>1, <2>2, <2>3 DEF BinaryInv
<1>3. CASE Binary!Miss
  <2>1. /\ needle # Null /\ queue = <<>> /\ needle' = Null
        /\ reply'.op = "bfs" /\ reply'.out = needle /\ reply'.found = FALSE
        /\ UNCHANGED <<tree, freed, queue, visited, lost>>
    BY <1>3 DEF Binary!Miss, Binary!Answer
  <2>2. ASSUME ~lost PROVE \A p \in DOMAIN tree : tree[p] # needle
    <3>1. Reaches(<<>>, visited, DOMAIN tree) /\ \A p \in visited : tree[p] # needle
      BY <2>1, <2>2 DEF BinaryInv
    <3>2. DOMAIN tree \subseteq visited
      BY <3>1, TreeIs, ReachesAll
    <3> QED BY <3>1, <3>2
  <2>3. Binary!CompareDecides' /\ Binary!WalksInOrder'
    BY <2>1 DEF Binary!CompareDecides, Binary!WalksInOrder
  <2> QED BY <2>1, <2>2, <2>3 DEF BinaryInv
<1>4. CASE Binary!Pass
  <2> DEFINE h == Head(queue)
             D == DOMAIN tree
             C == Binary!Children(h)
  <2>1. PICK K \in SUBSET C : /\ queue' = Tail(queue) \o Binary!InLine(h, K)
                              /\ lost' = (lost \/ K # C)
    BY <1>4 DEF Binary!Pass
  <2>2. /\ needle # Null /\ queue # <<>> /\ h \in D /\ tree[h] # needle
        /\ visited' = visited \cup {h}
        /\ UNCHANGED <<tree, freed, needle, reply>>
    BY <1>4 DEF Binary!Pass, Binary!Looking
  <2>3. h = queue[1] /\ Lined(queue)
    BY <2>2 DEF BinaryInv
  <2>4. C = {Append(h, 0), Append(h, 1)} \cap D
    BY DEF Binary!Children, Binary!LeftOf, Binary!RightOf
  <2> HIDE DEF h, C, D
  <2>5. /\ h \in Path /\ 1 \in 1 .. Len(queue) /\ Lined(queue')
        /\ \A n \in 1 .. Len(queue') : Binary!Level(h) < Binary!Level(queue'[n])
        /\ \A x : (\E n \in 1 .. Len(queue) : queue[n] = x) \/ x \in K
                    => x = h \/ \E n \in 1 .. Len(queue') : queue'[n] = x
    <3>1. K \in SUBSET {Append(queue[1], 0), Append(queue[1], 1)}
      BY <2>3, <2>4
    <3>2. queue' = Tail(queue) \o Binary!InLine(queue[1], K)
      BY <2>1, <2>3
    <3>3. Moves(queue, K, queue')
      BY <2>2, <2>3, <3>1, <3>2, LineMoves
    <3> QED BY <2>3, <3>3, Zenon DEF Moves
  <2>6. visited' \subseteq D
    BY <2>2 DEF BinaryInv, D
  <2>7. ASSUME NEW p \in visited', NEW n \in 1 .. Len(queue')
        PROVE  Binary!Level(p) < Binary!Level(queue'[n])
    <3>1. CASE p = h
      BY <2>5, <3>1
    <3>2. CASE p \in visited
      <4>1. Binary!Level(p) < Binary!Level(queue[1])
        BY <2>5, <3>2 DEF BinaryInv
      <4>2. Binary!Level(p) < Binary!Level(h) /\ Binary!Level(h) < Binary!Level(queue'[n])
        BY <2>3, <2>5, <4>1
      <4>3. p \in Path /\ queue'[n] \in Path
        <5>1. p \in DOMAIN tree /\ DOMAIN tree \subseteq Path
          BY <3>2, TreeIs DEF BinaryInv, Rooted
        <5>2. queue' \in Seq(Path)
          BY <2>5 DEF Lined
        <5> QED BY <5>1, <5>2, ElementOfSeq
      <4>4. /\ Binary!Level(p) \in Nat /\ Binary!Level(h) \in Nat
            /\ Binary!Level(queue'[n]) \in Nat
        BY <2>5, <4>3, LevelTurned
      <4>5. \A x, y, z \in Nat : x < y /\ y < z => x < z
        OBVIOUS
      <4> QED BY <4>2, <4>4, <4>5, Zenon
    <3> QED BY <2>2, <3>1, <3>2
  <2>8. \A p \in visited' : tree[p] # needle
    BY <2>2 DEF BinaryInv
  <2>9. ASSUME ~lost' PROVE Reaches(queue', visited', D)
    <3>1. K = C /\ Reaches(queue, visited, D)
      <4>1. ~lost /\ K = C
        BY <2>1, <2>9 DEF BinaryInv
      <4> QED BY <2>2, <4>1 DEF BinaryInv, D
    <3>2. \A x \in InLineOrPassed(queue, visited) \cup C : x \in InLineOrPassed(queue', visited')
      <4>1. ASSUME NEW x \in C PROVE x \in InLineOrPassed(queue', visited')
        <5>1. x = h \/ \E n \in 1 .. Len(queue') : queue'[n] = x
          BY <2>5, <3>1, <4>1
        <5> QED BY <2>2, <5>1 DEF InLineOrPassed
      <4>2. ASSUME NEW x \in InLineOrPassed(queue, visited)
            PROVE  x \in InLineOrPassed(queue', visited')
        <5>1. x \in visited \/ \E n \in 1 .. Len(queue) : queue[n] = x
          BY <4>2 DEF InLineOrPassed
        <5>2. x \in visited \/ x = h \/ \E n \in 1 .. Len(queue') : queue'[n] = x
          BY <2>5, <5>1
        <5> QED BY <2>2, <5>2 DEF InLineOrPassed
      <4> QED BY <4>1, <4>2
    <3>3. <<>> \in InLineOrPassed(queue', visited')
      BY <3>1, <3>2 DEF Reaches
    <3>4. ASSUME NEW p \in visited', NEW d \in {0, 1}, Append(p, d) \in D
          PROVE  Append(p, d) \in InLineOrPassed(queue', visited')
      <4>1. CASE p = h
        <5>1. Append(p, d) \in C
          BY <2>4, <3>4, <4>1
        <5> QED BY <3>2, <5>1
      <4>2. CASE p \in visited
        <5>1. Append(p, d) \in InLineOrPassed(queue, visited)
          BY <3>1, <3>4, <4>2 DEF Reaches
        <5> QED BY <3>2, <5>1
      <4> QED BY <2>2, <4>1, <4>2
    <3> QED BY <3>3, <3>4 DEF Reaches
  <2>10. Binary!CompareDecides' /\ Binary!WalksInOrder'
    BY <2>2 DEF BinaryInv, Binary!CompareDecides, Binary!WalksInOrder
  <2>11. lost' \in BOOLEAN
    BY <2>1
  <2> QED BY <2>2, <2>5, <2>6, <2>7, <2>8, <2>9, <2>10, <2>11 DEF BinaryInv, D
<1> QED BY <1>1, <1>2, <1>3, <1>4 DEF Binary!SearchStep

(* A walk gives its answer, or nothing.                                    *)
LEMMA WalkKeeps ==
    ASSUME BinaryInv, NEW kind \in Orders, NEW op, Takes(op, kind), NEW order,
           \E f : order = f[<<>>] /\ Answering(f, kind, tree, tree)
    PROVE  /\ Len(order) = Cardinality(DOMAIN tree) /\ Binary!ToSet(order) = DOMAIN tree
           /\ \A m, n \in DOMAIN order : m < n => Binary!GoesFirst(op, order[m], order[n])
<1>1. PICK f : order = f[<<>>] /\ Answering(f, kind, tree, tree)
  OBVIOUS
<1>2. ListsOnce(order, DOMAIN tree) /\ Going(op, order)
  BY <1>1, TreeIs, WalkLists
<1>3. DOMAIN order = 1 .. Len(order)
  BY <1>2, LenProperties DEF ListsOnce
<1>4. /\ {order[m] : m \in DOMAIN order} = DOMAIN tree
      /\ Cardinality(DOMAIN tree) = Len(order)
  <2>1. ASSUME NEW S, ListsOnce(order, S)
        PROVE  {order[m] : m \in DOMAIN order} = S /\ Cardinality(S) = Len(order)
    BY <2>1, ListedEach
  <2> QED BY <1>2, <2>1, Zenon
<1> QED BY <1>2, <1>3, <1>4 DEF Going, Binary!ToSet

(* The client's calls. *)
LEMMA CallKeeps ==
    ASSUME BinaryInv, Binary!Call
    PROVE  BinaryInv'
<1>1. ASSUME NEW kind \in Orders, NEW order, Binary!Walk(kind, order),
             \E f : order = f[<<>>] /\ Answering(f, kind, tree, tree)
      PROVE  BinaryInv'
  <2>1. /\ needle = Null /\ lost' \in BOOLEAN
        /\ reply' = Binary!Answer(kind, IF Binary!NumEl < 2 \/ lost' THEN Null ELSE order, FALSE, Null)
        /\ UNCHANGED <<tree, freed, queue, needle, visited>>
    BY <1>1 DEF Binary!Walk, Binary!Idle, Binary!search
  <2>2. reply'.op = kind /\ (reply'.out # Null => ~freed /\ reply'.out = order)
    BY <2>1 DEF Binary!Answer, Binary!NumEl
  <2>3. kind \notin {"bfs", "compare"} /\ Takes(kind, kind)
    BY DEF Orders, Takes
  <2>4. Binary!WalksInOrder'
    <3>1. /\ Len(order) = Cardinality(DOMAIN tree) /\ Binary!ToSet(order) = DOMAIN tree
          /\ \A m, n \in DOMAIN order : m < n => Binary!GoesFirst(kind, order[m], order[n])
      BY <1>1, <2>3, WalkKeeps
    <3> QED BY <2>1, <2>2, <3>1 DEF Binary!WalksInOrder, Binary!Cardinality, Cardinality
  <2>5. Binary!CompareDecides'
    BY <2>2, <2>3 DEF Binary!CompareDecides
  <2> QED BY <2>1, <2>2, <2>3, <2>4, <2>5 DEF BinaryInv
<1>2. ASSUME NEW other \in Binary!TreesUpTo(MaxCompared), Binary!Compare(other) PROVE BinaryInv'
  <2>1. /\ needle = Null /\ lost' = FALSE
        /\ reply'.op = "compare" /\ reply'.other = other /\ reply'.out = Null
        /\ reply'.found <=> /\ Binary!NumEl = Binary!Cardinality(DOMAIN other)
                            /\ Binary!SameNodes(tree, other)
        /\ UNCHANGED <<tree, freed, queue, needle, visited>>
    BY <1>2 DEF Binary!Compare, Binary!Idle, Binary!search, Binary!Answer
  <2>2. Binary!SameNodes(tree, other) <=> other = tree
    <3>1. Rooted(DOMAIN tree, MaxNodes) /\ tree = [p \in DOMAIN tree |-> tree[p]]
      BY TreeIs
    <3>2. MaxCompared \in Nat
      BY CallAssumption DEF Binary!TreeAssumption
    <3>3. Rooted(DOMAIN other, MaxCompared) /\ other = [p \in DOMAIN other |-> other[p]]
      BY <3>2, TreesAreRooted
    <3> QED BY <3>1, <3>3, SameDecides
  <2>3. Binary!CompareDecides'
    BY <2>1, <2>2 DEF Binary!CompareDecides, Binary!NumEl
  <2>4. Binary!WalksInOrder'
    BY <2>1 DEF Binary!WalksInOrder
  <2> QED BY <2>1, <2>3, <2>4 DEF BinaryInv
<1>3. ASSUME NEW v \in Data, Binary!Bfs(v) PROVE BinaryInv'
  <2>1. /\ visited' = {} /\ reply'.op = "none" /\ UNCHANGED <<tree, freed>>
        /\ \/ queue' = <<<<>>>> /\ lost' = FALSE
           \/ queue' = <<>> /\ lost' = TRUE
    BY <1>3 DEF Binary!Bfs, Binary!Answer, Binary!Root
  <2>2. Binary!CompareDecides' /\ Binary!WalksInOrder'
    BY <2>1 DEF Binary!CompareDecides, Binary!WalksInOrder
  <2>3. Lined(queue')
    BY <2>1, ShortLines, RootIs
  <2>4. ~lost' => Reaches(queue', visited', DOMAIN tree)
    <3>1. Len(<<<<>>>>) = 1 /\ <<<<>>>>[1] = <<>> /\ 1 \in 1 .. 1
      OBVIOUS
    <3>2. <<>> \in InLineOrPassed(<<<<>>>>, {})
      BY <3>1 DEF InLineOrPassed
    <3> QED BY <2>1, <3>2 DEF Reaches
  <2> QED BY <2>1, <2>2, <2>3, <2>4 DEF BinaryInv
<1>4. CASE Binary!Free
  <2>1. /\ needle = Null /\ freed' = TRUE /\ lost' = FALSE
        /\ reply'.op = "free" /\ reply'.out = Binary!PostOrder
        /\ UNCHANGED <<tree, queue, needle, visited>>
    BY <1>4 DEF Binary!Free, Binary!Idle, Binary!search, Binary!Answer
  <2>2. Binary!WalksInOrder'
    <3>1. /\ Len(Binary!PostOrder) = Cardinality(DOMAIN tree)
          /\ Binary!ToSet(Binary!PostOrder) = DOMAIN tree
          /\ \A m, n \in DOMAIN Binary!PostOrder :
                m < n => Binary!GoesFirst("free", Binary!PostOrder[m], Binary!PostOrder[n])
      <4>1. "post_order" \in Orders /\ Takes("free", "post_order")
        BY DEF Orders, Takes
      <4> QED BY <4>1, TreeIs, WalksAnswer, WalkKeeps
    <3> QED BY <2>1, <3>1 DEF Binary!WalksInOrder, Binary!Cardinality, Cardinality
  <2>3. Binary!CompareDecides'
    BY <2>1 DEF Binary!CompareDecides
  <2> QED BY <2>1, <2>2, <2>3 DEF BinaryInv
<1>5. CASE Binary!UseFreed
  BY <1>5 DEF Binary!UseFreed, Binary!search, BinaryInv, Binary!CompareDecides, Binary!WalksInOrder
<1>6. CASE Binary!Walk("pre_order", Binary!PreOrder)
  <2>1. "pre_order" \in Orders
    BY DEF Orders
  <2> QED BY <1>1, <1>6, <2>1, TreeIs, WalksAnswer
<1>7. CASE Binary!Walk("in_order", Binary!InOrder)
  <2>1. "in_order" \in Orders
    BY DEF Orders
  <2> QED BY <1>1, <1>7, <2>1, TreeIs, WalksAnswer
<1>8. CASE Binary!Walk("post_order", Binary!PostOrder)
  <2>1. "post_order" \in Orders
    BY DEF Orders
  <2> QED BY <1>1, <1>8, <2>1, TreeIs, WalksAnswer
<1> QED BY <1>2, <1>3, <1>4, <1>5, <1>6, <1>7, <1>8 DEF Binary!Call

(* The invariant holds of the binary tree.                                 *)
LEMMA BinaryInvariant == Spec => [](part = "binary_tree" => BinaryInv)
<1> DEFINE Inv == part = "binary_tree" => BinaryInv
<1>1. Init => Inv
  BY BinaryInit DEF Init
<1>2. Inv /\ [Next]_vars => Inv'
  <2> SUFFICES ASSUME Inv, [Next]_vars, part' = "binary_tree" PROVE BinaryInv'
    OBVIOUS
  <2>1. CASE UNCHANGED vars
    BY <2>1 DEF BinaryInv, vars, walking, Binary!CompareDecides, Binary!WalksInOrder
  <2>2. CASE Next
    <3>1. part = "binary_tree" /\ (Binary!SearchStep \/ Binary!Call)
      BY <2>2 DEF Next, Goes, Calls
    <3> QED BY <3>1, SearchStepKeeps, CallKeeps
  <2> QED BY <2>1, <2>2
<1> QED BY <1>1, <1>2, PTL DEF Spec
---------------------------------------------------------------------------
(* The four sorts together: the invariant of the one that is called.       *)
SortsInv ==
    /\ part = "bubble_sort" => BubbleInv
    /\ part = "insertion_sort" => InsertionInv
    /\ part = "merge_sort" => MergeInv
    /\ part = "quick_sort" => QuickInv

(* Steps that leave the variables leave what is said of them.              *)
LEMMA SortsRest ==
    ASSUME SortsInv, UNCHANGED vars
    PROVE  SortsInv'
<1>1. /\ part' = part /\ rank' = rank /\ len' = len /\ arr' = arr /\ i' = i /\ j' = j
      /\ fault' = fault /\ key' = key /\ inner' = inner
      /\ tmp' = tmp /\ todo' = todo /\ k' = k /\ merging' = merging
      /\ calls' = calls /\ idx' = idx /\ partitioning' = partitioning
  BY DEF vars, sorted, inserting, joining, dividing
<1>2. BubbleInv' = BubbleInv
  BY <1>1 DEF BubbleInv, Bubble!TypeOK, Bubble!Settled
<1>3. InsertionInv' = InsertionInv
  BY <1>1 DEF InsertionInv
<1>4. MergeInv' = MergeInv
  BY <1>1 DEF MergeInv, Back
<1>5. QuickInv' = QuickInv
  BY <1>1 DEF QuickInv
<1> QED BY <1>1, <1>2, <1>3, <1>4, <1>5 DEF SortsInv

(* The invariant of the sort that is called holds at the beginning and     *)
(* after every step.                                                       *)
LEMMA SortsInvariant == Spec => []SortsInv
<1>1. Init => SortsInv
  BY BubbleInit, InsertionInit, MergeInit, QuickInit DEF Init, SortsInv
<1>2. SortsInv /\ [Next]_vars => SortsInv'
  <2> SUFFICES ASSUME SortsInv, Next PROVE SortsInv'
    BY SortsRest
  <2>1. part' = part
    BY DEF Next, Goes, Calls
  <2>2. CASE part = "bubble_sort"
    <3>1. Bubble!Next
      BY <2>2 DEF Next, Goes, Calls
    <3> QED BY <2>1, <2>2, <3>1, BubbleKeeps DEF SortsInv
  <2>3. CASE part = "insertion_sort"
    <3>1. Insertion!Next
      BY <2>3 DEF Next, Goes, Calls
    <3> QED BY <2>1, <2>3, <3>1, InsertionKeeps DEF SortsInv
  <2>4. CASE part = "merge_sort"
    <3>1. Halving!Next
      BY <2>4 DEF Next, Goes, Calls
    <3> QED BY <2>1, <2>4, <3>1, MergeKeeps DEF SortsInv
  <2>5. CASE part = "quick_sort"
    <3>1. Quick!Next
      BY <2>5 DEF Next, Goes, Calls
    <3> QED BY <2>1, <2>5, <3>1, QuickKeeps DEF SortsInv
  <2> QED BY <2>1, <2>2, <2>3, <2>4, <2>5 DEF SortsInv
<1> QED BY <1>1, <1>2, PTL DEF Spec

(* MCAlgorithms' TypeOK: in each sort the array, with what is held outside *)
(* it, has its elements, each once, and its indices stay inside it,        *)
(* whatever the length and the ranks.                                      *)
THEOREM TypeCorrect == Spec => []TypeOK
<1>1. SortsInv => TypeOK
  BY InsertionImplies, MergeImplies, QuickImplies DEF SortsInv, BubbleInv, TypeOK
<1> QED BY <1>1, SortsInvariant, PTL

(* MCAlgorithms' Sorts: bubble_sort, insertion_sort and merge_sort that    *)
(* return have sorted stably, and quick_sort has sorted, whatever the      *)
(* length and the ranks.                                                   *)
THEOREM SortsHold == Spec => []Sorts
<1>1. SortsInv => Sorts
  BY BubbleSorts, InsertionImplies, MergeImplies, QuickImplies DEF SortsInv, Sorts
<1> QED BY <1>1, SortsInvariant, PTL

(* MCAlgorithms' ShallowStack: quick_sort's calls nest no deeper than the  *)
(* length has binary digits, whatever the length and the ranks.            *)
THEOREM ShallowStackHolds == Spec => []ShallowStack
<1>1. SortsInv => ShallowStack
  BY QuickImplies DEF SortsInv, ShallowStack
<1> QED BY <1>1, SortsInvariant, PTL

(* MCAlgorithms' LoopInvariants: what each loop has achieved so far, of    *)
(* the sorts for every length and every ranks, of the search for every     *)
(* sorted array, of the random bytes for every block size and length.      *)
THEOREM LoopInvariantsHold == Spec => []LoopInvariants
<1>1. /\ SortsInv
      /\ part = "binary_search" => SearchInv
      /\ part = "random" => FillInv
      => LoopInvariants
  BY InsertionImplies, MergeImplies, QuickImplies, SearchImplies, FillImplies
     DEF SortsInv, BubbleInv, LoopInvariants
<1> QED BY <1>1, SortsInvariant, SearchInvariant, FillInvariant, PTL

(* MCAlgorithms' Answers: binary_search answers whether the needle is in   *)
(* the array, for every sorted array; bt_compare whether the trees have    *)
(* the same nodes with the same data, and the walks and binary_tree_free   *)
(* give every node once and in their order, for trees of every size and    *)
(* shape; bt_bfs goes from level to level and meets no node twice, finds   *)
(* nothing that is not in the tree, and all that is unless queue_enque was *)
(* refused memory.                                                         *)
THEOREM AnswersHold == Spec => []Answers
<1>1. /\ part = "binary_search" => SearchInv
      /\ part = "binary_tree" => BinaryInv
      => Answers
  BY SearchImplies, BinaryImplies DEF Answers
<1> QED BY <1>1, SearchInvariant, BinaryInvariant, PTL
=============================================================================
