----------------------------- MODULE DataLemmas -----------------------------
(***************************************************************************)
(* Facts about numbers, sequences and recursive functions that the proofs  *)
(* about the components share.  Induction is stated for a set of numbers,  *)
(* not for an operator: whoever uses it names the set {n : what holds of   *)
(* n} and cites the lemma.                                                 *)
(***************************************************************************)
EXTENDS FiniteSetTheorems, SequenceTheorems, TLAPS

(* A set of naturals that is not empty has a least element.                *)
LEMMA LeastNatural ==
    ASSUME NEW T \in SUBSET Nat, T # {}
    PROVE  \E x \in T : \A y \in T : x <= y
<1> DEFINE R == OpToRel(<, Nat)
<1>1. IsWellFoundedOn(R, Nat)
  BY NatLessThanWellFounded
<1>2. \A x, y \in Nat : y < x => <<y, x>> \in R
  BY DEF OpToRel
<1> HIDE DEF R
<1>3. PICK x \in T : \A y \in T : ~ (<<y, x>> \in R)
  BY <1>1, WFMin
<1>4. \A y \in T : ~ (y < x)
  BY Zenon, <1>2, <1>3
<1>5. \A y \in T : x <= y
  BY <1>4
<1> QED BY <1>5

(* A set of naturals with 0 and the successor of each of its members that  *)
(* is less than n has every natural up to n.                               *)
LEMMA InductionTo ==
    ASSUME NEW n \in Nat, NEW P, 0 \in P, \A i \in 0 .. n - 1 : i \in P => i + 1 \in P
    PROVE  \A i \in 0 .. n : i \in P
<1> DEFINE T == {i \in 0 .. n : i \notin P}
<1> SUFFICES ASSUME T # {} PROVE FALSE
  OBVIOUS
<1>1. PICK x \in T : \A y \in T : x <= y
  <2>1. T \in SUBSET Nat
    OBVIOUS
  <2> HIDE DEF T
  <2> QED BY <2>1, LeastNatural
<1>2. x # 0 /\ x - 1 \in P
  BY <1>1
<1> QED BY <1>1, <1>2

(* Equal intervals from 1 end at the same number.                          *)
LEMMA SameInterval ==
    ASSUME NEW m \in Nat, NEW n \in Nat, 1 .. m = 1 .. n
    PROVE  m = n
<1>1. m \in 1 .. m <=> m \in 1 .. n
  OBVIOUS
<1>2. n \in 1 .. n <=> n \in 1 .. m
  OBVIOUS
<1> QED BY <1>1, <1>2

(* A function on an interval from 1 is a sequence of that length.          *)
LEMMA IntervalIsSeq ==
    ASSUME NEW S, NEW n \in Nat, NEW w \in [1 .. n -> S]
    PROVE  w \in Seq(S) /\ Len(w) = n
<1>1. w \in Seq(S)
  <2>1. w \in UNION {[1 .. m -> S] : m \in Nat}
    OBVIOUS
  <2> QED BY <2>1, SeqDef
<1>2. Len(w) \in Nat /\ DOMAIN w = 1 .. Len(w)
  BY <1>1, LenProperties
<1> QED BY <1>1, <1>2, SameInterval

(* What memmove leaves of an array from which element i is removed.        *)
LEMMA RemovalProperties ==
    ASSUME NEW S, NEW s \in Seq(S), NEW i \in 1 .. Len(s), NEW w,
           w = [j \in 1 .. Len(s) - 1 |-> IF j < i THEN s[j] ELSE s[j + 1]]
    PROVE  /\ w \in Seq(S)
           /\ Len(w) = Len(s) - 1
           /\ \A j \in 1 .. Len(s) - 1 : w[j] = IF j < i THEN s[j] ELSE s[j + 1]
<1> DEFINE n == Len(s) - 1
<1>1. n \in Nat /\ Len(s) = n + 1 /\ \A j \in 1 .. Len(s) : s[j] \in S
  BY LenProperties, ElementOfSeq
<1>2. w \in [1 .. n -> S]
  BY <1>1
<1>3. w \in Seq(S) /\ Len(w) = n
  <2> HIDE DEF n
  <2> QED BY <1>1, <1>2, IntervalIsSeq
<1> QED BY <1>3

(* An element put in front of a sequence.                                  *)
LEMMA PairOnto ==
    ASSUME NEW S, NEW q \in Seq(S), NEW e \in S
    PROVE  <<e>> \o q = [j \in 1 .. Len(q) + 1 |-> IF j = 1 THEN e ELSE q[j - 1]]
<1> DEFINE w == [j \in 1 .. Len(q) + 1 |-> IF j = 1 THEN e ELSE q[j - 1]]
           p == <<e>>
<1>1. Len(q) \in Nat /\ \A j \in 1 .. Len(q) : q[j] \in S
  BY LenProperties, ElementOfSeq
<1>2. w \in Seq(S) /\ Len(w) = Len(q) + 1
  <2>1. w \in [1 .. Len(q) + 1 -> S] /\ Len(q) + 1 \in Nat
    BY <1>1
  <2> HIDE DEF w
  <2> QED BY <2>1, IntervalIsSeq
<1>3. p \in Seq(S) /\ Len(p) = 1 /\ p[1] = e
  OBVIOUS
<1>4. /\ p \o q \in Seq(S) /\ Len(p \o q) = Len(q) + 1
      /\ \A j \in 1 .. Len(q) + 1 : (p \o q)[j] = IF j <= 1 THEN p[j] ELSE q[j - 1]
  <2> HIDE DEF p
  <2>1. Len(p) + Len(q) = Len(q) + 1
    BY <1>1, <1>3
  <2>2. /\ p \o q \in Seq(S) /\ Len(p \o q) = Len(p) + Len(q)
        /\ \A j \in 1 .. Len(p) + Len(q) : (p \o q)[j] = IF j <= Len(p) THEN p[j] ELSE q[j - Len(p)]
    BY <1>3, ConcatProperties
  <2> QED BY <1>3, <2>1, <2>2
<1>5. \A j \in 1 .. Len(q) + 1 : (p \o q)[j] = w[j]
  <2> SUFFICES ASSUME NEW j \in 1 .. Len(q) + 1 PROVE (p \o q)[j] = w[j]
    OBVIOUS
  <2>1. w[j] = IF j = 1 THEN e ELSE q[j - 1]
    OBVIOUS
  <2>2. j <= 1 <=> j = 1
    BY <1>1
  <2> HIDE DEF p, w
  <2> QED BY <1>3, <1>4, <2>1, <2>2
<1> HIDE DEF p, w
<1>6. p \o q = w
  BY <1>2, <1>4, <1>5, SeqEqual
<1> QED BY <1>6 DEF p, w

(* A sequence without its element i, as a concatenation.                   *)
LEMMA WithoutElement ==
    ASSUME NEW S, NEW q \in Seq(S), NEW i \in 1 .. Len(q)
    PROVE  SubSeq(q, 1, i - 1) \o SubSeq(q, i + 1, Len(q))
             = [j \in 1 .. Len(q) - 1 |-> IF j < i THEN q[j] ELSE q[j + 1]]
<1> DEFINE w == [j \in 1 .. Len(q) - 1 |-> IF j < i THEN q[j] ELSE q[j + 1]]
           a == SubSeq(q, 1, i - 1)
           b == SubSeq(q, i + 1, Len(q))
<1>1. Len(q) \in Nat /\ (\A j \in 1 .. Len(q) : q[j] \in S) /\ i \in Nat /\ i >= 1 /\ i <= Len(q)
  BY LenProperties, ElementOfSeq
<1>2. /\ w \in Seq(S) /\ Len(w) = Len(q) - 1
      /\ \A j \in 1 .. Len(q) - 1 : w[j] = IF j < i THEN q[j] ELSE q[j + 1]
  BY RemovalProperties
<1>3. a \in Seq(S) /\ Len(a) = i - 1 /\ \A j \in 1 .. i - 1 : a[j] = q[j]
  <2>1. i - 1 \in Int /\ \A j \in 1 .. i - 1 : q[j] \in S
    BY <1>1
  <2>2. /\ a \in Seq(S) /\ Len(a) = IF 1 <= i - 1 THEN i - 1 - 1 + 1 ELSE 0
        /\ \A j \in 1 .. i - 1 - 1 + 1 : a[j] = q[1 + j - 1]
    BY <2>1, SubSeqProperties
  <2> HIDE DEF a
  <2>3. \A j \in 1 .. i - 1 : j \in 1 .. i - 1 - 1 + 1 /\ 1 + j - 1 = j
    BY <1>1
  <2>4. (IF 1 <= i - 1 THEN i - 1 - 1 + 1 ELSE 0) = i - 1
    BY <1>1
  <2> QED BY <2>2, <2>3, <2>4
<1>4. b \in Seq(S) /\ Len(b) = Len(q) - i /\ \A j \in 1 .. Len(q) - i : b[j] = q[i + j]
  <2>1. i + 1 \in Int /\ Len(q) \in Int /\ \A j \in i + 1 .. Len(q) : q[j] \in S
    BY <1>1
  <2>2. /\ b \in Seq(S) /\ Len(b) = IF i + 1 <= Len(q) THEN Len(q) - (i + 1) + 1 ELSE 0
        /\ \A j \in 1 .. Len(q) - (i + 1) + 1 : b[j] = q[i + 1 + j - 1]
    BY <2>1, SubSeqProperties
  <2> HIDE DEF b
  <2>3. \A j \in 1 .. Len(q) - i : j \in 1 .. Len(q) - (i + 1) + 1 /\ i + 1 + j - 1 = i + j
    BY <1>1
  <2>4. (IF i + 1 <= Len(q) THEN Len(q) - (i + 1) + 1 ELSE 0) = Len(q) - i
    BY <1>1
  <2> QED BY <2>2, <2>3, <2>4
<1> HIDE DEF a, b, w
<1>5. /\ a \o b \in Seq(S) /\ Len(a \o b) = Len(q) - 1
      /\ \A j \in 1 .. Len(q) - 1 : (a \o b)[j] = IF j <= i - 1 THEN a[j] ELSE b[j - (i - 1)]
  <2>1. Len(a) + Len(b) = Len(q) - 1
    BY <1>1, <1>3, <1>4
  <2>2. /\ a \o b \in Seq(S) /\ Len(a \o b) = Len(a) + Len(b)
        /\ \A j \in 1 .. Len(a) + Len(b) : (a \o b)[j] = IF j <= Len(a) THEN a[j] ELSE b[j - Len(a)]
    BY <1>3, <1>4, ConcatProperties
  <2> QED BY <1>3, <2>1, <2>2
<1>6. ASSUME NEW j \in 1 .. Len(q) - 1 PROVE (a \o b)[j] = w[j]
  <2>1. CASE j < i
    <3>1. j <= i - 1 /\ j \in 1 .. i - 1
      BY <1>1, <2>1
    <3> QED BY <1>2, <1>3, <1>5, <2>1, <3>1
  <2>2. CASE ~(j < i)
    <3>1. ~(j <= i - 1) /\ j - (i - 1) \in 1 .. Len(q) - i /\ i + (j - (i - 1)) = j + 1
      BY <1>1, <2>2
    <3> QED BY <1>2, <1>4, <1>5, <2>2, <3>1
  <2> QED BY <2>1, <2>2
<1>7. a \o b = w
  BY <1>2, <1>5, <1>6, SeqEqual
<1> QED BY <1>7 DEF a, b, w

(* A sequence without its last element.                                    *)
LEMMA LastTakenOff ==
    ASSUME NEW S, NEW q \in Seq(S), Len(q) # 0
    PROVE  SubSeq(q, 1, Len(q) - 1)
             = [j \in 1 .. Len(q) - 1 |-> IF j < Len(q) THEN q[j] ELSE q[j + 1]]
<1> DEFINE w == [j \in 1 .. Len(q) - 1 |-> IF j < Len(q) THEN q[j] ELSE q[j + 1]]
           a == SubSeq(q, 1, Len(q) - 1)
<1>1. Len(q) \in Nat /\ (\A j \in 1 .. Len(q) : q[j] \in S) /\ Len(q) \in 1 .. Len(q)
      /\ Len(q) >= 1
  BY LenProperties, ElementOfSeq
<1>2. /\ w \in Seq(S) /\ Len(w) = Len(q) - 1
      /\ \A j \in 1 .. Len(q) - 1 : w[j] = IF j < Len(q) THEN q[j] ELSE q[j + 1]
  BY <1>1, RemovalProperties
<1>3. a \in Seq(S) /\ Len(a) = Len(q) - 1 /\ \A j \in 1 .. Len(q) - 1 : a[j] = q[j]
  <2>1. Len(q) - 1 \in Int /\ \A j \in 1 .. Len(q) - 1 : q[j] \in S
    BY <1>1
  <2>2. /\ a \in Seq(S) /\ Len(a) = IF 1 <= Len(q) - 1 THEN Len(q) - 1 - 1 + 1 ELSE 0
        /\ \A j \in 1 .. Len(q) - 1 - 1 + 1 : a[j] = q[1 + j - 1]
    BY <2>1, SubSeqProperties
  <2> HIDE DEF a
  <2>3. \A j \in 1 .. Len(q) - 1 : j \in 1 .. Len(q) - 1 - 1 + 1 /\ 1 + j - 1 = j
    BY <1>1
  <2>4. (IF 1 <= Len(q) - 1 THEN Len(q) - 1 - 1 + 1 ELSE 0) = Len(q) - 1
    <3>1. PICK n \in Nat : n = Len(q) /\ n >= 1
      BY <1>1
    <3>2. (IF 1 <= n - 1 THEN n - 1 - 1 + 1 ELSE 0) = n - 1
      BY <3>1
    <3> QED BY <3>1, <3>2
  <2> QED BY <2>2, <2>3, <2>4
<1> HIDE DEF a, w
<1>4. \A j \in 1 .. Len(q) - 1 : a[j] = w[j]
  <2>1. \A j \in 1 .. Len(q) - 1 : j < Len(q)
    BY <1>1
  <2> QED BY <1>2, <1>3, <2>1
<1>5. a = w
  BY <1>2, <1>3, <1>4, SeqEqual
<1> QED BY <1>5 DEF a, w

(* One more digit doubles what a number of binary digits can count: the    *)
(* subsets of n + 1 numbers are those of n, without and with the last one. *)
LEMMA PowerOfTwo ==
    ASSUME NEW n \in Nat
    PROVE  2 ^ n \in Nat /\ 2 ^ n >= 1 /\ 2 ^ (n + 1) = 2 * 2 ^ n
<1> DEFINE P == SUBSET (1 .. n)
           f == [A \in P |-> A \cup {n + 1}]
           Q == {A \cup {n + 1} : A \in P}
<1>1. \A m \in Nat : /\ IsFiniteSet(SUBSET (1 .. m))
                     /\ Cardinality(SUBSET (1 .. m)) = 2 ^ m
  <2> SUFFICES ASSUME NEW m \in Nat
               PROVE  IsFiniteSet(SUBSET (1 .. m)) /\ Cardinality(SUBSET (1 .. m)) = 2 ^ m
    OBVIOUS
  <2>1. IsFiniteSet(1 .. m) /\ Cardinality(1 .. m) = IF 1 > m THEN 0 ELSE m - 1 + 1
    BY FS_Interval
  <2>2. Cardinality(1 .. m) = m
    BY <2>1
  <2>3. /\ IsFiniteSet(SUBSET (1 .. m))
        /\ Cardinality(SUBSET (1 .. m)) = 2 ^ Cardinality(1 .. m)
    BY <2>1, FS_SUBSET
  <2> QED BY <2>2, <2>3
<1>2. IsFiniteSet(P) /\ Cardinality(P) = 2 ^ n
  BY <1>1
<1>3. Cardinality(P) \in Nat /\ P # {}
  BY <1>2, FS_CardinalityType
<1>4. Cardinality(P) # 0
  BY <1>2, <1>3, FS_EmptySet
<1>5. f \in Surjection(P, Q) /\ f \in Injection(P, Q)
  <2>1. f \in [P -> Q] /\ \A B \in Q : \E A \in P : f[A] = B
    OBVIOUS
  <2>2. ASSUME NEW A \in P, NEW B \in P, A \cup {n + 1} = B \cup {n + 1} PROVE A = B
    <3>1. n + 1 \notin A /\ n + 1 \notin B
      OBVIOUS
    <3> QED BY <2>2, <3>1
  <2>3. \A A, B \in P : f[A] = f[B] => A = B
    BY <2>2
  <2> QED BY <2>1, <2>3 DEF Surjection, Injection, IsInjective
<1>6. IsFiniteSet(Q) /\ Cardinality(Q) = Cardinality(P)
  <2> HIDE DEF P, Q, f
  <2> QED BY <1>2, <1>5, FS_Surjection
<1>7. SUBSET (1 .. n + 1) = P \cup Q
  <2>1. ASSUME NEW B \in SUBSET (1 .. n + 1), n + 1 \in B PROVE B \in Q
    <3>1. B \ {n + 1} \in P /\ B = (B \ {n + 1}) \cup {n + 1}
      BY <2>1
    <3> QED BY <3>1
  <2>2. \A B \in SUBSET (1 .. n + 1) : n + 1 \notin B => B \in P
    OBVIOUS
  <2>3. \A A \in P : A \in SUBSET (1 .. n + 1) /\ A \cup {n + 1} \in SUBSET (1 .. n + 1)
    OBVIOUS
  <2>4. \A B \in Q : \E A \in P : B = A \cup {n + 1}
    OBVIOUS
  <2> DEFINE R == SUBSET (1 .. n + 1)
  <2> HIDE DEF P, Q
  <2>5. \A B : B \in R <=> B \in P \/ B \in Q
    <3> HIDE DEF R
    <3>1. \A B \in R : n + 1 \in B => B \in Q
      BY <2>1 DEF R
    <3>2. \A B \in R : n + 1 \notin B => B \in P
      BY <2>2 DEF R
    <3>3. \A A \in P : A \in R /\ A \cup {n + 1} \in R
      BY <2>3 DEF R
    <3> QED BY <2>4, <3>1, <3>2, <3>3, Zenon
  <2> HIDE DEF R
  <2>6. R = P \cup Q
    BY <2>5
  <2> QED BY <2>6 DEF R
<1>8. P \cap Q = {}
  <2>1. (\A A \in P : n + 1 \notin A) /\ \A A \in Q : n + 1 \in A
    OBVIOUS
  <2> QED BY <2>1
<1>9. Cardinality(P \cup Q) = Cardinality(P) + Cardinality(Q) - Cardinality(P \cap Q)
  <2> HIDE DEF P, Q
  <2> QED BY <1>2, <1>6, FS_Union
<1>10. Cardinality(P \cap Q) = 0
  BY <1>8, FS_EmptySet
<1>11. Cardinality(P \cup Q) = 2 ^ (n + 1)
  <2>1. n + 1 \in Nat
    OBVIOUS
  <2>2. Cardinality(SUBSET (1 .. n + 1)) = 2 ^ (n + 1)
    BY <1>1, <2>1, Zenon
  <2> QED BY <1>7, <2>2
<1> HIDE DEF P, Q, f
<1> QED BY <1>2, <1>3, <1>4, <1>6, <1>9, <1>10, <1>11

(* What the head of a sequence is replaced by, and what is left of it.     *)
LEMMA OntoTail ==
    ASSUME NEW S, NEW q \in Seq(S), q # << >>, NEW w \in Seq(S)
    PROVE  /\ w \o Tail(q) \in Seq(S)
           /\ Len(w \o Tail(q)) = Len(w) + Len(q) - 1
           /\ \A p \in 1 .. Len(w) : (w \o Tail(q))[p] = w[p]
           /\ \A p \in Len(w) + 1 .. Len(w) + Len(q) - 1 :
                 (w \o Tail(q))[p] = q[p - Len(w) + 1]
<1>1. Len(q) \in Nat /\ Len(w) \in Nat
  BY LenProperties
<1> DEFINE v == Tail(q)
<1>2. /\ v \in Seq(S) /\ Len(v) = Len(q) - 1
      /\ \A p \in 1 .. Len(v) : v[p] = q[p + 1]
  BY HeadTailProperties
<1> HIDE DEF v
<1>3. /\ w \o v \in Seq(S) /\ Len(w \o v) = Len(w) + Len(v)
      /\ \A p \in 1 .. Len(w) + Len(v) :
            (w \o v)[p] = IF p <= Len(w) THEN w[p] ELSE v[p - Len(w)]
  BY <1>2, ConcatProperties
<1>4. \A p \in 1 .. Len(w) : (w \o v)[p] = w[p]
  BY <1>1, <1>2, <1>3
<1>5. ASSUME NEW p \in Len(w) + 1 .. Len(w) + Len(q) - 1
      PROVE  (w \o v)[p] = q[p - Len(w) + 1]
  <2>1. p \in 1 .. Len(w) + Len(v) /\ ~(p <= Len(w)) /\ p - Len(w) \in 1 .. Len(v)
    BY <1>1, <1>2
  <2> QED BY <1>2, <1>3, <2>1
<1> QED BY <1>1, <1>2, <1>3, <1>4, <1>5 DEF v

(* Two elements, or three, in the place of the head.                       *)
LEMMA TwoOntoTail ==
    ASSUME NEW S, NEW q \in Seq(S), q # << >>, NEW e \in S, NEW f \in S
    PROVE  /\ <<e, f>> \o Tail(q) \in Seq(S) /\ Len(<<e, f>> \o Tail(q)) = Len(q) + 1
           /\ (<<e, f>> \o Tail(q))[1] = e /\ (<<e, f>> \o Tail(q))[2] = f
           /\ \A p \in 3 .. Len(q) + 1 : (<<e, f>> \o Tail(q))[p] = q[p - 1]
<1> DEFINE w == <<e, f>>
<1>1. w \in Seq(S) /\ Len(w) = 2 /\ w[1] = e /\ w[2] = f
  OBVIOUS
<1>2. Len(q) \in Nat
  BY LenProperties
<1> HIDE DEF w
<1>w. w \in Seq(S)
  BY <1>1
<1> DEFINE v == w \o Tail(q)
<1>3. /\ v \in Seq(S) /\ Len(v) = Len(w) + Len(q) - 1
      /\ \A p \in 1 .. Len(w) : v[p] = w[p]
      /\ \A p \in Len(w) + 1 .. Len(w) + Len(q) - 1 : v[p] = q[p - Len(w) + 1]
  <2>1. v \in Seq(S) /\ Len(v) = Len(w) + Len(q) - 1
    BY <1>w, OntoTail
  <2>2. \A p \in 1 .. Len(w) : v[p] = w[p]
    BY <1>w, OntoTail
  <2>3. \A p \in Len(w) + 1 .. Len(w) + Len(q) - 1 : v[p] = q[p - Len(w) + 1]
    BY <1>w, OntoTail
  <2> QED BY <2>1, <2>2, <2>3
<1> HIDE DEF v
<1>4. \A p \in 3 .. Len(q) + 1 : p - 2 + 1 = p - 1
  BY <1>2
<1>5. 2 + 1 = 3 /\ 2 + Len(q) - 1 = Len(q) + 1 /\ 1 \in 1 .. 2 /\ 2 \in 1 .. 2
  BY <1>2
<1>6. /\ v \in Seq(S) /\ Len(v) = Len(q) + 1 /\ v[1] = e /\ v[2] = f
      /\ \A p \in 3 .. Len(q) + 1 : v[p] = q[p - 1]
  BY <1>1, <1>3, <1>4, <1>5
<1> QED BY <1>6 DEF v, w

(* Three elements in the place of the head.                                *)
LEMMA ThreeOntoTail ==
    ASSUME NEW S, NEW q \in Seq(S), q # << >>, NEW e \in S, NEW f \in S, NEW g \in S
    PROVE  /\ <<e, f, g>> \o Tail(q) \in Seq(S) /\ Len(<<e, f, g>> \o Tail(q)) = Len(q) + 2
           /\ (<<e, f, g>> \o Tail(q))[1] = e /\ (<<e, f, g>> \o Tail(q))[2] = f
           /\ (<<e, f, g>> \o Tail(q))[3] = g
           /\ \A p \in 4 .. Len(q) + 2 : (<<e, f, g>> \o Tail(q))[p] = q[p - 2]
<1> DEFINE w == <<e, f, g>>
<1>1. w \in Seq(S) /\ Len(w) = 3 /\ w[1] = e /\ w[2] = f /\ w[3] = g
  OBVIOUS
<1>2. Len(q) \in Nat
  BY LenProperties
<1> HIDE DEF w
<1>w. w \in Seq(S)
  BY <1>1
<1> DEFINE v == w \o Tail(q)
<1>3. /\ v \in Seq(S) /\ Len(v) = Len(w) + Len(q) - 1
      /\ \A p \in 1 .. Len(w) : v[p] = w[p]
      /\ \A p \in Len(w) + 1 .. Len(w) + Len(q) - 1 : v[p] = q[p - Len(w) + 1]
  <2>1. v \in Seq(S) /\ Len(v) = Len(w) + Len(q) - 1
    BY <1>w, OntoTail
  <2>2. \A p \in 1 .. Len(w) : v[p] = w[p]
    BY <1>w, OntoTail
  <2>3. \A p \in Len(w) + 1 .. Len(w) + Len(q) - 1 : v[p] = q[p - Len(w) + 1]
    BY <1>w, OntoTail
  <2> QED BY <2>1, <2>2, <2>3
<1> HIDE DEF v
<1>4. \A p \in 4 .. Len(q) + 2 : p - 3 + 1 = p - 2
  BY <1>2
<1>5. 3 + 1 = 4 /\ 3 + Len(q) - 1 = Len(q) + 2 /\ 1 \in 1 .. 3 /\ 2 \in 1 .. 3 /\ 3 \in 1 .. 3
  BY <1>2
<1>6. /\ v \in Seq(S) /\ Len(v) = Len(q) + 2 /\ v[1] = e /\ v[2] = f /\ v[3] = g
      /\ \A p \in 4 .. Len(q) + 2 : v[p] = q[p - 2]
  BY <1>1, <1>3, <1>4, <1>5
<1> QED BY <1>6 DEF v, w

(* A new last element, with sequences as functions on intervals.           *)
LEMMA AppendIs ==
    ASSUME NEW S, NEW n \in Nat, NEW f \in [1 .. n -> S], NEW e \in S
    PROVE  Append(f, e) = [i \in 1 .. n + 1 |-> IF i = n + 1 THEN e ELSE f[i]]
<1> DEFINE w == [i \in 1 .. n + 1 |-> IF i = n + 1 THEN e ELSE f[i]]
<1>1. w \in [1 .. n + 1 -> S] /\ n + 1 \in Nat
  OBVIOUS
<1>2. w \in Seq(S) /\ Len(w) = n + 1
  <2> HIDE DEF w
  <2> QED BY <1>1, IntervalIsSeq
<1>3. f \in Seq(S) /\ Len(f) = n
  BY IntervalIsSeq
<1>4. /\ Append(f, e) \in Seq(S) /\ Len(Append(f, e)) = n + 1
      /\ \A i \in 1 .. n : Append(f, e)[i] = f[i]
      /\ Append(f, e)[n + 1] = e
  BY <1>3, AppendProperties
<1>5. \A i \in 1 .. n + 1 : i = n + 1 \/ i \in 1 .. n
  OBVIOUS
<1>6. \A i \in 1 .. n + 1 : Append(f, e)[i] = w[i]
  BY <1>4, <1>5
<1> HIDE DEF w
<1>7. Append(f, e) = w
  BY <1>2, <1>4, <1>6, SeqEqual
<1> QED BY <1>7 DEF w

(* The first element of a sequence and the others.                         *)
LEMMA TailIs ==
    ASSUME NEW S, NEW n \in Nat, n > 0, NEW f \in [1 .. n -> S]
    PROVE  /\ f # <<>> /\ Head(f) = f[1]
           /\ Tail(f) = [i \in 1 .. n - 1 |-> f[i + 1]]
<1> DEFINE w == [i \in 1 .. n - 1 |-> f[i + 1]]
<1>1. w \in [1 .. n - 1 -> S] /\ n - 1 \in Nat
  OBVIOUS
<1>2. w \in Seq(S) /\ Len(w) = n - 1
  <2> HIDE DEF w
  <2> QED BY <1>1, IntervalIsSeq
<1>3. f \in Seq(S) /\ Len(f) = n
  BY IntervalIsSeq
<1>4. f # <<>>
  BY <1>3, EmptySeq
<1>5. /\ Head(f) = f[1] /\ Tail(f) \in Seq(S) /\ Len(Tail(f)) = n - 1
      /\ \A i \in 1 .. n - 1 : Tail(f)[i] = f[i + 1]
  BY <1>3, <1>4, HeadTailProperties
<1>6. \A i \in 1 .. n - 1 : Tail(f)[i] = w[i]
  BY <1>5
<1> HIDE DEF w
<1>7. Tail(f) = w
  BY <1>2, <1>5, <1>6, SeqEqual
<1> QED BY <1>4, <1>5, <1>7 DEF w

(* A function on no numbers is the empty sequence.                         *)
LEMMA EmptyIs ==
    ASSUME NEW f, f = [i \in 1 .. 0 |-> f[i]]
    PROVE  f = <<>>
<1>1. f \in [1 .. 0 -> {}]
  OBVIOUS
<1>2. f \in Seq({}) /\ Len(f) = 0
  BY <1>1, IntervalIsSeq
<1> QED BY <1>2, EmptySeq

(* A sequence w that is f with one element put in at i.                    *)
IsInserted(S, n, f, e, i, w) ==
    /\ n \in Nat /\ f \in [1 .. n -> S] /\ e \in S /\ i \in 1 .. n + 1
    /\ w \in [1 .. n + 1 -> S]
    /\ \A j \in 1 .. n + 1 : w[j] = IF j < i THEN f[j] ELSE IF j = i THEN e ELSE f[j - 1]

(* An element put in between the two parts of a sequence.                  *)
LEMMA InsertedIs ==
    ASSUME NEW S, NEW n, NEW f, NEW e, NEW i, NEW w, IsInserted(S, n, f, e, i, w)
    PROVE  Len(f) = n /\ SubSeq(f, 1, i - 1) \o <<e>> \o SubSeq(f, i, Len(f)) = w
<1> SUFFICES ASSUME n \in Nat, f \in [1 .. n -> S], e \in S, i \in 1 .. n + 1,
                    w \in [1 .. n + 1 -> S],
                    \A j \in 1 .. n + 1 : w[j] = IF j < i THEN f[j]
                                               ELSE IF j = i THEN e ELSE f[j - 1]
             PROVE  Len(f) = n /\ SubSeq(f, 1, i - 1) \o <<e>> \o SubSeq(f, i, Len(f)) = w
  BY DEF IsInserted
<1>1. f \in Seq(S) /\ Len(f) = n
  BY IntervalIsSeq
<1>2. w \in Seq(S) /\ Len(w) = n + 1
  <2>1. n + 1 \in Nat
    OBVIOUS
  <2> QED BY <2>1, IntervalIsSeq
<1> DEFINE a == SubSeq(f, 1, i - 1)
           b == SubSeq(f, i, n)
           x == <<e>>
<1>3. a \in Seq(S) /\ Len(a) = i - 1 /\ \A j \in 1 .. i - 1 : a[j] = f[j]
  <2>1. i - 1 \in Int /\ \A j \in 1 .. i - 1 : f[j] \in S
    OBVIOUS
  <2>2. /\ a \in Seq(S) /\ Len(a) = IF 1 <= i - 1 THEN i - 1 - 1 + 1 ELSE 0
        /\ \A j \in 1 .. i - 1 - 1 + 1 : a[j] = f[1 + j - 1]
    BY <1>1, <2>1, SubSeqProperties
  <2> HIDE DEF a
  <2>3. \A j \in 1 .. i - 1 : j \in 1 .. i - 1 - 1 + 1 /\ 1 + j - 1 = j
    OBVIOUS
  <2>4. (IF 1 <= i - 1 THEN i - 1 - 1 + 1 ELSE 0) = i - 1
    OBVIOUS
  <2> QED BY <2>2, <2>3, <2>4
<1>4. b \in Seq(S) /\ Len(b) = n + 1 - i /\ \A j \in 1 .. n + 1 - i : b[j] = f[i + j - 1]
  <2>1. i \in Int /\ n \in Int /\ \A j \in i .. n : f[j] \in S
    OBVIOUS
  <2>2. /\ b \in Seq(S) /\ Len(b) = IF i <= n THEN n - i + 1 ELSE 0
        /\ \A j \in 1 .. n - i + 1 : b[j] = f[i + j - 1]
    BY <1>1, <2>1, SubSeqProperties
  <2> HIDE DEF b
  <2>3. n - i + 1 = n + 1 - i
    OBVIOUS
  <2>4. (IF i <= n THEN n - i + 1 ELSE 0) = n + 1 - i
    OBVIOUS
  <2> QED BY <2>2, <2>3, <2>4
<1>5. x \in Seq(S) /\ Len(x) = 1 /\ x[1] = e
  OBVIOUS
<1> HIDE DEF a, b, x
<1> DEFINE c == a \o x
<1>6. /\ c \in Seq(S) /\ Len(c) = i
      /\ \A j \in 1 .. i : c[j] = IF j < i THEN f[j] ELSE e
  <2>1. Len(a) + Len(x) = i
    BY <1>3, <1>5
  <2>9. /\ c \in Seq(S) /\ Len(c) = Len(a) + Len(x)
        /\ \A j \in 1 .. Len(a) + Len(x) : c[j] = IF j <= Len(a) THEN a[j] ELSE x[j - Len(a)]
    BY <1>3, <1>5, ConcatProperties
  <2> HIDE DEF c
  <2>2. /\ c \in Seq(S) /\ Len(c) = i
        /\ \A j \in 1 .. i : c[j] = IF j <= Len(a) THEN a[j] ELSE x[j - Len(a)]
    BY <2>1, <2>9
  <2>3. ASSUME NEW j \in 1 .. i PROVE c[j] = IF j < i THEN f[j] ELSE e
    <3>1. CASE j < i
      <4>1. j <= i - 1 /\ j \in 1 .. i - 1
        BY <3>1
      <4> QED BY <1>3, <2>2, <3>1, <4>1
    <3>2. CASE ~(j < i)
      <4>1. ~(j <= i - 1) /\ j - (i - 1) = 1
        BY <3>2
      <4> QED BY <1>3, <1>5, <2>2, <3>2, <4>1
    <3> QED BY <3>1, <3>2
  <2> QED BY <2>2, <2>3
<1> HIDE DEF c
<1> DEFINE d == c \o b
<1>7. /\ d \in Seq(S) /\ Len(d) = n + 1
      /\ \A j \in 1 .. n + 1 : d[j] = IF j <= i THEN c[j] ELSE b[j - i]
  <2>1. Len(c) + Len(b) = n + 1
    BY <1>4, <1>6
  <2>2. /\ d \in Seq(S) /\ Len(d) = Len(c) + Len(b)
        /\ \A j \in 1 .. Len(c) + Len(b) : d[j] = IF j <= Len(c) THEN c[j] ELSE b[j - Len(c)]
    BY <1>4, <1>6, ConcatProperties
  <2> HIDE DEF d
  <2> QED BY <1>6, <2>1, <2>2
<1> HIDE DEF d
<1>8. ASSUME NEW j \in 1 .. n + 1 PROVE d[j] = w[j]
  <2>1. CASE j <= i
    <3>1. j \in 1 .. i /\ (~(j < i) => j = i)
      BY <2>1
    <3> QED BY <1>6, <1>7, <2>1, <3>1
  <2>2. CASE ~(j <= i)
    <3>1. j - i \in 1 .. n + 1 - i /\ i + (j - i) - 1 = j - 1 /\ ~(j < i) /\ j # i
      BY <2>2
    <3> QED BY <1>4, <1>7, <2>2, <3>1
  <2> QED BY <2>1, <2>2
<1>9. d = w
  BY <1>2, <1>7, <1>8, SeqEqual
<1> QED BY <1>1, <1>9 DEF a, b, c, d, x

(* A sequence w that is f without its element i.                           *)
IsRemoved(S, n, f, i, w) ==
    /\ n \in Nat /\ f \in [1 .. n -> S] /\ i \in 1 .. n
    /\ w = [j \in 1 .. n - 1 |-> w[j]]
    /\ \A j \in 1 .. n - 1 : w[j] = IF j < i THEN f[j] ELSE f[j + 1]

(* The two parts of a sequence next to one of its elements.                *)
LEMMA RemovedIs ==
    ASSUME NEW S, NEW n, NEW f, NEW i, NEW w, IsRemoved(S, n, f, i, w)
    PROVE  Len(f) = n /\ SubSeq(f, 1, i - 1) \o SubSeq(f, i + 1, Len(f)) = w
<1> SUFFICES ASSUME n \in Nat, f \in [1 .. n -> S], i \in 1 .. n,
                    w = [j \in 1 .. n - 1 |-> w[j]],
                    \A j \in 1 .. n - 1 : w[j] = IF j < i THEN f[j] ELSE f[j + 1]
             PROVE  Len(f) = n /\ SubSeq(f, 1, i - 1) \o SubSeq(f, i + 1, Len(f)) = w
  BY DEF IsRemoved
<1>1. f \in Seq(S) /\ Len(f) = n
  BY IntervalIsSeq
<1>2. w = [j \in 1 .. Len(f) - 1 |-> IF j < i THEN f[j] ELSE f[j + 1]]
  BY <1>1
<1>3. i \in 1 .. Len(f)
  BY <1>1
<1>4. SubSeq(f, 1, i - 1) \o SubSeq(f, i + 1, Len(f))
        = [j \in 1 .. Len(f) - 1 |-> IF j < i THEN f[j] ELSE f[j + 1]]
  BY <1>1, <1>3, WithoutElement
<1> QED BY <1>1, <1>2, <1>4

(* The nodes met by following next from h, and that there are such: a      *)
(* recursion that goes up from a first value has a solution.               *)
IsChase(f, T, N, h, nd) ==
    /\ f \in [0 .. N -> T]
    /\ \A i \in 0 .. N : f[i] = IF i = 0 THEN h ELSE nd[f[i - 1]].next

LEMMA ChaseExists ==
    ASSUME NEW N \in Nat, NEW h, NEW nd
    PROVE  \E T, f : IsChase(f, T, N, h, nd)
<1> DEFINE P == {n \in 0 .. N : \E f : f = [i \in 0 .. n |-> IF i = 0 THEN h ELSE nd[f[i - 1]].next]}
<1>1. 0 \in P
  <2> DEFINE f == [i \in 0 .. 0 |-> h]
  <2>1. f = [i \in 0 .. 0 |-> IF i = 0 THEN h ELSE nd[f[i - 1]].next]
    OBVIOUS
  <2> HIDE DEF f
  <2> QED BY <2>1
<1>2. ASSUME NEW n \in 0 .. N - 1, n \in P PROVE n + 1 \in P
  <2>1. PICK f : f = [i \in 0 .. n |-> IF i = 0 THEN h ELSE nd[f[i - 1]].next]
    BY <1>2
  <2> DEFINE g == [i \in 0 .. n + 1 |-> IF i = n + 1 THEN nd[f[n]].next ELSE f[i]]
  <2>2. \A i \in 0 .. n : f[i] = IF i = 0 THEN h ELSE nd[f[i - 1]].next
    BY <2>1
  <2>3. ASSUME NEW i \in 0 .. n + 1
        PROVE  g[i] = IF i = 0 THEN h ELSE nd[g[i - 1]].next
    <3>1. CASE i = n + 1
      <4>1. i # 0 /\ i - 1 = n /\ n \in 0 .. n + 1 /\ n # n + 1
        BY <3>1
      <4> QED BY <3>1, <4>1
    <3>2. CASE i # n + 1
      <4>1. i \in 0 .. n /\ (i # 0 => i - 1 \in 0 .. n + 1 /\ i - 1 # n + 1)
        BY <3>2
      <4> QED BY <2>2, <3>2, <4>1
    <3> QED BY <3>1, <3>2
  <2>4. g = [i \in 0 .. n + 1 |-> IF i = 0 THEN h ELSE nd[g[i - 1]].next]
    BY <2>3
  <2> HIDE DEF g
  <2>5. n + 1 \in 0 .. N
    BY <1>2
  <2> QED BY <2>4, <2>5
<1>3. N \in 0 .. N /\ \A n \in 0 .. N : n \in P
  <2> HIDE DEF P
  <2> QED BY <1>1, <1>2, InductionTo
<1>4. PICK f : f = [i \in 0 .. N |-> IF i = 0 THEN h ELSE nd[f[i - 1]].next]
  BY <1>3
<1> DEFINE T == {f[i] : i \in 0 .. N}
<1>5. \A i \in 0 .. N : f[i] = IF i = 0 THEN h ELSE nd[f[i - 1]].next
  BY <1>4
<1>6. f \in [0 .. N -> T]
  BY <1>4
<1>7. IsChase(f, T, N, h, nd)
  BY <1>4, <1>5, <1>6 DEF IsChase
<1> QED BY <1>7

(* A function that goes up from the value h by the steps g, and that there *)
(* is such a function.                                                     *)
IsRecursion(f, T, N, h, g) ==
    /\ f \in [0 .. N -> T]
    /\ \A i \in 0 .. N : f[i] = IF i = 0 THEN h ELSE g[<<i, f[i - 1]>>]

LEMMA RecursionExists ==
    ASSUME NEW N \in Nat, NEW T, NEW h \in T, NEW g \in [(1 .. N) \X T -> T]
    PROVE  \E f : IsRecursion(f, T, N, h, g)
<1> DEFINE P == {n \in 0 .. N : \E f : IsRecursion(f, T, n, h, g)}
<1>1. 0 \in P
  <2> DEFINE f == [i \in 0 .. 0 |-> h]
  <2>1. f \in [0 .. 0 -> T] /\ \A i \in 0 .. 0 : f[i] = IF i = 0 THEN h ELSE g[<<i, f[i - 1]>>]
    OBVIOUS
  <2>2. IsRecursion(f, T, 0, h, g)
    BY <2>1 DEF IsRecursion
  <2> QED BY <2>2
<1>2. ASSUME NEW n \in 0 .. N - 1, n \in P PROVE n + 1 \in P
  <2>1. PICK f : IsRecursion(f, T, n, h, g)
    BY <1>2
  <2>2. /\ f \in [0 .. n -> T]
        /\ \A i \in 0 .. n : f[i] = IF i = 0 THEN h ELSE g[<<i, f[i - 1]>>]
    BY <2>1 DEF IsRecursion
  <2> DEFINE w == [i \in 0 .. n + 1 |-> IF i = n + 1 THEN g[<<n + 1, f[n]>>] ELSE f[i]]
  <2>3. g[<<n + 1, f[n]>>] \in T
    <3>1. <<n + 1, f[n]>> \in (1 .. N) \X T
      BY <1>2, <2>2
    <3> QED BY <3>1
  <2>4. w \in [0 .. n + 1 -> T]
    BY <2>2, <2>3
  <2>5. ASSUME NEW i \in 0 .. n + 1
        PROVE  w[i] = IF i = 0 THEN h ELSE g[<<i, w[i - 1]>>]
    <3>1. CASE i = n + 1
      <4>1. i # 0 /\ i - 1 = n /\ n \in 0 .. n + 1 /\ n # n + 1
        BY <3>1
      <4> QED BY <3>1, <4>1
    <3>2. CASE i # n + 1
      <4>1. i \in 0 .. n /\ (i # 0 => i - 1 \in 0 .. n + 1 /\ i - 1 # n + 1)
        BY <3>2
      <4> QED BY <2>2, <3>2, <4>1
    <3> QED BY <3>1, <3>2
  <2> HIDE DEF w
  <2>6. IsRecursion(w, T, n + 1, h, g)
    BY <2>4, <2>5 DEF IsRecursion
  <2>7. n + 1 \in 0 .. N
    BY <1>2
  <2> QED BY <2>6, <2>7
<1>3. N \in 0 .. N /\ \A n \in 0 .. N : n \in P
  <2> HIDE DEF P
  <2> QED BY <1>1, <1>2, InductionTo
<1> QED BY <1>3

(* s lists the members of S, each once. *)
ListsOnce(s, S) ==
    /\ s \in Seq(S)
    /\ \A x \in S : \E i \in 1 .. Len(s) : s[i] = x
    /\ \A i, j \in 1 .. Len(s) : s[i] = s[j] => i = j

(* A sequence that lists a set once is as long as the set is large.        *)
LEMMA ListedEach ==
    ASSUME NEW S, NEW s, ListsOnce(s, S)
    PROVE  /\ {s[i] : i \in DOMAIN s} = S /\ Len(s) \in Nat /\ IsFiniteSet(S)
           /\ Cardinality(S) = Len(s) /\ (s = <<>> <=> S = {})
<1>1. /\ s \in Seq(S) /\ Len(s) \in Nat /\ s \in [1 .. Len(s) -> S]
      /\ DOMAIN s = 1 .. Len(s)
  BY LenProperties DEF ListsOnce
<1>2. {s[i] : i \in DOMAIN s} = S
  BY <1>1 DEF ListsOnce
<1>3. s \in Surjection(1 .. Len(s), S) /\ s \in Injection(1 .. Len(s), S)
  BY <1>1 DEF ListsOnce, Surjection, Injection, IsInjective
<1>4. IsFiniteSet(1 .. Len(s)) /\ Cardinality(1 .. Len(s)) = Len(s)
  <2>1. /\ IsFiniteSet(1 .. Len(s))
        /\ Cardinality(1 .. Len(s)) = IF 1 > Len(s) THEN 0 ELSE Len(s) - 1 + 1
    BY <1>1, FS_Interval
  <2> QED BY <1>1, <2>1
<1>5. IsFiniteSet(S) /\ Cardinality(S) = Len(s)
  BY <1>3, <1>4, FS_Surjection
<1>6. s = <<>> <=> S = {}
  <2>1. s = <<>> => Len(s) = 0
    BY EmptySeq
  <2>2. s # <<>> => Len(s) # 0
    BY <1>1, EmptySeq
  <2> QED BY <1>5, <2>1, <2>2, FS_EmptySet
<1> QED BY <1>1, <1>2, <1>5, <1>6

(* The empty sequence, and one of one element.                             *)
LEMMA ShortLists ==
    /\ ListsOnce(<<>>, {})
    /\ \A e : ListsOnce(<<e>>, {e})
<1>1. ListsOnce(<<>>, {})
  <2>1. <<>> \in Seq({}) /\ Len(<<>>) = 0
    BY EmptySeq
  <2> QED BY <2>1 DEF ListsOnce
<1>2. ASSUME NEW e PROVE ListsOnce(<<e>>, {e})
  <2>1. <<e>> \in Seq({e}) /\ Len(<<e>>) = 1 /\ <<e>>[1] = e
    OBVIOUS
  <2>2. \A i \in 1 .. 1 : i = 1
    OBVIOUS
  <2>3. 1 \in 1 .. 1
    OBVIOUS
  <2> QED BY <2>1, <2>2, <2>3 DEF ListsOnce
<1> QED BY <1>1, <1>2

(* One list behind another.                                                *)
LEMMA ListsJoined ==
    ASSUME NEW S, NEW Z, NEW s, NEW t, ListsOnce(s, S), ListsOnce(t, Z), S \cap Z = {}
    PROVE  ListsOnce(s \o t, S \cup Z)
<1> DEFINE U == S \cup Z
           c == s \o t
           m == Len(s)
           n == Len(t)
<1>1. /\ m \in Nat /\ n \in Nat
      /\ s \in [1 .. m -> S] /\ t \in [1 .. n -> Z]
      /\ s \in Seq(S) /\ t \in Seq(Z)
  BY LenProperties DEF ListsOnce
<1>2. s \in Seq(U) /\ t \in Seq(U)
  <2>1. s \in [1 .. m -> U] /\ t \in [1 .. n -> U]
    BY <1>1
  <2> QED BY <1>1, <2>1, IntervalIsSeq
<1>3. /\ c \in Seq(U) /\ Len(c) = m + n
      /\ \A i \in 1 .. m + n : c[i] = IF i <= m THEN s[i] ELSE t[i - m]
  <2> HIDE DEF U
  <2> QED BY <1>2, ConcatProperties
<1> HIDE DEF c, m, n
<1>4. \A i \in 1 .. m : i \in 1 .. m + n /\ i <= m
  BY <1>1
<1>5. \A i \in 1 .. n : \E k \in 1 .. m + n : ~(k <= m) /\ k - m = i
  <2>1. ASSUME NEW i \in 1 .. n PROVE \E k \in 1 .. m + n : ~(k <= m) /\ k - m = i
    <3>1. i + m \in 1 .. m + n /\ ~(i + m <= m) /\ (i + m) - m = i
      BY <1>1
    <3> QED BY <3>1
  <2> QED BY <2>1
<1>6. \A i \in 1 .. m + n : ~(i <= m) => i - m \in 1 .. n
  BY <1>1
<1>7. ASSUME NEW x \in U PROVE \E i \in 1 .. m + n : c[i] = x
  <2>1. CASE x \in S
    <3>1. PICK i \in 1 .. m : s[i] = x
      BY <2>1 DEF ListsOnce, m
    <3> QED BY <1>3, <1>4, <3>1
  <2>2. CASE x \in Z
    <3>1. PICK i \in 1 .. n : t[i] = x
      BY <2>2 DEF ListsOnce, n
    <3>3. PICK k \in 1 .. m + n : ~(k <= m) /\ k - m = i
      BY <1>5
    <3>4. c[k] = x
      BY <1>3, <3>1, <3>3
    <3> QED BY <3>4
  <2> QED BY <2>1, <2>2
<1>8. ASSUME NEW i \in 1 .. m + n, NEW j \in 1 .. m + n, c[i] = c[j] PROVE i = j
  <2>1. CASE i <= m /\ j <= m
    <3>1. i \in 1 .. m /\ j \in 1 .. m /\ s[i] = s[j]
      BY <1>1, <1>3, <1>8, <2>1
    <3> QED BY <3>1 DEF ListsOnce, m
  <2>2. CASE ~(i <= m) /\ ~(j <= m)
    <3>1. i - m \in 1 .. n /\ j - m \in 1 .. n /\ t[i - m] = t[j - m]
      BY <1>3, <1>6, <1>8, <2>2
    <3>2. i - m = j - m
      BY <3>1 DEF ListsOnce, n
    <3> QED BY <1>1, <3>2
  <2>3. ASSUME NEW a \in 1 .. m + n, NEW b \in 1 .. m + n, a <= m, ~(b <= m)
        PROVE  c[a] # c[b]
    <3>1. a \in 1 .. m /\ c[a] \in S
      BY <1>1, <1>3, <2>3
    <3>2. c[b] \in Z
      BY <1>1, <1>3, <1>6, <2>3
    <3> QED BY <3>1, <3>2
  <2> QED BY <1>8, <2>1, <2>2, <2>3
<1> QED BY <1>3, <1>7, <1>8 DEF ListsOnce, c
=============================================================================
