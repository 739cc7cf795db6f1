----------------------------- MODULE LruProofs -----------------------------
(***************************************************************************)
(* Theorems about Lru for every set of keys, values and nodes and every    *)
(* set of capacities.  The nodes linked from l->head are described by a    *)
(* sequence s; each list operation of lru.c is shown to do to s what it    *)
(* should do to a list, and the invariants of the run follow from what s   *)
(* has in common with the two tables.                                      *)
(***************************************************************************)
EXTENDS Lru, DataLemmas

(* The links of c are those of the doubly linked list s.                   *)
Chained(c, s) ==
    /\ s \in Seq(Node)
    /\ \A i, j \in 1 .. Len(s) : s[i] = s[j] => i = j
    /\ c.head = IF Len(s) = 0 THEN Null ELSE s[1]
    /\ c.tail = IF Len(s) = 0 THEN Null ELSE s[Len(s)]
    /\ \A i \in 1 .. Len(s) :
          /\ c.node[s[i]] # Null
          /\ c.node[s[i]].prev = IF i = 1 THEN Null ELSE s[i - 1]
          /\ c.node[s[i]].next = IF i = Len(s) THEN Null ELSE s[i + 1]

(* The nodes of a list, the list without its i-th node, and with n in      *)
(* front.                                                                  *)
Members(s) == {s[i] : i \in 1 .. Len(s)}
Minus(s, i) == [j \in 1 .. Len(s) - 1 |-> IF j < i THEN s[j] ELSE s[j + 1]]
Plus(n, s) == [j \in 1 .. Len(s) + 1 |-> IF j = 1 THEN n ELSE s[j - 1]]

(* The same nodes are allocated in c and d, with the same values, but for  *)
(* node n.                                                                 *)
SameBut(c, d, n) ==
    \A m \in Node \ {n} : /\ (d.node[m] = Null) <=> (c.node[m] = Null)
                          /\ c.node[m] # Null => d.node[m].val = c.node[m].val
---------------------------------------------------------------------------
(* Null is none of the things it stands in for.                           *)
LEMMA NullIsNothing ==
    Null \notin Key /\ Null \notin Value /\ Null \notin Node /\ Null \notin Contents
BY LruAssumption DEF Contents, Pointer

(* Elements of a list and of a chain.                                      *)
LEMMA ChainedTypes ==
    ASSUME NEW c \in Chain, NEW s, Chained(c, s)
    PROVE  /\ Len(s) \in Nat /\ DOMAIN s = 1 .. Len(s)
           /\ \A i \in 1 .. Len(s) : s[i] \in Node /\ s[i] # Null /\ c.node[s[i]] \in Contents
           /\ Members(s) \subseteq Node
<1>1. s \in Seq(Node)
  BY DEF Chained
<1>2. Len(s) \in Nat /\ DOMAIN s = 1 .. Len(s) /\ \A i \in 1 .. Len(s) : s[i] \in Node
  BY <1>1, LenProperties, ElementOfSeq
<1>3. \A m \in Node : c.node[m] \in Contents \cup {Null}
  BY DEF Chain
<1>4. \A i \in 1 .. Len(s) : c.node[s[i]] # Null
  BY DEF Chained
<1> QED BY <1>2, <1>3, <1>4, NullIsNothing DEF Members

(* lru_detach unlinks a node, whether first, last, inside or alone, and    *)
(* leaves the rest linked in the order it had.                             *)
LEMMA DetachChained ==
    ASSUME NEW c \in Chain, NEW s, Chained(c, s), NEW i \in 1 .. Len(s)
    PROVE  /\ Detach(c, s[i]) \in Chain
           /\ Chained(Detach(c, s[i]), Minus(s, i))
           /\ SameBut(c, Detach(c, s[i]), s[i])
           /\ Detach(c, s[i]).node[s[i]]
                 = [val |-> c.node[s[i]].val, prev |-> Null, next |-> Null]
<1>0. /\ Len(s) \in Nat /\ s \in Seq(Node)
      /\ \A j \in 1 .. Len(s) : s[j] \in Node /\ s[j] # Null /\ c.node[s[j]] \in Contents
  BY ChainedTypes DEF Chained
<1>v. Null \notin Node /\ Null \notin Contents
  BY NullIsNothing
<1> DEFINE n == s[i]
           p == c.node[n].prev
           x == c.node[n].next
           d == Detach(c, n)
           w == Minus(s, i)
<1>1. /\ p = IF i = 1 THEN Null ELSE s[i - 1]
      /\ x = IF i = Len(s) THEN Null ELSE s[i + 1]
      /\ n \in Node /\ c.node[n] \in Contents
  BY <1>0 DEF Chained
<1>2. /\ w \in Seq(Node) /\ Len(w) = Len(s) - 1
      /\ \A j \in 1 .. Len(s) - 1 : w[j] = IF j < i THEN s[j] ELSE s[j + 1]
  BY <1>0, RemovalProperties DEF Minus
<1>3. /\ d.head = IF n = c.head THEN x ELSE c.head
      /\ d.tail = IF n = c.tail THEN p ELSE c.tail
      /\ d = [node |-> d.node, head |-> d.head, tail |-> d.tail]
      /\ d.node = [m \in Node |-> d.node[m]]
  BY DEF Detach
<1>4. \A m \in Node :
         d.node[m] = IF m = n THEN [c.node[n] EXCEPT !.prev = Null, !.next = Null]
                     ELSE IF m = p THEN [c.node[m] EXCEPT !.next = x]
                     ELSE IF m = x THEN [c.node[m] EXCEPT !.prev = p]
                     ELSE c.node[m]
  BY DEF Detach
<1> HIDE DEF n, p, x, d, w
<1>5. d.node[n] = [val |-> c.node[n].val, prev |-> Null, next |-> Null]
  BY <1>1, <1>4 DEF Contents
<1>6. /\ i # 1 => p = s[i - 1] /\ p \in Node /\ c.node[p] \in Contents
      /\ i # Len(s) => x = s[i + 1] /\ x \in Node /\ c.node[x] \in Contents
      /\ p \in Pointer /\ x \in Pointer
      /\ p \in Node => i # 1
      /\ x \in Node => i # Len(s)
  BY <1>0, <1>1, <1>v DEF Pointer
<1>7. \A m \in Node : /\ m = p => c.node[p] \in Contents
                      /\ m = x => c.node[x] \in Contents
  BY <1>6
<1>8p. \A m \in Node : m # n /\ m = p =>
          d.node[m] = [val |-> c.node[m].val, prev |-> c.node[m].prev, next |-> x]
  BY <1>4, <1>7 DEF Contents
<1>8x. \A m \in Node : m # n /\ m # p /\ m = x =>
          d.node[m] = [val |-> c.node[m].val, prev |-> p, next |-> c.node[m].next]
  BY <1>4, <1>7 DEF Contents
<1>8. \A m \in Node : m # n /\ m # p /\ m # x => d.node[m] = c.node[m]
  BY <1>4
<1>f. \A m \in Node : m # n /\ (m = p \/ m = x) =>
         d.node[m] \in Contents /\ d.node[m].val = c.node[m].val
  <2> SUFFICES ASSUME NEW m \in Node, m # n, m = p \/ m = x
               PROVE  d.node[m] \in Contents /\ d.node[m].val = c.node[m].val
    OBVIOUS
  <2>1. /\ c.node[m].val \in Value /\ c.node[m].prev \in Pointer /\ c.node[m].next \in Pointer
        /\ p \in Pointer /\ x \in Pointer
    BY <1>6, <1>7 DEF Contents
  <2>2. CASE m = p
    <3>1. d.node[m] = [val |-> c.node[m].val, prev |-> c.node[m].prev, next |-> x]
      BY <1>8p, <2>2
    <3> QED BY <2>1, <3>1 DEF Contents
  <2>3. CASE m # p /\ m = x
    <3>1. d.node[m] = [val |-> c.node[m].val, prev |-> p, next |-> c.node[m].next]
      BY <1>8x, <2>3
    <3> QED BY <2>1, <3>1 DEF Contents
  <2> QED BY <2>2, <2>3
<1>9. SameBut(c, d, n)
  <2> SUFFICES ASSUME NEW m \in Node, m # n
               PROVE  /\ (d.node[m] = Null) <=> (c.node[m] = Null)
                      /\ c.node[m] # Null => d.node[m].val = c.node[m].val
    BY DEF SameBut
  <2>1. CASE m = p \/ m = x
    BY <1>7, <1>f, <1>v, <2>1
  <2>2. CASE m # p /\ m # x
    BY <1>8, <2>2
  <2> QED BY <2>1, <2>2
<1>10. d \in Chain
  <2>1. \A m \in Node : d.node[m] \in Contents \cup {Null}
    <3> SUFFICES ASSUME NEW m \in Node PROVE d.node[m] \in Contents \cup {Null}
      OBVIOUS
    <3>1. CASE m = n
      BY <1>1, <1>5, <3>1 DEF Contents, Pointer
    <3>2. CASE m # n /\ (m = p \/ m = x)
      BY <1>f, <3>2
    <3>3. CASE m # n /\ m # p /\ m # x
      BY <1>8, <3>3 DEF Chain
    <3> QED BY <3>1, <3>2, <3>3
  <2>2. d.head \in Pointer /\ d.tail \in Pointer
    BY <1>3, <1>6 DEF Chain
  <2> QED BY <1>3, <2>1, <2>2 DEF Chain
<1>11. Chained(d, w)
  <2> DEFINE o(j) == IF j < i THEN j ELSE j + 1
  <2>o. \A j \in 1 .. Len(w) :
           o(j) \in 1 .. Len(s) /\ o(j) # i /\ w[j] = s[o(j)]
    BY <1>0, <1>2
  <2>i. \A j, k \in 1 .. Len(s) : s[j] = s[k] => j = k
    BY DEF Chained
  <2>1. ASSUME NEW j \in 1 .. Len(w), NEW k \in 1 .. Len(w), w[j] = w[k] PROVE j = k
    <3>1. o(j) = o(k)
      <4> HIDE DEF o
      <4> QED BY <2>1, <2>o, <2>i
    <3> QED BY <1>0, <1>2, <3>1
  <2>2. d.head = IF Len(w) = 0 THEN Null ELSE w[1]
    <3>1. Len(s) >= 1 /\ c.head = s[1] /\ (n = c.head <=> i = 1)
      BY <1>0, <2>i DEF Chained, n
    <3>2. CASE i = 1
      <4>1. d.head = x
        BY <1>3, <3>1, <3>2
      <4>2. CASE Len(s) = 1
        BY <1>1, <1>2, <3>2, <4>1, <4>2
      <4>3. CASE Len(s) # 1
        <5>1. 1 \in 1 .. Len(s) - 1 /\ Len(w) # 0
          BY <1>0, <1>2, <4>3
        <5>2. w[1] = s[2]
          BY <1>2, <3>2, <5>1
        <5> QED BY <1>1, <3>2, <4>1, <4>3, <5>1, <5>2
      <4> QED BY <4>2, <4>3
    <3>3. CASE i # 1
      <4>1. 1 \in 1 .. Len(s) - 1 /\ Len(w) # 0 /\ 1 < i
        BY <1>0, <1>2, <3>3
      <4>2. w[1] = s[1]
        BY <1>2, <4>1
      <4> QED BY <1>3, <3>1, <3>3, <4>1, <4>2
    <3> QED BY <3>2, <3>3
  <2>3. d.tail = IF Len(w) = 0 THEN Null ELSE w[Len(w)]
    <3>1. c.tail = s[Len(s)] /\ (n = c.tail <=> i = Len(s))
      BY <1>0, <2>i DEF Chained, n
    <3>2. CASE i = Len(s)
      <4>1. d.tail = p
        BY <1>3, <3>1, <3>2
      <4>2. CASE Len(s) = 1
        BY <1>1, <1>2, <3>2, <4>1, <4>2
      <4>3. CASE Len(s) # 1
        <5>1. Len(w) \in 1 .. Len(s) - 1 /\ Len(w) < i /\ Len(w) = i - 1
          BY <1>0, <1>2, <3>2, <4>3
        <5>2. w[Len(w)] = s[Len(w)]
          BY <1>2, <5>1
        <5> QED BY <1>0, <1>1, <3>2, <4>1, <4>3, <5>1, <5>2
      <4> QED BY <4>2, <4>3
    <3>3. CASE i # Len(s)
      <4>1. Len(w) \in 1 .. Len(s) - 1 /\ ~(Len(w) < i) /\ Len(w) + 1 = Len(s)
        BY <1>0, <1>2, <3>3
      <4>2. w[Len(w)] = s[Len(w) + 1]
        BY <1>2, <4>1
      <4>3. w[Len(w)] = s[Len(s)]
        BY <4>1, <4>2
      <4> QED BY <1>0, <1>2, <1>3, <3>1, <3>3, <4>1, <4>3
    <3> QED BY <3>2, <3>3
  <2>4. ASSUME NEW j \in 1 .. Len(w)
        PROVE  /\ d.node[w[j]] # Null
               /\ d.node[w[j]].prev = IF j = 1 THEN Null ELSE w[j - 1]
               /\ d.node[w[j]].next = IF j = Len(w) THEN Null ELSE w[j + 1]
    <3> HIDE DEF o
    <3>q. PICK q \in 1 .. Len(s) : q # i /\ w[j] = s[q] /\ q = IF j < i THEN j ELSE j + 1
      BY <2>o DEF o
    <3>m. PICK m \in Node : m = w[j]
      BY <1>0, <3>q
    <3>2. /\ m # n /\ c.node[m] \in Contents /\ c.node[m] # Null
          /\ c.node[m].prev = IF q = 1 THEN Null ELSE s[q - 1]
          /\ c.node[m].next = IF q = Len(s) THEN Null ELSE s[q + 1]
      <4>1. /\ c.node[s[q]] \in Contents /\ c.node[s[q]] # Null
            /\ c.node[s[q]].prev = IF q = 1 THEN Null ELSE s[q - 1]
            /\ c.node[s[q]].next = IF q = Len(s) THEN Null ELSE s[q + 1]
        <5> HIDE DEF n, d, w, p, x
        <5> QED BY <1>0, <3>q DEF Chained
      <4>2. m # n
        BY <1>0, <2>i, <3>q, <3>m DEF n
      <4>3. m = s[q]
        BY <3>q, <3>m
      <4> QED
        BY <4>1, <4>2, <4>3
    <3>3. (m = p => q = i - 1) /\ (m = x => q = i + 1)
          /\ (q = i - 1 => m = p) /\ (q = i + 1 => m = x)
      <4>1. CASE i = 1
        BY <1>0, <1>1, <2>i, <3>q, <3>m, <4>1
      <4>2. CASE i # 1
        BY <1>0, <1>1, <2>i, <3>q, <3>m, <4>2
      <4> QED BY <4>1, <4>2
    <3>4. d.node[m] # Null
      BY <1>9, <3>2 DEF SameBut
    <3>i. q = i + 1 => q # i - 1
      BY <1>0
    <3>5. d.node[m].prev = IF q = i + 1 THEN p ELSE c.node[m].prev
      <4>1. CASE q = i + 1
        <5>1. d.node[m] = [val |-> c.node[m].val, prev |-> p, next |-> c.node[m].next]
          BY <1>8x, <3>2, <3>3, <3>i, <4>1
        <5> QED BY <4>1, <5>1
      <4>2. CASE q = i - 1
        <5>1. d.node[m] = [val |-> c.node[m].val, prev |-> c.node[m].prev, next |-> x]
          BY <1>8p, <3>2, <3>3, <4>2
        <5> QED BY <3>i, <4>2, <5>1
      <4>3. CASE q # i + 1 /\ q # i - 1
        BY <1>8, <3>2, <3>3, <4>3
      <4> QED BY <4>1, <4>2, <4>3
    <3>6. d.node[m].next = IF q = i - 1 THEN x ELSE c.node[m].next
      <4>1. CASE q = i + 1
        <5>1. d.node[m] = [val |-> c.node[m].val, prev |-> p, next |-> c.node[m].next]
          BY <1>8x, <3>2, <3>3, <3>i, <4>1
        <5> QED BY <3>i, <4>1, <5>1
      <4>2. CASE q = i - 1
        <5>1. d.node[m] = [val |-> c.node[m].val, prev |-> c.node[m].prev, next |-> x]
          BY <1>8p, <3>2, <3>3, <4>2
        <5> QED BY <4>2, <5>1
      <4>3. CASE q # i + 1 /\ q # i - 1
        BY <1>8, <3>2, <3>3, <4>3
      <4> QED BY <4>1, <4>2, <4>3
    <3>7. d.node[m].prev = IF j = 1 THEN Null ELSE w[j - 1]
      <4>1. CASE j < i
        BY <1>0, <1>2, <3>q, <3>2, <3>5, <4>1
      <4>2. CASE j = i
        BY <1>0, <1>1, <1>2, <3>q, <3>2, <3>5, <4>2
      <4>3. CASE j > i
        BY <1>0, <1>2, <3>q, <3>2, <3>5, <4>3
      <4> QED BY <4>1, <4>2, <4>3
    <3>8. d.node[m].next = IF j = Len(w) THEN Null ELSE w[j + 1]
      <4>1. CASE j = i - 1
        BY <1>0, <1>1, <1>2, <3>q, <3>2, <3>6, <4>1
      <4>2. CASE j < i - 1
        <5>1. j + 1 \in 1 .. Len(s) - 1 /\ j + 1 < i /\ j # Len(w)
          BY <1>0, <1>2, <4>2
        <5>2. w[j + 1] = s[j + 1]
          BY <1>2, <5>1
        <5>3. q = j /\ q # Len(s) /\ q # i - 1
          BY <1>0, <1>2, <3>q, <4>2
        <5> QED BY <3>2, <3>6, <5>1, <5>2, <5>3
      <4>3. CASE j >= i
        <5>1. q = j + 1 /\ d.node[m].next = IF q = Len(s) THEN Null ELSE s[q + 1]
          BY <1>0, <1>2, <3>q, <3>2, <3>6, <4>3
        <5>2. CASE j = Len(w)
          BY <1>0, <1>2, <5>1, <5>2
        <5>3. CASE j # Len(w)
          <6>1. j + 1 \in 1 .. Len(s) - 1 /\ ~(j + 1 < i)
            BY <1>0, <1>2, <4>3, <5>3
          <6>2. w[j + 1] = s[(j + 1) + 1]
            BY <1>2, <6>1
          <6> QED BY <1>0, <1>2, <5>1, <5>3, <6>1, <6>2
        <5> QED BY <5>2, <5>3
      <4> QED BY <4>1, <4>2, <4>3
    <3> QED BY <3>m, <3>4, <3>7, <3>8
  <2> QED BY <1>2, <2>1, <2>2, <2>3, <2>4 DEF Chained
<1> QED BY <1>5, <1>9, <1>10, <1>11 DEF n, d, w

(* The list without its i-th node, and with a node in front of it.         *)
LEMMA MinusProperties ==
    ASSUME NEW s \in Seq(Node), NEW i \in 1 .. Len(s),
           \A j, k \in 1 .. Len(s) : s[j] = s[k] => j = k
    PROVE  /\ Minus(s, i) \in Seq(Node) /\ Len(Minus(s, i)) = Len(s) - 1
           /\ Members(Minus(s, i)) = Members(s) \ {s[i]}
<1>1. Len(s) \in Nat
  BY LenProperties
<1> DEFINE w == Minus(s, i)
<1>2. /\ w \in Seq(Node) /\ Len(w) = Len(s) - 1
      /\ \A j \in 1 .. Len(s) - 1 : w[j] = IF j < i THEN s[j] ELSE s[j + 1]
  BY RemovalProperties DEF Minus
<1> HIDE DEF w
<1>3. \A j \in 1 .. Len(w) : w[j] \in Members(s) /\ w[j] # s[i]
  <2> SUFFICES ASSUME NEW j \in 1 .. Len(w) PROVE w[j] \in Members(s) /\ w[j] # s[i]
    OBVIOUS
  <2>1. CASE j < i
    BY <1>1, <1>2, <2>1 DEF Members
  <2>2. CASE ~(j < i)
    <3>1. j + 1 \in 1 .. Len(s) /\ j + 1 # i /\ w[j] = s[j + 1]
      BY <1>1, <1>2, <2>2
    <3> QED BY <3>1 DEF Members
  <2> QED BY <2>1, <2>2
<1>4. \A k \in 1 .. Len(s) : k # i => s[k] \in Members(w)
  <2> SUFFICES ASSUME NEW k \in 1 .. Len(s), k # i PROVE s[k] \in Members(w)
    OBVIOUS
  <2>1. CASE k < i
    <3>1. k \in 1 .. Len(w) /\ w[k] = s[k]
      BY <1>1, <1>2, <2>1
    <3> QED BY <3>1 DEF Members
  <2>2. CASE k > i
    <3>1. k - 1 \in 1 .. Len(s) - 1 /\ ~(k - 1 < i) /\ (k - 1) + 1 = k
      BY <1>1, <2>2
    <3>2. k - 1 \in 1 .. Len(w) /\ w[k - 1] = s[(k - 1) + 1]
      BY <1>2, <3>1
    <3> QED BY <3>1, <3>2 DEF Members
  <2> QED BY <2>1, <2>2
<1>5. Members(w) \subseteq Members(s) \ {s[i]}
  BY <1>3 DEF Members
<1>6. Members(s) \ {s[i]} \subseteq Members(w)
  <2> SUFFICES ASSUME NEW m \in Members(s), m # s[i] PROVE m \in Members(w)
    OBVIOUS
  <2>1. PICK k \in 1 .. Len(s) : m = s[k]
    BY DEF Members
  <2> QED BY <1>4, <2>1
<1> QED BY <1>2, <1>5, <1>6 DEF w

(* A node in front of a list.                                              *)
LEMMA PlusProperties ==
    ASSUME NEW s \in Seq(Node), NEW n \in Node
    PROVE  /\ Plus(n, s) \in Seq(Node) /\ Len(Plus(n, s)) = Len(s) + 1
           /\ Plus(n, s)[1] = n
           /\ \A j \in 2 .. Len(s) + 1 : Plus(n, s)[j] = s[j - 1]
           /\ Members(Plus(n, s)) = Members(s) \cup {n}
<1> DEFINE w == Plus(n, s)
<1>1. Len(s) \in Nat /\ \A j \in 1 .. Len(s) : s[j] \in Node
  BY LenProperties, ElementOfSeq
<1>2. w \in [1 .. Len(s) + 1 -> Node]
  BY <1>1 DEF Plus
<1>3. w[1] = n /\ \A j \in 2 .. Len(s) + 1 : w[j] = s[j - 1]
  BY <1>1 DEF Plus
<1> HIDE DEF w
<1>4. w \in Seq(Node) /\ Len(w) = Len(s) + 1
  BY <1>1, <1>2, IntervalIsSeq
<1>5. \A j \in 1 .. Len(w) : w[j] \in Members(s) \cup {n}
  <2> SUFFICES ASSUME NEW j \in 1 .. Len(w), j # 1 PROVE w[j] \in Members(s)
    BY <1>3
  <2>1. j \in 2 .. Len(s) + 1 /\ j - 1 \in 1 .. Len(s)
    BY <1>1, <1>4
  <2> QED BY <1>3, <2>1 DEF Members
<1>6. \A k \in 1 .. Len(s) : s[k] \in Members(w)
  <2> SUFFICES ASSUME NEW k \in 1 .. Len(s) PROVE s[k] \in Members(w)
    OBVIOUS
  <2>1. k + 1 \in 2 .. Len(s) + 1 /\ (k + 1) - 1 = k
    BY <1>1
  <2>2. k + 1 \in 1 .. Len(w) /\ w[k + 1] = s[k]
    BY <1>1, <1>3, <1>4, <2>1
  <2> QED BY <2>2 DEF Members
<1>7. n \in Members(w)
  <2>1. 1 \in 1 .. Len(w)
    BY <1>1, <1>4
  <2> QED BY <1>3, <2>1 DEF Members
<1>8. Members(w) \subseteq Members(s) \cup {n}
  BY <1>5 DEF Members
<1>9. Members(s) \cup {n} \subseteq Members(w)
  BY <1>6, <1>7 DEF Members
<1> QED BY <1>3, <1>4, <1>8, <1>9 DEF w

(* A change that keeps the ends and the links of a list keeps the list.    *)
LEMMA FrameChained ==
    ASSUME NEW c \in Chain, NEW d \in Chain, NEW s, Chained(c, s),
           d.head = c.head, d.tail = c.tail,
           \A m \in Members(s) : /\ d.node[m] # Null
                                 /\ d.node[m].prev = c.node[m].prev
                                 /\ d.node[m].next = c.node[m].next
    PROVE  Chained(d, s)
<1>1. \A i \in 1 .. Len(s) : s[i] \in Members(s)
  BY DEF Members
<1> QED BY <1>1 DEF Chained

(* lru_prepend puts a node that is in no list in front of the list.        *)
LEMMA PrependChained ==
    ASSUME NEW c \in Chain, NEW s, Chained(c, s), NEW n \in Node, n \notin Members(s),
           NEW v \in Value, c.node[n] = [val |-> v, prev |-> Null, next |-> Null]
    PROVE  /\ Prepend(c, n) \in Chain
           /\ Chained(Prepend(c, n), Plus(n, s))
           /\ SameBut(c, Prepend(c, n), n)
           /\ Prepend(c, n).node[n] # Null /\ Prepend(c, n).node[n].val = v
<1> DEFINE d == Prepend(c, n)
           w == Plus(n, s)
<1>0. /\ Len(s) \in Nat /\ s \in Seq(Node)
      /\ \A j \in 1 .. Len(s) : s[j] \in Node /\ s[j] # Null /\ c.node[s[j]] \in Contents
      /\ \A j \in 1 .. Len(s) : s[j] # n
  BY ChainedTypes DEF Chained, Members
<1>v. Null \notin Node /\ Null \notin Contents
  BY NullIsNothing
<1>1. /\ w \in Seq(Node) /\ Len(w) = Len(s) + 1 /\ w[1] = n
      /\ \A j \in 2 .. Len(s) + 1 : w[j] = s[j - 1]
  BY <1>0, PlusProperties
<1>2. c.node[n] \in Contents /\ c.node[n] # Null
  BY <1>v DEF Contents, Pointer
<1>3. c = [node |-> c.node, head |-> c.head, tail |-> c.tail] /\ c.node \in [Node -> Contents \cup {Null}]
  BY DEF Chain
<1>h. c.head = (IF Len(s) = 0 THEN Null ELSE s[1]) /\ c.tail = IF Len(s) = 0 THEN Null ELSE s[Len(s)]
  BY DEF Chained
<1>4. CASE Len(s) = 0
  <2>1. d = [c EXCEPT !.head = n, !.tail = n]
    BY <1>h, <1>4 DEF Prepend
  <2>2. d.node = c.node /\ d.head = n /\ d.tail = n /\ d \in Chain
    BY <1>3, <2>1 DEF Chain, Pointer
  <2>3. Chained(d, w)
    BY <1>0, <1>1, <1>2, <1>4, <2>2 DEF Chained
  <2> QED BY <1>2, <2>2, <2>3 DEF SameBut
<1>5. CASE Len(s) # 0
  <2>h. PICK h \in Node : h = s[1]
    BY <1>0, <1>5
  <2>1. /\ c.head = h /\ h # Null /\ h # n /\ c.node[h] \in Contents /\ c.tail = s[Len(s)]
    BY <1>0, <1>5, <1>h, <2>h
  <2>2. d = [c EXCEPT !.node[n].next = h, !.node[h].prev = n, !.head = n]
    BY <2>1 DEF Prepend
  <2>3. /\ d = [node |-> d.node, head |-> n, tail |-> c.tail]
        /\ d.head = n /\ d.tail = c.tail
        /\ d.node = [c.node EXCEPT ![n] = [c.node[n] EXCEPT !.next = h],
                                   ![h] = [c.node[h] EXCEPT !.prev = n]]
    BY <1>3, <2>1, <2>2
  <2>4. /\ d.node[n] = [val |-> v, prev |-> Null, next |-> h]
        /\ d.node[h] = [val |-> c.node[h].val, prev |-> n, next |-> c.node[h].next]
        /\ \A m \in Node : m # n /\ m # h => d.node[m] = c.node[m]
        /\ DOMAIN d.node = Node
    BY <1>2, <1>3, <2>1, <2>3 DEF Contents
  <2>5. d.node[n] \in Contents /\ d.node[h] \in Contents
    <3>1. c.node[h].val \in Value /\ c.node[h].next \in Pointer
      BY <2>1 DEF Contents
    <3> QED BY <2>4, <3>1 DEF Contents, Pointer
  <2>6. d \in Chain
    <3>1. d.node \in [Node -> Contents \cup {Null}]
      BY <1>3, <2>3, <2>4, <2>5
    <3>2. c.tail \in Pointer
      BY DEF Chain
    <3> QED BY <2>3, <3>1, <3>2 DEF Chain, Pointer
  <2>7. \A i, j \in 1 .. Len(w) : w[i] = w[j] => i = j
    <3> SUFFICES ASSUME NEW i \in 1 .. Len(w), NEW j \in 1 .. Len(w), w[i] = w[j]
                 PROVE  i = j
      OBVIOUS
    <3>1. \A k \in 1 .. Len(w) : k = 1 \/ (k - 1 \in 1 .. Len(s) /\ w[k] = s[k - 1])
      BY <1>0, <1>1
    <3>2. \A k, l \in 1 .. Len(s) : s[k] = s[l] => k = l
      BY DEF Chained
    <3>3. \A k \in 1 .. Len(w) : k # 1 => w[k] # n
      BY <1>0, <3>1
    <3>4. CASE i = 1 \/ j = 1
      BY <1>1, <3>3, <3>4
    <3>5. CASE i # 1 /\ j # 1
      <4>1. i - 1 = j - 1
        BY <3>1, <3>2, <3>5
      <4> QED BY <4>1
    <3> QED BY <3>4, <3>5
  <2>8. d.tail = w[Len(w)] /\ d.head = w[1]
    BY <1>0, <1>1, <1>5, <2>1, <2>3
  <2>9. ASSUME NEW i \in 1 .. Len(w)
        PROVE  /\ d.node[w[i]] # Null
               /\ d.node[w[i]].prev = IF i = 1 THEN Null ELSE w[i - 1]
               /\ d.node[w[i]].next = IF i = Len(w) THEN Null ELSE w[i + 1]
    <3>1. CASE i = 1
      <4>1. w[i] = n /\ w[i + 1] = h /\ i # Len(w)
        <5>1. 2 \in 2 .. Len(s) + 1 /\ 2 - 1 = 1 /\ i + 1 = 2 /\ i # Len(w)
          BY <1>0, <1>1, <1>5, <3>1
        <5>2. w[2] = s[1]
          BY <1>1, <5>1
        <5> QED BY <1>1, <2>h, <3>1, <5>1, <5>2
      <4> QED BY <1>v, <2>4, <2>5, <3>1, <4>1
    <3>2. CASE i # 1
      <4>k. PICK k \in 1 .. Len(s) : k = i - 1 /\ w[i] = s[k]
        BY <1>0, <1>1, <3>2
      <4>m. PICK m \in Node : m = s[k] /\ m # n
        BY <1>0
      <4>1. /\ c.node[m] # Null
            /\ c.node[m].prev = IF k = 1 THEN Null ELSE s[k - 1]
            /\ c.node[m].next = IF k = Len(s) THEN Null ELSE s[k + 1]
        BY <4>m DEF Chained
      <4>2. m = h <=> k = 1
        BY <1>0, <1>5, <2>h, <4>m DEF Chained
      <4>3. d.node[m] # Null /\ d.node[m].next = c.node[m].next
        BY <1>v, <2>4, <2>5, <4>m, <4>1
      <4>4. d.node[m].prev = IF k = 1 THEN n ELSE c.node[m].prev
        <5>1. CASE k = 1
          BY <2>4, <4>2, <5>1
        <5>2. CASE k # 1
          BY <2>4, <4>m, <4>2, <5>2
        <5> QED BY <5>1, <5>2
      <4>5. k # 1 => i - 1 \in 2 .. Len(s) + 1 /\ w[i - 1] = s[k - 1]
        BY <1>0, <1>1, <4>k
      <4>6. d.node[m].prev = w[i - 1]
        BY <1>1, <4>k, <4>1, <4>4, <4>5
      <4>7. (i = Len(w) <=> k = Len(s)) /\ (k # Len(s) => w[i + 1] = s[k + 1])
        BY <1>0, <1>1, <4>k
      <4> QED BY <3>2, <4>k, <4>m, <4>1, <4>3, <4>6, <4>7
    <3> QED BY <3>1, <3>2
  <2>10. Chained(d, w)
    <3>1. Len(w) # 0
      BY <1>0, <1>1
    <3> QED BY <1>1, <2>7, <2>8, <2>9, <3>1 DEF Chained
  <2>11. SameBut(c, d, n)
    BY <1>v, <2>1, <2>4, <2>5 DEF SameBut
  <2> QED BY <1>v, <2>4, <2>5, <2>6, <2>10, <2>11
<1> QED BY <1>4, <1>5

(* lru_update and lru_get of a cached key move its node to the front and   *)
(* leave every value where it is.                                          *)
LEMMA ToFrontChained ==
    ASSUME NEW c \in Chain, NEW s, Chained(c, s), NEW i \in 1 .. Len(s)
    PROVE  /\ ToFront(c, s[i]) \in Chain
           /\ Chained(ToFront(c, s[i]), Plus(s[i], Minus(s, i)))
           /\ SameBut(c, ToFront(c, s[i]), s[i])
           /\ ToFront(c, s[i]).node[s[i]] # Null
           /\ ToFront(c, s[i]).node[s[i]].val = c.node[s[i]].val
<1> DEFINE n == s[i]
           b == Detach(c, n)
           w == Minus(s, i)
           d == Prepend(b, n)
<1>1. n \in Node /\ c.node[n] \in Contents
  BY ChainedTypes
<1>2. c.node[n].val \in Value
  BY <1>1 DEF Contents
<1>3. /\ b \in Chain /\ Chained(b, w) /\ SameBut(c, b, n)
      /\ b.node[n] = [val |-> c.node[n].val, prev |-> Null, next |-> Null]
  BY DetachChained
<1>4. n \notin Members(w)
  BY MinusProperties DEF Chained
<1> HIDE DEF n, b, w
<1>5. /\ d \in Chain /\ Chained(d, Plus(n, w)) /\ SameBut(b, d, n)
      /\ d.node[n] # Null /\ d.node[n].val = c.node[n].val
  BY <1>1, <1>2, <1>3, <1>4, PrependChained
<1>6. SameBut(c, d, n)
  BY <1>3, <1>5 DEF SameBut
<1> QED BY <1>5, <1>6 DEF ToFront, n, b, w

(* Overwriting the value of a listed node leaves the list as it is.        *)
LEMMA StoreChained ==
    ASSUME NEW c \in Chain, NEW s, Chained(c, s), NEW i \in 1 .. Len(s), NEW v \in Value
    PROVE  /\ Store(c, s[i], v) \in Chain
           /\ Chained(Store(c, s[i], v), s)
           /\ SameBut(c, Store(c, s[i], v), s[i])
           /\ Store(c, s[i], v).node[s[i]] # Null
           /\ Store(c, s[i], v).node[s[i]].val = v
<1>n. PICK n \in Node : n = s[i] /\ c.node[n] \in Contents
  BY ChainedTypes
<1> DEFINE d == Store(c, n, v)
<1>v. Null \notin Contents
  BY NullIsNothing
<1>1. /\ c.node \in [Node -> Contents \cup {Null}]
      /\ c = [node |-> c.node, head |-> c.head, tail |-> c.tail]
  BY DEF Chain
<1>2. /\ d.node = [c.node EXCEPT ![n] = [c.node[n] EXCEPT !.val = v]]
      /\ d.head = c.head /\ d.tail = c.tail
      /\ d = [node |-> d.node, head |-> c.head, tail |-> c.tail]
  BY <1>1 DEF Store
<1> HIDE DEF d
<1>3. /\ d.node[n] = [val |-> v, prev |-> c.node[n].prev, next |-> c.node[n].next]
      /\ \A m \in Node : m # n => d.node[m] = c.node[m]
      /\ DOMAIN d.node = Node
  BY <1>n, <1>1, <1>2 DEF Contents
<1>4. d.node[n] \in Contents
  <2>1. c.node[n].prev \in Pointer /\ c.node[n].next \in Pointer
    BY <1>n DEF Contents
  <2> QED BY <1>3, <2>1 DEF Contents
<1>5. d \in Chain
  <2>1. d.node \in [Node -> Contents \cup {Null}]
    BY <1>1, <1>2, <1>3, <1>4
  <2> QED BY <1>2, <2>1 DEF Chain
<1>6. \A m \in Members(s) : /\ d.node[m] # Null
                            /\ d.node[m].prev = c.node[m].prev
                            /\ d.node[m].next = c.node[m].next
  <2> SUFFICES ASSUME NEW m \in Members(s)
               PROVE  /\ d.node[m] # Null
                      /\ d.node[m].prev = c.node[m].prev
                      /\ d.node[m].next = c.node[m].next
    OBVIOUS
  <2>1. m \in Node /\ c.node[m] \in Contents
    BY ChainedTypes DEF Members
  <2>2. CASE m = n
    BY <1>v, <1>3, <1>4, <2>2
  <2>3. CASE m # n
    BY <1>v, <1>3, <2>1, <2>3
  <2> QED BY <2>2, <2>3
<1>7. Chained(d, s)
  BY <1>2, <1>5, <1>6, FrameChained
<1>8. SameBut(c, d, n) /\ d.node[n] # Null /\ d.node[n].val = v
  BY <1>v, <1>3, <1>4 DEF SameBut
<1> QED BY <1>n, <1>5, <1>7, <1>8 DEF d

(* node_new and lru_prepend put a new node in front.                       *)
LEMMA EnterChained ==
    ASSUME NEW c \in Chain, NEW s, Chained(c, s), NEW n \in Node, c.node[n] = Null,
           NEW v \in Value
    PROVE  LET d == Prepend(Allocate(c, n, v), n)
           IN  /\ d \in Chain
               /\ Chained(d, Plus(n, s))
               /\ SameBut(c, d, n) /\ n \notin Members(s)
               /\ d.node[n] # Null /\ d.node[n].val = v
<1> DEFINE b == Allocate(c, n, v)
<1>v. Null \notin Contents
  BY NullIsNothing
<1>1. /\ c.node \in [Node -> Contents \cup {Null}]
      /\ c = [node |-> c.node, head |-> c.head, tail |-> c.tail]
  BY DEF Chain
<1>2. /\ b.node = [c.node EXCEPT ![n] = [val |-> v, prev |-> Null, next |-> Null]]
      /\ b.head = c.head /\ b.tail = c.tail
      /\ b = [node |-> b.node, head |-> c.head, tail |-> c.tail]
  BY <1>1 DEF Allocate
<1> HIDE DEF b
<1>3. /\ b.node[n] = [val |-> v, prev |-> Null, next |-> Null]
      /\ \A m \in Node : m # n => b.node[m] = c.node[m]
  BY <1>1, <1>2
<1>4. b.node[n] \in Contents
  BY <1>3 DEF Contents, Pointer
<1>5. b \in Chain
  <2>1. b.node \in [Node -> Contents \cup {Null}]
    BY <1>1, <1>2, <1>3, <1>4
  <2> QED BY <1>2, <2>1 DEF Chain
<1>6. n \notin Members(s)
  BY <1>v, ChainedTypes DEF Members
<1>7. \A m \in Members(s) : m \in Node /\ m # n /\ c.node[m] # Null
  BY <1>6, ChainedTypes DEF Members, Chained
<1>8. Chained(b, s)
  <2>1. \A m \in Members(s) : b.node[m] = c.node[m] /\ b.node[m] # Null
    BY <1>3, <1>7
  <2>2. b.head = c.head /\ b.tail = c.tail
    BY <1>2
  <2> QED BY <1>5, <2>1, <2>2, FrameChained
<1> DEFINE d == Prepend(b, n)
<1>9. /\ d \in Chain /\ Chained(d, Plus(n, s)) /\ SameBut(b, d, n)
      /\ d.node[n] # Null /\ d.node[n].val = v
  BY <1>3, <1>5, <1>6, <1>8, PrependChained
<1>10. SameBut(c, d, n)
  BY <1>3, <1>9 DEF SameBut
<1> QED BY <1>6, <1>9, <1>10 DEF b

(* lru_trim_cache takes out the last node and frees it.                    *)
LEMMA EvictChained ==
    ASSUME NEW c \in Chain, NEW s, Chained(c, s), Len(s) # 0
    PROVE  LET d == Release(Detach(c, c.tail), c.tail)
           IN  /\ c.tail = s[Len(s)] /\ c.tail \in Node /\ c.node[c.tail] \in Contents
               /\ d \in Chain
               /\ Chained(d, Minus(s, Len(s)))
               /\ SameBut(c, d, c.tail)
               /\ d.node[c.tail] = Null
<1> DEFINE w == Minus(s, Len(s))
<1>0. Len(s) \in 1 .. Len(s) /\ c.tail = s[Len(s)]
  BY ChainedTypes DEF Chained
<1>n. PICK n \in Node : n = c.tail /\ n = s[Len(s)] /\ c.node[n] \in Contents
  BY <1>0, ChainedTypes
<1> DEFINE b == Detach(c, n)
<1>1. b \in Chain /\ Chained(b, w) /\ SameBut(c, b, n)
  BY <1>0, <1>n, DetachChained
<1>2. n \notin Members(w)
  BY <1>0, <1>n, MinusProperties DEF Chained
<1> HIDE DEF b, w
<1> DEFINE d == Release(b, n)
<1>3. /\ b.node \in [Node -> Contents \cup {Null}]
      /\ b = [node |-> b.node, head |-> b.head, tail |-> b.tail]
  BY <1>1 DEF Chain
<1>4. /\ d.node = [b.node EXCEPT ![n] = Null]
      /\ d.head = b.head /\ d.tail = b.tail
      /\ d = [node |-> d.node, head |-> b.head, tail |-> b.tail]
  BY <1>3 DEF Release
<1> HIDE DEF d
<1>5. d.node[n] = Null /\ \A m \in Node : m # n => d.node[m] = b.node[m]
  BY <1>3, <1>4
<1>6. d \in Chain
  BY <1>1, <1>3, <1>4 DEF Chain
<1>7. \A m \in Members(w) : m \in Node /\ m # n /\ b.node[m] # Null
  BY <1>1, <1>2, ChainedTypes DEF Members, Chained
<1>8. Chained(d, w)
  <2>1. \A m \in Members(w) : d.node[m] = b.node[m] /\ d.node[m] # Null
    BY <1>5, <1>7
  <2> QED BY <1>1, <1>4, <1>6, <2>1, FrameChained
<1>9. SameBut(c, d, n)
  BY <1>1, <1>5 DEF SameBut
<1> QED BY <1>0, <1>n, <1>5, <1>6, <1>8, <1>9 DEF d, b, w
---------------------------------------------------------------------------
(* The nodes met from the head on are those of the list.                   *)
Walk(s) == [i \in 0 .. Cardinality(Node) |-> IF i < Len(s) THEN s[i + 1] ELSE Null]
WalkIsForward == \A s \in Seq(Node) : Chained(chain, s) => Forward = Walk(s)

(* A walk along the next pointers meets the nodes of the list, then the    *)
(* end: the walk's recursive definition has this solution and no other.    *)
LEMMA ForwardHolds == WalkIsForward
<1> SUFFICES ASSUME NEW s \in Seq(Node), Chained(chain, s)
             PROVE  Forward = Walk(s)
  BY DEF WalkIsForward
<1> DEFINE N == Cardinality(Node)
           G(f) == [i \in 0 .. N |-> IF i = 0 THEN chain.head
                                     ELSE IF f[i - 1] = Null THEN Null
                                     ELSE chain.node[f[i - 1]].next]
           g == Walk(s)
<1>0. N \in Nat /\ Len(s) \in Nat /\ \A i \in 1 .. Len(s) : s[i] \in Node /\ s[i] # Null
  BY LruAssumption, FS_CardinalityType, LenProperties, ElementOfSeq
<1>1. \A i \in 0 .. N : g[i] = IF i < Len(s) THEN s[i + 1] ELSE Null
  BY DEF Walk
<1>2. DOMAIN g = 0 .. N /\ g = [i \in 0 .. N |-> g[i]]
  BY DEF Walk
<1> HIDE DEF N, g
<1>3. \A i \in 0 .. N : g[i] = G(g)[i]
  <2> SUFFICES ASSUME NEW i \in 0 .. N PROVE g[i] = G(g)[i]
    OBVIOUS
  <2>1. CASE i = 0
    BY <1>0, <1>1, <2>1 DEF Chained
  <2>2. CASE i # 0
    <3>1. i - 1 \in 0 .. N /\ (i - 1) + 1 = i
      BY <1>0, <2>2
    <3>2. g[i - 1] = IF i - 1 < Len(s) THEN s[i] ELSE Null
      BY <1>1, <3>1
    <3>3. CASE i - 1 < Len(s)
      <4>1. i \in 1 .. Len(s)
        BY <1>0, <2>2, <3>3
      <4>2. g[i - 1] = s[i] /\ g[i - 1] # Null
        BY <1>0, <3>2, <3>3, <4>1
      <4>3. chain.node[s[i]].next = IF i = Len(s) THEN Null ELSE s[i + 1]
        BY <4>1 DEF Chained
      <4> QED BY <1>0, <1>1, <2>2, <4>1, <4>2, <4>3
    <3>4. CASE ~(i - 1 < Len(s))
      BY <1>0, <1>1, <2>2, <3>2, <3>4
    <3> QED BY <3>3, <3>4
  <2> QED BY <2>1, <2>2
<1>4. g = G(g)
  BY <1>2, <1>3
<1>5. Forward = CHOOSE f : f = G(f)
  BY DEF Forward, N
<1> HIDE DEF G
<1>6. Forward = G(Forward)
  BY <1>4, <1>5
<1> USE DEF G
<1>e. \A i \in 0 .. N :
         /\ Forward[i] = IF i = 0 THEN chain.head ELSE IF Forward[i - 1] = Null THEN Null
                         ELSE chain.node[Forward[i - 1]].next
         /\ g[i] = IF i = 0 THEN chain.head ELSE IF g[i - 1] = Null THEN Null
                   ELSE chain.node[g[i - 1]].next
  BY <1>3, <1>6
<1> HIDE DEF G
<1> DEFINE P == {i \in 0 .. N : Forward[i] = g[i]}
<1>7. 0 \in P
  BY <1>0, <1>e
<1>8. ASSUME NEW i \in 0 .. N - 1, i \in P PROVE i + 1 \in P
  <2>1. i + 1 \in 0 .. N /\ i + 1 # 0 /\ (i + 1) - 1 = i
    BY <1>0
  <2>2. Forward[i + 1] = IF Forward[i] = Null THEN Null ELSE chain.node[Forward[i]].next
    BY <1>e, <2>1
  <2>3. g[i + 1] = IF g[i] = Null THEN Null ELSE chain.node[g[i]].next
    BY <1>e, <2>1
  <2> QED BY <1>8, <2>1, <2>2, <2>3
<1>9. \A i \in 0 .. N : i \in P
  <2> HIDE DEF P
  <2> QED BY <1>0, <1>7, <1>8, InductionTo
<1>10. Forward = [i \in 0 .. N |-> Forward[i]]
  BY <1>6 DEF G
<1> QED BY <1>2, <1>9, <1>10 DEF g

(* What the list says of the operators Lru's properties are written with.  *)
ListFacts ==
    \A s \in Seq(Node) : Chained(chain, s) =>
        /\ Len(s) <= Cardinality(Node)
        /\ \A i \in 0 .. Len(s) - 1 : Forward[i] = s[i + 1]
        /\ Count = Len(s)
        /\ Linked = Members(s)
        /\ Cardinality(Linked) = Len(s)

(* The length of the walk and the nodes it meets are those of the list.    *)
LEMMA ListFactsHold == ListFacts
<1> SUFFICES ASSUME NEW s \in Seq(Node), Chained(chain, s)
             PROVE  /\ Len(s) <= Cardinality(Node)
                    /\ \A i \in 0 .. Len(s) - 1 : Forward[i] = s[i + 1]
                    /\ Count = Len(s)
                    /\ Linked = Members(s)
                    /\ Cardinality(Linked) = Len(s)
  BY DEF ListFacts
<1> DEFINE N == Cardinality(Node)
           n == Len(s)
<1>0. N \in Nat /\ n \in Nat /\ DOMAIN s = 1 .. n
      /\ \A i \in 1 .. n : s[i] \in Node /\ s[i] # Null
  BY LruAssumption, FS_CardinalityType, LenProperties, ElementOfSeq
<1>1. s \in [1 .. n -> Node] /\ \A i, j \in 1 .. n : s[i] = s[j] => i = j
  BY <1>0, LenProperties DEF Chained
<1>2. s \in Injection(1 .. n, Node) /\ s \in Injection(1 .. n, Members(s))
      /\ s \in Surjection(1 .. n, Members(s))
  <2>1. s \in [1 .. n -> Members(s)]
    BY <1>1 DEF Members
  <2>2. \A m \in Members(s) : \E i \in 1 .. n : s[i] = m
    BY DEF Members
  <2> HIDE DEF n
  <2>3. s \in Injection(1 .. n, Node)
    BY <1>1 DEF Injection, IsInjective
  <2>4. s \in Injection(1 .. n, Members(s))
    BY <1>1, <2>1 DEF Injection, IsInjective
  <2>5. s \in Surjection(1 .. n, Members(s))
    BY Zenon, <2>1, <2>2 DEF Surjection
  <2> QED BY <2>3, <2>4, <2>5
<1>3. IsFiniteSet(1 .. n) /\ Cardinality(1 .. n) = n
  <2> HIDE DEF n
  <2>1. n \in Nat
    BY <1>0
  <2>2. 1 \in Int /\ n \in Int
    BY <2>1
  <2>3. IsFiniteSet(1 .. n) /\ Cardinality(1 .. n) = IF 1 > n THEN 0 ELSE n - 1 + 1
    BY <2>2, FS_Interval
  <2> QED BY <2>1, <2>3
<1>4. n <= N
  BY <1>2, <1>3, LruAssumption, FS_Injection
<1>5. Cardinality(Members(s)) = n
  BY <1>2, <1>3, FS_Surjection
<1>6. \A i \in 0 .. N : Forward[i] = IF i < n THEN s[i + 1] ELSE Null
  BY ForwardHolds DEF WalkIsForward, Walk
<1> HIDE DEF N, n
<1>7. \A i \in 0 .. n - 1 : i \in 0 .. N /\ i < n /\ i + 1 \in 1 .. n
  BY <1>0, <1>4
<1>8. {i \in 0 .. N : Forward[i] # Null} = 0 .. n - 1
  BY <1>0, <1>4, <1>6, <1>7
<1>9. Count = n
  <2>1. Cardinality(0 .. n - 1) = n
    BY <1>0, FS_Interval
  <2> QED BY <1>8, <2>1 DEF Count, N
<1>10. Linked = Members(s)
  <2>1. ASSUME NEW i \in 0 .. N, Forward[i] # Null PROVE Forward[i] \in Members(s)
    <3>1. i < n /\ i + 1 \in 1 .. n /\ Forward[i] = s[i + 1]
      BY <1>0, <1>6, <2>1
    <3> QED BY <3>1 DEF Members, n
  <2>2. ASSUME NEW j \in 1 .. n PROVE \E i \in 0 .. N : Forward[i] = s[j] /\ s[j] # Null
    <3>1. j - 1 \in 0 .. n - 1 /\ (j - 1) + 1 = j
      BY <1>0
    <3>2. j - 1 \in 0 .. N /\ Forward[j - 1] = s[j]
      BY <1>6, <1>7, <3>1
    <3> QED BY <1>0, <3>2
  <2>3. Linked \subseteq Members(s)
    BY <2>1 DEF Linked, N
  <2>4. Members(s) \subseteq Linked
    BY <2>2 DEF Linked, Members, N, n
  <2> QED BY <2>3, <2>4
<1> QED BY <1>4, <1>5, <1>6, <1>7, <1>9, <1>10 DEF N, n
---------------------------------------------------------------------------
(* The two tables name the nodes of the list s and no other, each the key  *)
(* the other knows, and no other node is allocated.                        *)
Agree(c, lk, rv, s) ==
    /\ \A k \in Key : lk[k] # Null => lk[k] \in Members(s) /\ rv[lk[k]] = k
    /\ \A n \in Members(s) : rv[n] \in Key /\ lk[rv[n]] = n
    /\ \A n \in Node \ Members(s) : rv[n] = Null /\ c.node[n] = Null

(* The list a running lru holds.                                           *)
Holds(s) == /\ Chained(chain, s)
            /\ Agree(chain, lookup, reverse, s)
            /\ Len(s) = IF len < cap THEN len ELSE cap

(* The inductive invariant: the four invariants of the run, stated of a    *)
(* list instead of a walk, so that a step can be followed on the list.     *)
IInv == /\ TypeOK
        /\ Running => \E s \in Seq(Node) : Holds(s)
        /\ ~alive => \A n \in Node : chain.node[n] = Null
---------------------------------------------------------------------------
(* The tables after a new node in front, and after the last one has gone.  *)
LEMMA AgreeAfterEnter ==
    ASSUME NEW c, NEW d, NEW lk \in [Key -> Pointer], NEW rv \in [Node -> Key \cup {Null}],
           NEW s \in Seq(Node), Agree(c, lk, rv, s), Members(s) \subseteq Node,
           NEW n \in Node, n \notin Members(s), SameBut(c, d, n),
           NEW k \in Key, lk[k] = Null
    PROVE  Agree(d, [lk EXCEPT ![k] = n], [rv EXCEPT ![n] = k], Plus(n, s))
<1> DEFINE lx == [lk EXCEPT ![k] = n]
           rx == [rv EXCEPT ![n] = k]
<1>m. PICK T : T = Members(Plus(n, s)) /\ T = Members(s) \cup {n}
  BY PlusProperties
<1>v. Null \notin Node
  BY NullIsNothing
<1>a. /\ \A l \in Key : lk[l] # Null => lk[l] \in Members(s) /\ rv[lk[l]] = l
      /\ \A m \in Members(s) : rv[m] \in Key /\ lk[rv[m]] = m
      /\ \A m \in Node \ Members(s) : rv[m] = Null /\ c.node[m] = Null
  BY DEF Agree
<1>1. \A l \in Key : lx[l] # Null => lx[l] \in T /\ rx[lx[l]] = l
  BY <1>m, <1>a
<1>2. \A m \in T : rx[m] \in Key /\ lx[rx[m]] = m
  <2> SUFFICES ASSUME NEW m \in T PROVE rx[m] \in Key /\ lx[rx[m]] = m
    OBVIOUS
  <2>1. CASE m = n
    BY <2>1
  <2>2. CASE m \in Members(s)
    <3>1. m \in Node /\ m # n /\ m # Null /\ rv[m] \in Key /\ lk[rv[m]] = m
      BY <1>v, <1>a, <2>2
    <3>2. rv[m] # k
      BY <3>1
    <3> QED BY <3>1, <3>2
  <2> QED BY <1>m, <2>1, <2>2
<1>3. \A m \in Node \ T : rx[m] = Null /\ d.node[m] = Null
  BY <1>m, <1>a DEF SameBut
<1> QED BY <1>m, <1>1, <1>2, <1>3 DEF Agree

(* When the last use of t is forgotten in both tables and its node is      *)
(* freed, the tables agree with the list without t.                        *)
LEMMA AgreeAfterEvict ==
    ASSUME NEW c, NEW d, NEW lk \in [Key -> Pointer], NEW rv \in [Node -> Key \cup {Null}],
           NEW s \in Seq(Node), Agree(c, lk, rv, s), Members(s) \subseteq Node,
           NEW w, NEW t \in Members(s), Members(w) = Members(s) \ {t},
           SameBut(c, d, t), d.node[t] = Null
    PROVE  Agree(d, [lk EXCEPT ![rv[t]] = Null], [rv EXCEPT ![t] = Null], w)
<1> DEFINE lx == [lk EXCEPT ![rv[t]] = Null]
           rx == [rv EXCEPT ![t] = Null]
<1>v. Null \notin Key
  BY NullIsNothing
<1>a. /\ \A l \in Key : lk[l] # Null => lk[l] \in Members(s) /\ rv[lk[l]] = l
      /\ \A m \in Members(s) : rv[m] \in Key /\ lk[rv[m]] = m
      /\ \A m \in Node \ Members(s) : rv[m] = Null /\ c.node[m] = Null
  BY DEF Agree
<1>t. t \in Node /\ rv[t] \in Key /\ lk[rv[t]] = t
  BY <1>a
<1>1. \A l \in Key : lx[l] # Null => lx[l] \in Members(w) /\ rx[lx[l]] = l
  <2> SUFFICES ASSUME NEW l \in Key, lx[l] # Null PROVE lx[l] \in Members(w) /\ rx[lx[l]] = l
    OBVIOUS
  <2>1. l # rv[t] /\ lx[l] = lk[l]
    BY <1>t
  <2>2. lk[l] \in Members(s) /\ rv[lk[l]] = l
    BY <1>a, <2>1
  <2>3. lk[l] # t
    BY <2>1, <2>2
  <2> QED BY <2>1, <2>2, <2>3
<1>2. \A m \in Members(w) : rx[m] \in Key /\ lx[rx[m]] = m
  <2> SUFFICES ASSUME NEW m \in Members(w) PROVE rx[m] \in Key /\ lx[rx[m]] = m
    OBVIOUS
  <2>1. m \in Members(s) /\ m # t /\ m \in Node
    OBVIOUS
  <2>2. rv[m] \in Key /\ lk[rv[m]] = m
    BY <1>a, <2>1
  <2>3. rv[m] # rv[t]
    BY <1>t, <2>1, <2>2
  <2> QED BY <2>1, <2>2, <2>3
<1>3. \A m \in Node \ Members(w) : rx[m] = Null /\ d.node[m] = Null
  <2> SUFFICES ASSUME NEW m \in Node \ Members(w) PROVE rx[m] = Null /\ d.node[m] = Null
    OBVIOUS
  <2>1. CASE m = t
    BY <2>1
  <2>2. CASE m # t
    BY <1>a, <2>2 DEF SameBut
  <2> QED BY <2>1, <2>2
<1> QED BY <1>1, <1>2, <1>3 DEF Agree

(* A cached key has its node in the list.                                  *)
LEMMA CachedListed ==
    ASSUME TypeOK, NEW s \in Seq(Node), Holds(s), NEW k \in Key, Cached(k)
    PROVE  \E i \in 1 .. Len(s) : s[i] = lookup[k]
BY DEF Cached, Holds, Agree, Members

(* The list of a running lru, with its types.                              *)
LEMMA RunningList ==
    ASSUME IInv, Running
    PROVE  \E s \in Seq(Node) : Holds(s) /\ Chained(chain, s) /\ Len(s) \in Nat
                                /\ Members(s) \subseteq Node
<1>1. PICK s \in Seq(Node) : Holds(s)
  BY DEF IInv
<1>2. Chained(chain, s) /\ chain \in Chain
  BY <1>1 DEF Holds, IInv, TypeOK
<1> QED BY <1>1, <1>2, ChainedTypes
---------------------------------------------------------------------------
(* lru_update and lru_get of a cached key k whose value is then v.         *)
Moved(k, v) ==
    \E s \in Seq(Node) : \E i \in 1 .. Len(s) :
        /\ Holds(s) /\ s[i] = lookup[k]
        /\ chain' \in Chain /\ Chained(chain', Plus(s[i], Minus(s, i)))
        /\ SameBut(chain, chain', s[i])
        /\ chain'.node[s[i]] # Null /\ chain'.node[s[i]].val = v

(* lru_get of a cached key moves its node to the front.                    *)
LEMMA HitMoves ==
    ASSUME IInv, NEW k \in Key, Hit(k)
    PROVE  Moved(k, ValueOf(k)) /\ ValueOf(k) \in Value
<1>1. Running /\ Cached(k) /\ chain' = ToFront(chain, lookup[k])
  BY DEF Hit
<1>2. PICK s \in Seq(Node) : Holds(s) /\ Chained(chain, s)
  BY <1>1, RunningList
<1>3. PICK i \in 1 .. Len(s) : s[i] = lookup[k]
  BY <1>1, <1>2, CachedListed DEF IInv
<1>4. chain \in Chain
  BY DEF IInv, TypeOK
<1>5. ValueOf(k) \in Value
  <2>1. chain.node[s[i]] \in Contents
    BY <1>2, <1>4, ChainedTypes
  <2> QED BY <1>3, <2>1 DEF ValueOf, Contents
<1>6. /\ chain' \in Chain /\ Chained(chain', Plus(s[i], Minus(s, i)))
      /\ SameBut(chain, chain', s[i])
      /\ chain'.node[s[i]] # Null /\ chain'.node[s[i]].val = chain.node[s[i]].val
  BY <1>1, <1>2, <1>3, <1>4, ToFrontChained
<1> QED BY <1>2, <1>3, <1>5, <1>6 DEF Moved, ValueOf

(* lru_update of a cached key moves its node to the front with the new     *)
(* value.                                                                  *)
LEMMA ReplaceMoves ==
    ASSUME IInv, NEW k \in Key, NEW v \in Value, Replace(k, v)
    PROVE  Moved(k, v) /\ ValueOf(k) \in Value
<1>1. Running /\ Cached(k) /\ chain' = ToFront(Store(chain, lookup[k], v), lookup[k])
  BY DEF Replace
<1>2. PICK s \in Seq(Node) : Holds(s) /\ Chained(chain, s)
  BY <1>1, RunningList
<1>3. PICK i \in 1 .. Len(s) : s[i] = lookup[k]
  BY <1>1, <1>2, CachedListed DEF IInv
<1>4. chain \in Chain
  BY DEF IInv, TypeOK
<1>5. ValueOf(k) \in Value
  <2>1. chain.node[s[i]] \in Contents
    BY <1>2, <1>4, ChainedTypes
  <2> QED BY <1>3, <2>1 DEF ValueOf, Contents
<1>6. PICK b : /\ b = Store(chain, s[i], v)
               /\ b \in Chain /\ Chained(b, s) /\ SameBut(chain, b, s[i])
               /\ b.node[s[i]] # Null /\ b.node[s[i]].val = v
  BY <1>2, <1>4, StoreChained
<1>7. /\ chain' \in Chain /\ Chained(chain', Plus(s[i], Minus(s, i)))
      /\ SameBut(b, chain', s[i])
      /\ chain'.node[s[i]] # Null /\ chain'.node[s[i]].val = v
  BY <1>1, <1>3, <1>6, ToFrontChained
<1>8. SameBut(chain, chain', s[i])
  BY <1>6, <1>7 DEF SameBut
<1> QED BY <1>2, <1>3, <1>5, <1>7, <1>8 DEF Moved

(* Moving a node keeps the tables right.                                   *)
LEMMA MovedPreserves ==
    ASSUME IInv, Running, NEW k \in Key, NEW v, Moved(k, v), UNCHANGED fields, reply' \in Reply
    PROVE  IInv'
<1>s. PICK s \in Seq(Node) : \E i \in 1 .. Len(s) :
        /\ Holds(s) /\ s[i] = lookup[k]
        /\ chain' \in Chain /\ Chained(chain', Plus(s[i], Minus(s, i)))
        /\ SameBut(chain, chain', s[i])
        /\ chain'.node[s[i]] # Null /\ chain'.node[s[i]].val = v
  BY DEF Moved
<1>1. PICK i \in 1 .. Len(s) :
        /\ Holds(s) /\ s[i] = lookup[k]
        /\ chain' \in Chain /\ Chained(chain', Plus(s[i], Minus(s, i)))
        /\ SameBut(chain, chain', s[i])
        /\ chain'.node[s[i]] # Null /\ chain'.node[s[i]].val = v
  BY <1>s
<1>2. /\ len' = len /\ cap' = cap /\ lookup' = lookup /\ reverse' = reverse
      /\ alive' = alive /\ fault' = fault
  BY DEF fields
<1>3. TypeOK'
  BY <1>1, <1>2 DEF IInv, TypeOK
<1>n. PICK n \in Node : n = s[i] /\ n \in Members(s)
  BY <1>1, ElementOfSeq DEF Members
<1>w. PICK w \in Seq(Node) : /\ w = Minus(s, i) /\ Len(w) = Len(s) - 1
                             /\ Members(w) = Members(s) \ {n}
  <2>1. \A j, l \in 1 .. Len(s) : s[j] = s[l] => j = l
    BY <1>1 DEF Holds, Chained
  <2>2. /\ Minus(s, i) \in Seq(Node) /\ Len(Minus(s, i)) = Len(s) - 1
        /\ Members(Minus(s, i)) = Members(s) \ {s[i]}
    BY <2>1, MinusProperties
  <2> QED BY <1>n, <2>2
<1>x. PICK x \in Seq(Node) : /\ x = Plus(s[i], w) /\ Len(x) = Len(w) + 1
                             /\ Members(x) = Members(w) \cup {n}
  BY <1>n, PlusProperties
<1>4. Len(x) = Len(s) /\ Members(x) = Members(s)
  <2>1. Len(s) \in Nat
    BY LenProperties
  <2> QED BY <1>n, <1>w, <1>x, <2>1
<1>5. Agree(chain', lookup', reverse', x)
  BY <1>1, <1>2, <1>n, <1>4 DEF Holds, Agree, SameBut
<1>6. Holds(x)'
  BY <1>1, <1>2, <1>w, <1>x, <1>4, <1>5 DEF Holds
<1> QED BY <1>2, <1>3, <1>6 DEF IInv, Running
---------------------------------------------------------------------------
(* lru_update of a new key k with a value v, whose node n goes in front of *)
(* the list, before any eviction.                                          *)
Entered(c, s, n, k, v) ==
    /\ Holds(s) /\ Chained(chain, s) /\ lookup[k] = Null
    /\ n \in Node /\ n \notin Members(s)
    /\ c \in Chain /\ Chained(c, Plus(n, s)) /\ SameBut(chain, c, n)
    /\ c.node[n] # Null /\ c.node[n].val = v

(* A new node in front of the list, before the tables know of it.          *)
LEMMA EnterBuilds ==
    ASSUME IInv, Running, NEW k \in Key, ~Cached(k), NEW v \in Value, NEW n \in Unused
    PROVE  \E s \in Seq(Node) : Entered(Prepend(Allocate(chain, n, v), n), s, n, k, v)
<1>1. PICK s \in Seq(Node) : Holds(s) /\ Chained(chain, s)
  BY RunningList
<1>2. chain \in Chain
  BY DEF IInv, TypeOK
<1>3. n \in Node /\ chain.node[n] = Null /\ lookup[k] = Null
  BY DEF Unused, Cached
<1> DEFINE c == Prepend(Allocate(chain, n, v), n)
<1>4. /\ c \in Chain /\ Chained(c, Plus(n, s)) /\ SameBut(chain, c, n) /\ n \notin Members(s)
      /\ c.node[n] # Null /\ c.node[n].val = v
  BY <1>1, <1>2, <1>3, EnterChained
<1> QED BY <1>1, <1>3, <1>4 DEF Entered

(* The tables of a list with a new node in front.                          *)
LEMMA EnteredAgree ==
    ASSUME IInv, NEW c, NEW s \in Seq(Node), NEW n, NEW k \in Key, NEW v,
           Entered(c, s, n, k, v)
    PROVE  /\ Agree(c, [lookup EXCEPT ![k] = n], [reverse EXCEPT ![n] = k], Plus(n, s))
           /\ Plus(n, s) \in Seq(Node) /\ Len(Plus(n, s)) = Len(s) + 1
           /\ Members(Plus(n, s)) = Members(s) \cup {n}
           /\ Members(s) \subseteq Node
<1>1. chain \in Chain /\ lookup \in [Key -> Pointer] /\ reverse \in [Node -> Key \cup {Null}]
  BY DEF IInv, TypeOK
<1>2. Members(s) \subseteq Node
  BY <1>1, ChainedTypes DEF Entered
<1>3. Agree(chain, lookup, reverse, s)
  BY DEF Entered, Holds
<1>4. n \in Node /\ n \notin Members(s) /\ SameBut(chain, c, n) /\ lookup[k] = Null
  BY DEF Entered
<1>5. Agree(c, [lookup EXCEPT ![k] = n], [reverse EXCEPT ![n] = k], Plus(n, s))
  BY <1>1, <1>2, <1>3, <1>4, AgreeAfterEnter
<1> QED BY <1>2, <1>4, <1>5, PlusProperties

(* lru_update of a new key when there is room.                             *)
LEMMA EnterPreserves ==
    ASSUME IInv, NEW k \in Key, NEW v \in Value, NEW copy \in {k, Null}, Enter(k, v, copy)
    PROVE  /\ IInv'
           /\ \E s \in Seq(Node) : \E n \in Node :
                /\ Entered(chain', s, n, k, v) /\ Len(s) < cap
                /\ lookup' = [lookup EXCEPT ![k] = n]
<1>1. PICK n \in Unused : /\ chain' = Prepend(Allocate(chain, n, v), n)
                          /\ lookup' = [lookup EXCEPT ![k] = n]
                          /\ reverse' = [reverse EXCEPT ![n] = copy]
  BY DEF Enter
<1>2. /\ Running /\ ~Cached(k) /\ ~MustTrim /\ len < MaxLen
      /\ len' = len + 1 /\ cap' = cap /\ alive' = alive
      /\ fault' = (IF copy = k THEN "none" ELSE "key_copy")
      /\ reply' = Answer("update", k, 0, Null)
  BY DEF Enter
<1>3. PICK s \in Seq(Node) : Entered(chain', s, n, k, v)
  BY <1>1, <1>2, EnterBuilds
<1>4. n \in Node /\ chain' \in Chain /\ Chained(chain', Plus(n, s)) /\ Holds(s)
  BY <1>3 DEF Entered
<1>c. len \in Nat /\ cap \in Nat /\ MaxLen \in Nat /\ len \in 0 .. MaxLen /\ Len(s) \in Nat
  BY LruAssumption, LenProperties DEF IInv, TypeOK
<1>5. Len(s) = len /\ len < cap /\ len + 1 <= cap
  BY <1>2, <1>4, <1>c DEF Holds, MustTrim
<1>6. TypeOK'
  <2>1. len' \in 0 .. MaxLen
    BY <1>2, <1>c
  <2>2. reply' \in Reply
    BY <1>2 DEF Answer, Reply
  <2>3. lookup' \in [Key -> Pointer]
    BY <1>1, <1>4 DEF IInv, TypeOK, Pointer
  <2>4. reverse' \in [Node -> Key \cup {Null}]
    BY <1>1, <1>4 DEF IInv, TypeOK
  <2> QED BY <1>2, <1>4, <2>1, <2>2, <2>3, <2>4 DEF IInv, TypeOK, Faults
<1>7. ASSUME fault' = "none" PROVE Holds(Plus(n, s))'
  <2>1. copy = k
    BY <1>2, <1>7
  <2>2. /\ Agree(chain', lookup', reverse', Plus(n, s))
        /\ Len(Plus(n, s)) = Len(s) + 1
    BY <1>1, <1>3, <2>1, EnteredAgree
  <2> QED BY <1>2, <1>4, <1>5, <1>c, <2>2 DEF Holds
<1>8. Plus(n, s) \in Seq(Node)
  BY <1>4, PlusProperties
<1>9. Running' => \E x \in Seq(Node) : Holds(x)'
  BY <1>7, <1>8 DEF Running
<1>10. alive'
  BY <1>2 DEF Running
<1> QED BY <1>1, <1>3, <1>4, <1>5, <1>6, <1>9, <1>10 DEF IInv
---------------------------------------------------------------------------
(* The last node of the list that has the new node n in front goes: the    *)
(* chain d and the tables lx and rx are what is left of c, lookup and      *)
(* reverse.                                                                *)
LEMMA EvictBuilds ==
    ASSUME IInv, NEW c, NEW s \in Seq(Node), NEW n, NEW k \in Key, NEW v \in Value,
           Entered(c, s, n, k, v),
           NEW d, d = Release(Detach(c, c.tail), c.tail),
           NEW all, all = Plus(n, s), NEW w, w = Minus(all, Len(all))
    PROVE  /\ all \in Seq(Node) /\ Len(all) = Len(s) + 1 /\ Len(s) \in Nat
           /\ c.tail = all[Len(all)] /\ c.tail \in Node /\ c.node[c.tail].val \in Value
           /\ d \in Chain /\ d.node[c.tail] = Null /\ SameBut(c, d, c.tail)
           /\ w \in Seq(Node) /\ Len(w) = Len(s) /\ Chained(d, w)
           /\ Members(w) = Members(all) \ {c.tail}
           /\ Members(all) \subseteq Node /\ c.tail \in Members(all)
<1>1. all \in Seq(Node) /\ Len(all) = Len(s) + 1
  BY PlusProperties DEF Entered
<1>2. c \in Chain /\ Chained(c, all) /\ Len(s) \in Nat
  BY <1>1, LenProperties DEF Entered
<1>3. Len(all) # 0 /\ Len(all) \in 1 .. Len(all) /\ Len(all) - 1 = Len(s)
  BY <1>1, <1>2
<1>4. Members(all) \subseteq Node
  BY <1>2, ChainedTypes
<1>5. /\ c.tail = all[Len(all)] /\ c.tail \in Node /\ c.node[c.tail] \in Contents
      /\ d \in Chain /\ Chained(d, w)
      /\ SameBut(c, d, c.tail) /\ d.node[c.tail] = Null
  BY <1>2, <1>3, EvictChained
<1>6. /\ w \in Seq(Node) /\ Len(w) = Len(all) - 1
      /\ Members(w) = Members(all) \ {all[Len(all)]}
  <2>1. \A i, j \in 1 .. Len(all) : all[i] = all[j] => i = j
    BY <1>2 DEF Chained
  <2> QED BY <1>1, <1>3, <2>1, MinusProperties
<1>7. c.node[c.tail].val \in Value
  BY <1>5 DEF Contents
<1>8. c.tail \in Members(all)
  BY <1>3, <1>5 DEF Members
<1> QED BY <1>1, <1>2, <1>3, <1>4, <1>5, <1>6, <1>7, <1>8

(* What an eviction does, and that it keeps the invariant: the node that   *)
(* was last goes, and with it the key that reverse has for it.             *)
Evicted(c, s, n, k, v, copy) ==
    /\ Entered(c, s, n, k, v) /\ Len(s) = cap
    /\ Chained(chain', Minus(Plus(n, s), Len(s) + 1)) /\ SameBut(c, chain', c.tail)
    /\ c.tail = Plus(n, s)[Len(s) + 1]
    /\ lookup' = [l \in Key |-> IF l = [reverse EXCEPT ![n] = copy][c.tail] THEN Null
                                ELSE IF l = k THEN n ELSE lookup[l]]
    /\ reply' = Answer("update", k, 0, c.node[c.tail].val)

(* lru_update of a new key when there is no room, whether or not the copy  *)
(* of the key was made: the last node of the list is the one freed.        *)
LEMMA EvictPreserves ==
    ASSUME IInv, NEW k \in Key, NEW v \in Value, NEW copy \in {k, Null},
           EnterAndEvict(k, v, copy)
    PROVE  /\ IInv'
           /\ \E s \in Seq(Node), n \in Node, c \in Chain : Evicted(c, s, n, k, v, copy)
<1>1. PICK n \in Unused :
          LET c == Prepend(Allocate(chain, n, v), n)
              rev == [reverse EXCEPT ![n] = copy]
              key == rev[c.tail]
          IN  /\ chain' = Release(Detach(c, c.tail), c.tail)
              /\ lookup' = [l \in Key |-> IF l = key THEN Null
                                          ELSE IF l = k THEN n ELSE lookup[l]]
              /\ reverse' = [rev EXCEPT ![c.tail] = Null]
              /\ reply' = Answer("update", k, 0, c.node[c.tail].val)
  BY DEF EnterAndEvict
<1>2. /\ Running /\ ~Cached(k) /\ MustTrim /\ len < MaxLen
      /\ len' = len + 1 /\ cap' = cap /\ alive' = alive
      /\ fault' = (IF copy = k THEN "none" ELSE "key_copy")
  BY DEF EnterAndEvict
<1>3. PICK c : c = Prepend(Allocate(chain, n, v), n)
  OBVIOUS
<1>4. PICK rev : rev = [reverse EXCEPT ![n] = copy]
  OBVIOUS
<1>5. /\ chain' = Release(Detach(c, c.tail), c.tail)
      /\ lookup' = [l \in Key |-> IF l = rev[c.tail] THEN Null
                                  ELSE IF l = k THEN n ELSE lookup[l]]
      /\ reverse' = [rev EXCEPT ![c.tail] = Null]
      /\ reply' = Answer("update", k, 0, c.node[c.tail].val)
  BY <1>1, <1>3, <1>4
<1>6. PICK s \in Seq(Node) : Entered(c, s, n, k, v)
  BY <1>2, <1>3, EnterBuilds
<1>7. n \in Node /\ Holds(s) /\ c \in Chain
  BY <1>6 DEF Entered
<1>8. PICK all \in Seq(Node) : all = Plus(n, s)
  BY <1>6, <1>7, PlusProperties
<1>9. PICK w : w = Minus(all, Len(all))
  OBVIOUS
<1>10. /\ w \in Seq(Node) /\ Len(all) = Len(s) + 1 /\ Len(s) \in Nat
       /\ c.tail = all[Len(all)] /\ c.tail \in Node /\ c.node[c.tail].val \in Value
       /\ chain' \in Chain /\ chain'.node[c.tail] = Null /\ SameBut(c, chain', c.tail)
       /\ Len(w) = Len(s) /\ Chained(chain', w)
       /\ Members(w) = Members(all) \ {c.tail}
       /\ Members(all) \subseteq Node /\ c.tail \in Members(all)
  BY <1>5, <1>6, <1>8, <1>9, EvictBuilds
<1>c. len \in Nat /\ cap \in Nat /\ MaxLen \in Nat /\ len \in 0 .. MaxLen
  BY LruAssumption DEF IInv, TypeOK
<1>11. Len(s) = cap /\ ~(len + 1 < cap)
  BY <1>2, <1>7, <1>c DEF Holds, MustTrim
<1>r. reverse \in [Node -> Key \cup {Null}] /\ lookup \in [Key -> Pointer]
  BY DEF IInv, TypeOK
<1>12. TypeOK'
  <2>1. len' \in 0 .. MaxLen
    BY <1>2, <1>c
  <2>2. reply' \in Reply
    BY <1>5, <1>10 DEF Answer, Reply
  <2>3. lookup' \in [Key -> Pointer]
    <3>1. \A l \in Key : lookup[l] \in Pointer
      BY <1>r
    <3> QED BY <1>5, <1>7, <3>1 DEF Pointer
  <2>4. reverse' \in [Node -> Key \cup {Null}]
    BY <1>r, <1>4, <1>5, <1>7
  <2> QED BY <1>2, <1>10, <2>1, <2>2, <2>3, <2>4 DEF IInv, TypeOK, Faults
<1>13. ASSUME copy = k
       PROVE  /\ rev[c.tail] \in Key
              /\ lookup' = [[lookup EXCEPT ![k] = n] EXCEPT ![rev[c.tail]] = Null]
              /\ Holds(w)'
  <2>1. PICK lk : lk = [lookup EXCEPT ![k] = n]
    OBVIOUS
  <2>2. lk \in [Key -> Pointer] /\ rev \in [Node -> Key \cup {Null}]
    BY <1>r, <1>4, <1>7, <2>1 DEF Pointer
  <2>3. Agree(c, lk, rev, all)
    BY <1>4, <1>6, <1>8, <1>13, <2>1, EnteredAgree
  <2>4. rev[c.tail] \in Key
    BY <1>10, <2>3 DEF Agree
  <2>5. \A l \in Key : lk[l] = IF l = k THEN n ELSE lookup[l]
    BY <1>r, <2>1
  <2>6. lookup' = [lk EXCEPT ![rev[c.tail]] = Null]
    <3>1. lookup' = [l \in Key |-> IF l = rev[c.tail] THEN Null ELSE lk[l]]
      BY <1>5, <2>5
    <3> QED BY <2>2, <3>1
  <2>7. Agree(chain', [lk EXCEPT ![rev[c.tail]] = Null], [rev EXCEPT ![c.tail] = Null], w)
    BY <1>10, <2>2, <2>3, AgreeAfterEvict
  <2>8. Agree(chain', lookup', reverse', w)
    BY <1>5, <2>6, <2>7
  <2>9. Len(w) = IF len' < cap' THEN len' ELSE cap'
    BY <1>2, <1>10, <1>11
  <2> QED BY <1>10, <2>1, <2>4, <2>6, <2>8, <2>9 DEF Holds
<1>14. fault' = "none" => copy = k
  BY <1>2
<1>15. IInv'
  <2>1. Running' => \E x \in Seq(Node) : Holds(x)'
    BY <1>10, <1>13, <1>14 DEF Running
  <2>2. alive'
    BY <1>2 DEF Running
  <2> QED BY <1>12, <2>1, <2>2 DEF IInv
<1>16. Evicted(c, s, n, k, v, copy)
  BY <1>4, <1>5, <1>6, <1>8, <1>9, <1>10, <1>11 DEF Evicted
<1> QED BY <1>7, <1>15, <1>16
---------------------------------------------------------------------------
(* lru_free frees the nodes lookup has, which are all that are allocated.  *)
LEMMA FreePreserves ==
    ASSUME IInv, NEW b \in BOOLEAN, Free(b)
    PROVE  IInv'
<1>1. /\ Running
      /\ chain' = [chain EXCEPT !.node = [n \in Node |->
                     IF \E k \in Key : lookup[k] = n THEN Null ELSE chain.node[n]]]
      /\ alive' = FALSE
      /\ reply' = Answer("free", Null, 0, Null)
      /\ UNCHANGED <<len, cap, lookup, reverse, fault>>
  BY DEF Free
<1>2. PICK s \in Seq(Node) : Holds(s)
  BY <1>1, RunningList
<1>3. chain \in Chain
  BY DEF IInv, TypeOK
<1>4. \A n \in Node : chain'.node[n] = Null
  <2>1. \A n \in Node : chain'.node[n] = IF \E k \in Key : lookup[k] = n THEN Null
                                         ELSE chain.node[n]
    BY <1>1, <1>3 DEF Chain
  <2>2. \A n \in Members(s) : \E k \in Key : lookup[k] = n
    BY <1>2 DEF Holds, Agree
  <2>3. \A n \in Node \ Members(s) : chain.node[n] = Null
    BY <1>2 DEF Holds, Agree
  <2> QED BY <2>1, <2>2, <2>3
<1>5. chain' \in Chain
  <2>1. [n \in Node |-> IF \E k \in Key : lookup[k] = n THEN Null ELSE chain.node[n]]
          \in [Node -> Contents \cup {Null}]
    BY <1>3 DEF Chain
  <2> QED BY <1>1, <1>3, <2>1 DEF Chain
<1>6. reply' \in Reply
  BY <1>1 DEF Answer, Reply
<1>7. TypeOK'
  BY <1>1, <1>5, <1>6 DEF IInv, TypeOK
<1> QED BY <1>1, <1>4, <1>7 DEF IInv, Running

(* A new lru has an empty list: lru_free left nothing allocated.           *)
LEMMA EmptyHolds ==
    ASSUME NEW c \in Chain, c.head = Null, c.tail = Null, \A n \in Node : c.node[n] = Null
    PROVE  /\ <<>> \in Seq(Node) /\ Len(<<>>) = 0 /\ Chained(c, <<>>)
           /\ Agree(c, [k \in Key |-> Null], [n \in Node |-> Null], <<>>)
<1>1. <<>> \in Seq(Node) /\ Len(<<>>) = 0
  BY EmptySeq
<1>2. Members(<<>>) = {} /\ 1 .. Len(<<>>) = {}
  BY <1>1 DEF Members
<1>3. Chained(c, <<>>)
  BY <1>1, <1>2 DEF Chained
<1> QED BY <1>1, <1>2, <1>3 DEF Agree

(* lru_new after lru_free.                                                 *)
LEMMA RenewPreserves ==
    ASSUME IInv, Renew
    PROVE  IInv'
<1>1. /\ ~alive /\ fault = "none" /\ fault' = fault
      /\ chain' = [chain EXCEPT !.head = Null, !.tail = Null]
      /\ len' = 0 /\ cap' \in Caps
      /\ lookup' = [k \in Key |-> Null] /\ reverse' = [n \in Node |-> Null]
      /\ alive' = TRUE
      /\ reply' = Answer("new", Null, 0, Null)
  BY DEF Renew
<1>2. chain' \in Chain /\ chain'.head = Null /\ chain'.tail = Null
      /\ \A n \in Node : chain'.node[n] = Null
  BY <1>1 DEF IInv, TypeOK, Chain, Pointer
<1>3. cap' \in Nat /\ MaxLen \in Nat
  BY <1>1, LruAssumption
<1>4. TypeOK'
  <2>1. reply' \in Reply
    BY <1>1 DEF Answer, Reply
  <2> QED BY <1>1, <1>2, <1>3, <2>1 DEF IInv, TypeOK, Pointer
<1>5. Holds(<<>>)'
  <2>1. 0 = IF len' < cap' THEN len' ELSE cap'
    BY <1>1, <1>3
  <2> QED BY <1>1, <1>2, <2>1, EmptyHolds DEF Holds
<1>6. <<>> \in Seq(Node)
  BY EmptySeq
<1> QED BY <1>1, <1>4, <1>5, <1>6 DEF IInv

(* The first state: an empty list.                                         *)
LEMMA InitInvariant == Init => IInv
<1> SUFFICES ASSUME Init PROVE IInv
  OBVIOUS
<1>1. /\ chain = NoNodes /\ len = 0 /\ cap \in Caps
      /\ lookup = [k \in Key |-> Null] /\ reverse = [n \in Node |-> Null]
      /\ alive = TRUE /\ fault = "none"
      /\ reply = Answer("new", Null, 0, Null)
  BY DEF Init
<1>2. chain \in Chain /\ chain.head = Null /\ chain.tail = Null
      /\ \A n \in Node : chain.node[n] = Null
  BY <1>1 DEF NoNodes, Chain, Pointer
<1>3. cap \in Nat /\ MaxLen \in Nat
  BY <1>1, LruAssumption
<1>4. TypeOK
  <2>1. reply \in Reply
    BY <1>1 DEF Answer, Reply
  <2> QED BY <1>1, <1>2, <1>3, <2>1 DEF TypeOK, Pointer, Faults
<1>5. Holds(<<>>)
  <2>1. 0 = IF len < cap THEN len ELSE cap
    BY <1>1, <1>3
  <2> QED BY <1>1, <1>2, <2>1, EmptyHolds DEF Holds
<1>6. <<>> \in Seq(Node)
  BY EmptySeq
<1> QED BY <1>1, <1>4, <1>5, <1>6 DEF IInv
---------------------------------------------------------------------------
(* The steps that leave list and tables alone, and those after which the   *)
(* model stops, keep the invariant.                                        *)
LEMMA StutterPreserves ==
    ASSUME IInv, UNCHANGED <<chain, len, cap, lookup, reverse, alive>>,
           fault' \in Faults, fault' = "none" => fault = "none", reply' \in Reply
    PROVE  IInv'
<1>1. TypeOK'
  BY DEF IInv, TypeOK
<1>2. Running' => Running
  BY DEF Running
<1>3. \A s \in Seq(Node) : Holds(s) => Holds(s)'
  BY DEF Holds
<1> QED BY <1>1, <1>2, <1>3 DEF IInv

(* lru_update when reverse_lookup takes no entry: the state the code does  *)
(* not survive is marked, and nothing is claimed after it.                 *)
LEMMA ReverseFailsPreserves ==
    ASSUME IInv, NEW k \in Key, ReverseFails(k)
    PROVE  IInv'
<1>1. PICK n \in Unused : lookup' = [lookup EXCEPT ![k] = n]
  BY DEF ReverseFails
<1>2. /\ Running /\ ~Cached(k) /\ fault' = "reverse_insert"
      /\ reply' = Answer("update", k, 1, Null)
      /\ UNCHANGED <<chain, len, cap, reverse, alive>>
  BY DEF ReverseFails
<1>3. TypeOK'
  <2>1. reply' \in Reply
    BY <1>2 DEF Answer, Reply
  <2> QED BY <1>1, <1>2, <2>1 DEF IInv, TypeOK, Unused, Pointer, Faults
<1> QED BY <1>2, <1>3 DEF IInv, Running

(* Every step.                                                             *)
LEMMA NextPreserves == IInv /\ [Next]_vars => IInv'
<1> SUFFICES ASSUME IInv, [Next]_vars PROVE IInv'
  OBVIOUS
<1>t. reply \in Reply /\ fault \in Faults
  BY DEF IInv, TypeOK
<1>1. ASSUME NEW k \in Key, NEW v \in Value, NEW copy \in {k, Null},
             Replace(k, v) \/ Enter(k, v, copy) \/ EnterAndEvict(k, v, copy)
      PROVE  IInv'
  <2>1. CASE Replace(k, v)
    <3>1. Moved(k, v) /\ ValueOf(k) \in Value
      BY <2>1, ReplaceMoves
    <3>2. Running /\ reply' = Answer("update", k, 0, ValueOf(k)) /\ UNCHANGED fields
      BY <2>1 DEF Replace
    <3>3. reply' \in Reply
      BY <3>1, <3>2 DEF Answer, Reply
    <3> QED BY <3>1, <3>2, <3>3, MovedPreserves
  <2>2. CASE Enter(k, v, copy)
    BY <2>2, EnterPreserves
  <2>3. CASE EnterAndEvict(k, v, copy)
    BY <2>3, EvictPreserves
  <2> QED BY <1>1, <2>1, <2>2, <2>3
<1>2. ASSUME NEW k \in Key, Hit(k) PROVE IInv'
  <2>1. Moved(k, ValueOf(k)) /\ ValueOf(k) \in Value
    BY <1>2, HitMoves
  <2>2. Running /\ reply' = Answer("get", k, 0, ValueOf(k)) /\ UNCHANGED fields
    BY <1>2 DEF Hit
  <2>3. reply' \in Reply
    BY <2>1, <2>2 DEF Answer, Reply
  <2> QED BY <2>1, <2>2, <2>3, MovedPreserves
<1>3. ASSUME NEW k \in Key, NodeFails(k) \/ LookupFails(k) \/ Miss(k) PROVE IInv'
  <2>1. /\ Running /\ UNCHANGED <<chain, len, cap, lookup, reverse, alive>>
        /\ fault' \in Faults
        /\ reply' \in {reply, Answer("update", k, 1, Null), Answer("get", k, 1, Null)}
    BY <1>t, <1>3 DEF NodeFails, LookupFails, Miss, fields, Faults
  <2>2. reply' \in Reply
    BY <1>t, <2>1 DEF Answer, Reply
  <2> QED BY <2>1, <2>2, StutterPreserves DEF Running
<1>4. ASSUME NEW k \in Key, ReverseFails(k) PROVE IInv'
  BY <1>4, ReverseFailsPreserves
<1>5. ASSUME NEW b \in FreeCalls, Free(b) \/ FreeWalksOff(b) PROVE IInv'
  <2>1. CASE Free(b)
    BY <2>1, FreePreserves, LruAssumption
  <2>2. CASE FreeWalksOff(b)
    <3>1. /\ UNCHANGED <<chain, len, cap, lookup, reverse, alive>> /\ reply' = reply
          /\ fault' = "free_walk"
      BY <2>2 DEF FreeWalksOff
    <3> QED BY <1>t, <3>1, StutterPreserves DEF Faults
  <2> QED BY <1>5, <2>1, <2>2
<1>6. CASE Renew
  BY <1>6, RenewPreserves
<1>7. CASE UNCHANGED vars
  BY <1>t, <1>7, StutterPreserves DEF vars
<1> QED BY <1>1, <1>2, <1>3, <1>4, <1>5, <1>6, <1>7 DEF Next

(* The inductive invariant, of which the theorems below are consequences.  *)
THEOREM InvariantHolds == Spec => []IInv
BY InitInvariant, NextPreserves, PTL DEF Spec

(* Types of every variable, the reply and the fault included.              *)
THEOREM TypeCorrect == Spec => []TypeOK
<1>1. IInv => TypeOK
  BY DEF IInv
<1> QED BY <1>1, InvariantHolds, PTL

(* The list of lru.c stays doubly linked after any sequence of detaches,   *)
(* prepends and evictions, and no node is met twice.                       *)
THEOREM WellLinkedHolds == Spec => []WellLinked
<1>1. IInv /\ ListFacts => WellLinked
  <2> SUFFICES ASSUME IInv, ListFacts, Running
               PROVE  /\ Cardinality(Linked) = Count
                      /\ chain.tail = IF Count = 0 THEN Null ELSE Forward[Count - 1]
                      /\ \A i \in 0 .. Count - 1 :
                            chain.node[Forward[i]].prev = IF i = 0 THEN Null ELSE Forward[i - 1]
    BY DEF WellLinked
  <2>1. PICK s \in Seq(Node) : Chained(chain, s) /\ Len(s) \in Nat
    BY RunningList
  <2>2. /\ \A i \in 0 .. Len(s) - 1 : Forward[i] = s[i + 1]
        /\ Count = Len(s) /\ Cardinality(Linked) = Len(s)
    BY <2>1 DEF ListFacts
  <2>3. chain.tail = IF Count = 0 THEN Null ELSE Forward[Count - 1]
    <3>1. CASE Len(s) = 0
      BY <2>1, <2>2, <3>1 DEF Chained
    <3>2. CASE Len(s) # 0
      <4>1. Len(s) - 1 \in 0 .. Len(s) - 1 /\ (Len(s) - 1) + 1 = Len(s)
        BY <2>1, <3>2
      <4> QED BY <2>1, <2>2, <3>2, <4>1 DEF Chained
    <3> QED BY <3>1, <3>2
  <2>4. ASSUME NEW i \in 0 .. Len(s) - 1
        PROVE  chain.node[Forward[i]].prev = IF i = 0 THEN Null ELSE Forward[i - 1]
    <3>1. i + 1 \in 1 .. Len(s) /\ (i + 1 = 1 <=> i = 0) /\ (i + 1) - 1 = i
      BY <2>1
    <3>2. chain.node[Forward[i]].prev = IF i = 0 THEN Null ELSE s[i]
      BY <2>1, <2>2, <3>1 DEF Chained
    <3>3. i # 0 => Forward[i - 1] = s[i]
      <4>1. i # 0 => i - 1 \in 0 .. Len(s) - 1 /\ (i - 1) + 1 = i
        BY <2>1
      <4> QED BY <2>2, <4>1
    <3> QED BY <3>2, <3>3
  <2> QED BY <2>2, <2>3, <2>4
<1> QED BY <1>1, ListFactsHold, InvariantHolds, PTL

(* The two tables stay inverse to each other and cover exactly the listed  *)
(* nodes, which are exactly the allocated ones.                            *)
THEOREM TablesAgreeHolds == Spec => []TablesAgree
<1>1. IInv /\ ListFacts => TablesAgree
  <2> SUFFICES ASSUME IInv, ListFacts, Running
               PROVE  /\ \A k \in Key : Cached(k) => reverse[lookup[k]] = k
                      /\ \A n \in Node : reverse[n] # Null => lookup[reverse[n]] = n
                      /\ {lookup[k] : k \in Key} \ {Null} = Linked
                      /\ {n \in Node : chain.node[n] # Null} = Linked
    BY DEF TablesAgree
  <2>1. PICK s \in Seq(Node) : /\ Holds(s) /\ Chained(chain, s) /\ Len(s) \in Nat
                               /\ Members(s) \subseteq Node
    BY RunningList
  <2>2. Linked = Members(s)
    BY <2>1 DEF ListFacts
  <2>3. /\ \A k \in Key : Cached(k) => lookup[k] \in Members(s) /\ reverse[lookup[k]] = k
        /\ \A n \in Members(s) : reverse[n] \in Key /\ lookup[reverse[n]] = n
        /\ \A n \in Node \ Members(s) : reverse[n] = Null /\ chain.node[n] = Null
    BY <2>1 DEF Holds, Agree, Cached
  <2>4. \A n \in Members(s) : n # Null /\ chain.node[n] # Null
    BY <2>1, NullIsNothing DEF Chained, Members
  <2>5. {lookup[k] : k \in Key} \ {Null} = Members(s)
    BY <2>3, <2>4 DEF Cached
  <2>6. {n \in Node : chain.node[n] # Null} = Members(s)
    BY <2>1, <2>3, <2>4
  <2> QED BY <2>2, <2>3, <2>5, <2>6
<1> QED BY <1>1, ListFactsHold, InvariantHolds, PTL

(* The list holds min(len, cap) nodes at every return although l->len only *)
(* grows, and lru_free leaves no node.                                     *)
THEOREM FullButNeverOverHolds == Spec => []FullButNeverOver
<1>1. IInv /\ ListFacts => FullButNeverOver
  <2> SUFFICES ASSUME IInv, ListFacts, Running
               PROVE  Count = IF len < cap THEN len ELSE cap
    BY DEF FullButNeverOver, IInv
  <2>1. PICK s \in Seq(Node) : Holds(s) /\ Chained(chain, s)
    BY RunningList
  <2> QED BY <2>1 DEF ListFacts, Holds
<1> QED BY <1>1, ListFactsHold, InvariantHolds, PTL

(* As long as a key is cached it keeps its node: no update, use or         *)
(* eviction of any key gives it another one.                               *)
THEOREM StableNodesHolds == Spec => StableNodes
<1> DEFINE Stable(k) == lookup'[k] = lookup[k] \/ lookup[k] = Null \/ lookup'[k] = Null
<1>1. IInv /\ [Next]_vars =>
        (\A k \in Key : alive /\ alive' /\ Cached(k) /\ Cached(k)' => lookup'[k] = lookup[k])
  <2> SUFFICES ASSUME IInv, [Next]_vars, alive, alive', NEW k \in Key PROVE Stable(k)
    BY DEF Cached
  <2>t. lookup \in [Key -> Pointer]
    BY DEF IInv, TypeOK
  <2>1. ASSUME NEW l \in Key, NEW v \in Value, NEW copy \in {l, Null},
               Replace(l, v) \/ Enter(l, v, copy) \/ EnterAndEvict(l, v, copy)
        PROVE  Stable(k)
    <3>1. CASE Replace(l, v)
      BY <3>1 DEF Replace, fields
    <3>2. CASE Enter(l, v, copy)
      BY <2>t, <3>2 DEF Enter, Cached
    <3>3. CASE EnterAndEvict(l, v, copy)
      <4>1. PICK n, key : lookup' = [m \in Key |-> IF m = key THEN Null
                                                   ELSE IF m = l THEN n ELSE lookup[m]]
        BY <3>3 DEF EnterAndEvict
      <4>2. lookup[l] = Null
        BY <3>3 DEF EnterAndEvict, Cached
      <4> QED BY <4>1, <4>2
    <3> QED BY <2>1, <3>1, <3>2, <3>3
  <2>2. ASSUME NEW l \in Key,
               NodeFails(l) \/ LookupFails(l) \/ ReverseFails(l) \/ Hit(l) \/ Miss(l)
        PROVE  Stable(k)
    <3>1. CASE ReverseFails(l)
      BY <2>t, <3>1 DEF ReverseFails, Cached
    <3>2. CASE ~ReverseFails(l)
      BY <2>2, <3>2 DEF NodeFails, LookupFails, Hit, Miss, fields
    <3> QED BY <3>1, <3>2
  <2>3. ASSUME NEW b \in FreeCalls, Free(b) \/ FreeWalksOff(b) PROVE Stable(k)
    BY <2>3 DEF Free, FreeWalksOff
  <2>4. CASE Renew
    BY <2>4 DEF Renew
  <2>5. CASE UNCHANGED vars
    BY <2>5 DEF vars
  <2> QED BY <2>1, <2>2, <2>3, <2>4, <2>5 DEF Next
<1> QED BY <1>1, InvariantHolds, PTL DEF Spec, StableNodes
---------------------------------------------------------------------------
(* That the lru implements RecencyCache.  The abstract order is read off   *)
(* the list s that the inductive invariant provides; every list operation  *)
(* of lru.c is a Plus or a Minus of s, and RecencyCache's operations on    *)
(* sequences are the same Plus and Minus of the order.                     *)

(* The association a node stands for, and those of a list of nodes.        *)
KeyIn(lk, n) == CHOOSE k \in Key : lk[k] = n
Item(c, lk, n) == [key |-> KeyIn(lk, n), val |-> c.node[n].val]
OrderOf(c, lk, s) == [i \in 1 .. Len(s) |-> Item(c, lk, s[i])]

(* The order of the run's property is that of the list.                    *)
OrderIsOfList == \A s \in Seq(Node) : alive /\ Chained(chain, s) => Order = OrderOf(chain, lookup, s)

(* The walk the run compares with the abstract order visits the list.      *)
LEMMA OrderHolds == OrderIsOfList
<1> SUFFICES ASSUME NEW s \in Seq(Node), alive, Chained(chain, s)
             PROVE  Order = OrderOf(chain, lookup, s)
  BY DEF OrderIsOfList
<1>1. Len(s) \in Nat
  BY LenProperties
<1>2. Count = Len(s) /\ \A i \in 0 .. Len(s) - 1 : Forward[i] = s[i + 1]
  BY ListFactsHold DEF ListFacts
<1>3. \A i \in 1 .. Len(s) : Forward[i - 1] = s[i]
  <2>1. \A i \in 1 .. Len(s) : i - 1 \in 0 .. Len(s) - 1 /\ (i - 1) + 1 = i
    BY <1>1
  <2> QED BY <1>2, <2>1
<1>4. Order = [i \in 1 .. Count |-> [key |-> KeyOf(Forward[i - 1]),
                                     val |-> chain.node[Forward[i - 1]].val]]
  BY DEF Order
<1>5. \A i \in 1 .. Len(s) : /\ KeyOf(Forward[i - 1]) = KeyIn(lookup, s[i])
                            /\ chain.node[Forward[i - 1]].val = chain.node[s[i]].val
  BY <1>3 DEF KeyOf, KeyIn
<1>6. Order = [i \in 1 .. Len(s) |-> [key |-> KeyIn(lookup, s[i]), val |-> chain.node[s[i]].val]]
  BY <1>2, <1>4, <1>5
<1> QED BY <1>6 DEF OrderOf, Item
---------------------------------------------------------------------------
(* Laws of OrderOf.                                                        *)
LEMMA OrderIsSeq ==
    ASSUME NEW c, NEW lk, NEW s \in Seq(Node)
    PROVE  /\ \E S : OrderOf(c, lk, s) \in Seq(S) /\ \A n \in Node : Item(c, lk, n) \in S
           /\ Len(OrderOf(c, lk, s)) = Len(s)
           /\ DOMAIN OrderOf(c, lk, s) = 1 .. Len(s)
           /\ \A i \in 1 .. Len(s) : OrderOf(c, lk, s)[i] = Item(c, lk, s[i])
<1> DEFINE S == {Item(c, lk, n) : n \in Node}
           q == OrderOf(c, lk, s)
<1>1. Len(s) \in Nat /\ \A i \in 1 .. Len(s) : s[i] \in Node
  BY LenProperties, ElementOfSeq
<1>2. q \in [1 .. Len(s) -> S] /\ \A i \in 1 .. Len(s) : q[i] = Item(c, lk, s[i])
  BY <1>1 DEF OrderOf
<1> HIDE DEF S, q
<1>3. q \in Seq(S) /\ Len(q) = Len(s) /\ DOMAIN q = 1 .. Len(s)
  BY <1>1, <1>2, IntervalIsSeq
<1>4. \A n \in Node : Item(c, lk, n) \in S
  BY DEF S
<1>5. \E T : q \in Seq(T) /\ \A n \in Node : Item(c, lk, n) \in T
  BY <1>3, <1>4
<1> QED BY <1>2, <1>3, <1>5 DEF q

(* An empty list gives an empty order.                                     *)
LEMMA EmptyOrder ==
    ASSUME NEW c, NEW lk
    PROVE  OrderOf(c, lk, <<>>) = <<>>
<1>1. <<>> \in Seq(Node) /\ Len(<<>>) = 0
  BY EmptySeq
<1>2. PICK q : q = OrderOf(c, lk, <<>>)
  OBVIOUS
<1>3. PICK S : q \in Seq(S) /\ Len(q) = 0
  BY <1>1, <1>2, OrderIsSeq
<1>4. q = <<>>
  BY <1>3, EmptySeq
<1> QED BY <1>2, <1>4

(* Lists of the same nodes have the same order when keys and values are    *)
(* the same.                                                               *)
LEMMA OrderSame ==
    ASSUME NEW c, NEW d, NEW lk, NEW lx, NEW s,
           \A n \in Members(s) : c.node[n].val = d.node[n].val /\ KeyIn(lk, n) = KeyIn(lx, n)
    PROVE  OrderOf(c, lk, s) = OrderOf(d, lx, s)
<1>1. \A i \in 1 .. Len(s) : Item(c, lk, s[i]) = Item(d, lx, s[i])
  BY DEF Members, Item
<1> QED BY <1>1 DEF OrderOf

(* A node in front of the list is an association in front of the order.    *)
LEMMA OrderOfPlus ==
    ASSUME NEW c, NEW lk, NEW s \in Seq(Node), NEW n \in Node
    PROVE  OrderOf(c, lk, Plus(n, s)) = <<Item(c, lk, n)>> \o OrderOf(c, lk, s)
<1> DEFINE q == OrderOf(c, lk, s)
           e == Item(c, lk, n)
           w == Plus(n, s)
<1>1. Len(q) = Len(s) /\ \A i \in 1 .. Len(s) : q[i] = Item(c, lk, s[i])
  BY OrderIsSeq
<1>S. PICK S : q \in Seq(S) /\ e \in S
  BY OrderIsSeq
<1>2. Len(s) \in Nat /\ Len(w) = Len(s) + 1 /\ w[1] = n
      /\ \A j \in 2 .. Len(s) + 1 : w[j] = s[j - 1]
  BY PlusProperties, LenProperties
<1>4. OrderOf(c, lk, w) = [j \in 1 .. Len(s) + 1 |-> Item(c, lk, w[j])]
  BY <1>2 DEF OrderOf
<1> HIDE DEF w, q, e
<1>5. <<e>> \o q = [j \in 1 .. Len(s) + 1 |-> IF j = 1 THEN e ELSE q[j - 1]]
  BY <1>1, <1>S, PairOnto
<1>6. ASSUME NEW j \in 1 .. Len(s) + 1
      PROVE  Item(c, lk, w[j]) = IF j = 1 THEN e ELSE q[j - 1]
  <2>1. CASE j = 1
    BY <1>2, <2>1 DEF e
  <2>2. CASE j # 1
    <3>1. j \in 2 .. Len(s) + 1 /\ j - 1 \in 1 .. Len(s)
      BY <1>2, <2>2
    <3> QED BY <1>1, <1>2, <2>2, <3>1
  <2> QED BY <2>1, <2>2
<1>7. OrderOf(c, lk, w) = <<e>> \o q
  BY <1>4, <1>5, <1>6
<1> QED BY <1>7 DEF w, q, e

(* A node taken out of the list is an association taken out of the order.  *)
LEMMA OrderOfMinus ==
    ASSUME NEW c, NEW lk, NEW s \in Seq(Node), NEW i \in 1 .. Len(s)
    PROVE  OrderOf(c, lk, Minus(s, i)) = Minus(OrderOf(c, lk, s), i)
<1> DEFINE q == OrderOf(c, lk, s)
           w == Minus(s, i)
<1>1. Len(q) = Len(s) /\ \A j \in 1 .. Len(s) : q[j] = Item(c, lk, s[j])
  BY OrderIsSeq
<1>2. Len(s) \in Nat /\ i \in Nat
  BY LenProperties
<1>3. Len(w) = Len(s) - 1
      /\ \A j \in 1 .. Len(s) - 1 : w[j] = IF j < i THEN s[j] ELSE s[j + 1]
  BY RemovalProperties DEF Minus
<1>4. OrderOf(c, lk, w) = [j \in 1 .. Len(s) - 1 |-> Item(c, lk, w[j])]
  BY <1>3 DEF OrderOf
<1>5. Minus(q, i) = [j \in 1 .. Len(s) - 1 |-> IF j < i THEN q[j] ELSE q[j + 1]]
  BY <1>1 DEF Minus
<1> HIDE DEF q, w
<1>6. ASSUME NEW j \in 1 .. Len(s) - 1
      PROVE  Item(c, lk, w[j]) = IF j < i THEN q[j] ELSE q[j + 1]
  <2>1. j \in 1 .. Len(s) /\ j + 1 \in 1 .. Len(s)
    BY <1>2
  <2> QED BY <1>1, <1>3, <2>1
<1>7. OrderOf(c, lk, w) = Minus(q, i)
  BY <1>4, <1>5, <1>6
<1> QED BY <1>7 DEF q, w

---------------------------------------------------------------------------
(* The key a node stands for is the one reverse has for it.                *)
LEMMA KeyInReverse ==
    ASSUME NEW c, NEW lk \in [Key -> Pointer], NEW rv \in [Node -> Key \cup {Null}],
           NEW s \in Seq(Node), Agree(c, lk, rv, s), NEW n \in Members(s), n # Null
    PROVE  KeyIn(lk, n) = rv[n] /\ rv[n] \in Key /\ lk[rv[n]] = n
<1>1. rv[n] \in Key /\ lk[rv[n]] = n
  BY DEF Agree
<1>2. ASSUME NEW k \in Key, lk[k] = n PROVE k = rv[n]
  BY <1>2 DEF Agree
<1> QED BY <1>1, <1>2 DEF KeyIn

(* What RecencyCache reads off its order, of the order of the list s.      *)
LEMMA OrderReads ==
    ASSUME IInv, Running, OrderIsOfList, NEW s \in Seq(Node), Holds(s)
    PROVE  /\ Order = OrderOf(chain, lookup, s) /\ Len(Order) = Len(s)
           /\ DOMAIN Order = 1 .. Len(s)
           /\ \A k \in Key : C!Holds(k) <=> Cached(k)
           /\ \A k \in Key, i \in 1 .. Len(s) : s[i] = lookup[k] =>
                 C!Place(k) = i /\ C!ValueOf(k) = ValueOf(k)
<1>0. /\ Chained(chain, s) /\ Agree(chain, lookup, reverse, s)
      /\ lookup \in [Key -> Pointer] /\ reverse \in [Node -> Key \cup {Null}] /\ chain \in Chain
  BY DEF Holds, IInv, TypeOK
<1>1. Order = OrderOf(chain, lookup, s)
  BY <1>0 DEF OrderIsOfList, Running
<1>2. /\ Len(Order) = Len(s) /\ DOMAIN Order = 1 .. Len(s)
      /\ \A i \in 1 .. Len(s) : Order[i] = Item(chain, lookup, s[i])
  BY <1>1, OrderIsSeq
<1>3. \A i \in 1 .. Len(s) : s[i] \in Members(s) /\ s[i] # Null
  BY <1>0, ChainedTypes DEF Members
<1>4. \A i \in 1 .. Len(s) : /\ KeyIn(lookup, s[i]) = reverse[s[i]]
                             /\ reverse[s[i]] \in Key /\ lookup[reverse[s[i]]] = s[i]
  BY <1>0, <1>3, KeyInReverse
<1>5. \A i \in 1 .. Len(s) : /\ Order[i].key = reverse[s[i]]
                             /\ Order[i].val = chain.node[s[i]].val
  BY <1>2, <1>4 DEF Item
<1>6. \A k \in Key, i \in 1 .. Len(s) : Order[i].key = k <=> s[i] = lookup[k]
  <2> SUFFICES ASSUME NEW k \in Key, NEW i \in 1 .. Len(s)
               PROVE  Order[i].key = k <=> s[i] = lookup[k]
    OBVIOUS
  <2>1. lookup[k] # Null => reverse[lookup[k]] = k
    BY <1>0 DEF Agree
  <2> QED BY <1>3, <1>4, <1>5, <2>1
<1>7. \A k \in Key : C!Holds(k) <=> Cached(k)
  <2> SUFFICES ASSUME NEW k \in Key PROVE C!Holds(k) <=> Cached(k)
    OBVIOUS
  <2>1. Cached(k) => \E i \in 1 .. Len(s) : s[i] = lookup[k]
    BY CachedListed DEF IInv
  <2>2. (\E i \in 1 .. Len(s) : s[i] = lookup[k]) => Cached(k)
    BY <1>3 DEF Cached
  <2>3. C!Holds(k) <=> \E i \in 1 .. Len(s) : Order[i].key = k
    BY <1>2 DEF C!Holds
  <2> QED BY <1>6, <2>1, <2>2, <2>3
<1>8. ASSUME NEW k \in Key, NEW i \in 1 .. Len(s), s[i] = lookup[k]
      PROVE  C!Place(k) = i /\ C!ValueOf(k) = ValueOf(k)
  <2>1. Order[i].key = k
    BY <1>6, <1>8
  <2>2. ASSUME NEW j \in 1 .. Len(s), Order[j].key = k PROVE j = i
    <3>1. s[j] = s[i]
      BY <1>6, <1>8, <2>2
    <3> QED BY <1>0, <3>1 DEF Chained
  <2>3. C!Place(k) = i
    BY <1>2, <2>1, <2>2 DEF C!Place
  <2> QED BY <1>5, <1>8, <2>3 DEF C!ValueOf, ValueOf
<1> QED BY <1>1, <1>2, <1>7, <1>8

(* A use of k moves its association, with the value v, to the front.       *)
LEMMA MovedOrder ==
    ASSUME IInv, Running, OrderIsOfList, OrderIsOfList', NEW k \in Key, NEW v,
           Moved(k, v), UNCHANGED fields
    PROVE  /\ C!Holds(k) /\ C!ValueOf(k) = ValueOf(k)
           /\ Order' = C!Pair(k, v) \o C!Others(k)
<1>s. PICK s \in Seq(Node) : \E i \in 1 .. Len(s) :
        /\ Holds(s) /\ s[i] = lookup[k]
        /\ chain' \in Chain /\ Chained(chain', Plus(s[i], Minus(s, i)))
        /\ SameBut(chain, chain', s[i])
        /\ chain'.node[s[i]] # Null /\ chain'.node[s[i]].val = v
  BY DEF Moved
<1>1. PICK i \in 1 .. Len(s) :
        /\ Holds(s) /\ s[i] = lookup[k]
        /\ chain' \in Chain /\ Chained(chain', Plus(s[i], Minus(s, i)))
        /\ SameBut(chain, chain', s[i])
        /\ chain'.node[s[i]] # Null /\ chain'.node[s[i]].val = v
  BY <1>s
<1>2. lookup' = lookup /\ alive' /\ lookup \in [Key -> Pointer]
      /\ reverse \in [Node -> Key \cup {Null}] /\ chain \in Chain
  BY DEF fields, Running, IInv, TypeOK
<1>3. /\ Chained(chain, s) /\ Agree(chain, lookup, reverse, s)
      /\ \A i1, i2 \in 1 .. Len(s) : s[i1] = s[i2] => i1 = i2
  BY <1>1 DEF Holds, Chained
<1>n. PICK n \in Node : n = s[i] /\ n \in Members(s) /\ n # Null
  BY <1>1, <1>2, <1>3, ChainedTypes DEF Members
<1>w. PICK w \in Seq(Node) : w = Minus(s, i) /\ Members(w) = Members(s) \ {n}
  <2>1. Minus(s, i) \in Seq(Node) /\ Members(Minus(s, i)) = Members(s) \ {s[i]}
    BY <1>3, MinusProperties
  <2> QED BY <1>n, <2>1
<1>x. PICK x \in Seq(Node) : x = Plus(n, w)
  BY PlusProperties
<1>4. Order' = OrderOf(chain', lookup, x)
  <2>1. Chained(chain', x)
    BY <1>1, <1>n, <1>w, <1>x
  <2> QED BY <1>2, <2>1 DEF OrderIsOfList
<1>5. OrderOf(chain', lookup, x) = <<Item(chain', lookup, n)>> \o OrderOf(chain', lookup, w)
  BY <1>x, OrderOfPlus
<1>6. Item(chain', lookup, n) = [key |-> k, val |-> v]
  <2>0. /\ Agree(chain, lookup, reverse, s) /\ lookup \in [Key -> Pointer]
        /\ reverse \in [Node -> Key \cup {Null}] /\ n \in Members(s) /\ n # Null
    BY <1>2, <1>3, <1>n
  <2>1. KeyIn(lookup, n) = reverse[n]
    BY <2>0, KeyInReverse
  <2>2. reverse[n] = k
    BY <1>1, <1>3, <1>n DEF Agree
  <2> QED BY <1>1, <1>n, <2>1, <2>2 DEF Item
<1>7. OrderOf(chain', lookup, w) = OrderOf(chain, lookup, w)
  <2>1. ASSUME NEW m \in Members(w) PROVE chain'.node[m].val = chain.node[m].val
    <3>1. m \in Members(s) /\ m # n /\ m \in Node
      BY <1>2, <1>3, <1>w, ChainedTypes
    <3>2. chain.node[m] # Null
      BY <1>3, <3>1 DEF Chained, Members
    <3> QED BY <1>1, <1>n, <3>1, <3>2 DEF SameBut
  <2> QED BY <2>1, OrderSame
<1>8. PICK q : q = OrderOf(chain, lookup, s)
  OBVIOUS
<1>T. PICK T : q \in Seq(T) /\ i \in 1 .. Len(q)
  BY <1>8, OrderIsSeq
<1>9. OrderOf(chain, lookup, w) = Minus(q, i)
  BY <1>w, <1>8, OrderOfMinus
<1>10. Minus(q, i) = SubSeq(q, 1, i - 1) \o SubSeq(q, i + 1, Len(q))
  BY <1>T, WithoutElement DEF Minus
<1>11. /\ Order = q /\ C!Holds(k) /\ C!Place(k) = i /\ C!ValueOf(k) = ValueOf(k)
  <2>1. Cached(k)
    BY <1>1, <1>n DEF Cached
  <2> QED BY <1>1, <1>8, <2>1, OrderReads
<1>12. C!Others(k) = SubSeq(q, 1, i - 1) \o SubSeq(q, i + 1, Len(q))
  BY <1>11 DEF C!Others
<1>13. C!Pair(k, v) = <<[key |-> k, val |-> v]>>
  BY DEF C!Pair
<1> QED BY <1>4, <1>5, <1>6, <1>7, <1>9, <1>10, <1>11, <1>12, <1>13
---------------------------------------------------------------------------
(* The key of a node is the one that lookup maps to it.                    *)
LEMMA OnlyKey ==
    ASSUME NEW lk, NEW n, NEW k \in Key, lk[k] = n, \A l \in Key : lk[l] = n => l = k
    PROVE  KeyIn(lk, n) = k
BY DEF KeyIn

(* A new node n for the key k puts the association in front of the order.  *)
LEMMA EnteredOrder ==
    ASSUME IInv, Running, OrderIsOfList, NEW s \in Seq(Node), NEW n \in Node, NEW k \in Key,
           NEW v, NEW c, Entered(c, s, n, k, v)
    PROVE  /\ ~C!Holds(k) /\ Len(Order) = Len(s)
           /\ OrderOf(c, [lookup EXCEPT ![k] = n], Plus(n, s)) = C!Pair(k, v) \o Order
<1>1. /\ Holds(s) /\ Chained(chain, s) /\ Agree(chain, lookup, reverse, s)
      /\ lookup[k] = Null /\ n \notin Members(s) /\ SameBut(chain, c, n) /\ c.node[n].val = v
  BY DEF Entered, Holds
<1>2. lookup \in [Key -> Pointer] /\ reverse \in [Node -> Key \cup {Null}] /\ chain \in Chain
  BY DEF IInv, TypeOK
<1>3. /\ Order = OrderOf(chain, lookup, s) /\ Len(Order) = Len(s)
      /\ C!Holds(k) <=> Cached(k)
  BY <1>1, OrderReads
<1>x. PICK lx : lx = [lookup EXCEPT ![k] = n]
  OBVIOUS
<1>4. OrderOf(c, lx, Plus(n, s)) = <<Item(c, lx, n)>> \o OrderOf(c, lx, s)
  BY OrderOfPlus
<1>5. \A l \in Key : lx[l] = IF l = k THEN n ELSE lookup[l]
  BY <1>2, <1>x
<1>6. Item(c, lx, n) = [key |-> k, val |-> v]
  <2>1. n # Null
    BY NullIsNothing
  <2>2. ASSUME NEW l \in Key, lx[l] = n PROVE l = k
    <3>1. lookup[l] # n
      BY <1>1, <2>1 DEF Agree
    <3> QED BY <1>5, <2>2, <3>1
  <2>3. lx[k] = n
    BY <1>5
  <2>4. KeyIn(lx, n) = k
    BY <2>2, <2>3, OnlyKey
  <2> QED BY <1>1, <2>4 DEF Item
<1>7. OrderOf(c, lx, s) = OrderOf(chain, lookup, s)
  <2>1. ASSUME NEW m \in Members(s)
        PROVE  c.node[m].val = chain.node[m].val /\ KeyIn(lx, m) = KeyIn(lookup, m)
    <3>1. m # n /\ m \in Node /\ m # Null
      BY <1>1, <1>2, ChainedTypes, NullIsNothing
    <3>2. chain.node[m] # Null
      BY <1>1 DEF Chained, Members
    <3>0. Agree(chain, lookup, reverse, s)
      BY <1>1
    <3>3. KeyIn(lookup, m) = reverse[m] /\ reverse[m] \in Key /\ lookup[reverse[m]] = m
      BY <1>2, <3>0, <3>1, KeyInReverse
    <3>4. lx[reverse[m]] = m
      BY <1>1, <1>5, <3>1, <3>3
    <3>5. ASSUME NEW l \in Key, lx[l] = m PROVE l = reverse[m]
      <4>1. lookup[l] = m
        BY <1>5, <3>1, <3>5
      <4> QED BY <1>1, <3>1, <4>1 DEF Agree
    <3>b. reverse[m] \in Key
      BY <3>3
    <3>6. KeyIn(lx, m) = reverse[m]
      BY <3>b, <3>4, <3>5, OnlyKey
    <3> QED BY <1>1, <3>1, <3>2, <3>3, <3>6 DEF SameBut
  <2> QED BY <2>1, OrderSame
<1>8. C!Pair(k, v) = <<[key |-> k, val |-> v]>>
  BY DEF C!Pair
<1> QED BY <1>1, <1>3, <1>4, <1>6, <1>7, <1>8, <1>x DEF Cached

(* lru_update of a new key: the association in front, the last one, if the *)
(* capacity is exceeded, gone.                                             *)
LEMMA EnterRefines ==
    ASSUME IInv, OrderIsOfList, OrderIsOfList', NEW k \in Key, NEW v \in Value,
           NEW copy \in {k, Null}, Enter(k, v, copy)
    PROVE  C!Enter(k, v) /\ cap' = cap
<1>1. PICK s \in Seq(Node) : \E n \in Node :
         /\ Entered(chain', s, n, k, v) /\ Len(s) < cap
         /\ lookup' = [lookup EXCEPT ![k] = n]
  BY EnterPreserves
<1>2. PICK n \in Node : /\ Entered(chain', s, n, k, v) /\ Len(s) < cap
                        /\ lookup' = [lookup EXCEPT ![k] = n]
  BY <1>1
<1>3. /\ Running /\ alive' /\ cap' = cap /\ reply' = Answer("update", k, 0, Null)
  BY DEF Enter, Running
<1>4. /\ ~C!Holds(k) /\ Len(Order) = Len(s)
      /\ OrderOf(chain', lookup', Plus(n, s)) = C!Pair(k, v) \o Order
  <2>1. Entered(chain', s, n, k, v)
    BY <1>2
  <2>2. /\ ~C!Holds(k) /\ Len(Order) = Len(s)
        /\ OrderOf(chain', [lookup EXCEPT ![k] = n], Plus(n, s)) = C!Pair(k, v) \o Order
    BY <1>3, <2>1, EnteredOrder
  <2> QED BY <1>2, <2>2
<1>5. Order' = OrderOf(chain', lookup', Plus(n, s))
  <2>1. Chained(chain', Plus(n, s)) /\ Plus(n, s) \in Seq(Node)
    BY <1>2, PlusProperties DEF Entered
  <2> QED BY <1>3, <2>1 DEF OrderIsOfList
<1> QED BY <1>2, <1>3, <1>4, <1>5 DEF C!Enter, C!Answer, Answer

(* lru_update without room drops the association used least recently.      *)
LEMMA EvictRefines ==
    ASSUME IInv, OrderIsOfList, OrderIsOfList', NEW k \in Key, NEW v \in Value,
           NEW copy \in {k, Null}, EnterAndEvict(k, v, copy)
    PROVE  C!EnterAndEvict(k, v) /\ cap' = cap
<1>1. PICK s \in Seq(Node), n \in Node, c \in Chain : Evicted(c, s, n, k, v, copy)
  BY EvictPreserves
<1>2. /\ Running /\ alive' /\ cap' = cap
  BY DEF EnterAndEvict, Running
<1>e. /\ ~C!Holds(k) /\ Len(Order) = Len(s)
      /\ OrderOf(c, [lookup EXCEPT ![k] = n], Plus(n, s)) = C!Pair(k, v) \o Order
  <2>0. Running
    BY <1>2
  <2>1. Entered(c, s, n, k, v)
    BY <1>1 DEF Evicted
  <2> QED BY <2>0, <2>1, EnteredOrder
<1>r. lookup \in [Key -> Pointer] /\ reverse \in [Node -> Key \cup {Null}]
  BY DEF IInv, TypeOK
<1>3. PICK all \in Seq(Node) : /\ all = Plus(n, s) /\ Len(all) = Len(s) + 1
                               /\ Members(all) = Members(s) \cup {n}
  BY PlusProperties
<1>4. PICK w : w = Minus(all, Len(all))
  OBVIOUS
<1>5. PICK lx : lx = [lookup EXCEPT ![k] = n]
  OBVIOUS
<1>6. PICK key : key = [reverse EXCEPT ![n] = copy][c.tail]
  OBVIOUS
<1>7. /\ Entered(c, s, n, k, v) /\ Len(s) = cap /\ c.tail = all[Len(s) + 1]
      /\ Chained(chain', w) /\ SameBut(c, chain', c.tail)
      /\ lookup' = [l \in Key |-> IF l = key THEN Null ELSE lx[l]]
      /\ reply' = Answer("update", k, 0, c.node[c.tail].val)
  BY <1>r, <1>1, <1>3, <1>4, <1>5, <1>6 DEF Evicted
<1>8. /\ Agree(chain, lookup, reverse, s) /\ n \notin Members(s) /\ lookup[k] = Null
      /\ Chained(c, all) /\ c \in Chain
  BY <1>3, <1>7 DEF Entered, Holds
<1>9. /\ ~C!Holds(k) /\ Len(Order) = Len(s)
      /\ OrderOf(c, lx, all) = C!Pair(k, v) \o Order
  BY <1>3, <1>5, <1>e
<1>c. Len(s) \in Nat /\ Len(all) \in 1 .. Len(all)
  <2>1. Len(s) \in Nat
    BY LenProperties
  <2> QED BY <1>3, <2>1
<1>10. w \in Seq(Node) /\ Members(w) = Members(all) \ {c.tail}
  <2>1. \A i, j \in 1 .. Len(all) : all[i] = all[j] => i = j
    BY <1>8 DEF Chained
  <2>2. w \in Seq(Node) /\ Members(w) = Members(all) \ {all[Len(all)]}
    BY <1>4, <1>c, <2>1, MinusProperties
  <2> QED BY <1>3, <1>7, <2>2
<1>11. Order' = OrderOf(chain', lookup', w)
  BY <1>2, <1>7, <1>10 DEF OrderIsOfList
<1>12. OrderOf(chain', lookup', w) = OrderOf(c, lx, w)
  <2>1. ASSUME NEW m \in Members(w)
        PROVE  chain'.node[m].val = c.node[m].val /\ KeyIn(lookup', m) = KeyIn(lx, m)
    <3>1. m \in Members(all) /\ m # c.tail /\ m \in Node /\ m # Null
      BY <1>8, <1>10, ChainedTypes, NullIsNothing
    <3>2. c.node[m] # Null
      BY <1>8, <3>1 DEF Chained, Members
    <3>3. PICK h \in Key : lx[h] = m /\ \A l \in Key : lx[l] = m => l = h
      <4>1. CASE m = n
        <5>1. \A l \in Key : lookup[l] # n
          BY <1>8, <3>1, <4>1 DEF Agree
        <5> QED BY <1>r, <1>5, <4>1, <5>1
      <4>2. CASE m \in Members(s)
        <5>1. m # n /\ reverse[m] \in Key /\ lookup[reverse[m]] = m
          BY <1>8, <4>2 DEF Agree
        <5>2. \A l \in Key : lookup[l] = m => l = reverse[m]
          BY <1>8, <3>1 DEF Agree
        <5>3. reverse[m] # k
          BY <1>8, <3>1, <5>1
        <5> QED BY <1>r, <1>5, <5>1, <5>2, <5>3
      <4> QED BY <1>3, <3>1, <4>1, <4>2
    <3>4. h # key
      <4>1. CASE c.tail = n
        <5>1. m \in Members(s) /\ key = copy
          BY <1>r, <1>3, <1>6, <3>1, <4>1
        <5>2. lx[k] = n
          BY <1>r, <1>5
        <5> QED BY <3>1, <3>3, <4>1, <5>1, <5>2, NullIsNothing
      <4>2. CASE c.tail # n
        <5>1. c.tail \in Members(s) /\ c.tail \in Node /\ c.tail # Null
          <6>1. c.tail \in Members(all)
            BY <1>3, <1>7, <1>c DEF Members
          <6> QED BY <1>3, <1>8, <4>2, <6>1, ChainedTypes, NullIsNothing
        <5>2. key = reverse[c.tail]
          BY <1>r, <1>6, <4>2, <5>1
        <5>3. key \in Key /\ lookup[key] = c.tail
          BY <1>8, <5>1, <5>2 DEF Agree
        <5>4. lx[key] = c.tail
          BY <1>r, <1>5, <1>8, <5>1, <5>3
        <5> QED BY <3>1, <3>3, <5>4
      <4> QED BY <4>1, <4>2
    <3>5. lookup'[h] = m /\ \A l \in Key : lookup'[l] = m => l = h
      BY <1>7, <3>1, <3>3, <3>4
    <3>6. KeyIn(lookup', m) = h /\ KeyIn(lx, m) = h
      BY <3>3, <3>5, OnlyKey
    <3> QED BY <1>7, <3>1, <3>2, <3>6 DEF SameBut
  <2> QED BY <2>1, OrderSame
<1>13. PICK q : q = OrderOf(c, lx, all)
  OBVIOUS
<1>14. OrderOf(c, lx, w) = Minus(q, Len(all))
  BY <1>4, <1>13, <1>c, OrderOfMinus
<1>T. PICK T : q \in Seq(T) /\ Len(q) = cap + 1 /\ q[cap + 1] = Item(c, lx, all[cap + 1])
  <2>1. \E T : OrderOf(c, lx, all) \in Seq(T)
    BY OrderIsSeq
  <2>2. /\ Len(OrderOf(c, lx, all)) = Len(all)
        /\ OrderOf(c, lx, all)[Len(all)] = Item(c, lx, all[Len(all)])
    BY <1>c, OrderIsSeq
  <2> QED BY <1>3, <1>7, <1>13, <2>1, <2>2
<1>15. Order' = SubSeq(q, 1, cap)
  <2>1. Len(q) # 0 /\ Len(q) - 1 = cap /\ Len(all) = Len(q)
    BY <1>3, <1>7, <1>c, <1>T
  <2>2. SubSeq(q, 1, Len(q) - 1) = Minus(q, Len(q))
    BY <1>T, <2>1, LastTakenOff DEF Minus
  <2> QED BY <1>11, <1>12, <1>14, <2>1, <2>2
<1>16. q[cap + 1].val = c.node[c.tail].val
  BY <1>7, <1>T DEF Item
<1>17. q = C!Pair(k, v) \o Order /\ Len(Order) = cap
  BY <1>7, <1>9, <1>13
<1>18. reply' = C!Answer("update", k, 0, q[cap + 1].val)
  BY <1>7, <1>16 DEF C!Answer, Answer
<1> QED BY <1>2, <1>9, <1>15, <1>17, <1>18 DEF C!EnterAndEvict
---------------------------------------------------------------------------
(* Every step of the lru is one of the cache, or leaves it as it is.       *)
LEMMA StepRefines ==
    ASSUME IInv, OrderIsOfList, OrderIsOfList', [Next]_vars
    PROVE  [C!Next]_(C!vars)
<1>a. ASSUME NEW k \in Key, ~Cached(k), Running PROVE ~C!Holds(k)
  <2>1. PICK s \in Seq(Node) : Holds(s)
    BY <1>a, RunningList
  <2> QED BY <1>a, <2>1, OrderReads
<1>b. UNCHANGED <<chain, lookup, alive>> /\ Running => Order' = Order
  <2> SUFFICES ASSUME UNCHANGED <<chain, lookup, alive>>, Running PROVE Order' = Order
    OBVIOUS
  <2>1. PICK s \in Seq(Node) : Chained(chain, s)
    BY RunningList
  <2>2. Order = OrderOf(chain, lookup, s)
    BY <2>1 DEF OrderIsOfList, Running
  <2>3. alive' /\ Chained(chain', s)
    BY <2>1 DEF Running
  <2>4. Order' = OrderOf(chain', lookup', s)
    BY <2>3 DEF OrderIsOfList
  <2> QED BY <2>2, <2>4
<1>1. ASSUME NEW k \in Key, NEW v \in Value, NEW copy \in {k, Null},
             Replace(k, v) \/ Enter(k, v, copy) \/ EnterAndEvict(k, v, copy)
      PROVE  C!Next
  <2>1. CASE Replace(k, v)
    <3>1. /\ Running /\ cap' = cap /\ UNCHANGED fields
          /\ reply' = Answer("update", k, 0, ValueOf(k))
      BY <2>1 DEF Replace, fields
    <3>2. Moved(k, v)
      BY <2>1, ReplaceMoves
    <3>3. /\ C!Holds(k) /\ C!ValueOf(k) = ValueOf(k)
          /\ Order' = C!Pair(k, v) \o C!Others(k)
      BY <3>1, <3>2, MovedOrder
    <3>4. C!Replace(k, v)
      BY <3>1, <3>3 DEF C!Replace, C!Answer, Answer
    <3> QED BY <3>1, <3>4 DEF C!Next, C!Use
  <2>2. CASE Enter(k, v, copy)
    BY <2>2, EnterRefines DEF C!Next, C!Use
  <2>3. CASE EnterAndEvict(k, v, copy)
    BY <2>3, EvictRefines DEF C!Next, C!Use
  <2> QED BY <1>1, <2>1, <2>2, <2>3
<1>2. ASSUME NEW k \in Key, Hit(k) PROVE C!Next
  <2>1. /\ Running /\ cap' = cap /\ UNCHANGED fields
        /\ reply' = Answer("get", k, 0, ValueOf(k))
    BY <1>2 DEF Hit, fields
  <2>2. Moved(k, ValueOf(k))
    BY <1>2, HitMoves
  <2>3. /\ C!Holds(k) /\ C!ValueOf(k) = ValueOf(k)
        /\ Order' = C!Pair(k, ValueOf(k)) \o C!Others(k)
    BY <2>1, <2>2, MovedOrder
  <2>4. C!Hit(k)
    BY <2>1, <2>3 DEF C!Hit, C!Answer, Answer
  <2> QED BY <2>1, <2>4 DEF C!Next, C!Use
<1>3. ASSUME NEW k \in Key, LookupFails(k) \/ Miss(k) PROVE C!Next
  <2>1. Running /\ ~Cached(k) /\ UNCHANGED <<chain, lookup, alive, cap>>
    BY <1>3 DEF LookupFails, Miss, fields
  <2>2. ~C!Holds(k) /\ Order' = Order
    BY <1>a, <1>b, <2>1
  <2>3. CASE LookupFails(k)
    <3>1. C!Refuse(k)
      BY <2>2, <2>3 DEF LookupFails, C!Refuse, C!Answer, Answer
    <3> QED BY <2>1, <3>1 DEF C!Next, C!Use
  <2>4. CASE Miss(k)
    <3>1. C!Miss(k)
      BY <2>2, <2>4 DEF Miss, C!Miss, C!Answer, Answer
    <3> QED BY <2>1, <3>1 DEF C!Next, C!Use
  <2> QED BY <1>3, <2>3, <2>4
<1>4. ASSUME NEW k \in Key, ReverseFails(k) PROVE C!Next
  <2>1. /\ Running /\ ~Cached(k) /\ UNCHANGED <<chain, alive, cap>>
        /\ reply' = Answer("update", k, 1, Null)
    BY <1>4 DEF ReverseFails
  <2>2. PICK n \in Node : lookup' = [lookup EXCEPT ![k] = n] /\ chain.node[n] = Null
    BY <1>4 DEF ReverseFails, Unused
  <2>3. PICK s \in Seq(Node) : Holds(s) /\ Chained(chain, s)
    BY <2>1, RunningList
  <2>4. /\ lookup \in [Key -> Pointer] /\ reverse \in [Node -> Key \cup {Null}]
        /\ chain \in Chain /\ Agree(chain, lookup, reverse, s)
    BY <2>3 DEF IInv, TypeOK, Holds
  <2>5. Order = OrderOf(chain, lookup, s) /\ Order' = OrderOf(chain, lookup', s)
    <3>1. alive /\ alive' /\ Chained(chain, s) /\ Chained(chain', s) /\ chain' = chain
      BY <2>1, <2>3 DEF Running
    <3>2. Order = OrderOf(chain, lookup, s)
      BY <3>1 DEF OrderIsOfList
    <3>3. Order' = OrderOf(chain', lookup', s)
      BY <3>1 DEF OrderIsOfList
    <3> QED BY <3>1, <3>2, <3>3
  <2>6. ASSUME NEW m \in Members(s) PROVE KeyIn(lookup', m) = KeyIn(lookup, m)
    <3>1. m # Null /\ chain.node[m] # Null
      BY <2>3, NullIsNothing DEF Chained, Members
    <3>0. /\ Agree(chain, lookup, reverse, s) /\ m # Null
          /\ lookup \in [Key -> Pointer] /\ reverse \in [Node -> Key \cup {Null}]
      BY <2>4, <3>1
    <3>2. KeyIn(lookup, m) = reverse[m] /\ reverse[m] \in Key /\ lookup[reverse[m]] = m
      BY <3>0, KeyInReverse
    <3>3. reverse[m] # k /\ m # n
      BY <2>1, <2>2, <3>1, <3>2 DEF Cached
    <3>4. lookup'[reverse[m]] = m
      BY <2>2, <2>4, <3>2, <3>3
    <3>5. ASSUME NEW l \in Key, lookup'[l] = m PROVE l = reverse[m]
      <4>1. lookup[l] = m
        BY <2>2, <2>4, <3>3, <3>5
      <4> QED BY <2>4, <3>1, <4>1 DEF Agree
    <3>b. reverse[m] \in Key
      BY <3>2
    <3>6. KeyIn(lookup', m) = reverse[m]
      BY <3>b, <3>4, <3>5, OnlyKey
    <3> QED BY <3>2, <3>6
  <2>7. OrderOf(chain, lookup', s) = OrderOf(chain, lookup, s)
    BY <2>6, OrderSame
  <2>8. C!Refuse(k)
    <3>1. ~C!Holds(k)
      BY <1>a, <2>1
    <3> QED BY <2>1, <2>5, <2>7, <3>1 DEF C!Refuse, C!Answer, Answer
  <2> QED BY <2>1, <2>8 DEF C!Next, C!Use
<1>5. ASSUME NEW k \in Key, NodeFails(k) PROVE UNCHANGED C!vars
  <2>1. Running /\ UNCHANGED <<chain, lookup, alive, cap, reply>>
    BY <1>5 DEF NodeFails
  <2> QED BY <1>b, <2>1 DEF C!vars
<1>6. ASSUME NEW b \in FreeCalls, Free(b) PROVE C!Next
  <2>1. alive' = FALSE /\ cap' = cap /\ reply' = Answer("free", Null, 0, Null)
    BY <1>6 DEF Free
  <2>2. Order' = <<>>
    BY <2>1 DEF Order
  <2> QED BY <2>1, <2>2 DEF C!Next, C!Free, C!Clear, C!Answer, Answer
<1>7. ASSUME NEW b \in FreeCalls, FreeWalksOff(b) PROVE UNCHANGED C!vars
  <2>1. Running /\ UNCHANGED <<chain, lookup, alive, cap, reply>>
    BY <1>7 DEF FreeWalksOff
  <2> QED BY <1>b, <2>1 DEF C!vars
<1>8. CASE Renew
  <2>1. /\ alive' = TRUE /\ cap' \in Caps /\ reply' = Answer("new", Null, 0, Null)
        /\ ~alive /\ chain' = [chain EXCEPT !.head = Null, !.tail = Null]
    BY <1>8 DEF Renew
  <2>2. chain' \in Chain /\ chain'.head = Null /\ chain'.tail = Null
        /\ \A n \in Node : chain'.node[n] = Null
    BY <2>1 DEF IInv, TypeOK, Chain, Pointer
  <2>3. <<>> \in Seq(Node) /\ Chained(chain', <<>>) /\ Len(<<>>) = 0
    BY <2>2, EmptyHolds
  <2>4. Order' = OrderOf(chain', lookup', <<>>)
    BY <2>1, <2>3 DEF OrderIsOfList
  <2>5. OrderOf(chain', lookup', <<>>) = <<>>
    BY <2>3, EmptyOrder
  <2> QED BY <2>1, <2>4, <2>5 DEF C!Next, C!New, C!Clear, C!Answer, Answer
<1>9. CASE UNCHANGED vars
  <2>1. chain' = chain /\ lookup' = lookup /\ alive' = alive /\ cap' = cap /\ reply' = reply
    BY <1>9 DEF vars
  <2>2. Order' = Order
    BY <2>1 DEF Order, Count, Forward, KeyOf
  <2> QED BY <2>1, <2>2 DEF C!vars
<1> QED BY <1>1, <1>2, <1>3, <1>4, <1>5, <1>6, <1>7, <1>8, <1>9 DEF Next

(* The lru is the abstract cache of RecencyCache, whatever the capacities: *)
(* each eviction takes the association least recently used.                *)
THEOREM CacheImplemented == Spec => ImplementsCache
<1>1. Init /\ OrderIsOfList => C!Init
  <2> SUFFICES ASSUME Init, OrderIsOfList PROVE C!Init
    OBVIOUS
  <2>1. /\ chain = NoNodes /\ cap \in Caps /\ alive = TRUE
        /\ reply = Answer("new", Null, 0, Null)
    BY DEF Init
  <2>2. /\ chain \in Chain /\ chain.head = Null /\ chain.tail = Null
        /\ \A n \in Node : chain.node[n] = Null
    BY <2>1 DEF NoNodes, Chain, Pointer
  <2>3. <<>> \in Seq(Node) /\ Chained(chain, <<>>)
    BY <2>2, EmptyHolds
  <2>4. Order = OrderOf(chain, lookup, <<>>)
    BY <2>1, <2>3 DEF OrderIsOfList
  <2>5. OrderOf(chain, lookup, <<>>) = <<>>
    BY EmptyOrder
  <2> QED BY <2>1, <2>4, <2>5 DEF C!Init, C!Answer, Answer
<1>2. IInv /\ OrderIsOfList /\ OrderIsOfList' /\ [Next]_vars => [C!Next]_(C!vars)
  BY StepRefines
<1> QED BY <1>1, <1>2, OrderHolds, InvariantHolds, PTL DEF Spec, ImplementsCache, C!Spec
=============================================================================
