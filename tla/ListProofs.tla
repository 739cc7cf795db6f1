----------------------------- MODULE ListProofs -----------------------------
(***************************************************************************)
(* The queue and the linked list for every set of items and of nodes.  The *)
(* nodes are described by a function s from their places, and each         *)
(* procedure is shown to do to s what it should do to a list.              *)
(***************************************************************************)
EXTENDS MCContainers, DataLemmas

(* What is assumed of the queue and the list.                              *)
LEMMA NodeAssumption ==
    /\ IsFiniteSet(Node) /\ Cardinality(Node) \in Nat
    /\ \A S : Line!Cardinality(S) = Cardinality(S) /\ List!Cardinality(S) = Cardinality(S)
    /\ Null \notin Node /\ Null \notin Item
    /\ Null \notin Line!Contents /\ Null \notin List!Contents
<1>1. /\ IsFiniteSet(Node) /\ Null \notin Node /\ Null \notin Item
      /\ Null \notin Line!Contents /\ Null \notin List!Contents
  BY ContainerAssumption
     DEF Line!QueueAssumption, List!ListAssumption, Line!IsFiniteSet, IsFiniteSet
<1>2. \A S : Line!Cardinality(S) = Cardinality(S) /\ List!Cardinality(S) = Cardinality(S)
  BY DEF Line!Cardinality, List!Cardinality, Cardinality
<1> QED BY <1>1, <1>2, FS_CardinalityType

(* Different places hold different nodes, so there are no more places.     *)
LEMMA PlacesBounded ==
    ASSUME NEW n \in Nat, NEW s \in [0 .. n - 1 -> Node],
           \A i, j \in 0 .. n - 1 : s[i] = s[j] => i = j
    PROVE  n <= Cardinality(Node)
<1>1. s \in Injection(0 .. n - 1, Node)
  BY DEF Injection, IsInjective
<1>2. IsFiniteSet(0 .. n - 1) /\ Cardinality(0 .. n - 1) = n
  <2>1. 0 \in Int /\ n - 1 \in Int
    OBVIOUS
  <2>2. /\ IsFiniteSet(0 .. n - 1)
        /\ Cardinality(0 .. n - 1) = IF 0 > n - 1 THEN 0 ELSE (n - 1) - 0 + 1
    BY <2>1, FS_Interval
  <2>3. (IF 0 > n - 1 THEN 0 ELSE (n - 1) - 0 + 1) = n
    OBVIOUS
  <2> QED BY <2>2, <2>3
<1> HIDE DEF Injection
<1>3. Cardinality(0 .. n - 1) <= Cardinality(Node)
  BY <1>1, <1>2, NodeAssumption, FS_Injection
<1> QED BY <1>2, <1>3

(* A node that is not at any place leaves room for one place more.         *)
LEMMA PlaceLeft ==
    ASSUME NEW n \in Nat, NEW s \in [0 .. n - 1 -> Node],
           \A i, j \in 0 .. n - 1 : s[i] = s[j] => i = j,
           NEW m \in Node, \A i \in 0 .. n - 1 : s[i] # m
    PROVE  n + 1 <= Cardinality(Node)
<1> DEFINE w == [i \in 0 .. (n + 1) - 1 |-> IF i = n THEN m ELSE s[i]]
<1>1. w \in [0 .. (n + 1) - 1 -> Node] /\ n + 1 \in Nat
  OBVIOUS
<1>2. \A i, j \in 0 .. (n + 1) - 1 : w[i] = w[j] => i = j
  <2>1. \A i \in 0 .. (n + 1) - 1 : w[i] = IF i = n THEN m ELSE s[i]
    OBVIOUS
  <2>2. \A i \in 0 .. (n + 1) - 1 : i # n => i \in 0 .. n - 1
    OBVIOUS
  <2> HIDE DEF w
  <2> QED BY <2>1, <2>2
<1> HIDE DEF w
<1> QED BY <1>1, <1>2, PlacesBounded
---------------------------------------------------------------------------
(* The queue: s holds the nodes from head to tail, and no others are       *)
(* allocated.  The last next pointer is not spoken of.                     *)
InLine(nd, h, t, n, s) ==
    /\ n \in Nat /\ s \in [0 .. n - 1 -> Node]
    /\ \A i, j \in 0 .. n - 1 : s[i] = s[j] => i = j
    /\ h = IF n = 0 THEN Null ELSE s[0]
    /\ t = IF n = 0 THEN Null ELSE s[n - 1]
    /\ \A i \in 0 .. n - 1 : nd[s[i]] # Null
    /\ \A i \in 0 .. n - 2 : nd[s[i]].next = s[i + 1]
    /\ \A m \in Node : nd[m] # Null => \E i \in 0 .. n - 1 : s[i] = m

QueueInv ==
    /\ Line!TypeOK
    /\ alive => \E s \in [0 .. len - 1 -> Node] : InLine(node, head, tail, len, s)
    /\ ~alive => len = 0 /\ \A m \in Node : node[m] = Null

(* A walk from the head meets the nodes in line.                           *)
AtIsLine ==
    \A s \in [0 .. len - 1 -> Node] :
        InLine(node, head, tail, len, s) /\ len <= Cardinality(Node)
            => \A i \in 0 .. len - 1 : Line!At[i] = s[i]

(* A walk from the head meets the nodes in line.                           *)
LEMMA AtIsLineHolds == AtIsLine
<1> SUFFICES ASSUME NEW s \in [0 .. len - 1 -> Node], InLine(node, head, tail, len, s),
                    len <= Cardinality(Node)
             PROVE  \A i \in 0 .. len - 1 : Line!At[i] = s[i]
  BY DEF AtIsLine
<1> SUFFICES ASSUME len # 0 PROVE \A i \in 0 .. len - 1 : Line!At[i] = s[i]
  OBVIOUS
<1>n. PICK N \in Nat : N = Cardinality(Node) /\ N = Line!Cardinality(Node)
  BY NodeAssumption
<1> DEFINE G(f) == [i \in 0 .. N |-> IF i = 0 THEN head ELSE node[f[i - 1]].next]
<1>1. /\ len \in Nat /\ N \in Nat /\ len <= N /\ head = s[0]
      /\ \A i \in 0 .. len - 2 : node[s[i]].next = s[i + 1]
  BY <1>n DEF InLine
<1>2. \E f : f = G(f)
  <2>1. PICK T, f : IsChase(f, T, N, head, node)
    BY <1>n, ChaseExists
  <2>2. f = G(f)
    BY <2>1 DEF IsChase
  <2> QED BY <2>2
<1>3. Line!At = CHOOSE f : f = G(f)
  BY <1>n DEF Line!At
<1> HIDE DEF G
<1>4. Line!At = G(Line!At)
  BY <1>2, <1>3
<1>5. \A i \in 0 .. N : Line!At[i] = IF i = 0 THEN head ELSE node[Line!At[i - 1]].next
  BY <1>4 DEF G
<1> DEFINE P == {i \in 0 .. len - 1 : Line!At[i] = s[i]}
<1>6. 0 \in P
  BY <1>1, <1>5
<1>7. ASSUME NEW i \in 0 .. (len - 1) - 1, i \in P PROVE i + 1 \in P
  <2>1. i \in 0 .. len - 2 /\ i + 1 \in 0 .. N /\ i + 1 # 0 /\ (i + 1) - 1 = i
        /\ i + 1 \in 0 .. len - 1
    BY <1>1
  <2>2. Line!At[i + 1] = node[Line!At[i]].next
    BY <1>5, <2>1
  <2>3. Line!At[i] = s[i] /\ node[s[i]].next = s[i + 1]
    BY <1>1, <1>7, <2>1
  <2> QED BY <2>1, <2>2, <2>3
<1>8. \A i \in 0 .. len - 1 : i \in P
  <2> HIDE DEF P
  <2>1. len - 1 \in Nat
    BY <1>1
  <2> QED BY <1>6, <1>7, <2>1, InductionTo
<1> QED BY <1>8

(* What the abstract queue sees: the data from head to tail.               *)
ItemsAreLine ==
    \A s \in [0 .. len - 1 -> Node] :
        alive /\ InLine(node, head, tail, len, s) /\ len <= Cardinality(Node)
            => Line!Items = [i \in 1 .. len |-> node[s[i - 1]].data]

(* What the abstract queue sees: the data from head to tail.               *)
LEMMA ItemsAreLineHolds == ItemsAreLine
<1> SUFFICES ASSUME NEW s \in [0 .. len - 1 -> Node], alive, InLine(node, head, tail, len, s),
                    len <= Cardinality(Node)
             PROVE  Line!Items = [i \in 1 .. len |-> node[s[i - 1]].data]
  BY DEF ItemsAreLine
<1>1. \A i \in 0 .. len - 1 : Line!At[i] = s[i]
  BY AtIsLineHolds DEF AtIsLine
<1>2. \A i \in 1 .. len : i - 1 \in 0 .. len - 1
  BY DEF InLine
<1>3. \A i \in 1 .. len : node[Line!At[i - 1]].data = node[s[i - 1]].data
  BY <1>1, <1>2
<1> QED BY <1>3 DEF Line!Items

(* queue_enque puts a node behind the others, which keep their data.       *)
LEMMA EnqueLine ==
    ASSUME Line!TypeOK, NEW s \in [0 .. len - 1 -> Node], InLine(node, head, tail, len, s),
           NEW v \in Item, NEW garbage \in Line!Pointer, Line!Enque(v, garbage)
    PROVE  /\ len' = len + 1
           /\ \E w \in [0 .. len' - 1 -> Node] :
                /\ InLine(node', head', tail', len', w)
                /\ node'[w[len]].data = v
                /\ \A i \in 0 .. len - 1 : w[i] = s[i] /\ node'[w[i]].data = node[s[i]].data
<1>1. PICK n \in Line!Unused :
         /\ node' = [m \in Node |-> IF m = n THEN [data |-> v, next |-> garbage]
                                    ELSE IF m = tail /\ head # Null
                                    THEN [node[m] EXCEPT !.next = n]
                                    ELSE node[m]]
         /\ tail' = n
         /\ head' = IF head = Null THEN n ELSE head
  BY Zenon DEF Line!Enque
<1>2. len' = len + 1 /\ len \in Nat
  BY DEF Line!Enque, InLine
<1>3. n \in Node /\ node[n] = Null
  BY <1>1 DEF Line!Unused
<1>4. /\ \A i, j \in 0 .. len - 1 : s[i] = s[j] => i = j
      /\ head = IF len = 0 THEN Null ELSE s[0]
      /\ tail = IF len = 0 THEN Null ELSE s[len - 1]
      /\ \A i \in 0 .. len - 1 : node[s[i]] # Null
      /\ \A i \in 0 .. len - 2 : node[s[i]].next = s[i + 1]
      /\ \A m \in Node : node[m] # Null => \E i \in 0 .. len - 1 : s[i] = m
  BY DEF InLine
<1>5. \A i \in 0 .. len - 1 : s[i] # n /\ s[i] \in Node /\ s[i] # Null
  BY <1>3, <1>4, NodeAssumption
<1>6. (head = Null <=> len = 0) /\ (tail = Null <=> len = 0) /\ tail # n
  <2>1. len # 0 => 0 \in 0 .. len - 1 /\ len - 1 \in 0 .. len - 1
    BY <1>2
  <2> QED BY <1>3, <1>4, <1>5, <2>1, NodeAssumption
<1>7. \A m \in Node : node[m] # Null => node[m] \in Line!Contents
  BY DEF Line!TypeOK
<1>8. /\ node'[n] = [data |-> v, next |-> garbage]
      /\ \A m \in Node : m # n => node'[m] = IF m = tail /\ head # Null
                                             THEN [node[m] EXCEPT !.next = n] ELSE node[m]
  BY <1>1, <1>3
<1>9. ASSUME NEW i \in 0 .. len - 1
      PROVE  /\ node'[s[i]] # Null /\ node'[s[i]].data = node[s[i]].data
             /\ node'[s[i]].next = IF i = len - 1 THEN n ELSE node[s[i]].next
  <2>1. node[s[i]] \in Line!Contents
    BY <1>4, <1>5, <1>7
  <2>2. s[i] = tail <=> i = len - 1
    <3>1. len # 0 /\ len - 1 \in 0 .. len - 1
      BY <1>2
    <3> QED BY <1>4, <3>1
  <2>3. head # Null
    BY <1>2, <1>6
  <2>4. node'[s[i]] = IF i = len - 1 THEN [node[s[i]] EXCEPT !.next = n] ELSE node[s[i]]
    BY <1>5, <1>8, <2>2, <2>3
  <2>5. [node[s[i]] EXCEPT !.next = n] \in Line!Contents
    BY <1>3, <2>1 DEF Line!Contents, Line!Pointer
  <2>6. [node[s[i]] EXCEPT !.next = n].data = node[s[i]].data
        /\ [node[s[i]] EXCEPT !.next = n].next = n
    BY <2>1 DEF Line!Contents
  <2> QED BY <1>4, <2>4, <2>5, <2>6, NodeAssumption
<1> DEFINE w == [i \in 0 .. len |-> IF i = len THEN n ELSE s[i]]
<1>10. w \in [0 .. len' - 1 -> Node] /\ w \in [0 .. len -> Node]
  BY <1>2, <1>3
<1>11. w[len] = n /\ \A i \in 0 .. len - 1 : w[i] = s[i]
  BY <1>2
<1>12. \A i \in 0 .. len : i = len \/ i \in 0 .. len - 1
  BY <1>2
<1> HIDE DEF w
<1>13. node'[n] # Null /\ node'[n].data = v
  <2>1. [data |-> v, next |-> garbage] \in Line!Contents
    BY DEF Line!Contents
  <2> QED BY <1>8, <2>1, NodeAssumption
<1>14. InLine(node', head', tail', len', w)
  <2>1. \A i, j \in 0 .. len : w[i] = w[j] => i = j
    BY <1>4, <1>5, <1>11, <1>12
  <2>2. head' = w[0] /\ tail' = w[len]
    <3>1. len = 0 \/ 0 \in 0 .. len - 1
      BY <1>2
    <3> QED BY <1>1, <1>4, <1>6, <1>11, <3>1
  <2>3. \A i \in 0 .. len : node'[w[i]] # Null
    BY <1>9, <1>11, <1>12, <1>13
  <2>4. ASSUME NEW i \in 0 .. len - 1 PROVE node'[w[i]].next = w[i + 1]
    <3>1. CASE i = len - 1
      <4>1. i + 1 = len
        BY <1>2, <3>1
      <4> QED BY <1>9, <1>11, <3>1, <4>1
    <3>2. CASE i # len - 1
      <4>1. i + 1 \in 0 .. len - 1 /\ i \in 0 .. len - 2
        BY <1>2, <3>2
      <4> QED BY <1>4, <1>9, <1>11, <3>2, <4>1
    <3> QED BY <3>1, <3>2
  <2>5. ASSUME NEW m \in Node, node'[m] # Null PROVE \E i \in 0 .. len : w[i] = m
    <3>1. CASE m = n
      BY <1>2, <1>11, <3>1
    <3>2. CASE m # n
      <4>1. node[m] # Null
        <5>1. m = tail /\ head # Null => node[m] # Null
          <6>1. len # 0 => len - 1 \in 0 .. len - 1
            BY <1>2
          <6> QED BY <1>4, <1>6, <6>1
        <5> QED BY <1>8, <2>5, <3>2, <5>1
      <4>2. PICK i \in 0 .. len - 1 : s[i] = m
        BY <1>4, <4>1
      <4>3. i \in 0 .. len
        BY <1>2
      <4> QED BY <1>11, <4>2, <4>3
    <3> QED BY <3>1, <3>2
  <2>6. len + 1 \in Nat /\ len + 1 # 0 /\ (len + 1) - 1 = len /\ (len + 1) - 2 = len - 1
    BY <1>2
  <2>7. w \in [0 .. (len + 1) - 1 -> Node]
    BY <1>10, <2>6
  <2> QED BY <1>2, <2>1, <2>2, <2>3, <2>4, <2>5, <2>6, <2>7 DEF InLine
<1>15. \A i \in 0 .. len - 1 : node'[w[i]].data = node[s[i]].data
  BY <1>9, <1>11
<1> QED BY <1>2, <1>10, <1>11, <1>13, <1>14, <1>15

(* queue_deque takes the first node away and moves up the others.          *)
LEMMA DequeLine ==
    ASSUME Line!TypeOK, NEW s \in [0 .. len - 1 -> Node], InLine(node, head, tail, len, s),
           Line!Deque
    PROVE  /\ len' = len - 1
           /\ head = s[0]
           /\ \E w \in [0 .. len' - 1 -> Node] :
                /\ InLine(node', head', tail', len', w)
                /\ \A i \in 0 .. len - 2 : w[i] = s[i + 1] /\ node'[w[i]].data = node[s[i + 1]].data
<1>1. /\ len' = len - 1 /\ len \in Nat /\ len > 0
      /\ head' = IF len = 1 THEN Null ELSE node[head].next
      /\ tail' = IF len = 1 THEN Null ELSE tail
      /\ node' = [node EXCEPT ![head] = Null]
  BY DEF Line!Deque, InLine
<1>2. /\ \A i, j \in 0 .. len - 1 : s[i] = s[j] => i = j
      /\ head = s[0] /\ tail = s[len - 1]
      /\ \A i \in 0 .. len - 1 : node[s[i]] # Null
      /\ \A i \in 0 .. len - 2 : node[s[i]].next = s[i + 1]
      /\ \A m \in Node : node[m] # Null => \E i \in 0 .. len - 1 : s[i] = m
  BY <1>1 DEF InLine
<1>3. 0 \in 0 .. len - 1 /\ len - 1 \in Nat /\ (len - 1) - 1 = len - 2 /\ (len - 1) - 2 = len - 3
  BY <1>1
<1>4. \A i \in 0 .. len - 2 : i + 1 \in 0 .. len - 1 /\ i + 1 # 0
  BY <1>1
<1>5. head \in Node /\ \A m \in Node : node'[m] = IF m = head THEN Null ELSE node[m]
  <2>1. head \in Node
    BY <1>2, <1>3
  <2>2. node \in [Node -> Line!Contents \cup {Null}]
    BY DEF Line!TypeOK
  <2> QED BY <1>1, <2>1, <2>2
<1>6. \A i \in 0 .. len - 2 : s[i + 1] \in Node /\ node'[s[i + 1]] = node[s[i + 1]]
  <2>1. \A i \in 0 .. len - 2 : s[i + 1] \in Node /\ s[i + 1] # s[0]
    BY <1>2, <1>3, <1>4
  <2> QED BY <1>2, <1>5, <2>1
<1> DEFINE w == [i \in 0 .. len - 2 |-> s[i + 1]]
<1>7. w \in [0 .. len - 2 -> Node]
  BY <1>6
<1>8. \A i \in 0 .. len - 2 : w[i] = s[i + 1]
  OBVIOUS
<1> HIDE DEF w
<1>9. InLine(node', head', tail', len', w)
  <2>1. ASSUME NEW i \in 0 .. len - 2, NEW j \in 0 .. len - 2, w[i] = w[j] PROVE i = j
    <3>1. i + 1 = j + 1
      BY <1>2, <1>4, <1>8, <2>1
    <3> QED BY <3>1
  <2>2. len # 1 => head' = w[0] /\ tail' = w[len - 2]
    <3>1. len # 1 => 0 \in 0 .. len - 2 /\ len - 2 \in 0 .. len - 2 /\ (len - 2) + 1 = len - 1
                     /\ 0 + 1 = 1
      BY <1>1
    <3> QED BY <1>1, <1>2, <1>8, <3>1
  <2>3. \A i \in 0 .. len - 2 : node'[w[i]] # Null
    BY <1>2, <1>4, <1>6, <1>8
  <2>4. ASSUME NEW i \in 0 .. len - 3 PROVE node'[w[i]].next = w[i + 1]
    <3>1. i \in 0 .. len - 2 /\ i + 1 \in 0 .. len - 2
      BY <1>1
    <3> QED BY <1>2, <1>6, <1>8, <3>1
  <2>5. ASSUME NEW m \in Node, node'[m] # Null PROVE \E i \in 0 .. len - 2 : w[i] = m
    <3>1. m # head /\ node[m] # Null
      BY <1>5, <2>5
    <3>2. PICK i \in 0 .. len - 1 : s[i] = m
      BY <1>2, <3>1
    <3>3. i # 0
      BY <1>2, <3>1, <3>2
    <3>4. i - 1 \in 0 .. len - 2 /\ (i - 1) + 1 = i
      BY <1>1, <3>3
    <3> QED BY <1>8, <3>2, <3>4
  <2>6. len - 1 = 0 <=> len = 1
    BY <1>1
  <2>7. head' = IF len - 1 = 0 THEN Null ELSE w[0]
    BY <1>1, <2>2, <2>6
  <2>8. tail' = IF len - 1 = 0 THEN Null ELSE w[(len - 1) - 1]
    BY <1>1, <1>3, <2>2, <2>6
  <2> QED BY <1>1, <1>3, <1>7, <2>1, <2>3, <2>4, <2>5, <2>7, <2>8 DEF InLine
<1>10. w \in [0 .. len' - 1 -> Node]
  BY <1>1, <1>3, <1>7
<1>11. \A i \in 0 .. len - 2 : node'[w[i]].data = node[s[i + 1]].data
  BY <1>6, <1>8
<1> QED BY <1>1, <1>2, <1>8, <1>9, <1>10, <1>11

(* queue_free frees every node.                                            *)
LEMMA FreeLine ==
    ASSUME QueueInv, AtIsLine, Line!Free
    PROVE  len' = 0 /\ ~alive' /\ \A m \in Node : node'[m] = Null
<1>1. /\ alive /\ len' = 0 /\ alive' = FALSE
      /\ node' = [n \in Node |-> IF \E i \in 0 .. len - 1 : Line!At[i] = n
                                 THEN Null ELSE node[n]]
  BY DEF Line!Free
<1>2. PICK s \in [0 .. len - 1 -> Node] : InLine(node, head, tail, len, s)
  BY <1>1 DEF QueueInv
<1>3. len <= Cardinality(Node)
  BY NodeAssumption DEF QueueInv, Line!TypeOK
<1>4. \A i \in 0 .. len - 1 : Line!At[i] = s[i]
  BY <1>2, <1>3 DEF AtIsLine
<1>5. \A m \in Node : node[m] # Null => \E i \in 0 .. len - 1 : s[i] = m
  BY <1>2 DEF InLine
<1> QED BY <1>1, <1>4, <1>5
---------------------------------------------------------------------------
(* The invariant holds of a new queue.                                     *)
LEMMA QueueInit == Line!Init => QueueInv
<1> SUFFICES ASSUME Line!Init PROVE QueueInv
  OBVIOUS
<1>1. /\ node = [n \in Node |-> Null] /\ head = Null /\ tail = Null /\ len = 0
      /\ alive = TRUE /\ reply = Line!Answer("new", 0, Null)
  BY DEF Line!Init
<1>2. Line!TypeOK
  <2>1. PICK N \in Nat : N = Line!Cardinality(Node)
    BY NodeAssumption
  <2>2. reply \in Line!Reply
    BY <1>1 DEF Line!Reply, Line!Answer
  <2>3. len \in 0 .. Line!Cardinality(Node)
    BY <1>1, <2>1
  <2> QED BY <1>1, <2>2, <2>3 DEF Line!TypeOK, Line!Pointer
<1>3. \E s \in [0 .. len - 1 -> Node] : InLine(node, head, tail, len, s)
  <2> DEFINE s == [i \in 0 .. 0 - 1 |-> 0]
  <2>1. s \in [0 .. len - 1 -> Node]
    BY <1>1
  <2>2. InLine(node, head, tail, len, s)
    BY <1>1, <2>1 DEF InLine
  <2> QED BY <2>1, <2>2
<1> QED BY <1>1, <1>2, <1>3 DEF QueueInv

(* What a call says is a reply, and what it gives out a value.             *)
LEMMA QueueReplies ==
    ASSUME QueueInv, Line!Next
    PROVE  reply' \in Line!Reply
<1>1. ASSUME len > 0 PROVE node[head].data \in Item
  <2>1. alive
    BY <1>1 DEF QueueInv, Line!TypeOK
  <2>2. PICK s \in [0 .. len - 1 -> Node] : InLine(node, head, tail, len, s)
    BY <2>1 DEF QueueInv
  <2>3. head \in Node /\ node[head] # Null
    <3>1. len # 0 /\ len \in Nat /\ 0 \in 0 .. len - 1
      BY <1>1, <2>2 DEF InLine
    <3> QED BY <2>2, <3>1 DEF InLine
  <2>4. node[head] \in Line!Contents
    BY <2>3 DEF QueueInv, Line!TypeOK
  <2> QED BY <2>4 DEF Line!Contents
<1>2. \A op \in {"new", "free", "enque", "deque", "peek"}, code \in {0, 1}, out \in Item \cup {Null} :
         Line!Answer(op, code, out) \in Line!Reply
  BY DEF Line!Reply, Line!Answer
<1>3. CASE \E v \in Item, garbage \in Line!Pointer : Line!Enque(v, garbage)
  BY <1>2, <1>3 DEF Line!Enque
<1>4. CASE Line!EnqueFails
  BY <1>2, <1>4 DEF Line!EnqueFails
<1>5. CASE Line!Deque
  BY <1>1, <1>2, <1>5 DEF Line!Deque
<1>6. CASE Line!Peek
  BY <1>1, <1>2, <1>6 DEF Line!Peek
<1>7. CASE \E op \in {"deque", "peek"} : Line!FindEmpty(op)
  BY <1>2, <1>7 DEF Line!FindEmpty
<1>8. CASE Line!Free
  BY <1>2, <1>8 DEF Line!Free
<1>9. CASE Line!Renew
  BY <1>2, <1>9 DEF Line!Renew
<1> QED BY <1>3, <1>4, <1>5, <1>6, <1>7, <1>8, <1>9 DEF Line!Next

(* Every call keeps the invariant.                                         *)
LEMMA QueueKeeps ==
    ASSUME QueueInv, AtIsLine, Line!Next
    PROVE  QueueInv'
<1>r. reply' \in Line!Reply
  BY QueueReplies
<1>t. /\ Line!TypeOK
      /\ node \in [Node -> Line!Contents \cup {Null}]
      /\ head \in Node \cup {Null} /\ tail \in Node \cup {Null}
      /\ len \in 0 .. Line!Cardinality(Node) /\ alive \in BOOLEAN
  BY DEF QueueInv, Line!TypeOK, Line!Pointer
<1>n. PICK N \in Nat : N = Cardinality(Node) /\ N = Line!Cardinality(Node)
  BY NodeAssumption
<1>s. ASSUME UNCHANGED <<node, head, tail, len, alive>> PROVE QueueInv'
  BY <1>r, <1>s DEF QueueInv, Line!TypeOK
<1>z. \A n \in Nat : n # 0 => 0 \in 0 .. n - 1 /\ n - 1 \in 0 .. n - 1
  OBVIOUS
<1>l. ASSUME alive', node' \in [Node -> Line!Contents \cup {Null}],
             NEW w \in [0 .. len' - 1 -> Node], InLine(node', head', tail', len', w)
      PROVE  QueueInv'
  <2>1. len' \in Nat /\ \A i, j \in 0 .. len' - 1 : w[i] = w[j] => i = j
    BY <1>l DEF InLine
  <2>2. len' <= Cardinality(Node)
    BY <1>l, <2>1, PlacesBounded
  <2>3. len' \in 0 .. Line!Cardinality(Node)
    BY <1>n, <2>1, <2>2
  <2>4. head' \in Node \cup {Null} /\ tail' \in Node \cup {Null}
    <3>1. len' # 0 => 0 \in 0 .. len' - 1 /\ len' - 1 \in 0 .. len' - 1
      BY <1>z, <2>1
    <3> QED BY <1>l, <3>1 DEF InLine
  <2>5. alive' = TRUE
    <3>1. CASE Line!Renew
      BY <3>1 DEF Line!Renew
    <3>2. CASE ~Line!Renew
      <4>1. Line!Free => alive' = FALSE
        BY DEF Line!Free
      <4>2. ~Line!Free => alive' = alive
        BY <3>2 DEF Line!Next, Line!Enque, Line!EnqueFails, Line!Deque, Line!Peek, Line!FindEmpty
      <4> QED BY <1>l, <1>t, <4>1, <4>2
    <3> QED BY <3>1, <3>2
  <2>6. Line!TypeOK'
    BY <1>l, <1>r, <2>3, <2>4, <2>5 DEF Line!TypeOK, Line!Pointer
  <2> QED BY <1>l, <2>5, <2>6 DEF QueueInv
<1>1. ASSUME NEW v \in Item, NEW garbage \in Line!Pointer, Line!Enque(v, garbage) PROVE QueueInv'
  <2>1. alive /\ alive' = alive
    BY <1>1 DEF Line!Enque
  <2>2. PICK s \in [0 .. len - 1 -> Node] : InLine(node, head, tail, len, s)
    BY <2>1 DEF QueueInv
  <2>3. PICK w \in [0 .. len' - 1 -> Node] : InLine(node', head', tail', len', w)
    BY <1>1, <1>t, <2>2, EnqueLine
  <2>4. node' \in [Node -> Line!Contents \cup {Null}]
    <3>1. PICK n \in Line!Unused :
            node' = [m \in Node |-> IF m = n THEN [data |-> v, next |-> garbage]
                                    ELSE IF m = tail /\ head # Null
                                    THEN [node[m] EXCEPT !.next = n]
                                    ELSE node[m]]
      BY <1>1, Zenon DEF Line!Enque
    <3>2. n \in Node /\ [data |-> v, next |-> garbage] \in Line!Contents
      BY <3>1 DEF Line!Unused, Line!Contents
    <3>3. head # Null => node[tail] # Null
      <4>1. len # 0 /\ len \in Nat => len - 1 \in 0 .. len - 1
        OBVIOUS
      <4> QED BY <2>2, <4>1 DEF InLine
    <3>4. \A m \in Node : m = tail /\ head # Null => [node[m] EXCEPT !.next = n] \in Line!Contents
      <4> SUFFICES ASSUME NEW m \in Node, m = tail, head # Null
                   PROVE  [node[m] EXCEPT !.next = n] \in Line!Contents
        OBVIOUS
      <4>1. node[m] \in Line!Contents
        BY <1>t, <3>3
      <4> QED BY <3>2, <4>1 DEF Line!Contents, Line!Pointer
    <3> QED BY <1>t, <3>1, <3>2, <3>4
  <2> QED BY <1>l, <2>1, <2>3, <2>4
<1>2. CASE Line!EnqueFails
  BY <1>2, <1>s DEF Line!EnqueFails
<1>3. CASE Line!Deque
  <2>1. alive /\ alive' = alive /\ node' = [node EXCEPT ![head] = Null]
    BY <1>3 DEF Line!Deque
  <2>2. PICK s \in [0 .. len - 1 -> Node] : InLine(node, head, tail, len, s)
    BY <2>1 DEF QueueInv
  <2>3. PICK w \in [0 .. len' - 1 -> Node] : InLine(node', head', tail', len', w)
    BY <1>3, <1>t, <2>2, DequeLine
  <2>4. node' \in [Node -> Line!Contents \cup {Null}]
    BY <1>t, <2>1
  <2> QED BY <1>l, <2>1, <2>3, <2>4
<1>4. CASE Line!Peek
  BY <1>4, <1>s DEF Line!Peek
<1>5. CASE \E op \in {"deque", "peek"} : Line!FindEmpty(op)
  BY <1>5, <1>s DEF Line!FindEmpty
<1>6. CASE Line!Free
  <2>1. len' = 0 /\ ~alive' /\ \A m \in Node : node'[m] = Null
    BY <1>6, FreeLine
  <2>2. UNCHANGED <<head, tail>> /\ alive' = FALSE
        /\ node' = [n \in Node |-> IF \E i \in 0 .. len - 1 : Line!At[i] = n
                                   THEN Null ELSE node[n]]
    BY <1>6 DEF Line!Free
  <2>3. Line!TypeOK'
    <3>1. node' \in [Node -> Line!Contents \cup {Null}]
      BY <1>t, <2>2
    <3>2. 0 \in 0 .. Line!Cardinality(Node)
      BY <1>n
    <3> QED BY <1>r, <1>t, <2>1, <2>2, <3>1, <3>2 DEF Line!TypeOK, Line!Pointer
  <2> QED BY <2>1, <2>3 DEF QueueInv
<1>7. CASE Line!Renew
  <2>1. ~alive /\ head' = Null /\ tail' = Null /\ len' = 0 /\ alive' = TRUE /\ node' = node
    BY <1>7 DEF Line!Renew
  <2>2. \A m \in Node : node[m] = Null
    BY <2>1 DEF QueueInv
  <2> DEFINE s == [i \in 0 .. 0 - 1 |-> 0]
  <2>3. s \in [0 .. len' - 1 -> Node]
    BY <2>1
  <2>4. InLine(node', head', tail', len', s)
    BY <2>1, <2>2, <2>3 DEF InLine
  <2> HIDE DEF s
  <2> QED BY <1>l, <1>t, <2>1, <2>3, <2>4
<1> QED BY <1>1, <1>2, <1>3, <1>4, <1>5, <1>6, <1>7 DEF Line!Next

(* What the code relies on when it follows the next pointers.              *)
LEMMA QueueChained == QueueInv /\ AtIsLine => Line!TypeOK /\ Line!Chained
<1> SUFFICES ASSUME QueueInv, AtIsLine PROVE Line!Chained
  BY DEF QueueInv
<1>1. ~alive => len = 0 /\ Line!Unused = Node
  BY DEF QueueInv, Line!Unused
<1>2. ASSUME alive
      PROVE  /\ (head = Null) <=> (len = 0)
             /\ (tail = Null) <=> (len = 0)
             /\ \A i \in 0 .. len - 1 : Line!At[i] \in Node /\ node[Line!At[i]] # Null
             /\ \A i, j \in 0 .. len - 1 : Line!At[i] = Line!At[j] => i = j
             /\ len > 0 => Line!At[len - 1] = tail
             /\ {n \in Node : node[n] # Null} = {Line!At[i] : i \in 0 .. len - 1}
  <2>1. PICK s \in [0 .. len - 1 -> Node] : InLine(node, head, tail, len, s)
    BY <1>2 DEF QueueInv
  <2>2. len <= Cardinality(Node)
    BY NodeAssumption DEF QueueInv, Line!TypeOK
  <2>3. \A i \in 0 .. len - 1 : Line!At[i] = s[i]
    BY <2>1, <2>2 DEF AtIsLine
  <2>4. len \in Nat /\ (len # 0 => 0 \in 0 .. len - 1 /\ len - 1 \in 0 .. len - 1)
    BY <2>1 DEF InLine
  <2>5. \A i \in 0 .. len - 1 : s[i] \in Node /\ s[i] # Null
    BY NodeAssumption
  <2>6. /\ (head = Null) <=> (len = 0)
        /\ (tail = Null) <=> (len = 0)
    BY <2>1, <2>4, <2>5 DEF InLine
  <2>7. /\ \A i \in 0 .. len - 1 : Line!At[i] \in Node /\ node[Line!At[i]] # Null
        /\ \A i, j \in 0 .. len - 1 : Line!At[i] = Line!At[j] => i = j
    BY <2>1, <2>3, <2>5 DEF InLine
  <2>8. len > 0 => Line!At[len - 1] = tail
    BY <2>1, <2>3, <2>4 DEF InLine
  <2>9. \A m \in Node : node[m] # Null <=> \E i \in 0 .. len - 1 : Line!At[i] = m
    BY <2>1, <2>3 DEF InLine
  <2>10. {n \in Node : node[n] # Null} = {Line!At[i] : i \in 0 .. len - 1}
    BY <2>7, <2>9
  <2> QED BY <2>6, <2>7, <2>8, <2>10
<1> QED BY <1>1, <1>2 DEF Line!Chained
---------------------------------------------------------------------------
(* A queue just made is an empty one to its client.                        *)
LEMMA QueueFifoInit == QueueInv /\ ItemsAreLine /\ Line!Init => Line!F!Init
<1> SUFFICES ASSUME QueueInv, ItemsAreLine, Line!Init PROVE Line!F!Init
  OBVIOUS
<1>1. /\ len = 0 /\ alive = TRUE /\ reply = Line!Answer("new", 0, Null)
  BY DEF Line!Init
<1>2. PICK s \in [0 .. len - 1 -> Node] : InLine(node, head, tail, len, s)
  BY <1>1 DEF QueueInv
<1>3. len <= Cardinality(Node)
  BY NodeAssumption DEF QueueInv, Line!TypeOK
<1> DEFINE d == [i \in 1 .. len |-> node[s[i - 1]].data]
<1>4. Line!Items = d
  BY <1>1, <1>2, <1>3 DEF ItemsAreLine
<1>5. d = [i \in 1 .. 0 |-> d[i]]
  BY <1>1
<1> HIDE DEF d
<1>6. d = <<>>
  BY <1>5, EmptyIs
<1> QED BY <1>1, <1>4, <1>6 DEF Line!F!Init, Line!Answer, Line!F!Answer

(* Every call does to the data from head to tail what a first in, first    *)
(* out queue does.                                                         *)
LEMMA QueueFifoStep ==
    ASSUME QueueInv, QueueInv', ItemsAreLine, ItemsAreLine', Line!Next
    PROVE  Line!F!Next \/ UNCHANGED Line!F!vars
<1>b. len <= Cardinality(Node) /\ len' <= Cardinality(Node) /\ len \in Nat /\ len' \in Nat
  <2>1. PICK N \in Nat : N = Cardinality(Node) /\ N = Line!Cardinality(Node)
    BY NodeAssumption
  <2> QED BY <2>1 DEF QueueInv, Line!TypeOK
<1>d. ASSUME NEW s \in [0 .. len - 1 -> Node], InLine(node, head, tail, len, s), alive
      PROVE  /\ Line!Items = [i \in 1 .. len |-> node[s[i - 1]].data]
             /\ \A i \in 0 .. len - 1 : node[s[i]].data \in Item
             /\ Line!Items \in [1 .. len -> Item]
  <2>1. Line!Items = [i \in 1 .. len |-> node[s[i - 1]].data]
    BY <1>b, <1>d DEF ItemsAreLine
  <2>2. \A i \in 0 .. len - 1 : node[s[i]].data \in Item
    <3> SUFFICES ASSUME NEW i \in 0 .. len - 1 PROVE node[s[i]].data \in Item
      OBVIOUS
    <3>1. node[s[i]] \in Line!Contents
      BY <1>d DEF InLine, QueueInv, Line!TypeOK
    <3> QED BY <3>1 DEF Line!Contents
  <2>3. \A i \in 1 .. len : i - 1 \in 0 .. len - 1
    BY <1>b
  <2> QED BY <2>1, <2>2, <2>3
<1>u. ASSUME UNCHANGED <<node, head, tail, len, alive>>
      PROVE  UNCHANGED Line!Items
  <2>1. CASE alive
    <3>1. PICK s \in [0 .. len - 1 -> Node] : InLine(node, head, tail, len, s)
      BY <2>1 DEF QueueInv
    <3>2. Line!Items = [i \in 1 .. len |-> node[s[i - 1]].data]
      BY <2>1, <3>1, <1>d
    <3>3. Line!Items' = [i \in 1 .. len |-> node[s[i - 1]].data]
      <4>1. alive' /\ s \in [0 .. len' - 1 -> Node] /\ InLine(node', head', tail', len', s)
        BY <1>u, <2>1, <3>1
      <4> QED BY <1>b, <1>u, <4>1 DEF ItemsAreLine
    <3> QED BY <3>2, <3>3
  <2>2. CASE ~alive
    BY <1>u, <2>2 DEF Line!Items
  <2> QED BY <2>1, <2>2
<1>1. ASSUME NEW v \in Item, NEW garbage \in Line!Pointer, Line!Enque(v, garbage)
      PROVE  Line!F!Enque(v)
  <2>1. alive /\ alive' /\ reply' = Line!Answer("enque", 0, Null)
    BY <1>1 DEF Line!Enque
  <2>2. PICK s \in [0 .. len - 1 -> Node] : InLine(node, head, tail, len, s)
    BY <2>1 DEF QueueInv
  <2>3. Line!TypeOK
    BY DEF QueueInv
  <2>4. len' = len + 1
    BY <1>1, <2>2, <2>3, EnqueLine
  <2>5. PICK w \in [0 .. len' - 1 -> Node] :
                /\ InLine(node', head', tail', len', w)
                /\ node'[w[len]].data = v
                /\ \A i \in 0 .. len - 1 : w[i] = s[i] /\ node'[w[i]].data = node[s[i]].data
    BY <1>1, <2>2, <2>3, EnqueLine
  <2>6. Line!Items' = [i \in 1 .. len' |-> node'[w[i - 1]].data]
    BY <1>b, <2>1, <2>5 DEF ItemsAreLine
  <2>7. Line!Items = [i \in 1 .. len |-> node[s[i - 1]].data] /\ Line!Items \in [1 .. len -> Item]
    BY <1>d, <2>1, <2>2
  <2>8. Append(Line!Items, v)
          = [i \in 1 .. len + 1 |-> IF i = len + 1 THEN v ELSE Line!Items[i]]
    BY <1>b, <2>7, AppendIs
  <2>9. \A i \in 1 .. len + 1 :
           node'[w[i - 1]].data = IF i = len + 1 THEN v ELSE Line!Items[i]
    <3> SUFFICES ASSUME NEW i \in 1 .. len + 1
                 PROVE  node'[w[i - 1]].data = IF i = len + 1 THEN v ELSE Line!Items[i]
      OBVIOUS
    <3>1. CASE i = len + 1
      <4>1. i - 1 = len
        BY <1>b, <3>1
      <4> QED BY <2>5, <3>1, <4>1
    <3>2. CASE i # len + 1
      <4>1. i \in 1 .. len /\ i - 1 \in 0 .. len - 1
        BY <1>b, <3>2
      <4>2. Line!Items[i] = node[s[i - 1]].data
        BY <2>7, <4>1
      <4> QED BY <2>5, <3>2, <4>1, <4>2
    <3> QED BY <3>1, <3>2
  <2>10. Line!Items' = Append(Line!Items, v)
    BY <2>4, <2>6, <2>8, <2>9
  <2> QED BY <2>1, <2>10 DEF Line!F!Enque, Line!F!Answer, Line!Answer
<1>2. ASSUME Line!EnqueFails PROVE Line!F!Refuse
  <2>1. UNCHANGED Line!Items
    BY <1>2, <1>u DEF Line!EnqueFails
  <2> QED BY <1>2, <2>1 DEF Line!F!Refuse, Line!EnqueFails, Line!F!Answer, Line!Answer
<1>3. ASSUME len > 0
      PROVE  Line!Items # <<>> /\ Head(Line!Items) = node[head].data
             /\ Tail(Line!Items) = [i \in 1 .. len - 1 |-> Line!Items[i + 1]]
  <2>1. alive
    BY <1>3 DEF QueueInv, Line!TypeOK
  <2>2. PICK s \in [0 .. len - 1 -> Node] : InLine(node, head, tail, len, s)
    BY <2>1 DEF QueueInv
  <2>3. Line!Items = [i \in 1 .. len |-> node[s[i - 1]].data] /\ Line!Items \in [1 .. len -> Item]
    BY <1>d, <2>1, <2>2
  <2>4. /\ Line!Items # <<>> /\ Head(Line!Items) = Line!Items[1]
        /\ Tail(Line!Items) = [i \in 1 .. len - 1 |-> Line!Items[i + 1]]
    <3>1. Line!Items # <<>> /\ Head(Line!Items) = Line!Items[1]
      BY <1>3, <1>b, <2>3, TailIs
    <3>2. Tail(Line!Items) = [i \in 1 .. len - 1 |-> Line!Items[i + 1]]
      BY <1>3, <1>b, <2>3, TailIs
    <3> QED BY <3>1, <3>2
  <2>5. Line!Items[1] = node[s[0]].data
    <3>1. 1 \in 1 .. len /\ 1 - 1 = 0
      BY <1>3, <1>b
    <3> QED BY <2>3, <3>1
  <2>6. head = s[0]
    BY <1>3, <2>2 DEF InLine
  <2> QED BY <2>4, <2>5, <2>6
<1>4. ASSUME Line!Deque PROVE Line!F!Deque
  <2>1. alive /\ alive' /\ len > 0 /\ reply' = Line!Answer("deque", 0, node[head].data)
    BY <1>4 DEF Line!Deque
  <2>2. PICK s \in [0 .. len - 1 -> Node] : InLine(node, head, tail, len, s)
    BY <2>1 DEF QueueInv
  <2>3. Line!TypeOK
    BY DEF QueueInv
  <2>4. len' = len - 1
    BY <1>4, <2>2, <2>3, DequeLine
  <2>5. PICK w \in [0 .. len' - 1 -> Node] :
                /\ InLine(node', head', tail', len', w)
                /\ \A i \in 0 .. len - 2 : w[i] = s[i + 1] /\ node'[w[i]].data = node[s[i + 1]].data
    BY <1>4, <2>2, <2>3, DequeLine
  <2>6. Line!Items' = [i \in 1 .. len' |-> node'[w[i - 1]].data]
    BY <1>b, <2>1, <2>5 DEF ItemsAreLine
  <2>7. Line!Items = [i \in 1 .. len |-> node[s[i - 1]].data]
    BY <1>d, <2>1, <2>2
  <2>8. \A i \in 1 .. len - 1 : node'[w[i - 1]].data = Line!Items[i + 1]
    <3> SUFFICES ASSUME NEW i \in 1 .. len - 1
                 PROVE  node'[w[i - 1]].data = Line!Items[i + 1]
      OBVIOUS
    <3>1. i - 1 \in 0 .. len - 2 /\ (i - 1) + 1 = i /\ i + 1 \in 1 .. len /\ (i + 1) - 1 = i
      BY <1>b
    <3>2. Line!Items[i + 1] = node[s[i]].data
      BY <2>7, <3>1
    <3> QED BY <2>5, <3>1, <3>2
  <2>9. Line!Items' = Tail(Line!Items)
    BY <1>3, <2>1, <2>4, <2>6, <2>8
  <2> QED BY <1>3, <2>1, <2>9 DEF Line!F!Deque, Line!F!Answer, Line!Answer
<1>5. ASSUME Line!Peek PROVE Line!F!Peek
  <2>1. UNCHANGED Line!Items /\ len > 0 /\ reply' = Line!Answer("peek", 0, node[head].data)
    BY <1>5, <1>u DEF Line!Peek
  <2> QED BY <1>3, <2>1 DEF Line!F!Peek, Line!F!Answer, Line!Answer
<1>6. ASSUME NEW op \in {"deque", "peek"}, Line!FindEmpty(op) PROVE Line!F!FindEmpty(op)
  <2>1. UNCHANGED Line!Items /\ len = 0 /\ reply' = Line!Answer(op, 1, Null)
    BY <1>6, <1>u DEF Line!FindEmpty
  <2>2. Line!Items = <<>>
    <3>1. CASE alive
      <4>1. PICK s \in [0 .. len - 1 -> Node] : InLine(node, head, tail, len, s)
        BY <3>1 DEF QueueInv
      <4>2. Line!Items = [i \in 1 .. len |-> node[s[i - 1]].data]
        BY <1>d, <3>1, <4>1
      <4>3. Line!Items = [i \in 1 .. 0 |-> Line!Items[i]]
        BY <2>1, <4>2
      <4> QED BY <4>3, EmptyIs
    <3>2. CASE ~alive
      BY <3>2 DEF Line!Items
    <3> QED BY <3>1, <3>2
  <2> QED BY <2>1, <2>2 DEF Line!F!FindEmpty, Line!F!Answer, Line!Answer
<1>7. ASSUME Line!Free PROVE Line!F!Clear("free")
  <2>1. alive' = FALSE /\ reply' = Line!Answer("free", 0, Null)
    BY <1>7 DEF Line!Free
  <2>2. Line!Items' = <<>>
    BY <2>1 DEF Line!Items
  <2> QED BY <2>1, <2>2 DEF Line!F!Clear, Line!F!Answer, Line!Answer
<1>8. ASSUME Line!Renew PROVE Line!F!Clear("new")
  <2>1. alive' = TRUE /\ len' = 0 /\ reply' = Line!Answer("new", 0, Null)
    BY <1>8 DEF Line!Renew
  <2>2. PICK w \in [0 .. len' - 1 -> Node] : InLine(node', head', tail', len', w)
    BY <2>1 DEF QueueInv
  <2>3. Line!Items' = [i \in 1 .. len' |-> node'[w[i - 1]].data]
    BY <1>b, <2>1, <2>2 DEF ItemsAreLine
  <2>4. Line!Items' = [i \in 1 .. 0 |-> Line!Items'[i]]
    BY <2>1, <2>3
  <2>5. Line!Items' = <<>>
    BY <2>4, EmptyIs
  <2> QED BY <2>1, <2>5 DEF Line!F!Clear, Line!F!Answer, Line!Answer
<1> QED BY <1>1, <1>2, <1>4, <1>5, <1>6, <1>7, <1>8 DEF Line!Next, Line!F!Next
---------------------------------------------------------------------------
(* The list read from its tail: s holds the nodes, and prev leads from the *)
(* last one to the first and on to Null.                                   *)
FromBack(nd, t, n, s) ==
    /\ n \in Nat /\ s \in [0 .. n - 1 -> Node]
    /\ t = IF n = 0 THEN Null ELSE s[n - 1]
    /\ \A i \in 0 .. n - 1 : nd[s[i]] # Null /\ nd[s[i]].prev = IF i = 0 THEN Null ELSE s[i - 1]

(* The list read both ways: s holds the nodes that are allocated.          *)
BothWays(nd, h, t, n, s) ==
    /\ FromBack(nd, t, n, s)
    /\ \A i, j \in 0 .. n - 1 : s[i] = s[j] => i = j
    /\ h = IF n = 0 THEN Null ELSE s[0]
    /\ \A i \in 0 .. n - 1 : nd[s[i]].next = IF i = n - 1 THEN Null ELSE s[i + 1]
    /\ \A m \in Node : nd[m] # Null => \E i \in 0 .. n - 1 : s[i] = m

(* An insertion inside leaves a list that is right from its tail only, and *)
(* the model stops there.                                                  *)
ListInv ==
    /\ List!TypeOK
    /\ fault # "none" => alive
    /\ alive => \E s \in [0 .. len - 1 -> Node] : FromBack(node, tail, len, s)
    /\ alive /\ fault # "insert_inside" =>
          \E s \in [0 .. len - 1 -> Node] : BothWays(node, head, tail, len, s)
    /\ ~alive => \A m \in Node : node[m] = Null

(* Walks from the head and from the tail meet the nodes of s.              *)
ForwardIsList ==
    \A s \in [0 .. len - 1 -> Node] :
        BothWays(node, head, tail, len, s) /\ len <= Cardinality(Node)
            => List!At[len] = Null /\ \A i \in 0 .. len - 1 : List!At[i] = s[i]

BackIsList ==
    \A s \in [0 .. len - 1 -> Node] :
        FromBack(node, tail, len, s) /\ len <= Cardinality(Node)
            => List!Back[len] = Null /\ \A i \in 0 .. len - 1 : List!Back[i] = s[len - 1 - i]

(* Two functions that start alike and go on alike are alike.               *)
LEMMA SameWalk ==
    ASSUME NEW N \in Nat, NEW f, NEW g, f[0] = g[0],
           \A i \in 0 .. N - 1 : f[i] = g[i] => f[i + 1] = g[i + 1]
    PROVE  \A i \in 0 .. N : f[i] = g[i]
<1> DEFINE P == {i \in 0 .. N : f[i] = g[i]}
<1>1. 0 \in P
  OBVIOUS
<1>2. \A i \in 0 .. N - 1 : i \in P => i + 1 \in P
  OBVIOUS
<1>3. \A i \in 0 .. N : i \in P
  <2> HIDE DEF P
  <2> QED BY <1>1, <1>2, InductionTo
<1> QED BY <1>3

(* A walk from the head meets the nodes in order.                          *)
LEMMA ForwardIsListHolds == ForwardIsList
<1> SUFFICES ASSUME NEW s \in [0 .. len - 1 -> Node], BothWays(node, head, tail, len, s),
                    len <= Cardinality(Node)
             PROVE  List!At[len] = Null /\ \A i \in 0 .. len - 1 : List!At[i] = s[i]
  BY DEF ForwardIsList
<1>n. PICK N \in Nat : N = Cardinality(Node) /\ N = List!Cardinality(Node)
  BY NodeAssumption
<1> DEFINE G(f) == [i \in 0 .. N |-> IF i = 0 THEN head
                                     ELSE IF f[i - 1] = Null THEN Null ELSE node[f[i - 1]].next]
           f == [i \in 0 .. N |-> IF i < len THEN s[i] ELSE Null]
<1>1. /\ len \in Nat /\ N \in Nat /\ len <= N /\ head = IF len = 0 THEN Null ELSE s[0]
      /\ \A i \in 0 .. len - 1 : /\ s[i] \in Node /\ s[i] # Null
                                 /\ node[s[i]].next = IF i = len - 1 THEN Null ELSE s[i + 1]
  BY <1>n, NodeAssumption DEF BothWays, FromBack
<1>2. \A i \in 0 .. N : f[i] = IF i < len THEN s[i] ELSE Null
  OBVIOUS
<1>3. ASSUME NEW i \in 0 .. N
      PROVE  f[i] = IF i = 0 THEN head ELSE IF f[i - 1] = Null THEN Null ELSE node[f[i - 1]].next
  <2> HIDE DEF f
  <2>1. CASE i = 0
    <3>1. i < len <=> len # 0
      BY <1>1, <2>1
    <3> QED BY <1>1, <1>2, <2>1, <3>1
  <2>2. CASE i # 0
    <3>1. i - 1 \in 0 .. N /\ (i - 1) + 1 = i /\ (i - 1 < len => i - 1 \in 0 .. len - 1)
          /\ (i < len => i - 1 < len /\ i - 1 # len - 1)
          /\ (~(i < len) /\ i - 1 < len => i - 1 = len - 1)
      BY <1>1, <2>2
    <3>2. f[i - 1] = IF i - 1 < len THEN s[i - 1] ELSE Null
      BY <1>2, <3>1
    <3>3. f[i] = IF i < len THEN s[i] ELSE Null
      BY <1>2
    <3>4. CASE i < len
      BY <1>1, <2>2, <3>1, <3>2, <3>3, <3>4
    <3>5. CASE ~(i < len) /\ i - 1 < len
      BY <1>1, <2>2, <3>1, <3>2, <3>3, <3>5
    <3>6. CASE ~(i < len) /\ ~(i - 1 < len)
      BY <2>2, <3>2, <3>3, <3>6
    <3> QED BY <3>4, <3>5, <3>6
  <2> QED BY <2>1, <2>2
<1>4. f = G(f)
  BY <1>3
<1>5. List!At = CHOOSE h : h = G(h)
  BY <1>n DEF List!At
<1> HIDE DEF G, f
<1>6. List!At = G(List!At)
  BY <1>4, <1>5
<1>7. \A i \in 0 .. N : List!At[i] = IF i = 0 THEN head
                                     ELSE IF List!At[i - 1] = Null THEN Null
                                     ELSE node[List!At[i - 1]].next
  BY <1>6 DEF G
<1>8. ASSUME NEW i \in 0 .. N - 1, List!At[i] = f[i] PROVE List!At[i + 1] = f[i + 1]
  <2>1. i + 1 \in 0 .. N /\ i + 1 # 0 /\ (i + 1) - 1 = i
    BY <1>1
  <2>2. List!At[i + 1] = IF List!At[i] = Null THEN Null ELSE node[List!At[i]].next
    BY <1>7, <2>1
  <2>3. f[i + 1] = IF f[i] = Null THEN Null ELSE node[f[i]].next
    BY <1>3, <2>1
  <2> QED BY <1>8, <2>2, <2>3
<1>9. List!At[0] = f[0]
  BY <1>1, <1>3, <1>7
<1>10. \A i \in 0 .. N : List!At[i] = f[i]
  <2>1. \A i \in 0 .. N - 1 : List!At[i] = f[i] => List!At[i + 1] = f[i + 1]
    BY <1>8
  <2>2. N \in Nat
    BY <1>1
  <2> QED BY <1>9, <2>1, <2>2, SameWalk, Zenon
<1>11. len \in 0 .. N /\ ~(len < len) /\ \A i \in 0 .. len - 1 : i \in 0 .. N /\ i < len
  BY <1>1
<1> QED BY <1>2, <1>10, <1>11

(* A walk from the tail meets them in the opposite order.                  *)
LEMMA BackIsListHolds == BackIsList
<1> SUFFICES ASSUME NEW s \in [0 .. len - 1 -> Node], FromBack(node, tail, len, s),
                    len <= Cardinality(Node)
             PROVE  /\ List!Back[len] = Null
                    /\ \A i \in 0 .. len - 1 : List!Back[i] = s[len - 1 - i]
  BY DEF BackIsList
<1>n. PICK N \in Nat : N = Cardinality(Node) /\ N = List!Cardinality(Node)
  BY NodeAssumption
<1> DEFINE G(f) == [i \in 0 .. N |-> IF i = 0 THEN tail
                                     ELSE IF f[i - 1] = Null THEN Null ELSE node[f[i - 1]].prev]
           f == [i \in 0 .. N |-> IF i < len THEN s[len - 1 - i] ELSE Null]
<1>1. /\ len \in Nat /\ N \in Nat /\ len <= N /\ tail = IF len = 0 THEN Null ELSE s[len - 1]
      /\ \A i \in 0 .. len - 1 : /\ s[i] \in Node /\ s[i] # Null
                                 /\ node[s[i]].prev = IF i = 0 THEN Null ELSE s[i - 1]
  BY <1>n, NodeAssumption DEF FromBack
<1>2. \A i \in 0 .. N : f[i] = IF i < len THEN s[len - 1 - i] ELSE Null
  OBVIOUS
<1>3. ASSUME NEW i \in 0 .. N
      PROVE  f[i] = IF i = 0 THEN tail ELSE IF f[i - 1] = Null THEN Null ELSE node[f[i - 1]].prev
  <2> HIDE DEF f
  <2>1. CASE i = 0
    <3>1. (i < len <=> len # 0) /\ len - 1 - i = len - 1
      BY <1>1, <2>1
    <3> QED BY <1>1, <1>2, <2>1, <3>1
  <2>2. CASE i # 0
    <3>1. i - 1 \in 0 .. N /\ (i - 1 < len => len - 1 - (i - 1) \in 0 .. len - 1)
          /\ (i < len => i - 1 < len /\ len - 1 - (i - 1) # 0)
          /\ (~(i < len) /\ i - 1 < len => len - 1 - (i - 1) = 0)
          /\ (len - 1 - (i - 1)) - 1 = len - 1 - i
      BY <1>1, <2>2
    <3>2. f[i - 1] = IF i - 1 < len THEN s[len - 1 - (i - 1)] ELSE Null
      BY <1>2, <3>1
    <3>3. f[i] = IF i < len THEN s[len - 1 - i] ELSE Null
      BY <1>2
    <3>4. CASE i < len
      BY <1>1, <2>2, <3>1, <3>2, <3>3, <3>4
    <3>5. CASE ~(i < len) /\ i - 1 < len
      BY <1>1, <2>2, <3>1, <3>2, <3>3, <3>5
    <3>6. CASE ~(i < len) /\ ~(i - 1 < len)
      BY <2>2, <3>2, <3>3, <3>6
    <3> QED BY <3>4, <3>5, <3>6
  <2> QED BY <2>1, <2>2
<1>4. f = G(f)
  BY <1>3
<1>5. List!Back = CHOOSE h : h = G(h)
  BY <1>n DEF List!Back
<1> HIDE DEF G, f
<1>6. List!Back = G(List!Back)
  BY <1>4, <1>5
<1>7. \A i \in 0 .. N : List!Back[i] = IF i = 0 THEN tail
                                       ELSE IF List!Back[i - 1] = Null THEN Null
                                       ELSE node[List!Back[i - 1]].prev
  BY <1>6 DEF G
<1>8. ASSUME NEW i \in 0 .. N - 1, List!Back[i] = f[i] PROVE List!Back[i + 1] = f[i + 1]
  <2>1. i + 1 \in 0 .. N /\ i + 1 # 0 /\ (i + 1) - 1 = i
    BY <1>1
  <2>2. List!Back[i + 1] = IF List!Back[i] = Null THEN Null ELSE node[List!Back[i]].prev
    BY <1>7, <2>1
  <2>3. f[i + 1] = IF f[i] = Null THEN Null ELSE node[f[i]].prev
    BY <1>3, <2>1
  <2> QED BY <1>8, <2>2, <2>3
<1>9. List!Back[0] = f[0]
  BY <1>1, <1>3, <1>7
<1>10. \A i \in 0 .. N : List!Back[i] = f[i]
  <2>1. \A i \in 0 .. N - 1 : List!Back[i] = f[i] => List!Back[i + 1] = f[i + 1]
    BY <1>8
  <2>2. N \in Nat
    BY <1>1
  <2> QED BY <1>9, <2>1, <2>2, SameWalk, Zenon
<1>11. len \in 0 .. N /\ ~(len < len) /\ \A i \in 0 .. len - 1 : i \in 0 .. N /\ i < len
  BY <1>1
<1> QED BY <1>2, <1>10, <1>11

(* What the abstract list sees: the data from head to tail.                *)
ItemsAreList ==
    \A s \in [0 .. len - 1 -> Node] :
        alive /\ FromBack(node, tail, len, s) /\ len <= Cardinality(Node)
            => List!Items = [i \in 1 .. len |-> node[s[i - 1]].data]

(* What the abstract list sees: the data from head to tail.                *)
LEMMA ItemsAreListHolds == ItemsAreList
<1> SUFFICES ASSUME NEW s \in [0 .. len - 1 -> Node], alive, FromBack(node, tail, len, s),
                    len <= Cardinality(Node)
             PROVE  List!Items = [i \in 1 .. len |-> node[s[i - 1]].data]
  BY DEF ItemsAreList
<1>1. \A i \in 0 .. len - 1 : List!Back[i] = s[len - 1 - i]
  BY BackIsListHolds DEF BackIsList
<1>2. \A i \in 1 .. len : len - i \in 0 .. len - 1 /\ len - 1 - (len - i) = i - 1
  BY DEF FromBack
<1>3. \A i \in 1 .. len : node[List!Back[len - i]].data = node[s[i - 1]].data
  BY <1>1, <1>2
<1> QED BY <1>3 DEF List!Items
---------------------------------------------------------------------------
(* The data after an insertion before place k, and after a removal there.  *)
PutAt(nd, s, n, md, w, k, v) ==
    \A j \in 0 .. n : md[w[j]].data = IF j < k THEN nd[s[j]].data
                                      ELSE IF j = k THEN v ELSE nd[s[j - 1]].data

TakenAt(nd, s, n, md, w, k) ==
    \A j \in 0 .. n - 2 : md[w[j]].data = IF j < k THEN nd[s[j]].data ELSE nd[s[j + 1]].data

(* What a node holds after one of its pointers has been set.               *)
LEMMA PointerSet ==
    ASSUME NEW c \in List!Contents, NEW p \in List!Pointer
    PROVE  /\ [c EXCEPT !.prev = p] \in List!Contents /\ [c EXCEPT !.prev = p].prev = p
           /\ [c EXCEPT !.prev = p].next = c.next /\ [c EXCEPT !.prev = p].data = c.data
           /\ [c EXCEPT !.next = p] \in List!Contents /\ [c EXCEPT !.next = p].next = p
           /\ [c EXCEPT !.next = p].prev = c.prev /\ [c EXCEPT !.next = p].data = c.data
BY DEF List!Contents

(* What a new node holds.                                                  *)
LEMMA FreshNode ==
    ASSUME NEW v \in Item, NEW p \in List!Pointer, NEW x \in List!Pointer
    PROVE  /\ List!Fresh(v, p, x) \in List!Contents /\ List!Fresh(v, p, x).data = v
           /\ List!Fresh(v, p, x).prev = p /\ List!Fresh(v, p, x).next = x
BY DEF List!Fresh, List!Contents

(* What the places are known to hold.                                      *)
LEMMA PlaceFacts ==
    ASSUME List!TypeOK, NEW s \in [0 .. len - 1 -> Node], BothWays(node, head, tail, len, s)
    PROVE  /\ len \in Nat
           /\ \A i, j \in 0 .. len - 1 : s[i] = s[j] => i = j
           /\ head = IF len = 0 THEN Null ELSE s[0]
           /\ tail = IF len = 0 THEN Null ELSE s[len - 1]
           /\ \A i \in 0 .. len - 1 : /\ s[i] \in Node /\ s[i] # Null /\ node[s[i]] # Null
                                      /\ node[s[i]] \in List!Contents
                                      /\ node[s[i]].prev = IF i = 0 THEN Null ELSE s[i - 1]
                                      /\ node[s[i]].next = IF i = len - 1 THEN Null ELSE s[i + 1]
           /\ \A m \in Node : node[m] # Null => \E i \in 0 .. len - 1 : s[i] = m
           /\ (head = Null <=> len = 0) /\ (tail = Null <=> len = 0)
           /\ len # 0 => 0 \in 0 .. len - 1 /\ len - 1 \in 0 .. len - 1
<1>1. /\ len \in Nat
      /\ \A i, j \in 0 .. len - 1 : s[i] = s[j] => i = j
      /\ head = IF len = 0 THEN Null ELSE s[0]
      /\ tail = IF len = 0 THEN Null ELSE s[len - 1]
      /\ \A m \in Node : node[m] # Null => \E i \in 0 .. len - 1 : s[i] = m
  BY DEF BothWays, FromBack
<1>2. \A i \in 0 .. len - 1 : /\ s[i] \in Node /\ s[i] # Null /\ node[s[i]] # Null
                              /\ node[s[i]] \in List!Contents
                              /\ node[s[i]].prev = IF i = 0 THEN Null ELSE s[i - 1]
                              /\ node[s[i]].next = IF i = len - 1 THEN Null ELSE s[i + 1]
  <2> SUFFICES ASSUME NEW i \in 0 .. len - 1
               PROVE  /\ s[i] \in Node /\ s[i] # Null /\ node[s[i]] # Null
                      /\ node[s[i]] \in List!Contents
                      /\ node[s[i]].prev = IF i = 0 THEN Null ELSE s[i - 1]
                      /\ node[s[i]].next = IF i = len - 1 THEN Null ELSE s[i + 1]
    OBVIOUS
  <2>1. s[i] \in Node /\ s[i] # Null
    BY NodeAssumption
  <2>2. /\ node[s[i]] # Null
        /\ node[s[i]].prev = IF i = 0 THEN Null ELSE s[i - 1]
        /\ node[s[i]].next = IF i = len - 1 THEN Null ELSE s[i + 1]
    BY DEF BothWays, FromBack
  <2>3. node[s[i]] \in List!Contents
    BY <2>1, <2>2 DEF List!TypeOK
  <2> QED BY <2>1, <2>2, <2>3
<1>3. len # 0 => 0 \in 0 .. len - 1 /\ len - 1 \in 0 .. len - 1
  BY <1>1
<1>4. (head = Null <=> len = 0) /\ (tail = Null <=> len = 0)
  BY <1>1, <1>2, <1>3
<1> QED BY <1>1, <1>2, <1>3, <1>4

(* list_prepend, and an insertion at 0.                                    *)
LEMMA FirstLinked ==
    ASSUME List!TypeOK, NEW s \in [0 .. len - 1 -> Node], BothWays(node, head, tail, len, s),
           NEW v \in Item, List!LinkFirst(v), len' = len + 1
    PROVE  /\ node' \in [Node -> List!Contents \cup {Null}]
           /\ \E w \in [0 .. len' - 1 -> Node] :
                /\ BothWays(node', head', tail', len', w)
                /\ PutAt(node, s, len, node', w, 0, v)
<1>1. PICK n \in List!Unused :
         /\ node' = [m \in Node |-> IF m = n THEN List!Fresh(v, Null, head)
                                    ELSE IF m = head THEN [node[m] EXCEPT !.prev = n]
                                    ELSE node[m]]
         /\ head' = n
         /\ tail' = IF head = Null THEN n ELSE tail
  BY Zenon DEF List!LinkFirst
<1>2. n \in Node /\ node[n] = Null
  BY <1>1 DEF List!Unused
<1>3. /\ len \in Nat
      /\ \A i, j \in 0 .. len - 1 : s[i] = s[j] => i = j
      /\ head = IF len = 0 THEN Null ELSE s[0]
      /\ tail = IF len = 0 THEN Null ELSE s[len - 1]
      /\ \A i \in 0 .. len - 1 : /\ s[i] \in Node /\ s[i] # Null /\ node[s[i]] # Null
                                 /\ node[s[i]] \in List!Contents
                                 /\ node[s[i]].prev = IF i = 0 THEN Null ELSE s[i - 1]
                                 /\ node[s[i]].next = IF i = len - 1 THEN Null ELSE s[i + 1]
      /\ \A m \in Node : node[m] # Null => \E i \in 0 .. len - 1 : s[i] = m
      /\ (head = Null <=> len = 0) /\ (tail = Null <=> len = 0)
      /\ len # 0 => 0 \in 0 .. len - 1 /\ len - 1 \in 0 .. len - 1
  BY PlaceFacts
<1>4. \A i \in 0 .. len - 1 : s[i] # n /\ (s[i] = head <=> i = 0)
  BY <1>2, <1>3
<1>p. n \in List!Pointer /\ head \in List!Pointer /\ Null \in List!Pointer
  BY <1>2 DEF List!TypeOK, List!Pointer
<1>5. /\ node'[n] \in List!Contents /\ node'[n].data = v
      /\ node'[n].prev = Null /\ node'[n].next = head
  <2>1. node'[n] = List!Fresh(v, Null, head)
    BY <1>1, <1>2
  <2> QED BY <1>p, <2>1, FreshNode
<1>6. ASSUME NEW i \in 0 .. len - 1
      PROVE  /\ node'[s[i]] \in List!Contents /\ node'[s[i]].data = node[s[i]].data
             /\ node'[s[i]].next = node[s[i]].next
             /\ node'[s[i]].prev = IF i = 0 THEN n ELSE node[s[i]].prev
  <2>1. node'[s[i]] = IF i = 0 THEN [node[s[i]] EXCEPT !.prev = n] ELSE node[s[i]]
    BY <1>1, <1>3, <1>4
  <2>2. CASE i = 0
    <3> DEFINE c == node[s[i]]
    <3>1. c \in List!Contents
      BY <1>3
    <3>2. node'[s[i]] = [c EXCEPT !.prev = n]
      BY <2>1, <2>2
    <3> HIDE DEF c
    <3>3. /\ [c EXCEPT !.prev = n] \in List!Contents /\ [c EXCEPT !.prev = n].prev = n
          /\ [c EXCEPT !.prev = n].next = c.next /\ [c EXCEPT !.prev = n].data = c.data
      BY <1>p, <3>1, PointerSet
    <3> QED BY <2>2, <3>2, <3>3 DEF c
  <2>3. CASE i # 0
    BY <1>3, <2>1, <2>3
  <2> QED BY <2>2, <2>3
<1>7. \A m \in Node : m # n /\ (\A i \in 0 .. len - 1 : s[i] # m) => node'[m] = Null
  <2>1. head # Null => \E i \in 0 .. len - 1 : s[i] = head
    BY <1>3
  <2> QED BY <1>1, <1>3, <2>1, NodeAssumption
<1>8. node' \in [Node -> List!Contents \cup {Null}]
  <2>1. \A m \in Node : node'[m] \in List!Contents \cup {Null}
    BY <1>5, <1>6, <1>7
  <2> HIDE DEF List!Contents
  <2> QED BY <1>1, <2>1
<1> DEFINE w == [i \in 0 .. len |-> IF i = 0 THEN n ELSE s[i - 1]]
<1>9. \A i \in 0 .. len : i = 0 \/ (i - 1 \in 0 .. len - 1 /\ i # 0 /\ (i - 1) + 1 = i)
  BY <1>3
<1>10. w \in [0 .. len' - 1 -> Node] /\ w \in [0 .. (len + 1) - 1 -> Node]
  <2>1. \A i \in 0 .. len : (IF i = 0 THEN n ELSE s[i - 1]) \in Node
    BY <1>2, <1>3, <1>9
  <2>2. (len + 1) - 1 = len
    BY <1>3
  <2> QED BY <2>1, <2>2
<1>11. w[0] = n /\ \A i \in 0 .. len : i # 0 => w[i] = s[i - 1]
  BY <1>3
<1> HIDE DEF w
<1>12. \A i \in 0 .. len - 1 : i + 1 \in 0 .. len /\ i + 1 # 0 /\ (i + 1) - 1 = i /\ w[i + 1] = s[i]
  <2>1. \A i \in 0 .. len - 1 : i + 1 \in 0 .. len /\ i + 1 # 0 /\ (i + 1) - 1 = i
    BY <1>3
  <2> QED BY <1>11, <2>1
<1>13. BothWays(node', head', tail', len', w)
  <2>1. ASSUME NEW i \in 0 .. len, NEW j \in 0 .. len, w[i] = w[j] PROVE i = j
    <3>1. CASE i = 0 \/ j = 0
      BY <1>4, <1>9, <1>11, <2>1, <3>1
    <3>2. CASE i # 0 /\ j # 0
      <4>1. i - 1 = j - 1
        BY <1>3, <1>9, <1>11, <2>1, <3>2
      <4> QED BY <4>1
    <3> QED BY <3>1, <3>2
  <2>2. head' = w[0] /\ tail' = w[len]
    <3>1. len # 0 => len \in 0 .. len
      BY <1>3
    <3> QED BY <1>1, <1>3, <1>11, <3>1
  <2>3. \A i \in 0 .. len : node'[w[i]] # Null
    BY <1>5, <1>6, <1>9, <1>11, NodeAssumption
  <2>4. ASSUME NEW i \in 0 .. len
        PROVE  node'[w[i]].prev = IF i = 0 THEN Null ELSE w[i - 1]
    <3>1. CASE i = 0
      BY <1>5, <1>11, <3>1
    <3>2. CASE i # 0 /\ i - 1 = 0
      BY <1>6, <1>9, <1>11, <3>2
    <3>3. CASE i # 0 /\ i - 1 # 0
      <4>1. i - 1 \in 0 .. len - 1 /\ i - 1 \in 0 .. len
        BY <1>3, <3>3
      <4>2. w[i] = s[i - 1] /\ w[i - 1] = s[(i - 1) - 1]
        BY <1>11, <3>3, <4>1
      <4> QED BY <1>3, <1>6, <3>3, <4>1, <4>2
    <3> QED BY <3>1, <3>2, <3>3
  <2>5. ASSUME NEW i \in 0 .. len
        PROVE  node'[w[i]].next = IF i = len THEN Null ELSE w[i + 1]
    <3>1. CASE i = 0
      <4>1. i # len => w[i + 1] = s[0]
        BY <1>3, <1>12, <3>1
      <4> QED BY <1>3, <1>5, <1>11, <3>1, <4>1
    <3>2. CASE i # 0
      <4>1. i - 1 \in 0 .. len - 1 /\ (i - 1 = len - 1 <=> i = len) /\ (i - 1) + 1 = i
            /\ (i # len => i \in 0 .. len - 1)
        BY <1>3, <3>2
      <4>2. i # len => w[i + 1] = s[i]
        BY <1>12, <4>1
      <4> QED BY <1>3, <1>6, <1>11, <3>2, <4>1, <4>2
    <3> QED BY <3>1, <3>2
  <2>6. ASSUME NEW m \in Node, node'[m] # Null PROVE \E i \in 0 .. len : w[i] = m
    <3>1. CASE m = n
      <4>1. 0 \in 0 .. len
        BY <1>3
      <4> QED BY <1>11, <3>1, <4>1
    <3>2. CASE m # n
      <4>1. PICK i \in 0 .. len - 1 : s[i] = m
        BY <1>7, <2>6, <3>2
      <4> QED BY <1>12, <4>1
    <3> QED BY <3>1, <3>2
  <2>7. len + 1 \in Nat /\ len + 1 # 0 /\ (len + 1) - 1 = len
    BY <1>3
  <2>8. FromBack(node', tail', len', w)
    BY <1>10, <2>2, <2>3, <2>4, <2>7 DEF FromBack
  <2> QED BY <2>1, <2>2, <2>5, <2>6, <2>7, <2>8 DEF BothWays
<1>14. PutAt(node, s, len, node', w, 0, v)
  <2> SUFFICES ASSUME NEW j \in 0 .. len
               PROVE  node'[w[j]].data = IF j < 0 THEN node[s[j]].data
                                         ELSE IF j = 0 THEN v ELSE node[s[j - 1]].data
    BY DEF PutAt
  <2>1. ~(j < 0)
    OBVIOUS
  <2> QED BY <1>5, <1>6, <1>9, <1>11, <2>1
<1> QED BY <1>8, <1>10, <1>13, <1>14

(* list_append, and an insertion at the length.                            *)
LEMMA LastLinked ==
    ASSUME List!TypeOK, NEW s \in [0 .. len - 1 -> Node], BothWays(node, head, tail, len, s),
           NEW v \in Item, List!LinkLast(v), len' = len + 1
    PROVE  /\ node' \in [Node -> List!Contents \cup {Null}]
           /\ \E w \in [0 .. len' - 1 -> Node] :
                /\ BothWays(node', head', tail', len', w)
                /\ PutAt(node, s, len, node', w, len, v)
<1>1. PICK n \in List!Unused :
         /\ node' = [m \in Node |-> IF m = n THEN List!Fresh(v, tail, Null)
                                    ELSE IF m = tail THEN [node[m] EXCEPT !.next = n]
                                    ELSE node[m]]
         /\ tail' = n
         /\ head' = IF tail = Null THEN n ELSE head
  BY Zenon DEF List!LinkLast
<1>2. n \in Node /\ node[n] = Null
  BY <1>1 DEF List!Unused
<1>3. /\ len \in Nat
      /\ \A i, j \in 0 .. len - 1 : s[i] = s[j] => i = j
      /\ head = IF len = 0 THEN Null ELSE s[0]
      /\ tail = IF len = 0 THEN Null ELSE s[len - 1]
      /\ \A i \in 0 .. len - 1 : /\ s[i] \in Node /\ s[i] # Null /\ node[s[i]] # Null
                                 /\ node[s[i]] \in List!Contents
                                 /\ node[s[i]].prev = IF i = 0 THEN Null ELSE s[i - 1]
                                 /\ node[s[i]].next = IF i = len - 1 THEN Null ELSE s[i + 1]
      /\ \A m \in Node : node[m] # Null => \E i \in 0 .. len - 1 : s[i] = m
      /\ (head = Null <=> len = 0) /\ (tail = Null <=> len = 0)
      /\ len # 0 => 0 \in 0 .. len - 1 /\ len - 1 \in 0 .. len - 1
  BY PlaceFacts
<1>4. \A i \in 0 .. len - 1 : s[i] # n /\ (s[i] = tail <=> i = len - 1)
  BY <1>2, <1>3
<1>p. n \in List!Pointer /\ tail \in List!Pointer /\ Null \in List!Pointer
  BY <1>2 DEF List!TypeOK, List!Pointer
<1>5. /\ node'[n] \in List!Contents /\ node'[n].data = v
      /\ node'[n].prev = tail /\ node'[n].next = Null
  <2>1. node'[n] = List!Fresh(v, tail, Null)
    BY <1>1, <1>2
  <2> QED BY <1>p, <2>1, FreshNode
<1>6. ASSUME NEW i \in 0 .. len - 1
      PROVE  /\ node'[s[i]] \in List!Contents /\ node'[s[i]].data = node[s[i]].data
             /\ node'[s[i]].prev = node[s[i]].prev
             /\ node'[s[i]].next = IF i = len - 1 THEN n ELSE node[s[i]].next
  <2>1. node'[s[i]] = IF i = len - 1 THEN [node[s[i]] EXCEPT !.next = n] ELSE node[s[i]]
    BY <1>1, <1>3, <1>4
  <2>2. CASE i = len - 1
    <3> DEFINE c == node[s[i]]
    <3>1. c \in List!Contents
      BY <1>3
    <3>2. node'[s[i]] = [c EXCEPT !.next = n]
      BY <2>1, <2>2
    <3> HIDE DEF c
    <3>3. /\ [c EXCEPT !.next = n] \in List!Contents /\ [c EXCEPT !.next = n].next = n
          /\ [c EXCEPT !.next = n].prev = c.prev /\ [c EXCEPT !.next = n].data = c.data
      BY <1>p, <3>1, PointerSet
    <3> QED BY <2>2, <3>2, <3>3 DEF c
  <2>3. CASE i # len - 1
    BY <1>3, <2>1, <2>3
  <2> QED BY <2>2, <2>3
<1>7. \A m \in Node : m # n /\ (\A i \in 0 .. len - 1 : s[i] # m) => node'[m] = Null
  <2>1. tail # Null => \E i \in 0 .. len - 1 : s[i] = tail
    BY <1>3
  <2> QED BY <1>1, <1>3, <2>1, NodeAssumption
<1>8. node' \in [Node -> List!Contents \cup {Null}]
  <2>1. \A m \in Node : node'[m] \in List!Contents \cup {Null}
    BY <1>5, <1>6, <1>7
  <2> HIDE DEF List!Contents
  <2> QED BY <1>1, <2>1
<1> DEFINE w == [i \in 0 .. len |-> IF i = len THEN n ELSE s[i]]
<1>9. \A i \in 0 .. len : i = len \/ (i \in 0 .. len - 1 /\ i # len)
  BY <1>3
<1>10. w \in [0 .. len' - 1 -> Node] /\ w \in [0 .. (len + 1) - 1 -> Node]
  <2>1. \A i \in 0 .. len : (IF i = len THEN n ELSE s[i]) \in Node
    BY <1>2, <1>3, <1>9
  <2>2. (len + 1) - 1 = len
    BY <1>3
  <2> QED BY <2>1, <2>2
<1>11. w[len] = n /\ \A i \in 0 .. len : i # len => w[i] = s[i]
  BY <1>3
<1> HIDE DEF w
<1>12. \A i \in 0 .. len - 1 : i \in 0 .. len /\ i # len /\ w[i] = s[i]
  <2>1. \A i \in 0 .. len - 1 : i \in 0 .. len /\ i # len
    BY <1>3
  <2> QED BY <1>11, <2>1
<1>13. BothWays(node', head', tail', len', w)
  <2>1. ASSUME NEW i \in 0 .. len, NEW j \in 0 .. len, w[i] = w[j] PROVE i = j
    BY <1>3, <1>4, <1>9, <1>11, <2>1
  <2>2. head' = w[0] /\ tail' = w[len]
    <3>1. len = 0 \/ w[0] = s[0]
      BY <1>3, <1>12
    <3> QED BY <1>1, <1>3, <1>11, <3>1
  <2>3. \A i \in 0 .. len : node'[w[i]] # Null
    BY <1>5, <1>6, <1>9, <1>11, NodeAssumption
  <2>4. ASSUME NEW i \in 0 .. len
        PROVE  node'[w[i]].prev = IF i = 0 THEN Null ELSE w[i - 1]
    <3>1. i # 0 => w[i - 1] = s[i - 1]
      <4>1. i # 0 => i - 1 \in 0 .. len - 1
        BY <1>3
      <4> QED BY <1>12, <4>1
    <3>2. CASE i = len
      BY <1>3, <1>5, <1>11, <3>1, <3>2
    <3>3. CASE i # len
      BY <1>3, <1>6, <1>9, <1>11, <3>1, <3>3
    <3> QED BY <3>2, <3>3
  <2>5. ASSUME NEW i \in 0 .. len
        PROVE  node'[w[i]].next = IF i = len THEN Null ELSE w[i + 1]
    <3>1. CASE i = len
      BY <1>5, <1>11, <3>1
    <3>2. CASE i # len /\ i = len - 1
      <4>1. i + 1 = len
        BY <1>3, <3>2
      <4> QED BY <1>6, <1>9, <1>11, <3>2, <4>1
    <3>3. CASE i # len /\ i # len - 1
      <4>1. i \in 0 .. len - 1 /\ i + 1 \in 0 .. len - 1
        BY <1>3, <3>3
      <4>2. w[i] = s[i] /\ w[i + 1] = s[i + 1]
        BY <1>12, <4>1
      <4> QED BY <1>3, <1>6, <3>3, <4>1, <4>2
    <3> QED BY <3>1, <3>2, <3>3
  <2>6. ASSUME NEW m \in Node, node'[m] # Null PROVE \E i \in 0 .. len : w[i] = m
    <3>1. CASE m = n
      <4>1. len \in 0 .. len
        BY <1>3
      <4> QED BY <1>11, <3>1, <4>1
    <3>2. CASE m # n
      <4>1. PICK i \in 0 .. len - 1 : s[i] = m
        BY <1>7, <2>6, <3>2
      <4> QED BY <1>12, <4>1
    <3> QED BY <3>1, <3>2
  <2>7. len + 1 \in Nat /\ len + 1 # 0 /\ (len + 1) - 1 = len
    BY <1>3
  <2>8. FromBack(node', tail', len', w)
    BY <1>10, <2>2, <2>3, <2>4, <2>7 DEF FromBack
  <2> QED BY <2>1, <2>2, <2>5, <2>6, <2>7, <2>8 DEF BothWays
<1>14. PutAt(node, s, len, node', w, len, v)
  <2> SUFFICES ASSUME NEW j \in 0 .. len
               PROVE  node'[w[j]].data = IF j < len THEN node[s[j]].data
                                         ELSE IF j = len THEN v ELSE node[s[j - 1]].data
    BY DEF PutAt
  <2>1. j < len <=> j # len
    BY <1>3
  <2> QED BY <1>5, <1>6, <1>9, <1>11, <2>1
<1> QED BY <1>8, <1>10, <1>13, <1>14

(* list_insert_at strictly inside: read from the tail, the new node is     *)
(* where it should be.                                                     *)
LEMMA InsideLinked ==
    ASSUME List!TypeOK, NEW s \in [0 .. len - 1 -> Node], BothWays(node, head, tail, len, s),
           ForwardIsList, NEW v \in Item, NEW k, List!InsertInside(v, k), k \in Nat
    PROVE  /\ node' \in [Node -> List!Contents \cup {Null}] /\ len + 1 <= Cardinality(Node)
           /\ \E w \in [0 .. len' - 1 -> Node] :
                /\ FromBack(node', tail', len', w)
                /\ PutAt(node, s, len, node', w, k, v)
<1>1. PICK n \in List!Unused :
         node' = [node EXCEPT ![n] = List!Fresh(v, node[List!At[k]].prev, n),
                              ![List!At[k]].prev = n]
  BY Zenon DEF List!InsertInside
<1>2. 0 < k /\ k < len /\ len' = len + 1 /\ UNCHANGED <<head, tail>>
  BY DEF List!InsertInside, List!Grow
<1>3. /\ len \in Nat
      /\ \A i, j \in 0 .. len - 1 : s[i] = s[j] => i = j
      /\ tail = IF len = 0 THEN Null ELSE s[len - 1]
      /\ \A i \in 0 .. len - 1 : /\ s[i] \in Node /\ s[i] # Null /\ node[s[i]] # Null
                                 /\ node[s[i]] \in List!Contents
                                 /\ node[s[i]].prev = IF i = 0 THEN Null ELSE s[i - 1]
  BY PlaceFacts
<1>4. k \in 0 .. len - 1 /\ k - 1 \in 0 .. len - 1 /\ k # 0
  BY <1>2, <1>3
<1>5. n \in Node /\ node[n] = Null /\ \A i \in 0 .. len - 1 : s[i] # n
  BY <1>1, <1>3 DEF List!Unused
<1>6. len + 1 <= Cardinality(Node)
  BY <1>3, <1>5, PlaceLeft
<1>7. List!At[k] = s[k]
  <2>1. PICK N \in Nat : N = Cardinality(Node)
    BY NodeAssumption
  <2>2. len <= Cardinality(Node)
    BY <1>3, <1>6, <2>1
  <2> QED BY <1>4, <2>2 DEF ForwardIsList
<1>p. n \in List!Pointer /\ s[k - 1] \in List!Pointer
  BY <1>3, <1>4, <1>5 DEF List!Pointer
<1>f. /\ node'[n] = List!Fresh(v, s[k - 1], n)
      /\ node'[s[k]] = [node[s[k]] EXCEPT !.prev = n]
      /\ \A m \in Node : m # n /\ m # s[k] => node'[m] = node[m]
      /\ DOMAIN node' = Node /\ node' = [m \in Node |-> node'[m]]
  <2> DEFINE e == List!Fresh(v, node[List!At[k]].prev, n)
  <2>1. e = List!Fresh(v, s[k - 1], n)
    BY <1>3, <1>4, <1>7
  <2>2. node \in [Node -> List!Contents \cup {Null}]
    BY DEF List!TypeOK
  <2>3. node' = [node EXCEPT ![n] = e, ![s[k]].prev = n]
    BY <1>1, <1>7
  <2> HIDE DEF e
  <2>4. s[k] \in Node /\ s[k] # n
    BY <1>3, <1>4, <1>5
  <2>5. node'[n] = e /\ node'[s[k]] = [node[s[k]] EXCEPT !.prev = n]
    BY <1>5, <2>2, <2>3, <2>4
  <2>6. \A m \in Node : m # n /\ m # s[k] => node'[m] = node[m]
    BY <1>5, <2>2, <2>3, <2>4
  <2>7. node' = [m \in Node |-> node'[m]]
    BY <1>5, <2>2, <2>3, <2>4
  <2> QED BY <2>1, <2>5, <2>6, <2>7
<1>8. /\ node'[n] \in List!Contents /\ node'[n].data = v /\ node'[n].prev = s[k - 1]
  BY <1>f, <1>p, FreshNode
<1>9. /\ node'[s[k]] \in List!Contents /\ node'[s[k]].data = node[s[k]].data
      /\ node'[s[k]].prev = n
  <2> DEFINE c == node[s[k]]
  <2>1. c \in List!Contents
    BY <1>3, <1>4
  <2>2. node'[s[k]] = [c EXCEPT !.prev = n]
    BY <1>f
  <2> HIDE DEF c
  <2>3. /\ [c EXCEPT !.prev = n] \in List!Contents /\ [c EXCEPT !.prev = n].prev = n
        /\ [c EXCEPT !.prev = n].next = c.next /\ [c EXCEPT !.prev = n].data = c.data
    BY <1>p, <2>1, PointerSet
  <2> QED BY <2>2, <2>3 DEF c
<1>10. \A i \in 0 .. len - 1 : i # k => node'[s[i]] = node[s[i]]
  BY <1>3, <1>4, <1>5, <1>f
<1>11. node' \in [Node -> List!Contents \cup {Null}]
  <2>1. \A m \in Node : node[m] \in List!Contents \cup {Null}
    BY DEF List!TypeOK
  <2>2. \A m \in Node : node'[m] \in List!Contents \cup {Null}
    BY <1>8, <1>9, <1>f, <2>1
  <2> HIDE DEF List!Contents
  <2> QED BY <1>f, <2>2
<1> DEFINE w == [j \in 0 .. len |-> IF j < k THEN s[j] ELSE IF j = k THEN n ELSE s[j - 1]]
<1>12. \A j \in 0 .. len : (j < k => j \in 0 .. len - 1) /\ (~(j < k) /\ j # k => j - 1 \in 0 .. len - 1)
  BY <1>3, <1>4
<1>13. w \in [0 .. len' - 1 -> Node] /\ w \in [0 .. (len + 1) - 1 -> Node]
  <2>1. \A j \in 0 .. len : (IF j < k THEN s[j] ELSE IF j = k THEN n ELSE s[j - 1]) \in Node
    BY <1>3, <1>5, <1>12
  <2>2. (len + 1) - 1 = len
    BY <1>3
  <2> QED BY <1>2, <2>1, <2>2
<1>14. \A j \in 0 .. len : w[j] = IF j < k THEN s[j] ELSE IF j = k THEN n ELSE s[j - 1]
  OBVIOUS
<1> HIDE DEF w
<1>15. FromBack(node', tail', len', w)
  <2>1. tail' = w[len]
    <3>1. len \in 0 .. len /\ ~(len < k) /\ len # k /\ len # 0
      BY <1>2, <1>3, <1>4
    <3> QED BY <1>2, <1>3, <1>14, <3>1
  <2>2. ASSUME NEW j \in 0 .. len
        PROVE  node'[w[j]] # Null /\ node'[w[j]].prev = IF j = 0 THEN Null ELSE w[j - 1]
    <3>1. CASE j < k
      <4>1. j \in 0 .. len - 1 /\ j # k /\ (j # 0 => j - 1 \in 0 .. len /\ j - 1 < k)
        BY <1>3, <1>4, <3>1
      <4>2. w[j] = s[j] /\ (j # 0 => w[j - 1] = s[j - 1])
        BY <1>14, <3>1, <4>1
      <4> QED BY <1>3, <1>10, <4>1, <4>2
    <3>2. CASE j = k
      <4>1. w[j] = n /\ w[j - 1] = s[k - 1]
        <5>1. ~(k < k) /\ k - 1 < k /\ k - 1 \in 0 .. len
          BY <1>3, <1>4
        <5> QED BY <1>14, <3>2, <5>1
      <4> QED BY <1>4, <1>8, <3>2, <4>1, NodeAssumption
    <3>3. CASE ~(j < k) /\ j = k + 1
      <4>1. ~(k < k) /\ j # k /\ j - 1 = k /\ k \in 0 .. len /\ j # 0
        BY <1>3, <1>4, <3>3
      <4>2. w[j] = s[k] /\ w[j - 1] = n
        BY <1>14, <3>3, <4>1
      <4> QED BY <1>9, <4>1, <4>2, NodeAssumption
    <3>4. CASE ~(j < k) /\ j # k /\ j # k + 1
      <4>1. j - 1 \in 0 .. len - 1 /\ j - 1 # k /\ ~(j - 1 < k) /\ j - 1 \in 0 .. len
            /\ j # 0 /\ j - 1 # 0
        BY <1>3, <1>4, <3>4
      <4>2. w[j] = s[j - 1] /\ w[j - 1] = s[(j - 1) - 1]
        BY <1>14, <3>4, <4>1
      <4> QED BY <1>3, <1>10, <4>1, <4>2
    <3> QED BY <3>1, <3>2, <3>3, <3>4
  <2>3. len + 1 \in Nat /\ len + 1 # 0 /\ (len + 1) - 1 = len
    BY <1>3
  <2> QED BY <1>2, <1>13, <2>1, <2>2, <2>3 DEF FromBack
<1>16. PutAt(node, s, len, node', w, k, v)
  <2> SUFFICES ASSUME NEW j \in 0 .. len
               PROVE  node'[w[j]].data = IF j < k THEN node[s[j]].data
                                         ELSE IF j = k THEN v ELSE node[s[j - 1]].data
    BY DEF PutAt
  <2>1. \A i \in 0 .. len - 1 : node'[s[i]].data = node[s[i]].data
    BY <1>9, <1>10
  <2> QED BY <1>8, <1>12, <1>14, <2>1
<1> QED BY <1>6, <1>11, <1>13, <1>15, <1>16

(* list_remove_node mends the pointers of both neighbours, if there are.   *)
LEMMA TakenOut ==
    ASSUME List!TypeOK, NEW s \in [0 .. len - 1 -> Node], BothWays(node, head, tail, len, s),
           ForwardIsList, len <= Cardinality(Node), NEW op, NEW k \in Nat, List!TakeOut(op, k)
    PROVE  /\ node' \in [Node -> List!Contents \cup {Null}]
           /\ List!At[k] = s[k]
           /\ \E w \in [0 .. len' - 1 -> Node] :
                /\ BothWays(node', head', tail', len', w)
                /\ TakenAt(node, s, len, node', w, k)
<1>2. k < len /\ len' = len - 1
  BY DEF List!TakeOut
<1>3. /\ len \in Nat
      /\ \A i, j \in 0 .. len - 1 : s[i] = s[j] => i = j
      /\ head = IF len = 0 THEN Null ELSE s[0]
      /\ tail = IF len = 0 THEN Null ELSE s[len - 1]
      /\ \A i \in 0 .. len - 1 : /\ s[i] \in Node /\ s[i] # Null /\ node[s[i]] # Null
                                 /\ node[s[i]] \in List!Contents
                                 /\ node[s[i]].prev = IF i = 0 THEN Null ELSE s[i - 1]
                                 /\ node[s[i]].next = IF i = len - 1 THEN Null ELSE s[i + 1]
      /\ \A m \in Node : node[m] # Null => \E i \in 0 .. len - 1 : s[i] = m
      /\ (head = Null <=> len = 0) /\ (tail = Null <=> len = 0)
      /\ len # 0 => 0 \in 0 .. len - 1 /\ len - 1 \in 0 .. len - 1
  BY PlaceFacts
<1>4. k \in 0 .. len - 1 /\ len # 0 /\ len > 0 /\ (len - 1) - 1 = len - 2 /\ len - 1 \in Nat
  BY <1>2, <1>3
<1>5. List!At[k] = s[k]
  BY <1>4 DEF ForwardIsList
<1> DEFINE n == s[k]
           p == node[n].prev
           x == node[n].next
<1>6. IF len = 1
      THEN /\ node' = [node EXCEPT ![n] = Null]
           /\ head' = Null /\ tail' = Null
      ELSE /\ node' = [m \in Node |-> IF m = n THEN Null
                                      ELSE IF m = p THEN [node[m] EXCEPT !.next = x]
                                      ELSE IF m = x THEN [node[m] EXCEPT !.prev = p]
                                      ELSE node[m]]
           /\ head' = IF n = head THEN x ELSE head
           /\ tail' = IF n = tail /\ n # head THEN p ELSE tail
  BY <1>5 DEF List!TakeOut, List!Unlink
<1>7. /\ n \in Node /\ n # Null
      /\ p = (IF k = 0 THEN Null ELSE s[k - 1]) /\ p \in List!Pointer
      /\ x = (IF k = len - 1 THEN Null ELSE s[k + 1]) /\ x \in List!Pointer
  <2>1. node[n] \in List!Contents
    BY <1>3, <1>4
  <2>2. p \in List!Pointer /\ x \in List!Pointer
    BY <2>1 DEF List!Contents
  <2> QED BY <1>3, <1>4, <2>2
<1>n. \A i \in 0 .. len - 1 : s[i] = n <=> i = k
  BY <1>3, <1>4
<1> HIDE DEF n, p, x
<1>c. /\ k # 0 => k - 1 \in 0 .. len - 1 /\ k - 1 # k
      /\ k # len - 1 => k + 1 \in 0 .. len - 1 /\ k + 1 # k /\ (k # 0 => k + 1 # k - 1)
      /\ len = 1 => k = 0 /\ k = len - 1
  BY <1>3, <1>4
<1>8. ASSUME NEW i \in 0 .. len - 1, i # k
      PROVE  /\ node'[s[i]] \in List!Contents /\ node'[s[i]].data = node[s[i]].data
             /\ node'[s[i]].next = IF i = k - 1 THEN x ELSE node[s[i]].next
             /\ node'[s[i]].prev = IF i = k + 1 THEN p ELSE node[s[i]].prev
  <2>1. len # 1 /\ s[i] # n
    BY <1>3, <1>4, <1>8, <1>n
  <2>2. (s[i] = p <=> i = k - 1) /\ (s[i] = x <=> i = k + 1)
    <3>1. s[i] = p <=> i = k - 1
      <4>1. CASE k = 0
        <5>1. i # k - 1
          BY <4>1
        <5> QED BY <1>3, <1>7, <4>1, <5>1
      <4>2. CASE k # 0
        BY <1>3, <1>7, <1>c, <4>2
      <4> QED BY <4>1, <4>2
    <3>2. s[i] = x <=> i = k + 1
      <4>1. CASE k = len - 1
        <5>1. i # k + 1
          BY <1>3, <4>1
        <5> QED BY <1>3, <1>7, <4>1, <5>1
      <4>2. CASE k # len - 1
        BY <1>3, <1>7, <1>c, <4>2
      <4> QED BY <4>1, <4>2
    <3> QED BY <3>1, <3>2
  <2> DEFINE c == node[s[i]]
  <2>3. c \in List!Contents
    BY <1>3
  <2>4. node'[s[i]] = IF s[i] = p THEN [c EXCEPT !.next = x]
                      ELSE IF s[i] = x THEN [c EXCEPT !.prev = p] ELSE c
    BY <1>3, <1>6, <2>1
  <2>5. i = k - 1 => i # k + 1
    OBVIOUS
  <2> HIDE DEF c
  <2>6. /\ [c EXCEPT !.next = x] \in List!Contents /\ [c EXCEPT !.next = x].next = x
        /\ [c EXCEPT !.next = x].prev = c.prev /\ [c EXCEPT !.next = x].data = c.data
    BY <1>7, <2>3, PointerSet
  <2>7. /\ [c EXCEPT !.prev = p] \in List!Contents /\ [c EXCEPT !.prev = p].prev = p
        /\ [c EXCEPT !.prev = p].next = c.next /\ [c EXCEPT !.prev = p].data = c.data
    BY <1>7, <2>3, PointerSet
  <2>8. CASE i = k - 1
    BY <2>2, <2>4, <2>5, <2>6, <2>8 DEF c
  <2>9. CASE i = k + 1
    BY <2>2, <2>4, <2>5, <2>7, <2>9 DEF c
  <2>10. CASE i # k - 1 /\ i # k + 1
    BY <2>2, <2>3, <2>4, <2>10 DEF c
  <2> QED BY <2>8, <2>9, <2>10
<1>9. \A m \in Node : m = n \/ (\A i \in 0 .. len - 1 : s[i] # m) => node'[m] = Null
  <2>1. SUFFICES ASSUME NEW m \in Node, m = n \/ (\A i \in 0 .. len - 1 : s[i] # m)
        PROVE  node'[m] = Null
    OBVIOUS
  <2>2. m # n => node[m] = Null /\ m # p /\ m # x
    <3>1. (k # 0 => p = s[k - 1]) /\ (k = 0 => p = Null) /\ (k # len - 1 => x = s[k + 1])
          /\ (k = len - 1 => x = Null)
      BY <1>7
    <3> QED BY <1>3, <1>c, <2>1, <3>1, NodeAssumption
  <2>3. node \in [Node -> List!Contents \cup {Null}]
    BY DEF List!TypeOK
  <2>4. CASE len = 1
    BY <1>6, <1>7, <2>2, <2>3, <2>4
  <2>5. CASE len # 1
    BY <1>6, <2>2, <2>5
  <2> QED BY <2>4, <2>5
<1>10. node' \in [Node -> List!Contents \cup {Null}]
  <2>1. \A m \in Node : node'[m] \in List!Contents \cup {Null}
    <3> SUFFICES ASSUME NEW m \in Node PROVE node'[m] \in List!Contents \cup {Null}
      OBVIOUS
    <3>1. CASE m = n \/ (\A i \in 0 .. len - 1 : s[i] # m)
      BY <1>9, <3>1
    <3>2. CASE m # n /\ \E i \in 0 .. len - 1 : s[i] = m
      BY <1>8, <1>n, <3>2
    <3> QED BY <3>1, <3>2
  <2>2. node' = [m \in Node |-> node'[m]]
    <3>1. node \in [Node -> List!Contents \cup {Null}]
      BY DEF List!TypeOK
    <3>2. CASE len = 1
      BY <1>6, <3>1, <3>2
    <3>3. CASE len # 1
      BY <1>6, <3>3
    <3> QED BY <3>2, <3>3
  <2> HIDE DEF List!Contents
  <2> QED BY <2>1, <2>2
<1> DEFINE w == [j \in 0 .. len - 2 |-> IF j < k THEN s[j] ELSE s[j + 1]]
<1>11. \A j \in 0 .. len - 2 : j \in 0 .. len - 1 /\ j + 1 \in 0 .. len - 1
  BY <1>3
<1>12. w \in [0 .. len' - 1 -> Node] /\ w \in [0 .. (len - 1) - 1 -> Node]
  <2>1. \A j \in 0 .. len - 2 : (IF j < k THEN s[j] ELSE s[j + 1]) \in Node
    BY <1>3, <1>11
  <2> QED BY <1>2, <1>4, <2>1
<1>13. \A j \in 0 .. len - 2 : w[j] = IF j < k THEN s[j] ELSE s[j + 1]
  OBVIOUS
<1> HIDE DEF w
<1>14. ASSUME NEW j \in 0 .. len - 2
       PROVE  /\ node'[w[j]] # Null
              /\ node'[w[j]].data = IF j < k THEN node[s[j]].data ELSE node[s[j + 1]].data
              /\ node'[w[j]].prev = IF j = 0 THEN Null ELSE w[j - 1]
              /\ node'[w[j]].next = IF j = len - 2 THEN Null ELSE w[j + 1]
  <2>a. len >= 2 /\ (j # 0 => j - 1 \in 0 .. len - 2) /\ (j # len - 2 => j + 1 \in 0 .. len - 2)
    BY <1>3
  <2>1. CASE j < k
    <3>1. /\ j \in 0 .. len - 1 /\ j # k /\ j # k + 1 /\ (j - 1 < k)
          /\ j + 1 < k <=> j # k - 1
      BY <1>4, <2>1
    <3>2. w[j] = s[j] /\ (j # 0 => w[j - 1] = s[j - 1])
      BY <1>13, <2>1, <2>a, <3>1
    <3>3. node'[s[j]].prev = IF j = 0 THEN Null ELSE s[j - 1]
      BY <1>3, <1>8, <3>1
    <3>4. node'[s[j]].next = IF j = len - 2 THEN Null ELSE w[j + 1]
      <4>1. CASE j = k - 1
        <5>1. (j = len - 2 <=> k = len - 1) /\ j + 1 = k /\ (j + 1) + 1 = k + 1 /\ ~(j + 1 < k)
          BY <1>3, <4>1
        <5>2. j # len - 2 => w[j + 1] = s[k + 1]
          BY <1>13, <2>a, <5>1
        <5>3. node'[s[j]].next = x
          BY <1>8, <3>1, <4>1
        <5> QED BY <1>7, <5>1, <5>2, <5>3
      <4>2. CASE j # k - 1
        <5>1. j # len - 2 /\ j # len - 1
          BY <1>4, <2>1, <4>2
        <5>2. w[j + 1] = s[j + 1]
          BY <1>13, <2>a, <3>1, <4>2, <5>1
        <5> QED BY <1>3, <1>8, <3>1, <4>2, <5>1, <5>2
      <4> QED BY <4>1, <4>2
    <3>5. node'[s[j]] # Null /\ node'[s[j]].data = node[s[j]].data
      BY <1>8, <3>1, NodeAssumption
    <3> QED BY <2>1, <3>2, <3>3, <3>4, <3>5
  <2>2. CASE ~(j < k)
    <3>1. /\ j + 1 \in 0 .. len - 1 /\ j + 1 # k /\ j + 1 # k - 1
          /\ ~(j + 1 < k) /\ j + 1 # 0 /\ (j + 1) - 1 = j
          /\ (j + 1 = len - 1 <=> j = len - 2)
      BY <1>3, <2>2
    <3>2. w[j] = s[j + 1] /\ (j # len - 2 => w[j + 1] = s[(j + 1) + 1])
      BY <1>13, <2>2, <2>a, <3>1
    <3>3. node'[s[j + 1]].next = IF j = len - 2 THEN Null ELSE w[j + 1]
      BY <1>3, <1>8, <3>1, <3>2
    <3>4. node'[s[j + 1]].prev = IF j = 0 THEN Null ELSE w[j - 1]
      <4>1. CASE j = k
        <5>1. node'[s[j + 1]].prev = p
          BY <1>8, <3>1, <4>1
        <5>2. j # 0 => w[j - 1] = s[k - 1]
          <6>1. k - 1 < k
            BY <1>4
          <6> QED BY <1>13, <2>a, <4>1, <6>1
        <5> QED BY <1>7, <4>1, <5>1, <5>2
      <4>2. CASE j # k
        <5>1. j # 0 /\ ~(j - 1 < k) /\ (j - 1) + 1 = j /\ j + 1 # k + 1
          BY <1>4, <2>2, <4>2
        <5>2. w[j - 1] = s[j]
          BY <1>13, <2>a, <5>1
        <5> QED BY <1>3, <1>8, <3>1, <5>1, <5>2
      <4> QED BY <4>1, <4>2
    <3>5. node'[s[j + 1]] # Null /\ node'[s[j + 1]].data = node[s[j + 1]].data
      BY <1>8, <3>1, NodeAssumption
    <3> QED BY <2>2, <3>2, <3>3, <3>4, <3>5
  <2> QED BY <2>1, <2>2
<1>15. ASSUME NEW i \in 0 .. len - 2, NEW j \in 0 .. len - 2, w[i] = w[j] PROVE i = j
  <2>1. CASE i < k /\ j < k
    BY <1>3, <1>11, <1>13, <1>15, <2>1
  <2>2. CASE i < k /\ ~(j < k)
    <3>1. i = j + 1
      BY <1>3, <1>11, <1>13, <1>15, <2>2
    <3> QED BY <2>2, <3>1
  <2>3. CASE ~(i < k) /\ j < k
    <3>1. j = i + 1
      BY <1>3, <1>11, <1>13, <1>15, <2>3
    <3> QED BY <2>3, <3>1
  <2>4. CASE ~(i < k) /\ ~(j < k)
    <3>1. i + 1 = j + 1
      BY <1>3, <1>11, <1>13, <1>15, <2>4
    <3> QED BY <3>1
  <2> QED BY <2>1, <2>2, <2>3, <2>4
<1>16. len # 1 => head' = w[0] /\ tail' = w[len - 2]
  <2> SUFFICES ASSUME len # 1 PROVE head' = w[0] /\ tail' = w[len - 2]
    OBVIOUS
  <2>1. 0 \in 0 .. len - 2 /\ len - 2 \in 0 .. len - 2 /\ (len - 2) + 1 = len - 1
        /\ 0 + 1 = 1 /\ (0 < k <=> k # 0) /\ (len - 2 < k <=> k = len - 1) /\ len - 1 # 0
    BY <1>3, <1>4
  <2>2. (n = head <=> k = 0) /\ (n = tail <=> k = len - 1)
    BY <1>3, <1>4, <1>n
  <2>3. head' = w[0]
    BY <1>3, <1>4, <1>6, <1>7, <1>13, <2>1, <2>2
  <2>4. tail' = w[len - 2]
    <3>1. CASE k = len - 1
      <4>1. tail' = p /\ p = s[k - 1] /\ k - 1 = len - 2
        BY <1>4, <1>6, <1>7, <2>1, <2>2, <3>1
      <4> QED BY <1>13, <2>1, <3>1, <4>1
    <3>2. CASE k # len - 1
      BY <1>3, <1>4, <1>6, <1>13, <2>1, <2>2, <3>2
    <3> QED BY <3>1, <3>2
  <2> QED BY <2>3, <2>4
<1>17. ASSUME NEW m \in Node, node'[m] # Null PROVE \E i \in 0 .. len - 2 : w[i] = m
  <2>1. PICK i \in 0 .. len - 1 : s[i] = m /\ i # k
    BY <1>9, <1>17, <1>n
  <2>2. CASE i < k
    <3>1. i \in 0 .. len - 2
      BY <1>4, <2>2
    <3> QED BY <1>13, <2>1, <2>2, <3>1
  <2>3. CASE ~(i < k)
    <3>1. i - 1 \in 0 .. len - 2 /\ ~(i - 1 < k) /\ (i - 1) + 1 = i
      BY <1>4, <2>1, <2>3
    <3> QED BY <1>13, <2>1, <3>1
  <2> QED BY <2>2, <2>3
<1>18. BothWays(node', head', tail', len', w)
  <2>1. len - 1 = 0 <=> len = 1
    BY <1>3
  <2>2. /\ head' = IF len - 1 = 0 THEN Null ELSE w[0]
        /\ tail' = IF len - 1 = 0 THEN Null ELSE w[(len - 1) - 1]
    BY <1>4, <1>6, <1>16, <2>1
  <2>3. FromBack(node', tail', len', w)
    BY <1>2, <1>4, <1>12, <1>14, <2>2 DEF FromBack
  <2> QED BY <1>2, <1>4, <1>14, <1>15, <1>17, <2>2, <2>3 DEF BothWays
<1>19. TakenAt(node, s, len, node', w, k)
  BY <1>14 DEF TakenAt
<1> QED BY <1>5, <1>10, <1>12, <1>18, <1>19
---------------------------------------------------------------------------
(* The invariant holds of a new list.                                      *)
LEMMA ListInit == List!Init => ListInv
<1> SUFFICES ASSUME List!Init PROVE ListInv
  OBVIOUS
<1>1. /\ node = [n \in Node |-> Null] /\ head = Null /\ tail = Null /\ len = 0
      /\ alive = TRUE /\ fault = "none" /\ reply = List!Answer("new", Null, 0, Null)
  BY DEF List!Init
<1>2. List!TypeOK
  <2>1. PICK N \in Nat : N = List!Cardinality(Node)
    BY NodeAssumption
  <2>2. reply \in List!Reply
    BY <1>1 DEF List!Reply, List!Answer
  <2>3. len \in 0 .. List!Cardinality(Node)
    BY <1>1, <2>1
  <2> QED BY <1>1, <2>2, <2>3 DEF List!TypeOK, List!Pointer, List!Faults
<1>3. \E s \in [0 .. len - 1 -> Node] : BothWays(node, head, tail, len, s)
  <2> DEFINE s == [i \in 0 .. 0 - 1 |-> 0]
  <2>1. s \in [0 .. len - 1 -> Node]
    BY <1>1
  <2>2. BothWays(node, head, tail, len, s)
    BY <1>1, <2>1 DEF BothWays, FromBack
  <2> QED BY <2>1, <2>2
<1>4. \E s \in [0 .. len - 1 -> Node] : FromBack(node, tail, len, s)
  BY <1>3 DEF BothWays
<1> QED BY <1>1, <1>2, <1>3, <1>4 DEF ListInv

(* The nodes of a list in use, and their data.                             *)
LEMMA ListRuns ==
    ASSUME ListInv, ForwardIsList, List!Running
    PROVE  /\ len \in Nat /\ len <= Cardinality(Node) /\ alive /\ fault = "none"
           /\ \E s \in [0 .. len - 1 -> Node] : BothWays(node, head, tail, len, s)
           /\ \A i \in 0 .. len - 1 : List!DataAt(i) \in Item
<1>1. alive /\ fault = "none"
  BY DEF List!Running
<1>2. PICK s \in [0 .. len - 1 -> Node] : BothWays(node, head, tail, len, s)
  BY <1>1 DEF ListInv
<1>3. List!TypeOK /\ len \in Nat /\ len <= Cardinality(Node)
  <2>1. PICK N \in Nat : N = Cardinality(Node) /\ N = List!Cardinality(Node)
    BY NodeAssumption
  <2> QED BY <2>1 DEF ListInv, List!TypeOK
<1>4. \A i \in 0 .. len - 1 : List!At[i] = s[i]
  BY <1>2, <1>3 DEF ForwardIsList
<1>5. \A i \in 0 .. len - 1 : node[s[i]] \in List!Contents
  BY <1>2, <1>3, PlaceFacts
<1>6. \A i \in 0 .. len - 1 : List!DataAt(i) \in Item
  BY <1>4, <1>5 DEF List!DataAt, List!Contents
<1> QED BY <1>1, <1>2, <1>3, <1>6

(* What a call says is a reply, and what it gives out a value.             *)
LEMMA ListReplies ==
    ASSUME ListInv, ForwardIsList, List!Next
    PROVE  reply' \in List!Reply
<1>n. PICK N \in Nat : N = Cardinality(Node) /\ N = List!Cardinality(Node)
  BY NodeAssumption
<1>a. \A op \in {"new", "free", "insert", "get", "remove_at", "remove"},
         at \in (0 .. N + 1) \cup {Null}, code \in {0, 1}, out \in Item \cup {Null} :
         List!Answer(op, at, code, out) \in List!Reply
  BY <1>n DEF List!Reply, List!Answer
<1>r. List!Running => /\ len \in Nat /\ len <= N
                      /\ \A i \in 0 .. len - 1 : List!DataAt(i) \in Item
  BY <1>n, ListRuns
<1>1. ASSUME NEW i \in 0 .. len, List!Grow(i), List!Running PROVE reply' \in List!Reply
  <2>1. i \in 0 .. N + 1
    BY <1>n, <1>r, <1>1
  <2> QED BY <1>1, <1>a, <2>1 DEF List!Grow
<1>2. ASSUME NEW op \in {"remove_at", "remove"}, NEW i \in 0 .. len, List!TakeOut(op, i)
      PROVE  reply' \in List!Reply
  <2>1. List!Running /\ i < len /\ reply' = List!Answer(op, i, 0, List!DataAt(i))
    BY <1>2 DEF List!TakeOut
  <2>2. i \in 0 .. N + 1 /\ i \in 0 .. len - 1
    BY <1>n, <1>r, <2>1
  <2> QED BY <1>a, <1>r, <2>1, <2>2
<1>3. ASSUME NEW v \in Item, List!Prepend(v) \/ List!AppendItem(v) PROVE reply' \in List!Reply
  <2>1. List!Running /\ (List!Grow(0) \/ List!Grow(len))
    BY <1>3 DEF List!Prepend, List!AppendItem
  <2>2. 0 \in 0 .. len /\ len \in 0 .. len
    BY <1>r, <2>1
  <2> QED BY <1>1, <2>1, <2>2
<1>4. ASSUME NEW v \in Item, List!Remove(v) PROVE reply' \in List!Reply
  <2>1. CASE \E i \in 0 .. len - 1 : List!TakeOut("remove", i)
    <3>1. PICK i \in 0 .. len - 1 : List!TakeOut("remove", i)
      BY <2>1
    <3>2. i \in 0 .. len
      <4>1. List!Running
        BY <3>1 DEF List!TakeOut
      <4> QED BY <1>r, <4>1
    <3> QED BY <1>2, <3>1, <3>2
  <2>2. CASE reply' = List!Answer("remove", Null, 1, Null)
    BY <1>a, <2>2
  <2> QED BY <1>4, <2>1, <2>2 DEF List!Remove
<1>5. ASSUME NEW v \in Item, NEW i \in 0 .. len, List!InsertAt(v, i) PROVE reply' \in List!Reply
  <2>1. List!Running /\ List!Grow(i)
    BY <1>5 DEF List!InsertAt, List!InsertInside
  <2> QED BY <1>1, <2>1
<1>6. ASSUME NEW i \in 0 .. len, List!Get(i) PROVE reply' \in List!Reply
  <2>1. List!Running /\ i < len /\ reply' = List!Answer("get", i, 0, List!DataAt(i))
    BY <1>6 DEF List!Get
  <2>2. i \in 0 .. N + 1 /\ i \in 0 .. len - 1
    BY <1>n, <1>r, <2>1
  <2> QED BY <1>a, <1>r, <2>1, <2>2
<1>7. ASSUME NEW op \in {"insert", "get", "remove_at"}, List!OutOfRange(op, len + 1)
      PROVE  reply' \in List!Reply
  <2>1. List!Running /\ reply' = List!Answer(op, len + 1, 1, Null)
    BY <1>7 DEF List!OutOfRange
  <2>2. len + 1 \in 0 .. N + 1
    BY <1>n, <1>r, <2>1
  <2> QED BY <1>a, <2>1, <2>2
<1>8. CASE List!NodeFails \/ List!IndexIsLen
  BY <1>8 DEF List!NodeFails, List!IndexIsLen, List!Crash, ListInv, List!TypeOK
<1>9. CASE List!Free \/ List!Renew
  <2>1. reply' = List!Answer("free", Null, 0, Null) \/ reply' = List!Answer("new", Null, 0, Null)
    BY <1>9 DEF List!Free, List!Renew
  <2> QED BY <1>a, <2>1
<1> QED BY <1>2, <1>3, <1>4, <1>5, <1>6, <1>7, <1>8, <1>9 DEF List!Next

(* Every call keeps the invariant.                                         *)
LEMMA ListKeeps ==
    ASSUME ListInv, ForwardIsList, List!Next
    PROVE  ListInv'
<1>n. PICK N \in Nat : N = Cardinality(Node) /\ N = List!Cardinality(Node)
  BY NodeAssumption
<1>r. reply' \in List!Reply
  BY ListReplies
<1>t. /\ List!TypeOK
      /\ node \in [Node -> List!Contents \cup {Null}]
      /\ head \in Node \cup {Null} /\ tail \in Node \cup {Null}
      /\ len \in 0 .. List!Cardinality(Node) /\ alive \in BOOLEAN
      /\ fault \in List!Faults /\ (fault # "none" => alive)
  BY DEF ListInv, List!TypeOK, List!Pointer
<1>s. ASSUME UNCHANGED <<node, head, tail, len, alive, fault>> PROVE ListInv'
  BY <1>r, <1>s DEF ListInv, List!TypeOK
<1>z. \A n \in Nat : n # 0 => 0 \in 0 .. n - 1 /\ n - 1 \in 0 .. n - 1
  OBVIOUS
<1>l. ASSUME alive' = TRUE, fault' = "none", node' \in [Node -> List!Contents \cup {Null}],
             NEW w \in [0 .. len' - 1 -> Node], BothWays(node', head', tail', len', w)
      PROVE  ListInv'
  <2>1. FromBack(node', tail', len', w) /\ len' \in Nat
    BY <1>l DEF BothWays, FromBack
  <2>2. \A i, j \in 0 .. len' - 1 : w[i] = w[j] => i = j
    BY <1>l DEF BothWays
  <2>3. len' <= Cardinality(Node)
    BY <2>1, <2>2, PlacesBounded
  <2>4. len' \in 0 .. List!Cardinality(Node)
    BY <1>n, <2>1, <2>3
  <2>5. head' \in Node \cup {Null} /\ tail' \in Node \cup {Null}
    <3>1. len' # 0 => 0 \in 0 .. len' - 1 /\ len' - 1 \in 0 .. len' - 1
      BY <1>z, <2>1
    <3> QED BY <1>l, <3>1 DEF BothWays, FromBack
  <2>6. List!TypeOK'
    BY <1>l, <1>r, <2>4, <2>5 DEF List!TypeOK, List!Pointer, List!Faults
  <2> QED BY <1>l, <2>1, <2>6 DEF ListInv
<1>1. ASSUME NEW v \in Item, List!Running, List!LinkFirst(v) \/ List!LinkLast(v),
             len' = len + 1, UNCHANGED alive
      PROVE  ListInv'
  <2>1. alive' = TRUE /\ fault' = "none"
    BY <1>1, <1>t DEF List!Running, List!LinkFirst, List!LinkLast
  <2>2. PICK s \in [0 .. len - 1 -> Node] : BothWays(node, head, tail, len, s)
    BY <1>1, ListRuns
  <2>3. /\ node' \in [Node -> List!Contents \cup {Null}]
        /\ \E w \in [0 .. len' - 1 -> Node] : BothWays(node', head', tail', len', w)
    <3>1. CASE List!LinkFirst(v)
      BY <1>1, <1>t, <2>2, <3>1, FirstLinked
    <3>2. CASE List!LinkLast(v)
      BY <1>1, <1>t, <2>2, <3>2, LastLinked
    <3> QED BY <1>1, <3>1, <3>2
  <2> QED BY <1>l, <2>1, <2>3
<1>2. ASSUME NEW v \in Item, NEW i \in 0 .. len, List!InsertInside(v, i) PROVE ListInv'
  <2>1. List!Running /\ 0 < i /\ i < len /\ fault' = "insert_inside" /\ UNCHANGED <<head, tail>>
        /\ len' = len + 1 /\ UNCHANGED alive
    BY <1>2 DEF List!InsertInside, List!Grow
  <2>2. len \in Nat /\ i \in Nat /\ alive' = TRUE
    <3>1. len \in Nat /\ alive
      BY <2>1, ListRuns
    <3> QED BY <1>t, <2>1, <3>1
  <2>3. PICK s \in [0 .. len - 1 -> Node] : BothWays(node, head, tail, len, s)
    BY <2>1, ListRuns
  <2>4. node' \in [Node -> List!Contents \cup {Null}] /\ len + 1 <= Cardinality(Node)
    BY <1>2, <1>t, <2>2, <2>3, InsideLinked
  <2>5. \E w \in [0 .. len' - 1 -> Node] : FromBack(node', tail', len', w)
    BY <1>2, <1>t, <2>2, <2>3, InsideLinked
  <2>6. len' \in 0 .. List!Cardinality(Node)
    BY <1>n, <2>1, <2>2, <2>4
  <2>7. List!TypeOK'
    BY <1>r, <1>t, <2>1, <2>2, <2>4, <2>6 DEF List!TypeOK, List!Pointer, List!Faults
  <2> QED BY <2>1, <2>2, <2>5, <2>7 DEF ListInv
<1>3. ASSUME NEW op, NEW i \in 0 .. len, List!TakeOut(op, i) PROVE ListInv'
  <2>1. List!Running /\ len' = len - 1 /\ UNCHANGED <<alive, fault>>
    BY <1>3 DEF List!TakeOut
  <2>2. len \in Nat /\ len <= Cardinality(Node) /\ alive /\ fault = "none"
    BY <2>1, ListRuns
  <2>3. i \in Nat /\ alive' = TRUE /\ fault' = "none"
    BY <1>t, <2>1, <2>2
  <2>4. PICK s \in [0 .. len - 1 -> Node] : BothWays(node, head, tail, len, s)
    BY <2>1, ListRuns
  <2>5. node' \in [Node -> List!Contents \cup {Null}]
    BY <1>3, <1>t, <2>2, <2>3, <2>4, TakenOut
  <2>6. \E w \in [0 .. len' - 1 -> Node] : BothWays(node', head', tail', len', w)
    BY <1>3, <1>t, <2>2, <2>3, <2>4, TakenOut
  <2> QED BY <1>l, <2>3, <2>5, <2>6
<1>4. ASSUME NEW v \in Item,
             \/ List!Prepend(v) \/ List!AppendItem(v) \/ List!Remove(v)
             \/ \E i \in 0 .. len : List!InsertAt(v, i)
      PROVE  ListInv'
  <2>1. CASE List!Prepend(v) \/ List!AppendItem(v)
    BY <1>1, <2>1 DEF List!Prepend, List!AppendItem, List!Grow
  <2>2. CASE List!Remove(v)
    <3>1. CASE \E i \in 0 .. len - 1 : List!TakeOut("remove", i)
      <4>1. PICK i \in 0 .. len - 1 : List!TakeOut("remove", i)
        BY <3>1
      <4>2. i \in 0 .. len
        <5>1. len \in Nat
          BY <4>1, ListRuns DEF List!TakeOut
        <5> QED BY <5>1
      <4> QED BY <1>3, <4>1, <4>2
    <3>2. CASE UNCHANGED <<node, head, tail, len, alive, fault>>
      BY <1>s, <3>2
    <3> QED BY <2>2, <3>1, <3>2 DEF List!Remove
  <2>3. CASE \E i \in 0 .. len : List!InsertAt(v, i)
    BY <1>1, <1>2, <2>3 DEF List!InsertAt, List!Grow
  <2> QED BY <1>4, <2>1, <2>2, <2>3
<1>5. CASE \E i \in 0 .. len : List!Get(i) \/ List!TakeOut("remove_at", i)
  BY <1>3, <1>5, <1>s DEF List!Get
<1>6. CASE \E op \in {"insert", "get", "remove_at"} : List!OutOfRange(op, len + 1)
  BY <1>6, <1>s DEF List!OutOfRange
<1>7. CASE List!NodeFails \/ List!IndexIsLen
  <2>1. /\ List!Running /\ fault' \in {"node_new", "index_is_len"}
        /\ UNCHANGED <<node, head, tail, len, alive, reply>>
    BY <1>7 DEF List!NodeFails, List!IndexIsLen, List!Crash
  <2>2. alive /\ fault = "none"
    BY <2>1 DEF List!Running
  <2>3. List!TypeOK'
    BY <1>r, <1>t, <2>1 DEF List!TypeOK, List!Pointer, List!Faults
  <2>4. \E s \in [0 .. len' - 1 -> Node] : BothWays(node', head', tail', len', s)
    BY <2>1, <2>2 DEF ListInv
  <2>5. \E s \in [0 .. len' - 1 -> Node] : FromBack(node', tail', len', s)
    BY <2>4 DEF BothWays
  <2> QED BY <2>1, <2>2, <2>3, <2>4, <2>5 DEF ListInv
<1>8. CASE List!Free
  <2>1. /\ List!Running /\ alive' = FALSE /\ UNCHANGED <<head, tail, len, fault>>
        /\ node' = [n \in Node |-> IF \E i \in 0 .. len - 1 : List!At[i] = n
                                   THEN Null ELSE node[n]]
    BY <1>8 DEF List!Free
  <2>2. PICK s \in [0 .. len - 1 -> Node] : BothWays(node, head, tail, len, s)
    BY <2>1, ListRuns
  <2>3. len <= Cardinality(Node) /\ fault = "none"
    BY <2>1, ListRuns
  <2>4. \A i \in 0 .. len - 1 : List!At[i] = s[i]
    BY <2>2, <2>3 DEF ForwardIsList
  <2>5. \A m \in Node : node'[m] = Null
    BY <2>1, <2>2, <2>4 DEF BothWays
  <2>6. node' \in [Node -> List!Contents \cup {Null}]
    BY <1>t, <2>1
  <2>7. List!TypeOK'
    BY <1>r, <1>t, <2>1, <2>6 DEF List!TypeOK, List!Pointer, List!Faults
  <2> QED BY <2>1, <2>3, <2>5, <2>7 DEF ListInv
<1>9. CASE List!Renew
  <2>1. ~alive /\ head' = Null /\ tail' = Null /\ len' = 0 /\ alive' = TRUE /\ node' = node
        /\ fault' = fault
    BY <1>9 DEF List!Renew
  <2>2. (\A m \in Node : node[m] = Null) /\ fault = "none"
    BY <1>t, <2>1 DEF ListInv
  <2> DEFINE s == [i \in 0 .. 0 - 1 |-> 0]
  <2>3. s \in [0 .. len' - 1 -> Node]
    BY <2>1
  <2>4. BothWays(node', head', tail', len', s)
    BY <2>1, <2>2, <2>3 DEF BothWays, FromBack
  <2> HIDE DEF s
  <2> QED BY <1>l, <1>t, <2>1, <2>2, <2>3, <2>4
<1> QED BY <1>4, <1>5, <1>6, <1>7, <1>8, <1>9 DEF List!Next

(* What the code relies on when it follows the pointers either way.        *)
LEMMA ListIsLinked == ListInv /\ ForwardIsList /\ BackIsList => List!TypeOK /\ List!WellLinked
<1> SUFFICES ASSUME ListInv, ForwardIsList, BackIsList PROVE List!WellLinked
  BY DEF ListInv
<1>1. ~alive => List!Unused = Node
  BY DEF ListInv, List!Unused
<1>2. ASSUME List!Running
      PROVE  /\ List!At[len] = Null /\ List!Back[len] = Null
             /\ \A i \in 0 .. len - 1 : List!At[i] # Null /\ List!Back[i] = List!At[len - 1 - i]
             /\ {n \in Node : node[n] # Null} = {List!At[i] : i \in 0 .. len - 1}
  <2>1. List!TypeOK /\ len \in Nat /\ len <= Cardinality(Node)
    BY <1>2, ListRuns DEF ListInv
  <2>2. PICK s \in [0 .. len - 1 -> Node] : BothWays(node, head, tail, len, s)
    BY <1>2, ListRuns
  <2>3. List!At[len] = Null /\ \A i \in 0 .. len - 1 : List!At[i] = s[i]
    BY <2>1, <2>2 DEF ForwardIsList
  <2>4. List!Back[len] = Null /\ \A i \in 0 .. len - 1 : List!Back[i] = s[len - 1 - i]
    BY <2>1, <2>2 DEF BackIsList, BothWays
  <2>5. \A i \in 0 .. len - 1 : len - 1 - i \in 0 .. len - 1
    BY <2>1
  <2>6. /\ \A i \in 0 .. len - 1 : s[i] \in Node /\ s[i] # Null /\ node[s[i]] # Null
        /\ \A m \in Node : node[m] # Null => \E i \in 0 .. len - 1 : s[i] = m
    BY <2>1, <2>2, PlaceFacts
  <2>7. {n \in Node : node[n] # Null} = {List!At[i] : i \in 0 .. len - 1}
    BY <2>3, <2>6
  <2> QED BY <2>3, <2>4, <2>5, <2>6, <2>7
<1> QED BY <1>1, <1>2 DEF List!WellLinked

(* A list just made is an empty one to its client.                         *)
LEMMA ListAbstractInit == ListInv /\ ItemsAreList /\ List!Init => List!L!Init
<1> SUFFICES ASSUME ListInv, ItemsAreList, List!Init PROVE List!L!Init
  OBVIOUS
<1>1. len = 0 /\ alive = TRUE /\ reply = List!Answer("new", Null, 0, Null)
  BY DEF List!Init
<1>2. PICK s \in [0 .. len - 1 -> Node] : FromBack(node, tail, len, s)
  BY <1>1 DEF ListInv
<1>3. len <= Cardinality(Node)
  BY NodeAssumption DEF ListInv, List!TypeOK
<1> DEFINE d == [i \in 1 .. len |-> node[s[i - 1]].data]
<1>4. List!Items = d
  BY <1>1, <1>2, <1>3 DEF ItemsAreList
<1>5. d = [i \in 1 .. 0 |-> d[i]]
  BY <1>1
<1> HIDE DEF d
<1>6. d = <<>>
  BY <1>5, EmptyIs
<1> QED BY <1>1, <1>4, <1>6 DEF List!L!Init, List!Answer, List!L!Answer

(* The data of a list in use, as a sequence.                               *)
LEMMA ListData ==
    ASSUME ListInv, ItemsAreList, ForwardIsList, List!Running
    PROVE  /\ len \in Nat /\ List!Items \in [1 .. len -> Item] /\ Len(List!Items) = len
           /\ \E s \in [0 .. len - 1 -> Node] :
                 /\ BothWays(node, head, tail, len, s)
                 /\ \A i \in 1 .. len : List!Items[i] = node[s[i - 1]].data
           /\ \A i \in 0 .. len - 1 : List!DataAt(i) = List!Items[i + 1]
<1>1. len \in Nat /\ len <= Cardinality(Node) /\ alive /\ List!TypeOK
  BY ListRuns DEF ListInv
<1>2. PICK s \in [0 .. len - 1 -> Node] : BothWays(node, head, tail, len, s)
  BY ListRuns
<1>3. List!Items = [i \in 1 .. len |-> node[s[i - 1]].data]
  BY <1>1, <1>2 DEF ItemsAreList, BothWays
<1>4. \A i \in 0 .. len - 1 : node[s[i]].data \in Item
  <2>1. \A i \in 0 .. len - 1 : node[s[i]] \in List!Contents
    BY <1>1, <1>2, PlaceFacts
  <2> QED BY <2>1 DEF List!Contents
<1>5. \A i \in 1 .. len : i - 1 \in 0 .. len - 1
  BY <1>1
<1>6. List!Items \in [1 .. len -> Item] /\ \A i \in 1 .. len : List!Items[i] = node[s[i - 1]].data
  BY <1>3, <1>4, <1>5
<1>7. Len(List!Items) = len
  BY <1>1, <1>6, IntervalIsSeq
<1>8. \A i \in 0 .. len - 1 : List!At[i] = s[i]
  BY <1>1, <1>2 DEF ForwardIsList
<1>9. \A i \in 0 .. len - 1 : i + 1 \in 1 .. len /\ (i + 1) - 1 = i
  BY <1>1
<1>10. \A i \in 0 .. len - 1 : List!DataAt(i) = List!Items[i + 1]
  BY <1>6, <1>8, <1>9 DEF List!DataAt
<1> QED BY <1>1, <1>2, <1>6, <1>7, <1>10

(* A node put in at k is an item put in at k.                              *)
LEMMA PutIsInsert ==
    ASSUME ListInv, ListInv', ItemsAreList, ItemsAreList', ForwardIsList, List!Running,
           NEW s \in [0 .. len - 1 -> Node], BothWays(node, head, tail, len, s),
           alive', len' = len + 1, NEW v \in Item, NEW k \in 0 .. len,
           NEW w \in [0 .. len' - 1 -> Node], FromBack(node', tail', len', w),
           PutAt(node, s, len, node', w, k, v)
    PROVE  List!Items' = List!L!InsertAt(List!Items, k + 1, v)
<1>1. len \in Nat /\ List!Items \in [1 .. len -> Item] /\ Len(List!Items) = len
  BY ListData
<1>2. len <= Cardinality(Node) /\ len' <= Cardinality(Node) /\ alive
  <2>1. PICK N \in Nat : N = Cardinality(Node) /\ N = List!Cardinality(Node)
    BY NodeAssumption
  <2> QED BY <2>1, ListRuns DEF ListInv, List!TypeOK
<1>3. List!Items = [i \in 1 .. len |-> node[s[i - 1]].data]
  BY <1>2 DEF ItemsAreList, BothWays
<1>4. List!Items' = [i \in 1 .. len' |-> node'[w[i - 1]].data]
  BY <1>2 DEF ItemsAreList
<1> DEFINE u == [i \in 1 .. len + 1 |-> node'[w[i - 1]].data]
<1>5. List!Items' = u
  BY <1>4
<1>6. ASSUME NEW j \in 1 .. len + 1
      PROVE  u[j] = IF j < k + 1 THEN List!Items[j]
                    ELSE IF j = k + 1 THEN v ELSE List!Items[j - 1]
  <2>1. /\ j - 1 \in 0 .. len /\ (j - 1 < k <=> j < k + 1) /\ (j - 1 = k <=> j = k + 1)
        /\ (j < k + 1 => j \in 1 .. len)
        /\ (~(j < k + 1) /\ j # k + 1 => j - 1 \in 1 .. len)
    BY <1>1
  <2>2. u[j] = node'[w[j - 1]].data
    OBVIOUS
  <2>3. node'[w[j - 1]].data = IF j - 1 < k THEN node[s[j - 1]].data
                               ELSE IF j - 1 = k THEN v ELSE node[s[(j - 1) - 1]].data
    BY <2>1 DEF PutAt
  <2> HIDE DEF u
  <2>4. /\ j < k + 1 => List!Items[j] = node[s[j - 1]].data
        /\ ~(j < k + 1) /\ j # k + 1 => List!Items[j - 1] = node[s[(j - 1) - 1]].data
    BY <1>3, <2>1
  <2> QED BY <2>1, <2>2, <2>3, <2>4
<1>7. u \in [1 .. len + 1 -> Item]
  <2>1. \A j \in 1 .. len + 1 : u[j] \in Item
    <3> SUFFICES ASSUME NEW j \in 1 .. len + 1 PROVE u[j] \in Item
      OBVIOUS
    <3>1. (j < k + 1 => j \in 1 .. len) /\ (~(j < k + 1) /\ j # k + 1 => j - 1 \in 1 .. len)
      BY <1>1
    <3> HIDE DEF u
    <3> QED BY <1>1, <1>6, <3>1
  <2> QED BY <2>1
<1> HIDE DEF u
<1>8. k + 1 \in 1 .. len + 1
  BY <1>1
<1>9. SubSeq(List!Items, 1, (k + 1) - 1) \o <<v>> \o SubSeq(List!Items, k + 1, Len(List!Items)) = u
  <2> DEFINE i == k + 1
  <2>1. i \in 1 .. len + 1
    BY <1>8
  <2>2. \A j \in 1 .. len + 1 : u[j] = IF j < i THEN List!Items[j]
                                       ELSE IF j = i THEN v ELSE List!Items[j - 1]
    BY <1>6
  <2> HIDE DEF i
  <2>3. SubSeq(List!Items, 1, i - 1) \o <<v>> \o SubSeq(List!Items, i, Len(List!Items)) = u
    <3>1. IsInserted(Item, len, List!Items, v, i, u)
      BY <1>1, <1>7, <2>1, <2>2 DEF IsInserted
    <3> QED BY <3>1, InsertedIs
  <2> QED BY <2>3 DEF i
<1> QED BY <1>5, <1>9 DEF List!L!InsertAt

(* A node taken out at k is an item taken out at k.                        *)
LEMMA TakenIsRemove ==
    ASSUME ListInv, ListInv', ItemsAreList, ItemsAreList', ForwardIsList, List!Running,
           NEW s \in [0 .. len - 1 -> Node], BothWays(node, head, tail, len, s),
           alive', len' = len - 1, NEW k \in 0 .. len - 1,
           NEW w \in [0 .. len' - 1 -> Node], FromBack(node', tail', len', w),
           TakenAt(node, s, len, node', w, k)
    PROVE  List!Items' = List!L!RemoveAt(List!Items, k + 1)
<1>1. len \in Nat /\ List!Items \in [1 .. len -> Item] /\ Len(List!Items) = len
  BY ListData
<1>2. len <= Cardinality(Node) /\ len' <= Cardinality(Node) /\ alive
  <2>1. PICK N \in Nat : N = Cardinality(Node) /\ N = List!Cardinality(Node)
    BY NodeAssumption
  <2> QED BY <2>1, ListRuns DEF ListInv, List!TypeOK
<1>3. List!Items = [i \in 1 .. len |-> node[s[i - 1]].data]
  BY <1>2 DEF ItemsAreList, BothWays
<1>4. List!Items' = [i \in 1 .. len' |-> node'[w[i - 1]].data]
  BY <1>2 DEF ItemsAreList
<1> DEFINE u == [i \in 1 .. len - 1 |-> node'[w[i - 1]].data]
<1>5. List!Items' = u
  BY <1>4
<1>6. ASSUME NEW j \in 1 .. len - 1
      PROVE  u[j] = IF j < k + 1 THEN List!Items[j] ELSE List!Items[j + 1]
  <2>1. /\ j - 1 \in 0 .. len - 2 /\ (j - 1 < k <=> j < k + 1)
        /\ j \in 1 .. len /\ j + 1 \in 1 .. len /\ (j - 1) + 1 = j /\ (j + 1) - 1 = j
    BY <1>1
  <2>2. u[j] = node'[w[j - 1]].data
    OBVIOUS
  <2>3. node'[w[j - 1]].data = IF j - 1 < k THEN node[s[j - 1]].data ELSE node[s[(j - 1) + 1]].data
    BY <2>1 DEF TakenAt
  <2> HIDE DEF u
  <2>4. List!Items[j] = node[s[j - 1]].data /\ List!Items[j + 1] = node[s[(j + 1) - 1]].data
    BY <1>3, <2>1
  <2> QED BY <2>1, <2>2, <2>3, <2>4
<1>7. u = [j \in 1 .. len - 1 |-> u[j]]
  OBVIOUS
<1> HIDE DEF u
<1>8. SubSeq(List!Items, 1, (k + 1) - 1) \o SubSeq(List!Items, (k + 1) + 1, Len(List!Items)) = u
  <2> DEFINE i == k + 1
  <2>1. i \in 1 .. len
    BY <1>1
  <2>2. \A j \in 1 .. len - 1 : u[j] = IF j < i THEN List!Items[j] ELSE List!Items[j + 1]
    BY <1>6
  <2> HIDE DEF i
  <2>3. SubSeq(List!Items, 1, i - 1) \o SubSeq(List!Items, i + 1, Len(List!Items)) = u
    <3>1. IsRemoved(Item, len, List!Items, i, u)
      BY <1>1, <1>7, <2>1, <2>2 DEF IsRemoved
    <3> QED BY <3>1, RemovedIs
  <2> QED BY <2>3 DEF i
<1> QED BY <1>5, <1>8 DEF List!L!RemoveAt

(* Every call does to the data from head to tail what it promises, an      *)
(* insertion inside included.                                              *)
LEMMA ListAbstractStep ==
    ASSUME ListInv, ListInv', ItemsAreList, ItemsAreList', ForwardIsList, List!Next
    PROVE  List!L!Next \/ UNCHANGED List!L!vars
<1>t. List!TypeOK /\ alive \in BOOLEAN /\ Len(List!Items) = Len(List!Items)
  BY DEF ListInv, List!TypeOK
<1>d. List!Running => /\ len \in Nat /\ Len(List!Items) = len /\ DOMAIN List!Items = 1 .. len
                      /\ \A i \in 0 .. len - 1 : List!DataAt(i) = List!Items[i + 1]
  <2> SUFFICES ASSUME List!Running
               PROVE  /\ len \in Nat /\ Len(List!Items) = len /\ DOMAIN List!Items = 1 .. len
                      /\ \A i \in 0 .. len - 1 : List!DataAt(i) = List!Items[i + 1]
    OBVIOUS
  <2>1. List!Items \in [1 .. len -> Item]
    BY ListData
  <2> QED BY <2>1, ListData
<1>u. ASSUME UNCHANGED <<node, tail, len, alive>> PROVE UNCHANGED List!Items
  <2>1. CASE alive
    <3>1. PICK s \in [0 .. len - 1 -> Node] : FromBack(node, tail, len, s)
      BY <2>1 DEF ListInv
    <3>2. len <= Cardinality(Node)
      BY NodeAssumption DEF ListInv, List!TypeOK
    <3>3. List!Items = [i \in 1 .. len |-> node[s[i - 1]].data]
      BY <2>1, <3>1, <3>2 DEF ItemsAreList
    <3>4. List!Items' = [i \in 1 .. len |-> node[s[i - 1]].data]
      <4>1. alive' /\ s \in [0 .. len' - 1 -> Node] /\ FromBack(node', tail', len', s)
            /\ len' <= Cardinality(Node)
        BY <1>u, <2>1, <3>1, <3>2
      <4>2. List!Items' = [i \in 1 .. len' |-> node'[s[i - 1]].data]
        BY <4>1 DEF ItemsAreList
      <4> QED BY <1>u, <4>2
    <3> QED BY <3>3, <3>4
  <2>2. CASE ~alive
    BY <1>u, <2>2 DEF List!Items
  <2> QED BY <2>1, <2>2
<1>1. ASSUME NEW v \in Item, NEW k \in 0 .. len, List!Running,
             (k = 0 /\ List!LinkFirst(v)) \/ (k = len /\ List!LinkLast(v)), List!Grow(k)
      PROVE  List!L!Insert(v, k)
  <2>1. alive' = TRUE /\ len' = len + 1 /\ reply' = List!Answer("insert", k, 0, Null)
    BY <1>1, <1>t DEF List!Grow, List!Running
  <2>2. PICK s \in [0 .. len - 1 -> Node] : BothWays(node, head, tail, len, s)
    BY <1>1, ListRuns
  <2>3. PICK w \in [0 .. len' - 1 -> Node] : /\ BothWays(node', head', tail', len', w)
                                             /\ PutAt(node, s, len, node', w, k, v)
    <3>1. CASE k = 0 /\ List!LinkFirst(v)
      BY <1>t, <2>1, <2>2, <3>1, FirstLinked
    <3>2. CASE k = len /\ List!LinkLast(v)
      BY <1>t, <2>1, <2>2, <3>2, LastLinked
    <3> QED BY <1>1, <3>1, <3>2
  <2>4. FromBack(node', tail', len', w)
    BY <2>3 DEF BothWays
  <2>5. List!Items' = List!L!InsertAt(List!Items, k + 1, v)
    BY <1>1, <2>1, <2>2, <2>3, <2>4, PutIsInsert
  <2>6. k <= Len(List!Items)
    BY <1>1, <1>d
  <2> QED BY <2>1, <2>5, <2>6 DEF List!L!Insert, List!L!Answer, List!Answer
<1>2. ASSUME NEW v \in Item, NEW k \in 0 .. len, List!InsertInside(v, k)
      PROVE  List!L!Insert(v, k)
  <2>1. alive' = TRUE /\ len' = len + 1 /\ reply' = List!Answer("insert", k, 0, Null)
        /\ List!Running
    BY <1>2, <1>t DEF List!Grow, List!Running, List!InsertInside
  <2>2. PICK s \in [0 .. len - 1 -> Node] : BothWays(node, head, tail, len, s)
    BY <2>1, ListRuns
  <2>3. k \in Nat
    BY <1>d, <2>1
  <2>4. PICK w \in [0 .. len' - 1 -> Node] : /\ FromBack(node', tail', len', w)
                                             /\ PutAt(node, s, len, node', w, k, v)
    BY <1>2, <1>t, <2>2, <2>3, InsideLinked
  <2>5. List!Items' = List!L!InsertAt(List!Items, k + 1, v)
    BY <2>1, <2>2, <2>4, PutIsInsert
  <2>6. k <= Len(List!Items)
    BY <1>d, <2>1
  <2> QED BY <2>1, <2>5, <2>6 DEF List!L!Insert, List!L!Answer, List!Answer
<1>3. ASSUME NEW op, NEW k \in 0 .. len, List!TakeOut(op, k)
      PROVE  k \in 0 .. Len(List!Items) - 1 /\ List!L!TakeOut(op, k)
  <2>1. alive' = TRUE /\ len' = len - 1 /\ reply' = List!Answer(op, k, 0, List!DataAt(k))
        /\ List!Running /\ k < len
    BY <1>3, <1>t DEF List!TakeOut, List!Running
  <2>2. PICK s \in [0 .. len - 1 -> Node] : BothWays(node, head, tail, len, s)
    BY <2>1, ListRuns
  <2>3. k \in Nat /\ k \in 0 .. len - 1 /\ len <= Cardinality(Node)
    BY <1>d, <2>1, ListRuns
  <2>4. PICK w \in [0 .. len' - 1 -> Node] : /\ BothWays(node', head', tail', len', w)
                                             /\ TakenAt(node, s, len, node', w, k)
    BY <1>3, <1>t, <2>2, <2>3, TakenOut
  <2>5. FromBack(node', tail', len', w)
    BY <2>4 DEF BothWays
  <2>6. List!Items' = List!L!RemoveAt(List!Items, k + 1)
    BY <2>1, <2>2, <2>3, <2>4, <2>5, TakenIsRemove
  <2>7. k < Len(List!Items) /\ List!DataAt(k) = List!Items[k + 1]
    BY <1>d, <2>1, <2>3
  <2>8. k \in 0 .. Len(List!Items) - 1
    BY <1>d, <2>1, <2>3
  <2> QED BY <2>1, <2>6, <2>7, <2>8 DEF List!L!TakeOut, List!L!Answer, List!Answer
<1>4. ASSUME NEW v \in Item, NEW k \in 0 .. len, List!L!Insert(v, k), List!Running
      PROVE  List!L!Next
  <2>1. k \in 0 .. Len(List!Items)
    BY <1>4, <1>d
  <2> QED BY <1>4, <2>1 DEF List!L!Next
<1>5. ASSUME NEW v \in Item, List!Prepend(v) \/ List!AppendItem(v) PROVE List!L!Next
  <2>1. List!Running /\ ((List!LinkFirst(v) /\ List!Grow(0)) \/ (List!LinkLast(v) /\ List!Grow(len)))
    BY <1>5 DEF List!Prepend, List!AppendItem
  <2>2. 0 \in 0 .. len /\ len \in 0 .. len
    BY <1>d, <2>1
  <2> QED BY <1>1, <1>4, <2>1, <2>2
<1>6. ASSUME NEW v \in Item, NEW i \in 0 .. len, List!InsertAt(v, i) PROVE List!L!Next
  <2>1. CASE List!InsertInside(v, i)
    <3>1. List!Running
      BY <2>1 DEF List!InsertInside
    <3> QED BY <1>2, <1>4, <2>1, <3>1
  <2>2. CASE ~List!InsertInside(v, i)
    <3>1. List!Running /\ List!Grow(i)
          /\ ((i = 0 /\ List!LinkFirst(v)) \/ (i = len /\ List!LinkLast(v)))
      BY <1>6, <2>2 DEF List!InsertAt
    <3> QED BY <1>1, <1>4, <3>1
  <2> QED BY <2>1, <2>2
<1>7. ASSUME NEW v \in Item, List!Remove(v) PROVE List!L!Next
  <2>1. CASE \E i \in 0 .. len - 1 :
                /\ List!Running /\ List!DataAt(i) = v
                /\ \A j \in 0 .. i - 1 : List!DataAt(j) # v
                /\ List!TakeOut("remove", i)
    <3>1. PICK i \in 0 .. len - 1 : /\ List!Running /\ List!DataAt(i) = v
                                    /\ \A j \in 0 .. i - 1 : List!DataAt(j) # v
                                    /\ List!TakeOut("remove", i)
      BY <2>1
    <3>2. i \in 0 .. len
      BY <1>d, <3>1
    <3>3. i \in 0 .. Len(List!Items) - 1 /\ List!L!TakeOut("remove", i)
      BY <1>3, <3>1, <3>2
    <3>4. List!L!IsFirst(v, i)
      <4>1. List!Items[i + 1] = v
        BY <1>d, <3>1
      <4>2. ASSUME NEW j \in 1 .. i PROVE List!Items[j] # v
        <5>1. j - 1 \in 0 .. i - 1 /\ j - 1 \in 0 .. len - 1 /\ (j - 1) + 1 = j
          BY <1>d, <3>1
        <5>2. List!DataAt(j - 1) = List!Items[j]
          BY <1>d, <3>1, <5>1
        <5> QED BY <3>1, <5>1, <5>2
      <4> QED BY <4>1, <4>2 DEF List!L!IsFirst
    <3> QED BY <3>3, <3>4 DEF List!L!Next, List!L!TakeOutFirst
  <2>2. CASE /\ List!Running /\ \A i \in 0 .. len - 1 : List!DataAt(i) # v
             /\ reply' = List!Answer("remove", Null, 1, Null)
             /\ UNCHANGED <<node, head, tail, len, alive, fault>>
    <3>1. \A i \in DOMAIN List!Items : List!Items[i] # v
      <4> SUFFICES ASSUME NEW i \in 1 .. len PROVE List!Items[i] # v
        BY <1>d, <2>2
      <4>1. i - 1 \in 0 .. len - 1 /\ (i - 1) + 1 = i
        BY <1>d, <2>2
      <4>2. List!DataAt(i - 1) = List!Items[i]
        BY <1>d, <2>2, <4>1
      <4> QED BY <2>2, <4>1, <4>2
    <3>2. UNCHANGED List!Items
      BY <1>u, <2>2
    <3>3. List!L!Missing(v)
      BY <2>2, <3>1 DEF List!L!Missing, List!L!Answer, List!Answer
    <3> QED BY <3>2, <3>3 DEF List!L!Next
  <2> QED BY <1>7, <2>1, <2>2 DEF List!Remove
<1>8. ASSUME NEW i \in 0 .. len, List!Get(i) PROVE List!L!Next
  <2>1. List!Running /\ i < len /\ reply' = List!Answer("get", i, 0, List!DataAt(i))
        /\ UNCHANGED List!Items
    BY <1>8, <1>u DEF List!Get
  <2>2. i \in 0 .. len - 1 /\ i \in 0 .. Len(List!Items) - 1 /\ i < Len(List!Items)
    BY <1>d, <2>1
  <2>3. List!L!Get(i)
    BY <1>d, <2>1, <2>2 DEF List!L!Get, List!L!Answer, List!Answer
  <2> QED BY <2>2, <2>3 DEF List!L!Next
<1>9. ASSUME NEW op \in {"insert", "get", "remove_at"}, List!OutOfRange(op, len + 1)
      PROVE  List!L!Next
  <2>1. List!Running /\ reply' = List!Answer(op, len + 1, 1, Null) /\ UNCHANGED List!Items
    BY <1>9, <1>u DEF List!OutOfRange
  <2>2. Len(List!Items) = len /\ len + 1 > len
    BY <1>d, <2>1
  <2>3. List!L!OutOfRange(op, Len(List!Items) + 1)
    BY <2>1, <2>2 DEF List!L!OutOfRange, List!L!Answer, List!Answer
  <2> QED BY <2>1, <2>3 DEF List!L!Next
<1>10. CASE List!NodeFails \/ List!IndexIsLen
  <2>1. UNCHANGED List!Items /\ UNCHANGED reply
    BY <1>10, <1>u DEF List!NodeFails, List!IndexIsLen, List!Crash
  <2> QED BY <2>1 DEF List!L!vars
<1>11. CASE List!Free
  <2>1. alive' = FALSE /\ reply' = List!Answer("free", Null, 0, Null)
    BY <1>11 DEF List!Free
  <2>2. List!Items' = <<>>
    BY <2>1 DEF List!Items
  <2>3. List!L!Clear("free")
    BY <2>1, <2>2 DEF List!L!Clear, List!L!Answer, List!Answer
  <2> QED BY <2>3 DEF List!L!Next
<1>12. CASE List!Renew
  <2>1. alive' = TRUE /\ len' = 0 /\ reply' = List!Answer("new", Null, 0, Null)
    BY <1>12 DEF List!Renew
  <2>2. PICK w \in [0 .. len' - 1 -> Node] : FromBack(node', tail', len', w)
    BY <2>1 DEF ListInv
  <2>3. len' <= Cardinality(Node)
    BY NodeAssumption DEF ListInv, List!TypeOK
  <2>4. List!Items' = [i \in 1 .. len' |-> node'[w[i - 1]].data]
    BY <2>1, <2>2, <2>3 DEF ItemsAreList
  <2>5. List!Items' = [i \in 1 .. 0 |-> List!Items'[i]]
    BY <2>1, <2>4
  <2>6. List!Items' = <<>>
    BY <2>5, EmptyIs
  <2>7. List!L!Clear("new")
    BY <2>1, <2>6 DEF List!L!Clear, List!L!Answer, List!Answer
  <2> QED BY <2>7 DEF List!L!Next
<1>13. CASE \E i \in 0 .. len : List!TakeOut("remove_at", i)
  <2>1. PICK i \in 0 .. len : List!TakeOut("remove_at", i)
    BY <1>13
  <2>2. i \in 0 .. Len(List!Items) - 1 /\ List!L!TakeOut("remove_at", i)
    BY <1>3, <2>1
  <2> QED BY <2>2 DEF List!L!Next
<1> QED BY <1>5, <1>6, <1>7, <1>8, <1>9, <1>10, <1>11, <1>12, <1>13 DEF List!Next
=============================================================================
