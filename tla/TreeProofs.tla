----------------------------- MODULE TreeProofs -----------------------------
(***************************************************************************)
(* What holds of every generic tree, whatever its size: its blocks form a  *)
(* tree, none is lost or shared, a parent pointer is old only where its    *)
(* block has grown, and num_el counts at least the nodes below the root.   *)
(* And of every AVL tree: it is a balanced search tree and implements the  *)
(* ordered set.                                                            *)
(***************************************************************************)
EXTENDS MCTrees, DataLemmas

(* What a sequence that lists a set once tells of the set.                 *)
LEMMA ListedOnce ==
    ASSUME NEW S, NEW s, ListsOnce(s, S)
    PROVE  /\ ToSet(s) = S /\ Len(s) \in Nat /\ IsFiniteSet(S)
           /\ Cardinality(S) = Len(s) /\ (s = <<>> <=> S = {})
  BY ListedEach DEF ToSet

(* A sequence of distinct elements lists its elements once.                *)
LEMMA DistinctIsList ==
    ASSUME NEW S, NEW s \in Seq(S), \A i, j \in DOMAIN s : s[i] = s[j] => i = j
    PROVE  ListsOnce(s, ToSet(s))
<1>1. Len(s) \in Nat /\ s \in [1 .. Len(s) -> S] /\ DOMAIN s = 1 .. Len(s)
  BY LenProperties
<1>2. s \in [1 .. Len(s) -> ToSet(s)]
  BY <1>1 DEF ToSet
<1>3. s \in Seq(ToSet(s))
  BY <1>1, <1>2, IntervalIsSeq
<1> QED BY <1>1, <1>3 DEF ListsOnce, ToSet

(* A list turned round.                                                    *)
LEMMA ListTurned ==
    ASSUME NEW S, NEW s, ListsOnce(s, S)
    PROVE  ListsOnce(Reverse(s), S)
<1> DEFINE n == Len(s)
           r == Reverse(s)
<1>1. n \in Nat /\ s \in [1 .. n -> S]
  BY LenProperties DEF ListsOnce
<1>2. r = [i \in 1 .. n |-> s[(n - i) + 1]]
  BY DEF Reverse
<1> HIDE DEF n, r
<1>3. \A i \in 1 .. n : (n - i) + 1 \in 1 .. n /\ (n - ((n - i) + 1)) + 1 = i
  BY <1>1
<1>4. r \in [1 .. n -> S] /\ \A i \in 1 .. n : r[i] = s[(n - i) + 1]
  BY <1>1, <1>2, <1>3
<1>5. r \in Seq(S) /\ Len(r) = n
  BY <1>1, <1>4, IntervalIsSeq
<1>6. ASSUME NEW x \in S PROVE \E i \in 1 .. n : r[i] = x
  <2>1. PICK i \in 1 .. n : s[i] = x
    BY DEF ListsOnce, n
  <2>2. r[(n - i) + 1] = x
    BY <1>3, <1>4, <2>1
  <2> QED BY <1>3, <2>2
<1>7. ASSUME NEW i \in 1 .. n, NEW j \in 1 .. n, r[i] = r[j] PROVE i = j
  <2>1. \A a, b \in 1 .. n : s[a] = s[b] => a = b
    BY DEF ListsOnce, n
  <2>2. s[(n - i) + 1] = s[(n - j) + 1]
    BY <1>4, <1>7
  <2>3. (n - i) + 1 = (n - j) + 1
    BY <1>3, <2>1, <2>2
  <2> QED BY <1>1, <2>3
<1> QED BY <1>5, <1>6, <1>7 DEF ListsOnce, r

(* The first of a list and the others; one more behind it.                 *)
LEMMA ListEnds ==
    ASSUME NEW S, NEW s, ListsOnce(s, S)
    PROVE  /\ s # <<>> => Head(s) \in S /\ ListsOnce(Tail(s), S \ {Head(s)})
           /\ \A e : e \notin S => ListsOnce(Append(s, e), S \cup {e})
<1> DEFINE n == Len(s)
<1>1. s \in Seq(S) /\ n \in Nat /\ s \in [1 .. n -> S]
  BY LenProperties DEF ListsOnce
<1>2. /\ \A x \in S : \E i \in 1 .. n : s[i] = x
      /\ \A i, j \in 1 .. n : s[i] = s[j] => i = j
  BY DEF ListsOnce
<1>3. ASSUME s # <<>> PROVE Head(s) \in S /\ ListsOnce(Tail(s), S \ {Head(s)})
  <2> DEFINE h == Head(s)
             v == Tail(s)
  <2>1. n > 0
    BY <1>1, <1>3, EmptySeq
  <2>2. h = s[1] /\ v = [i \in 1 .. n - 1 |-> s[i + 1]]
    <3> HIDE DEF n
    <3> QED BY <1>1, <2>1, TailIs, ZenonT(60)
  <2> HIDE DEF n, h, v
  <2>3. h \in S /\ 1 \in 1 .. n /\ \A i \in 1 .. n - 1 : i + 1 \in 1 .. n /\ i + 1 # 1
    BY <1>1, <2>1, <2>2
  <2>4. v \in [1 .. n - 1 -> S \ {h}] /\ n - 1 \in Nat
    BY <1>1, <1>2, <2>1, <2>2, <2>3
  <2>5. v \in Seq(S \ {h}) /\ Len(v) = n - 1
    BY <2>4, IntervalIsSeq
  <2>6. ASSUME NEW x \in S \ {h} PROVE \E i \in 1 .. n - 1 : v[i] = x
    <3>1. PICK i \in 1 .. n : s[i] = x
      BY <1>2
    <3>2. i - 1 \in 1 .. n - 1 /\ (i - 1) + 1 = i
      BY <1>1, <2>2, <2>6, <3>1
    <3> QED BY <2>2, <3>1, <3>2
  <2>7. ASSUME NEW i \in 1 .. n - 1, NEW j \in 1 .. n - 1, v[i] = v[j] PROVE i = j
    <3>1. i + 1 = j + 1
      BY <1>2, <2>2, <2>3, <2>7
    <3> QED BY <3>1
  <2> QED BY <2>3, <2>5, <2>6, <2>7 DEF ListsOnce, h, v
<1>4. ASSUME NEW e, e \notin S PROVE ListsOnce(Append(s, e), S \cup {e})
  <2> DEFINE U == S \cup {e}
             v == Append(s, e)
  <2>1. s \in [1 .. n -> U] /\ e \in U
    BY <1>1
  <2>2. v = [i \in 1 .. n + 1 |-> IF i = n + 1 THEN e ELSE s[i]]
    <3> HIDE DEF n, U
    <3> QED BY <1>1, <2>1, AppendIs
  <2> HIDE DEF n, v
  <2>3. v \in [1 .. n + 1 -> U] /\ n + 1 \in Nat
    BY <1>1, <2>1, <2>2
  <2>4. v \in Seq(U) /\ Len(v) = n + 1
    <3> HIDE DEF U
    <3> QED BY <2>3, IntervalIsSeq
  <2>5. n + 1 \in 1 .. n + 1 /\ \A i \in 1 .. n : i \in 1 .. n + 1 /\ i # n + 1
    BY <1>1
  <2>6. \A i \in 1 .. n + 1 : i = n + 1 \/ i \in 1 .. n
    BY <1>1
  <2>7. \A x \in U : \E i \in 1 .. n + 1 : v[i] = x
    BY <1>2, <2>2, <2>5
  <2>8. ASSUME NEW i \in 1 .. n + 1, NEW j \in 1 .. n + 1, v[i] = v[j] PROVE i = j
    <3>1. \A l \in 1 .. n : v[l] # e
      BY <1>1, <1>4, <2>2, <2>5
    <3>2. v[n + 1] = e
      BY <2>2, <2>5
    <3> QED BY <1>2, <2>2, <2>5, <2>6, <2>8, <3>1, <3>2
  <2> QED BY <2>4, <2>7, <2>8 DEF ListsOnce, v
<1> QED BY <1>3, <1>4
---------------------------------------------------------------------------
(* The blocks allocated, and the children of one.                          *)
Used == {a \in Addr : heap[a] # Null}
Kin(p) == ToSet(Kids(p))

(* The blocks hang together as a tree: no node but the root is without a   *)
(* holder, none has two or occurs twice in one, and a set with the root    *)
(* and the children of its members has every block.                        *)
Linked ==
    /\ root \in Used
    /\ \A p \in Used : Kin(p) \subseteq Used \ {root}
    /\ \A p \in Used : \A i, j \in DOMAIN Kids(p) : Kids(p)[i] = Kids(p)[j] => i = j
    /\ \A p, q \in Used : Kin(p) \cap Kin(q) # {} => p = q
    /\ \A S \in SUBSET Addr : root \in S /\ (\A p \in S : Kin(p) \subseteq S) => Used \subseteq S

Blocks == heap \in [Addr -> Node \cup {Null}]

(* What a block says of its children.                                      *)
LEMMA KidsFacts ==
    ASSUME Blocks
    PROVE  /\ \A a \in Addr : Kids(a) \in Seq(Addr)
           /\ \A a \in Used : heap[a] \in Node /\ Kids(a) = heap[a].kids
           /\ \A a \in Addr \ Used : heap[a] = Null /\ Kids(a) = <<>> /\ Kin(a) = {}
<1>1. Null \notin Node
  BY TreeAssumption
<1>2. ASSUME NEW a \in Used PROVE heap[a] \in Node /\ Kids(a) = heap[a].kids
  BY DEF Used, Kids, Blocks
<1>3. ASSUME NEW a \in Addr \ Used PROVE heap[a] = Null /\ Kids(a) = <<>> /\ Kin(a) = {}
  <2>1. heap[a] = Null /\ Kids(a) = <<>>
    BY DEF Used, Kids
  <2>2. ToSet(<<>>) = {}
    BY ShortLists, ListedOnce
  <2> QED BY <2>1, <2>2 DEF Kin
<1>4. ASSUME NEW a \in Addr PROVE Kids(a) \in Seq(Addr)
  <2>1. CASE a \in Used
    <3>1. heap[a].kids \in Seq(Addr)
      BY <1>2, <2>1 DEF Node
    <3> QED BY <1>2, <2>1, <3>1
  <2>2. CASE a \notin Used
    BY <1>3, <2>2, EmptySeq
  <2> QED BY <2>1, <2>2
<1> QED BY <1>2, <1>3, <1>4

(* No nodes hold one another in a circle: what is outside would have the   *)
(* root and the children of all it has, so it would have them too.         *)
LEMMA NoLoop ==
    ASSUME Blocks, Linked, NEW C \in SUBSET Used, \A b \in C : \E p \in C : b \in Kin(p)
    PROVE  C = {}
<1> DEFINE S == Addr \ C
<1>1. Used \subseteq Addr
  BY DEF Used
<1>2. root \in S
  BY <1>1 DEF Linked
<1>3. ASSUME NEW p \in S, NEW b \in Kin(p) PROVE b \in S
  <2>1. p \in Used
    BY <1>3, KidsFacts
  <2>2. b \in Used
    BY <1>3, <2>1 DEF Linked
  <2>3. b \notin C
    <3>1. SUFFICES ASSUME b \in C PROVE FALSE
      OBVIOUS
    <3>2. PICK q \in C : b \in Kin(q)
      BY <3>1
    <3>3. p = q
      BY <1>3, <2>1, <3>2 DEF Linked
    <3> QED BY <3>2, <3>3
  <2> QED BY <1>1, <2>2, <2>3
<1>4. Used \subseteq S
  <2> HIDE DEF S
  <2>1. S \in SUBSET Addr
    BY DEF S
  <2> QED BY <1>2, <1>3, <2>1 DEF Linked
<1> QED BY <1>4

Orders == {"depth", "turned", "breadth"}

(* The children before or behind the rest.                                 *)
LEMMA ThenIsSeq ==
    ASSUME NEW S, NEW kids \in Seq(S), NEW rest \in Seq(S), NEW order \in Orders
    PROVE  Then(order, kids, rest) \in Seq(S)
<1>1. Reverse(kids) \in Seq(S)
  <2> DEFINE n == Len(kids)
             r == Reverse(kids)
  <2>1. n \in Nat /\ kids \in [1 .. n -> S]
    BY LenProperties
  <2>2. r = [i \in 1 .. n |-> kids[(n - i) + 1]]
    BY DEF Reverse
  <2> HIDE DEF n, r
  <2>3. \A i \in 1 .. n : (n - i) + 1 \in 1 .. n
    BY <2>1
  <2>4. r \in [1 .. n -> S]
    BY <2>1, <2>2, <2>3
  <2>5. r \in Seq(S)
    BY <2>1, <2>4, IntervalIsSeq
  <2> QED BY <2>5 DEF r
<1>2. CASE order = "depth"
  BY <1>2, ConcatProperties DEF Then
<1>3. CASE order = "turned"
  BY <1>1, <1>3, ConcatProperties DEF Then
<1>4. CASE order = "breadth"
  BY <1>4, ConcatProperties DEF Then
<1> QED BY <1>2, <1>3, <1>4 DEF Orders

(* ... list them together, each once, when they list different nodes.     *)
LEMMA ThenLists ==
    ASSUME NEW K, NEW R, NEW kids, NEW rest, NEW order \in Orders,
           ListsOnce(kids, K), ListsOnce(rest, R), K \cap R = {}
    PROVE  ListsOnce(Then(order, kids, rest), K \cup R)
<1>1. ListsOnce(Reverse(kids), K)
  BY ListTurned
<1>2. CASE order = "depth"
  BY <1>2, ListsJoined DEF Then
<1>3. CASE order = "turned"
  BY <1>1, <1>3, ListsJoined DEF Then
<1>4. CASE order = "breadth"
  <2>1. ListsOnce(rest \o kids, R \cup K)
    BY ListsJoined
  <2>2. R \cup K = K \cup R
    OBVIOUS
  <2> QED BY <1>4, <2>1, <2>2 DEF Then
<1> QED BY <1>2, <1>3, <1>4 DEF Orders

(* One step of a walk, and all of them.                                    *)
Walk == [seen : Seq(Addr), left : Seq(Addr)]
Stepped(was, dropped, order) ==
    IF was.left = <<>> THEN was
    ELSE IF Head(was.left) \in dropped THEN [seen |-> was.seen, left |-> Tail(was.left)]
    ELSE [seen |-> Append(was.seen, Head(was.left)),
          left |-> Then(order, Kids(Head(was.left)), Tail(was.left))]
IsWalk(f, top, dropped, order) ==
    /\ f \in [0 .. Cardinality(Addr) -> Walk]
    /\ f[0] = [seen |-> <<>>, left |-> <<top>>]
    /\ \A t \in 1 .. Cardinality(Addr) : f[t] = Stepped(f[t - 1], dropped, order)

(* What EXCEPT leaves of a step.                                           *)
LEMMA LeftReplaced ==
    ASSUME NEW w \in Walk, NEW e
    PROVE  [w EXCEPT !.left = e] = [seen |-> w.seen, left |-> e]
<1>1. PICK s \in Seq(Addr), l \in Seq(Addr) : w = [seen |-> s, left |-> l]
  BY DEF Walk
<1> QED BY <1>1

(* The recursion of Visits has a solution, which takes these steps.        *)
LEMMA VisitsWalk ==
    ASSUME Blocks, NEW top \in Addr, NEW dropped, NEW order \in Orders
    PROVE  \E f : IsWalk(f, top, dropped, order)
                  /\ Visits(top, dropped, order) = f[Cardinality(Addr)].seen
<1> DEFINE N == Cardinality(Addr)
           r0 == [seen |-> <<>>, left |-> <<top>>]
           G(f) == [t \in 0 .. N |->
                      IF t = 0 THEN [seen |-> <<>>, left |-> <<top>>]
                      ELSE LET was == f[t - 1]
                               a == Head(was.left)
                           IN  IF was.left = <<>> THEN was
                               ELSE IF a \in dropped THEN [was EXCEPT !.left = Tail(@)]
                               ELSE [seen |-> Append(was.seen, a),
                                     left |-> Then(order, Kids(a), Tail(was.left))]]
           F == CHOOSE f : f = G(f)
           g == [p \in (1 .. N) \X Walk |-> Stepped(p[2], dropped, order)]
<1>1. N \in Nat
  BY TreeAssumption, FS_CardinalityType
<1>2. r0 \in Walk
  <2>1. <<>> \in Seq(Addr) /\ <<top>> \in Seq(Addr)
    BY EmptySeq
  <2> QED BY <2>1 DEF Walk
<1>3. ASSUME NEW w \in Walk PROVE Stepped(w, dropped, order) \in Walk
  <2>1. w.seen \in Seq(Addr) /\ w.left \in Seq(Addr)
    BY DEF Walk
  <2>2. CASE w.left = <<>>
    BY <2>2 DEF Stepped
  <2>3. CASE w.left # <<>>
    <3>1. Head(w.left) \in Addr /\ Tail(w.left) \in Seq(Addr)
      BY <2>1, <2>3, HeadTailProperties
    <3>2. Append(w.seen, Head(w.left)) \in Seq(Addr)
      BY <2>1, <3>1, AppendProperties
    <3>3. Then(order, Kids(Head(w.left)), Tail(w.left)) \in Seq(Addr)
      BY <3>1, KidsFacts, ThenIsSeq
    <3> QED BY <2>1, <2>3, <3>1, <3>2, <3>3 DEF Stepped, Walk
  <2> QED BY <2>2, <2>3
<1>4. g \in [(1 .. N) \X Walk -> Walk]
  BY <1>3
<1>5. \A t \in 1 .. N, w \in Walk : g[<<t, w>>] = Stepped(w, dropped, order)
  OBVIOUS
<1> HIDE DEF g, r0, N
<1>6. \E f : f = G(f)
  <2>1. PICK f : IsRecursion(f, Walk, N, r0, g)
    BY <1>1, <1>2, <1>4, RecursionExists
  <2>2. f \in [0 .. N -> Walk] /\ \A t \in 0 .. N : f[t] = IF t = 0 THEN r0 ELSE g[<<t, f[t - 1]>>]
    BY <2>1 DEF IsRecursion
  <2>3. ASSUME NEW t \in 0 .. N, t # 0 PROVE f[t] = Stepped(f[t - 1], dropped, order) /\ f[t - 1] \in Walk
    <3>1. t \in 1 .. N /\ t - 1 \in 0 .. N
      BY <1>1, <2>3
    <3> QED BY <1>5, <2>2, <2>3, <3>1
  <2>4. ASSUME NEW w \in Walk
        PROVE  Stepped(w, dropped, order)
                 = IF w.left = <<>> THEN w
                   ELSE IF Head(w.left) \in dropped THEN [w EXCEPT !.left = Tail(@)]
                   ELSE [seen |-> Append(w.seen, Head(w.left)),
                         left |-> Then(order, Kids(Head(w.left)), Tail(w.left))]
    <3>1. [w EXCEPT !.left = Tail(@)] = [seen |-> w.seen, left |-> Tail(w.left)]
      BY LeftReplaced
    <3> QED BY <3>1 DEF Stepped
  <2>5. f = G(f)
    BY <2>2, <2>3, <2>4, ZenonT(60) DEF r0
  <2> QED BY <2>5
<1>7. Visits(top, dropped, order) = F[N].seen
  BY DEF Visits, N
<1> HIDE DEF G
<1>8. F = G(F)
  BY <1>6
<1> HIDE DEF F
<1>9. \A t \in 0 .. N : F[t] = IF t = 0 THEN r0
                              ELSE IF F[t - 1].left = <<>> THEN F[t - 1]
                              ELSE IF Head(F[t - 1].left) \in dropped THEN [F[t - 1] EXCEPT !.left = Tail(@)]
                              ELSE [seen |-> Append(F[t - 1].seen, Head(F[t - 1].left)),
                                    left |-> Then(order, Kids(Head(F[t - 1].left)), Tail(F[t - 1].left))]
  BY <1>8, ZenonT(60) DEF G, r0
<1>10. F = [t \in 0 .. N |-> F[t]]
  BY <1>8 DEF G
<1>11. F[0] = r0
  <2>1. 0 \in 0 .. N
    BY <1>1
  <2> QED BY <1>9, <2>1, Zenon
<1>12. ASSUME NEW t \in 1 .. N, F[t - 1] \in Walk PROVE F[t] = Stepped(F[t - 1], dropped, order)
  <2> DEFINE w == F[t - 1]
  <2>1. t \in 0 .. N /\ t # 0
    BY <1>1
  <2>2. [w EXCEPT !.left = Tail(@)] = [seen |-> w.seen, left |-> Tail(w.left)]
    BY <1>12, LeftReplaced
  <2> QED BY <1>9, <2>1, <2>2 DEF Stepped
<1> DEFINE P == {t \in 0 .. N : F[t] \in Walk}
<1>13. 0 \in P
  BY <1>1, <1>2, <1>11
<1>14. ASSUME NEW t \in 0 .. N - 1, t \in P PROVE t + 1 \in P
  <2>1. t + 1 \in 1 .. N /\ t + 1 \in 0 .. N /\ (t + 1) - 1 = t
    BY <1>1
  <2>2. F[t + 1] = Stepped(F[t], dropped, order)
    <3>1. \E u \in 1 .. N : u = t + 1 /\ u - 1 = t
      BY <2>1
    <3> QED BY <1>12, <1>14, <3>1
  <2> QED BY <1>3, <1>14, <2>1, <2>2
<1>15. \A t \in 0 .. N : F[t] \in Walk
  <2>1. \A t \in 0 .. N : t \in P
    <3> HIDE DEF P
    <3> QED BY <1>1, <1>13, <1>14, InductionTo
  <2> QED BY <2>1
<1>16. IsWalk(F, top, dropped, order)
  <2>1. \A t \in 1 .. N : t - 1 \in 0 .. N
    BY <1>1
  <2>2. F \in [0 .. N -> Walk]
    BY <1>10, <1>15
  <2> QED BY <1>11, <1>12, <1>15, <2>1, <2>2 DEF IsWalk, r0, N
<1> QED BY <1>7, <1>16 DEF N
---------------------------------------------------------------------------
(* Whatever could not be queued, and in every order, a walk visits blocks  *)
(* that are allocated.                                                     *)
LEMMA WalkStaysInside ==
    ASSUME Blocks, Linked, NEW top \in Used, NEW dropped, NEW order \in Orders
    PROVE  Visits(top, dropped, order) \in Seq(Used)
<1> DEFINE N == Cardinality(Addr)
           Inside == [seen : Seq(Used), left : Seq(Used)]
<1>1. N \in Nat /\ top \in Addr
  BY TreeAssumption, FS_CardinalityType DEF Used
<1>2. PICK f : IsWalk(f, top, dropped, order) /\ Visits(top, dropped, order) = f[N].seen
  BY <1>1, VisitsWalk
<1>3. /\ f \in [0 .. N -> Walk]
      /\ f[0] = [seen |-> <<>>, left |-> <<top>>]
      /\ \A t \in 1 .. N : f[t] = Stepped(f[t - 1], dropped, order)
  BY <1>2 DEF IsWalk
<1> HIDE DEF N
<1>4. ASSUME NEW w \in Inside PROVE Stepped(w, dropped, order) \in Inside
  <2>1. w.seen \in Seq(Used) /\ w.left \in Seq(Used)
    OBVIOUS
  <2>2. CASE w.left = <<>>
    BY <2>2 DEF Stepped
  <2>3. CASE w.left # <<>>
    <3>1. Head(w.left) \in Used /\ Tail(w.left) \in Seq(Used)
      BY <2>1, <2>3, HeadTailProperties
    <3>2. Append(w.seen, Head(w.left)) \in Seq(Used)
      BY <2>1, <3>1, AppendProperties
    <3>3. Kids(Head(w.left)) \in Seq(Used)
      <4> DEFINE kids == Kids(Head(w.left))
      <4>1. kids \in Seq(Addr) /\ ToSet(kids) \subseteq Used
        BY <3>1, KidsFacts DEF Linked, Kin, Used
      <4>2. Len(kids) \in Nat /\ kids \in [1 .. Len(kids) -> Addr] /\ DOMAIN kids = 1 .. Len(kids)
        BY <4>1, LenProperties
      <4> HIDE DEF kids
      <4>3. kids \in [1 .. Len(kids) -> Used]
        BY <4>1, <4>2 DEF ToSet
      <4>4. kids \in Seq(Used)
        BY <4>2, <4>3, IntervalIsSeq
      <4> QED BY <4>4 DEF kids
    <3>4. Then(order, Kids(Head(w.left)), Tail(w.left)) \in Seq(Used)
      BY <3>1, <3>3, ThenIsSeq
    <3> QED BY <2>1, <2>3, <3>1, <3>2, <3>4 DEF Stepped
  <2> QED BY <2>2, <2>3
<1>5. f[0] \in Inside
  <2>1. <<>> \in Seq(Used) /\ <<top>> \in Seq(Used)
    BY EmptySeq
  <2> QED BY <1>3, <2>1
<1> HIDE DEF Inside
<1> DEFINE P == {t \in 0 .. N : f[t] \in Inside}
<1>6. 0 \in P
  BY <1>1, <1>5
<1>7. ASSUME NEW t \in 0 .. N - 1, t \in P PROVE t + 1 \in P
  <2>1. t + 1 \in 0 .. N /\ \E u \in 1 .. N : u = t + 1 /\ u - 1 = t
    <3>1. t + 1 \in 1 .. N /\ (t + 1) - 1 = t
      BY <1>1
    <3> QED BY <3>1
  <2>2. f[t + 1] = Stepped(f[t], dropped, order)
    BY <1>3, <2>1
  <2> QED BY <1>4, <1>7, <2>1, <2>2
<1>8. \A t \in 0 .. N : t \in P
  <2> HIDE DEF P
  <2> QED BY <1>1, <1>6, <1>7, InductionTo
<1>9. f[N] \in Inside
  <2>1. N \in 0 .. N
    BY <1>1
  <2> QED BY <1>8, <2>1
<1> QED BY <1>2, <1>9 DEF Inside

(* V is top with all that is below it.                                     *)
Subtree(top, V) ==
    /\ top \in V /\ V \subseteq Used
    /\ \A b \in V : Kin(b) \subseteq V
    /\ \A b \in V : b = top \/ \E p \in V : b \in Kin(p)

(* Where a walk of which nothing is dropped stands: V visited, W left.     *)
Between(w, top, V, W) ==
    /\ ListsOnce(w.seen, V) /\ ListsOnce(w.left, W)
    /\ V \cap W = {} /\ V \cup W \subseteq Used /\ top \in V \cup W
    /\ \A b \in V : Kin(b) \subseteq V \cup W
    /\ \A b \in V \cup W : b = top \/ \E p \in V : b \in Kin(p)

(* A step of the walk: no child of the node taken up has been met before,  *)
(* as it has no other holder, and top is above all.                        *)
LEMMA StepBetween ==
    ASSUME Blocks, Linked, NEW top \in Used, NEW order \in Orders,
           NEW w \in Walk, NEW V, NEW W, Between(w, top, V, W), w.left # <<>>
    PROVE  LET h == Head(w.left)
           IN  /\ Between(Stepped(w, {}, order), top, V \cup {h}, (W \ {h}) \cup Kin(h))
               /\ h \in W
<1> DEFINE h == Head(w.left)
           K == Kin(h)
           V2 == V \cup {h}
           W2 == (W \ {h}) \cup K
           w2 == Stepped(w, {}, order)
<1>1. /\ ListsOnce(w.seen, V) /\ ListsOnce(w.left, W)
      /\ V \cap W = {} /\ V \cup W \subseteq Used /\ top \in V \cup W
      /\ \A b \in V : Kin(b) \subseteq V \cup W
      /\ \A b \in V \cup W : b = top \/ \E p \in V : b \in Kin(p)
  BY DEF Between
<1>2. h \in W /\ ListsOnce(Tail(w.left), W \ {h})
  BY <1>1, ListEnds
<1>3. h \in Used /\ h \notin V
  BY <1>1, <1>2
<1>4. ListsOnce(Append(w.seen, h), V2)
  BY <1>1, <1>3, ListEnds
<1>5. ListsOnce(Kids(h), K)
  <2>1. Kids(h) \in Seq(Addr) /\ \A i, j \in DOMAIN Kids(h) : Kids(h)[i] = Kids(h)[j] => i = j
    BY <1>3, KidsFacts DEF Linked, Used
  <2> QED BY <2>1, DistinctIsList DEF Kin
<1>6. K \subseteq Used \ {root}
  BY <1>3 DEF Linked
<1> HIDE DEF h, K
<1>7. top \notin K
  <2> SUFFICES ASSUME top \in K PROVE FALSE
    OBVIOUS
  <2>1. \A b \in V2 : \E p \in V2 : b \in Kin(p)
    BY <1>1, <1>2 DEF K
  <2>2. V2 \in SUBSET Used /\ V2 # {}
    BY <1>1, <1>3
  <2> HIDE DEF V2
  <2> QED BY <2>1, <2>2, NoLoop
<1>8. ASSUME NEW b \in K PROVE b \notin V \cup W
  <2> SUFFICES ASSUME b \in V \cup W PROVE FALSE
    OBVIOUS
  <2>1. PICK p \in V : b \in Kin(p)
    BY <1>1, <1>7
  <2>2. p = h
    BY <1>1, <1>3, <1>8, <2>1 DEF Linked, K
  <2> QED BY <1>3, <2>1, <2>2
<1>9. ListsOnce(Then(order, Kids(h), Tail(w.left)), W2)
  <2>1. K \cap (W \ {h}) = {}
    BY <1>8
  <2>2. ListsOnce(Then(order, Kids(h), Tail(w.left)), K \cup (W \ {h}))
    BY <1>2, <1>5, <2>1, ThenLists
  <2>3. K \cup (W \ {h}) = W2
    OBVIOUS
  <2> QED BY <2>2, <2>3
<1>10. w2.seen = Append(w.seen, h) /\ w2.left = Then(order, Kids(h), Tail(w.left))
  BY DEF Stepped, h
<1>11. /\ V2 \cap W2 = {} /\ V2 \cup W2 \subseteq Used /\ top \in V2 \cup W2
  BY <1>1, <1>2, <1>3, <1>6, <1>8
<1>12. \A b \in V2 : Kin(b) \subseteq V2 \cup W2
  BY <1>1 DEF K
<1>13. \A b \in V2 \cup W2 : b = top \/ \E p \in V2 : b \in Kin(p)
  BY <1>1, <1>2 DEF K
<1>14. Between(w2, top, V2, W2)
  <2> HIDE DEF V2, W2, w2
  <2> QED BY <1>4, <1>9, <1>10, <1>11, <1>12, <1>13 DEF Between
<1> QED BY <1>2, <1>14 DEF h, K

(* A walk of which nothing is dropped visits the whole subtree, each node  *)
(* once: it has as many steps as there are blocks.                         *)
LEMMA WalkIsSubtree ==
    ASSUME Blocks, Linked, NEW top \in Used, NEW order \in Orders
    PROVE  \E V : Subtree(top, V) /\ ListsOnce(Visits(top, {}, order), V)
<1> DEFINE N == Cardinality(Addr)
<1>1. N \in Nat /\ top \in Addr /\ IsFiniteSet(Addr) /\ Used \subseteq Addr
  BY TreeAssumption, FS_CardinalityType DEF Used
<1>2. PICK f : IsWalk(f, top, {}, order) /\ Visits(top, {}, order) = f[N].seen
  BY <1>1, VisitsWalk
<1>3. /\ f \in [0 .. N -> Walk]
      /\ f[0] = [seen |-> <<>>, left |-> <<top>>]
      /\ \A t \in 1 .. N : f[t] = Stepped(f[t - 1], {}, order)
  BY <1>2 DEF IsWalk
<1> HIDE DEF N
<1> DEFINE At(t) == \E V, W : Between(f[t], top, V, W) /\ (Cardinality(V) = t \/ W = {})
           P == {t \in 0 .. N : At(t)}
<1>4. 0 \in P
  <2>1. f[0].seen = <<>> /\ f[0].left = <<top>>
    BY <1>3
  <2>2. Between(f[0], top, {}, {top})
    BY <2>1, ShortLists DEF Between
  <2> QED BY <1>1, <2>2, FS_EmptySet
<1>5. ASSUME NEW t \in 0 .. N - 1, t \in P PROVE t + 1 \in P
  <2>1. t + 1 \in 0 .. N /\ t \in 0 .. N /\ \E u \in 1 .. N : u = t + 1 /\ u - 1 = t
    <3>1. t + 1 \in 1 .. N /\ (t + 1) - 1 = t
      BY <1>1
    <3> QED BY <1>1, <3>1
  <2>2. f[t + 1] = Stepped(f[t], {}, order)
    BY <1>3, <2>1
  <2> DEFINE w == f[t]
  <2>3. w \in Walk
    BY <1>3, <2>1
  <2>4. PICK V, W : Between(w, top, V, W) /\ (Cardinality(V) = t \/ W = {})
    BY <1>5
  <2>5. w.left = <<>> <=> W = {}
    BY <2>4, ListedOnce DEF Between
  <2>6. CASE w.left = <<>>
    <3>1. f[t + 1] = w
      BY <2>2, <2>6 DEF Stepped
    <3> QED BY <2>1, <2>4, <2>5, <2>6, <3>1
  <2>7. CASE w.left # <<>>
    <3> HIDE DEF w
    <3> DEFINE h == Head(w.left)
               V2 == V \cup {h}
               W2 == (W \ {h}) \cup Kin(h)
    <3>1. Between(Stepped(w, {}, order), top, V2, W2) /\ h \in W
      BY <2>3, <2>4, <2>7, StepBetween
    <3>2. IsFiniteSet(V) /\ V \cap W = {}
      BY <2>4, ListedOnce DEF Between
    <3>3. Cardinality(V2) = t + 1
      <4>1. h \notin V /\ Cardinality(V) = t
        BY <2>4, <2>5, <2>7, <3>1, <3>2
      <4> HIDE DEF h
      <4> QED BY <3>2, <4>1, FS_AddElement
    <3>4. Between(f[t + 1], top, V2, W2)
      BY <2>2, <3>1 DEF w
    <3> QED BY <2>1, <3>3, <3>4
  <2> QED BY <2>6, <2>7
<1>6. \A t \in 0 .. N : t \in P
  <2> HIDE DEF P
  <2> QED BY <1>1, <1>4, <1>5, InductionTo
<1>7. At(N)
  <2>1. N \in 0 .. N
    BY <1>1
  <2> QED BY <1>6, <2>1
<1>8. PICK V, W : Between(f[N], top, V, W) /\ (Cardinality(V) = N \/ W = {})
  BY <1>7
<1>9. W = {}
  <2>1. CASE Cardinality(V) = N
    <3>1. V \in SUBSET Addr /\ V \cap W = {} /\ W \subseteq Addr
      BY <1>1, <1>8 DEF Between
    <3>2. V = Addr
      BY <1>1, <2>1, <3>1, FS_Subset DEF N
    <3> QED BY <3>1, <3>2
  <2> QED BY <1>8, <2>1
<1>10. Subtree(top, V) /\ ListsOnce(f[N].seen, V)
  BY <1>8, <1>9 DEF Between, Subtree
<1> QED BY <1>2, <1>10
---------------------------------------------------------------------------
(* A block has room for its children, and their parent pointers are right  *)
(* but for those hung before it last grew.                                 *)
ParentsFit ==
    \A p \in Used : /\ Len(Kids(p)) <= heap[p].cap /\ heap[p].cap # 1
                    /\ \A i \in DOMAIN Kids(p) : \/ heap[Kids(p)[i]].parent = p
                                                 \/ heap[p].cap > 2 /\ 2 * i <= heap[p].cap

(* The inductive invariant.                                                *)
TreeInv ==
    /\ Blocks
    /\ root \in Addr \cup {Null} /\ num_el \in Nat
    /\ fault \in {"none", "old_parent", "root_deleted", "empty"}
    /\ ParentsFit
    /\ IF root = Null \/ ~Alive THEN Used = {}
       ELSE Linked /\ num_el >= Cardinality(Used) - 1

(* A subtree from the root has every block.                                *)
LEMMA WholeTree ==
    ASSUME Blocks, Linked
    PROVE  /\ ListsOnce(DepthFirst(root), Used)
           /\ \A b \in Used : b = root \/ \E p \in Used : b \in Kin(p)
<1>1. root \in Used
  BY DEF Linked
<1>2. PICK V : Subtree(root, V) /\ ListsOnce(Visits(root, {}, "depth"), V)
  BY <1>1, WalkIsSubtree DEF Orders
<1>3. /\ root \in V /\ V \subseteq Used
      /\ \A b \in V : Kin(b) \subseteq V
      /\ \A b \in V : b = root \/ \E p \in V : b \in Kin(p)
  BY <1>2 DEF Subtree
<1>4. V \in SUBSET Addr
  BY <1>3 DEF Used
<1>5. Used \subseteq V
  BY <1>3, <1>4 DEF Linked
<1>6. V = Used
  BY <1>3, <1>5
<1> QED BY <1>2, <1>3, <1>6 DEF DepthFirst

(* The nodes of the tree are the blocks allocated.                         *)
LEMMA NodesAreUsed ==
    ASSUME TreeInv
    PROVE  Nodes = Used
<1>1. CASE root = Null \/ ~Alive
  BY <1>1 DEF Nodes, TreeInv
<1>2. CASE ~(root = Null \/ ~Alive)
  <2>1. ListsOnce(DepthFirst(root), Used)
    BY <1>2, WholeTree DEF TreeInv
  <2> QED BY <1>2, <2>1, ListedOnce DEF Nodes
<1> QED BY <1>1, <1>2

(* The node a search finds is one of them.                                 *)
LEMMA FoundInside ==
    ASSUME TreeInv, Alive, NEW how \in Searches, NEW k
    PROVE  Found(how, k) \subseteq Used \cup {Null}
<1> SUFFICES ASSUME NEW d \in Dropped(how)
             PROVE  LET met == Visited(how, d)
                        i == SelectInSeq(met, LAMBDA a : heap[a].key = k)
                    IN  (IF i = 0 THEN Null ELSE met[i]) \in Used \cup {Null}
  BY DEF Found
<1> DEFINE met == Visited(how, d)
           I == {i \in 1 .. Len(met) : heap[met[i]].key = k}
<1>1. met \in Seq(Used)
  <2>1. CASE root = Null
    BY <2>1, EmptySeq DEF Visited
  <2>2. CASE root # Null
    <3>1. Blocks /\ Linked /\ root \in Used
      BY <2>2 DEF TreeInv, Linked
    <3>2. Visits(root, {}, "depth") \in Seq(Used) /\ Visits(root, d, "breadth") \in Seq(Used)
      BY <3>1, WalkStaysInside DEF Orders
    <3> QED BY <2>2, <3>2 DEF Visited, DepthFirst, BreadthFirst
  <2> QED BY <2>1, <2>2
<1>2. SelectInSeq(met, LAMBDA a : heap[a].key = k) = IF I # {} THEN Min(I) ELSE 0
  BY DEF SelectInSeq
<1> HIDE DEF met
<1>3. I # {} => Min(I) \in I
  <2> SUFFICES ASSUME I # {} PROVE Min(I) \in I
    OBVIOUS
  <2>1. I \in SUBSET Nat /\ \A x \in I : x \in Int
    BY <1>1, LenProperties
  <2> HIDE DEF I
  <2>2. \E x \in I : \A y \in I : x <= y
    BY <2>1, LeastNatural
  <2> QED BY <2>2 DEF Min
<1>4. I # {} => Min(I) \in 1 .. Len(met)
  BY <1>3
<1>5. \A i \in 1 .. Len(met) : met[i] \in Used
  BY <1>1, ElementOfSeq
<1> HIDE DEF I
<1> QED BY <1>2, <1>4, <1>5 DEF met

(* The slot a search returns is in the one node that has the found one     *)
(* among its children.                                                     *)
LEMMA HolderIs ==
    ASSUME TreeInv, Alive, root # Null, NEW a \in Used \ {root}
    PROVE  /\ Holder(a) \in Used /\ a \in Kin(Holder(a))
           /\ \A p \in Used : a \in Kin(p) => p = Holder(a)
<1>1. Blocks /\ Linked /\ Nodes = Used
  BY NodesAreUsed DEF TreeInv
<1>2. \E p \in Nodes : a \in ToSet(Kids(p))
  BY <1>1, WholeTree DEF Kin
<1>3. Holder(a) \in Used /\ a \in Kin(Holder(a))
  BY <1>1, <1>2 DEF Holder, Kin
<1>4. ASSUME NEW p \in Used, a \in Kin(p) PROVE p = Holder(a)
  BY <1>1, <1>3, <1>4 DEF Linked
<1> QED BY <1>3, <1>4

(* What is freed with a node is all that is below it.                      *)
LEMMA FreedSubtree ==
    ASSUME Blocks, Linked, NEW a \in Used
    PROVE  Subtree(a, ToSet(ChildrenFirst(a)))
<1>1. PICK V : Subtree(a, V) /\ ListsOnce(Visits(a, {}, "turned"), V)
  BY WalkIsSubtree DEF Orders
<1>2. ListsOnce(ChildrenFirst(a), V)
  BY <1>1, ListTurned DEF ChildrenFirst
<1> QED BY <1>1, <1>2, ListedOnce

(* What the runs state follows from the invariant.                         *)
LEMMA InvImplies ==
    ASSUME TreeInv
    PROVE  TypeOK /\ IsTree /\ OldParents /\ NumElCovers
<1>1. Nodes = Used /\ Blocks
  BY NodesAreUsed DEF TreeInv
<1>2. TypeOK
  <2>1. ASSUME NEW a \in Addr, heap[a] # Null
        PROVE  /\ heap[a].key \in Key /\ heap[a].cap \in Nat
               /\ heap[a].kids \in Seq(Addr) /\ heap[a].parent \in Addr \cup {Null}
    <3>1. heap[a] \in Node
      BY <1>1, <2>1 DEF Blocks
    <3> QED BY <3>1 DEF Node
  <2> QED BY <2>1 DEF TypeOK, TreeInv
<1>3. IsTree
  <2>1. ASSUME Nodes # {} PROVE Len(DepthFirst(root)) = Cardinality(Nodes)
    <3>1. ListsOnce(DepthFirst(root), Used)
      BY <1>1, <2>1, WholeTree DEF TreeInv
    <3> QED BY <1>1, <3>1, ListedOnce
  <2> QED BY <1>1, <2>1 DEF IsTree, Used
<1>4. OldParents
  BY <1>1 DEF OldParents, TreeInv, ParentsFit
<1>5. NumElCovers
  BY <1>1 DEF NumElCovers, TreeInv
<1> QED BY <1>2, <1>3, <1>4, <1>5
---------------------------------------------------------------------------
(* What Linked says of the blocks U, the root r and the children K.        *)
Hangs(U, r, K) ==
    /\ r \in U
    /\ \A p \in U : K[p] \subseteq U \ {r}
    /\ \A p, q \in U : K[p] \cap K[q] # {} => p = q
    /\ \A S \in SUBSET Addr : r \in S /\ (\A p \in S : K[p] \subseteq S) => U \subseteq S

(* A new node n under p, which moves to q.                                 *)
LEMMA GraftHangs ==
    ASSUME NEW U \in SUBSET Addr, NEW r, NEW K, Hangs(U, r, K),
           NEW p \in U, NEW n \in Addr \ U, NEW q \in Addr, q = p \/ q \notin U \cup {n},
           NEW K2, K2[n] = {}, p \notin K[p], K2[q] = K[p] \cup {n},
           \A a \in U \ {p} : K2[a] = {IF b = p THEN q ELSE b : b \in K[a]}
    PROVE  Hangs(((U \ {p}) \cup {q}) \cup {n}, IF r = p THEN q ELSE r, K2)
<1> DEFINE To(b) == IF b = p THEN q ELSE b
           U2 == ((U \ {p}) \cup {q}) \cup {n}
           r2 == IF r = p THEN q ELSE r
<1>1. /\ r \in U
      /\ \A a \in U : K[a] \subseteq U \ {r}
      /\ \A a, b \in U : K[a] \cap K[b] # {} => a = b
      /\ \A S \in SUBSET Addr : r \in S /\ (\A a \in S : K[a] \subseteq S) => U \subseteq S
  BY DEF Hangs
<1>2. /\ \A a \in U : To(a) \in U2 /\ To(a) # n
      /\ \A a, b \in U : To(a) = To(b) => a = b
      /\ \A x \in U2 : x = n \/ \E a \in U : x = To(a)
      /\ r2 = To(r) /\ n \in U2 /\ q = To(p)
  OBVIOUS
<1>3. ASSUME NEW a \in U, NEW x
      PROVE  x \in K2[To(a)] <=> (\E b \in K[a] : x = To(b)) \/ (a = p /\ x = n)
  <2>1. CASE a = p
    <3>1. K2[To(a)] = K[p] \cup {n}
      BY <2>1
    <3>2. \A b \in K[p] : To(b) = b
      OBVIOUS
    <3> QED BY <2>1, <3>1, <3>2
  <2>2. CASE a # p
    <3>1. K2[To(a)] = {To(b) : b \in K[a]}
      BY <2>2
    <3> QED BY <2>2, <3>1
  <2> QED BY <2>1, <2>2
<1> HIDE DEF To, U2, r2
<1>4. r2 \in U2
  BY <1>1, <1>2
<1>5. ASSUME NEW x \in U2 PROVE K2[x] \subseteq U2 \ {r2}
  <2>1. CASE x = n
    BY <2>1
  <2>2. CASE x # n
    <3>1. PICK a \in U : x = To(a)
      BY <1>2, <2>2
    <3>2. ASSUME NEW y \in K2[x] PROVE y \in U2 \ {r2}
      <4>1. CASE a = p /\ y = n
        BY <1>1, <1>2, <4>1
      <4>2. CASE ~(a = p /\ y = n)
        <5>1. PICK b \in K[a] : y = To(b)
          BY <1>3, <3>1, <3>2, <4>2
        <5>2. b \in U /\ b # r
          BY <1>1, <5>1
        <5> QED BY <1>1, <1>2, <5>1, <5>2
      <4> QED BY <4>1, <4>2
    <3> QED BY <3>2
  <2> QED BY <2>1, <2>2
<1>6. ASSUME NEW x \in U2, NEW y \in U2, K2[x] \cap K2[y] # {} PROVE x = y
  <2>1. PICK z : z \in K2[x] /\ z \in K2[y]
    BY <1>6
  <2>2. x # n /\ y # n
    BY <2>1
  <2>3. PICK a \in U, b \in U : x = To(a) /\ y = To(b)
    BY <1>2, <2>2
  <2>4. /\ (\E c \in K[a] : z = To(c)) \/ (a = p /\ z = n)
        /\ (\E c \in K[b] : z = To(c)) \/ (b = p /\ z = n)
    BY <1>3, <2>1, <2>3
  <2>5. CASE z = n
    <3>1. \A c \in K[a] \cup K[b] : c \in U
      BY <1>1
    <3> QED BY <1>2, <2>3, <2>4, <2>5, <3>1
  <2>6. CASE z # n
    <3>1. PICK c \in K[a], d \in K[b] : z = To(c) /\ z = To(d)
      BY <2>4, <2>6
    <3>2. c = d
      BY <1>1, <1>2, <3>1
    <3> QED BY <1>1, <2>3, <3>1, <3>2
  <2> QED BY <2>5, <2>6
<1>7. ASSUME NEW S \in SUBSET Addr, r2 \in S, \A x \in S : K2[x] \subseteq S PROVE U2 \subseteq S
  <2> DEFINE R == {a \in U : To(a) \in S}
  <2>1. R \in SUBSET Addr /\ r \in R
    BY <1>1, <1>2, <1>7
  <2>2. ASSUME NEW a \in R, NEW b \in K[a] PROVE b \in R
    <3>1. a \in U /\ b \in U
      BY <1>1
    <3>2. To(b) \in K2[To(a)]
      BY <1>3, <3>1
    <3> QED BY <1>7, <3>1, <3>2
  <2>3. U \subseteq R
    <3> HIDE DEF R
    <3> QED BY <1>1, <2>1, <2>2
  <2>4. n \in K2[q] /\ q \in S
    BY <1>2, <2>3
  <2>5. n \in S
    BY <1>7, <2>4
  <2> QED BY <1>2, <2>3, <2>5
<1>8. Hangs(U2, r2, K2)
  BY <1>4, <1>5, <1>6, <1>7 DEF Hangs
<1> QED BY <1>8 DEF U2, r2

(* A subtree from a taken out of p.                                        *)
LEMMA PruneHangs ==
    ASSUME NEW U \in SUBSET Addr, NEW r, NEW K, Hangs(U, r, K),
           NEW D \in SUBSET U, NEW a \in D, a # r, \A b \in D : K[b] \subseteq D,
           \A b \in D : b = a \/ \E x \in D : b \in K[x],
           NEW p \in U \ D, a \in K[p], NEW K2, K2[p] = K[p] \ {a},
           \A x \in (U \ D) \ {p} : K2[x] = K[x]
    PROVE  Hangs(U \ D, r, K2)
<1>1. /\ r \in U
      /\ \A x \in U : K[x] \subseteq U \ {r}
      /\ \A x, y \in U : K[x] \cap K[y] # {} => x = y
      /\ \A S \in SUBSET Addr : r \in S /\ (\A x \in S : K[x] \subseteq S) => U \subseteq S
  BY DEF Hangs
<1>2. r \in U \ D
  BY <1>1
<1>3. ASSUME NEW x \in U \ D, NEW b \in K[x], b \in D PROVE x = p /\ b = a
  <2>1. b = a
    <3> SUFFICES ASSUME b # a PROVE FALSE
      OBVIOUS
    <3>1. PICK y \in D : b \in K[y]
      BY <1>3
    <3> QED BY <1>1, <1>3, <3>1
  <2> QED BY <1>1, <1>3, <2>1
<1>4. ASSUME NEW x \in U \ D PROVE K2[x] = K[x] \ {a} /\ K2[x] \subseteq U \ D
  <2>1. K2[x] = K[x] \ {a}
    <3>1. CASE x = p
      BY <3>1
    <3>2. CASE x # p
      <4>1. a \notin K[x]
        BY <1>1, <3>2
      <4> QED BY <3>2, <4>1
    <3> QED BY <3>1, <3>2
  <2> QED BY <1>1, <1>3, <2>1
<1>5. \A x \in U \ D : K2[x] \subseteq (U \ D) \ {r}
  BY <1>1, <1>4
<1>6. \A x, y \in U \ D : K2[x] \cap K2[y] # {} => x = y
  BY <1>1, <1>4
<1>7. ASSUME NEW S \in SUBSET Addr, r \in S, \A x \in S : K2[x] \subseteq S PROVE U \ D \subseteq S
  <2> DEFINE R == (S \cap (U \ D)) \cup D
  <2>1. R \in SUBSET Addr /\ r \in R
    BY <1>2, <1>7
  <2>2. ASSUME NEW x \in R PROVE K[x] \subseteq R
    <3>1. CASE x \in D
      BY <3>1
    <3>2. CASE x \notin D
      <4>1. x \in S /\ x \in U \ D
        BY <3>2
      <4>2. K2[x] \subseteq S /\ K2[x] = K[x] \ {a} /\ K2[x] \subseteq U \ D
        BY <1>4, <1>7, <4>1
      <4> QED BY <4>2
    <3> QED BY <3>1, <3>2
  <2>3. U \subseteq R
    <3> HIDE DEF R
    <3> QED BY <1>1, <2>1, <2>2
  <2> QED BY <2>3
<1> QED BY <1>2, <1>5, <1>6, <1>7 DEF Hangs
---------------------------------------------------------------------------
(* Node n under p, whose block moves to q when it grows.                   *)
Grafted(n, p, q, k) ==
    /\ root' = IF root = p THEN q ELSE root
    /\ heap' \in [Addr -> Node \cup {Null}]
    /\ \A a \in Addr : heap'[a] # Null <=> a \in {q, n} \/ (a \in Used /\ a # p)
    /\ heap'[n] = Leaf(k, q)
    /\ heap'[q].kids = Append(Kids(p), n)
    /\ heap'[q].parent = heap[p].parent /\ heap'[q].key = heap[p].key
    /\ \/ Len(Kids(p)) < heap[p].cap /\ q = p /\ heap'[q].cap = heap[p].cap
       \/ Len(Kids(p)) = heap[p].cap /\ heap'[q].cap = IF heap[p].cap = 0 THEN 2 ELSE 2 * heap[p].cap
    /\ \A a \in Used \ {p} :
          /\ heap'[a].cap = heap[a].cap /\ heap'[a].parent = heap[a].parent
          /\ heap'[a].key = heap[a].key
          /\ heap'[a].kids = [i \in DOMAIN Kids(a) |-> IF Kids(a)[i] = p THEN q ELSE Kids(a)[i]]

(* No node is its own child.                                               *)
LEMMA NotOwnChild ==
    ASSUME Blocks, Linked, NEW p \in Used
    PROVE  p \notin Kin(p)
<1> SUFFICES ASSUME p \in Kin(p) PROVE FALSE
  OBVIOUS
<1>1. {p} \in SUBSET Used /\ \A b \in {p} : \E x \in {p} : b \in Kin(x)
  OBVIOUS
<1>2. {p} = {}
  BY <1>1, NoLoop
<1> QED BY <1>2

(* Hanging a node under one with room is such a step, without a move ...   *)
LEMMA HangGrafts ==
    ASSUME TreeInv, NEW p \in Used, NEW n \in Addr \ Used, NEW k \in Key, Linked,
           Hang(n, p, k)
    PROVE  Grafted(n, p, p, k)
<1>1. Blocks /\ p \in Addr /\ p # n /\ heap[p] \in Node /\ Kids(p) = heap[p].kids
  BY KidsFacts DEF TreeInv, Used
<1>2. heap[p].kids \in Seq(Addr) /\ heap[p].cap \in Nat /\ heap[p].parent \in Addr \cup {Null} /\ heap[p].key \in Key
  BY <1>1 DEF Node
<1>3. Append(heap[p].kids, n) \in Seq(Addr) /\ <<>> \in Seq(Addr)
  BY <1>2, AppendProperties, EmptySeq
<1> DEFINE grown == [heap[p] EXCEPT !.kids = Append(@, n)]
<1>4. heap' = [heap EXCEPT ![n] = Leaf(k, p), ![p].kids = Append(@, n)]
  BY DEF Hang
<1>5. /\ heap'[n] = Leaf(k, p) /\ heap'[p] = grown
      /\ \A a \in Addr \ {n, p} : heap'[a] = heap[a]
      /\ heap' = [a \in Addr |-> heap'[a]]
  BY <1>1, <1>4 DEF Blocks
<1>6. Leaf(k, p) \in Node
  BY <1>1, <1>3 DEF Leaf, Node
<1>7. /\ grown \in Node /\ grown.kids = Append(heap[p].kids, n)
      /\ grown.cap = heap[p].cap /\ grown.parent = heap[p].parent /\ grown.key = heap[p].key
  BY <1>1, <1>2, <1>3 DEF Node
<1> HIDE DEF grown
<1>8. heap' \in [Addr -> Node \cup {Null}]
  <2>1. \A a \in Addr : heap'[a] \in Node \cup {Null}
    BY <1>1, <1>5, <1>6, <1>7 DEF Blocks
  <2> QED BY <1>5, <2>1
<1>9. \A a \in Addr : heap'[a] # Null <=> a \in {p, n} \/ (a \in Used /\ a # p)
  BY <1>5, <1>6, <1>7, TreeAssumption DEF Used
<1>10. ASSUME NEW a \in Used \ {p}
       PROVE  /\ heap'[a] = heap[a]
              /\ heap'[a].kids = [i \in DOMAIN Kids(a) |-> IF Kids(a)[i] = p THEN p ELSE Kids(a)[i]]
  <2>1. a \in Addr /\ a # n
    BY DEF Used
  <2>2. heap'[a] = heap[a] /\ Kids(a) = heap[a].kids /\ Kids(a) \in Seq(Addr)
    BY <1>1, <1>5, <2>1, KidsFacts
  <2>3. Kids(a) = [i \in DOMAIN Kids(a) |-> Kids(a)[i]]
    BY <2>2, LenProperties
  <2> QED BY <2>2, <2>3
<1>11. Len(Kids(p)) < heap[p].cap /\ UNCHANGED root
  BY DEF Hang
<1> QED BY <1>1, <1>5, <1>7, <1>8, <1>9, <1>10, <1>11 DEF Grafted

(* ... and under one that must grow, with the move realloc chooses.        *)
LEMMA GrowGrafts ==
    ASSUME TreeInv, NEW p \in Used, NEW n \in Addr \ Used, NEW k \in Key, Linked,
           GrowAndHang(n, p, k)
    PROVE  \E q \in Addr : (q = p \/ q \notin Used \cup {n}) /\ Grafted(n, p, q, k)
<1>1. Blocks /\ p \in Addr /\ p # n /\ heap[p] \in Node /\ Kids(p) = heap[p].kids
  BY KidsFacts DEF TreeInv, Used
<1>2. heap[p].kids \in Seq(Addr) /\ heap[p].cap \in Nat /\ heap[p].parent \in Addr \cup {Null} /\ heap[p].key \in Key
  BY <1>1 DEF Node
<1>3. Append(heap[p].kids, n) \in Seq(Addr) /\ <<>> \in Seq(Addr)
  BY <1>2, AppendProperties, EmptySeq
<1> DEFINE grown == [heap[p] EXCEPT !.cap = IF @ = 0 THEN 2 ELSE 2 * @, !.kids = Append(@, n)]
           Follow(q, a) == IF heap[a] = Null THEN Null
                           ELSE [heap[a] EXCEPT !.kids = [i \in DOMAIN @ |-> IF @[i] = p THEN q ELSE @[i]]]
<1>4. PICK q \in {p} \cup (Unused \ {n}) :
          /\ heap' = [a \in Addr |-> IF a = q THEN grown ELSE IF a = n THEN Leaf(k, q)
                                     ELSE IF a = p THEN Null ELSE Follow(q, a)]
          /\ root' = IF root = p THEN q ELSE root
  BY DEF GrowAndHang
<1>5. q \in Addr /\ (q = p \/ q \notin Used \cup {n}) /\ q # n
  BY <1>1, <1>4 DEF Unused, Used
<1>6. /\ grown \in Node /\ grown.kids = Append(heap[p].kids, n)
      /\ grown.cap = (IF heap[p].cap = 0 THEN 2 ELSE 2 * heap[p].cap)
      /\ grown.parent = heap[p].parent /\ grown.key = heap[p].key
  <2> DEFINE c == IF heap[p].cap = 0 THEN 2 ELSE 2 * heap[p].cap
             e == Append(heap[p].kids, n)
  <2>1. c \in Nat
    BY <1>2
  <2>2. grown = [heap[p] EXCEPT !.cap = c, !.kids = e]
    OBVIOUS
  <2>3. e \in Seq(Addr)
    BY <1>3
  <2> HIDE DEF grown, c, e
  <2>4. grown \in Node /\ grown.kids = e /\ grown.cap = c /\ grown.parent = heap[p].parent
        /\ grown.key = heap[p].key
    BY <1>1, <1>2, <2>1, <2>2, <2>3 DEF Node
  <2> QED BY <2>4 DEF c, e
<1> HIDE DEF grown
<1>7. Leaf(k, q) \in Node
  BY <1>3, <1>5 DEF Leaf, Node
<1>8. ASSUME NEW a \in Used
      PROVE  /\ Follow(q, a) \in Node
             /\ Follow(q, a).cap = heap[a].cap /\ Follow(q, a).parent = heap[a].parent
             /\ Follow(q, a).key = heap[a].key
             /\ Follow(q, a).kids = [i \in DOMAIN Kids(a) |-> IF Kids(a)[i] = p THEN q ELSE Kids(a)[i]]
  <2> DEFINE s == heap[a].kids
             w == [i \in DOMAIN s |-> IF s[i] = p THEN q ELSE s[i]]
  <2>1. heap[a] # Null /\ heap[a] \in Node /\ Kids(a) = s
    BY <1>1, KidsFacts DEF Used
  <2>2. s \in Seq(Addr)
    BY <2>1 DEF Node
  <2>3. Len(s) \in Nat /\ DOMAIN s = 1 .. Len(s) /\ s \in [1 .. Len(s) -> Addr]
    BY <2>2, LenProperties
  <2>4. w \in [1 .. Len(s) -> Addr]
    BY <1>5, <2>3
  <2>5. w \in Seq(Addr)
    <3> HIDE DEF w
    <3> QED BY <2>3, <2>4, IntervalIsSeq
  <2>6. Follow(q, a) = [heap[a] EXCEPT !.kids = w]
    BY <2>1
  <2> HIDE DEF w
  <2>7. [heap[a] EXCEPT !.kids = w] \in Node
    BY <2>1, <2>5 DEF Node
  <2>8. /\ [heap[a] EXCEPT !.kids = w].kids = w
        /\ [heap[a] EXCEPT !.kids = w].cap = heap[a].cap
        /\ [heap[a] EXCEPT !.kids = w].parent = heap[a].parent
        /\ [heap[a] EXCEPT !.kids = w].key = heap[a].key
    BY <2>1 DEF Node
  <2> QED BY <2>1, <2>6, <2>7, <2>8 DEF w
<1>9. \A a \in Addr : a \notin Used => Follow(q, a) = Null
  BY DEF Used
<1> HIDE DEF Follow
<1>10. /\ heap'[q] = grown /\ heap'[n] = Leaf(k, q)
       /\ \A a \in Addr \ {q, n, p} : heap'[a] = Follow(q, a)
       /\ p # q => heap'[p] = Null
       /\ heap' = [a \in Addr |-> heap'[a]]
  BY <1>1, <1>4, <1>5
<1>11. heap' \in [Addr -> Node \cup {Null}]
  <2>1. \A a \in Addr : heap'[a] \in Node \cup {Null}
    BY <1>6, <1>7, <1>8, <1>9, <1>10
  <2> QED BY <1>10, <2>1
<1>12. ASSUME NEW a \in Addr
       PROVE  heap'[a] # Null <=> a \in {q, n} \/ (a \in Used /\ a # p)
  <2>1. CASE a \in {q, n}
    BY <1>6, <1>7, <1>10, <2>1, TreeAssumption
  <2>2. CASE a \notin {q, n} /\ a = p
    BY <1>10, <2>2
  <2>3. CASE a \notin {q, n} /\ a # p /\ a \in Used
    BY <1>8, <1>10, <2>3, TreeAssumption
  <2>4. CASE a \notin {q, n} /\ a # p /\ a \notin Used
    BY <1>9, <1>10, <2>4
  <2> QED BY <2>1, <2>2, <2>3, <2>4
<1>13. \A a \in Used \ {p} : heap'[a] = Follow(q, a)
  BY <1>5, <1>10 DEF Used
<1>14. Len(Kids(p)) = heap[p].cap
  BY DEF GrowAndHang
<1>15. \A a \in Used \ {p} :
          /\ heap'[a].cap = heap[a].cap /\ heap'[a].parent = heap[a].parent
          /\ heap'[a].key = heap[a].key
          /\ heap'[a].kids = [i \in DOMAIN Kids(a) |-> IF Kids(a)[i] = p THEN q ELSE Kids(a)[i]]
  BY <1>8, <1>13
<1>16. heap'[q].kids = Append(Kids(p), n) /\ heap'[q].parent = heap[p].parent
       /\ heap'[q].key = heap[p].key
       /\ heap'[q].cap = (IF heap[p].cap = 0 THEN 2 ELSE 2 * heap[p].cap)
  BY <1>1, <1>6, <1>10
<1>17. Grafted(n, p, q, k)
  BY <1>4, <1>10, <1>11, <1>12, <1>14, <1>15, <1>16 DEF Grafted
<1> QED BY <1>5, <1>17

(* The children before and after the step.                                 *)
LEMMA GraftedKids ==
    ASSUME TreeInv, Linked, NEW p \in Used, NEW n \in Addr \ Used,
           NEW q \in Addr, q = p \/ q \notin Used \cup {n}, NEW k \in Key, Grafted(n, p, q, k)
    PROVE  /\ Used' = ((Used \ {p}) \cup {q}) \cup {n}
           /\ Kids(n)' = <<>> /\ Kids(q)' = Append(Kids(p), n)
           /\ \A a \in Used \ {p} :
                 Kids(a)' = [i \in DOMAIN Kids(a) |-> IF Kids(a)[i] = p THEN q ELSE Kids(a)[i]]
           /\ Kin(n)' = {} /\ Kin(q)' = Kin(p) \cup {n}
           /\ \A a \in Used \ {p} : Kin(a)' = {IF b = p THEN q ELSE b : b \in Kin(a)}
           /\ n # q /\ p \in Addr
<1>1. Blocks /\ p \in Addr /\ n # p /\ n # q /\ Used \subseteq Addr
  BY DEF TreeInv, Used
<1>2. /\ \A a \in Addr : heap'[a] # Null <=> a \in {q, n} \/ (a \in Used /\ a # p)
      /\ heap'[n] = Leaf(k, q) /\ heap'[q].kids = Append(Kids(p), n)
      /\ \A a \in Used \ {p} :
           heap'[a].kids = [i \in DOMAIN Kids(a) |-> IF Kids(a)[i] = p THEN q ELSE Kids(a)[i]]
  BY DEF Grafted
<1>3. Used' = ((Used \ {p}) \cup {q}) \cup {n}
  <2>1. Used' = {a \in Addr : heap'[a] # Null}
    BY DEF Used
  <2>2. \A a : a \in Used' <=> a \in ((Used \ {p}) \cup {q}) \cup {n}
    BY <1>1, <1>2, <2>1
  <2> QED BY <2>2
<1>4. Kids(n)' = <<>> /\ Kids(q)' = Append(Kids(p), n)
  <2>1. Leaf(k, q).kids = <<>>
    BY DEF Leaf
  <2>2. heap'[n] # Null /\ heap'[q] # Null
    BY <1>2
  <2> QED BY <1>2, <2>1, <2>2 DEF Kids
<1>5. ASSUME NEW a \in Used \ {p}
      PROVE  Kids(a)' = [i \in DOMAIN Kids(a) |-> IF Kids(a)[i] = p THEN q ELSE Kids(a)[i]]
  <2>1. heap'[a] # Null
    BY <1>1, <1>2
  <2>2. Kids(a)' = heap'[a].kids
    BY <2>1 DEF Kids
  <2> QED BY <1>2, <2>2
<1>6. Kin(n)' = {}
  <2>1. ToSet(<<>>) = {}
    BY ShortLists, ListedOnce
  <2>2. Kin(n)' = ToSet(Kids(n)')
    BY DEF Kin
  <2> QED BY <1>4, <2>1, <2>2
<1>7. Kin(q)' = Kin(p) \cup {n}
  <2>1. Kids(p) \in Seq(Addr) /\ Kin(p) \subseteq Used
    BY <1>1, KidsFacts DEF Linked
  <2>2. ListsOnce(Kids(p), Kin(p))
    BY <2>1, DistinctIsList DEF Linked, Kin
  <2>3. ListsOnce(Append(Kids(p), n), Kin(p) \cup {n})
    BY <2>1, <2>2, ListEnds
  <2>4. Kin(q)' = ToSet(Kids(q)')
    BY DEF Kin
  <2> QED BY <1>4, <2>3, <2>4, ListedOnce
<1>8. ASSUME NEW a \in Used \ {p} PROVE Kin(a)' = {IF b = p THEN q ELSE b : b \in Kin(a)}
  <2> DEFINE s == Kids(a)
  <2>1. Kin(a)' = ToSet(Kids(a)') /\ Kin(a) = ToSet(s)
    BY DEF Kin
  <2>2. Kids(a)' = [i \in DOMAIN s |-> IF s[i] = p THEN q ELSE s[i]]
    BY <1>5
  <2> HIDE DEF s
  <2>3. ToSet(Kids(a)') = {IF s[i] = p THEN q ELSE s[i] : i \in DOMAIN s}
    BY <2>2 DEF ToSet
  <2>4. ToSet(s) = {s[i] : i \in DOMAIN s}
    BY DEF ToSet
  <2> QED BY <2>1, <2>3, <2>4
<1> QED BY <1>1, <1>3, <1>4, <1>5, <1>6, <1>7, <1>8

(* The tree with the new node is a tree.                                   *)
LEMMA GraftLinked ==
    ASSUME TreeInv, Linked, NEW p \in Used, NEW n \in Addr \ Used,
           NEW q \in Addr, q = p \/ q \notin Used \cup {n}, NEW k \in Key, Grafted(n, p, q, k)
    PROVE  Linked'
<1> DEFINE K == [a \in Addr |-> Kin(a)]
           K2 == [a \in Addr |-> Kin(a)']
           U2 == ((Used \ {p}) \cup {q}) \cup {n}
<1>1. /\ Used' = U2
      /\ Kids(n)' = <<>> /\ Kids(q)' = Append(Kids(p), n)
      /\ \A a \in Used \ {p} :
            Kids(a)' = [i \in DOMAIN Kids(a) |-> IF Kids(a)[i] = p THEN q ELSE Kids(a)[i]]
      /\ Kin(n)' = {} /\ Kin(q)' = Kin(p) \cup {n}
      /\ \A a \in Used \ {p} : Kin(a)' = {IF b = p THEN q ELSE b : b \in Kin(a)}
      /\ n # q /\ p \in Addr
  BY GraftedKids
<1>2. Used \in SUBSET Addr /\ Blocks /\ U2 \subseteq Addr
  BY <1>1 DEF Used, TreeInv
<1>3. \A a \in Addr : K[a] = Kin(a) /\ K2[a] = Kin(a)'
  OBVIOUS
<1> HIDE DEF K, K2
<1>4. Hangs(Used, root, K)
  BY <1>2, <1>3 DEF Linked, Hangs
<1>5. p \notin K[p]
  BY <1>1, <1>2, <1>3, NotOwnChild
<1>6. K2[n] = {} /\ K2[q] = K[p] \cup {n}
  BY <1>1, <1>3
<1>7. \A a \in Used \ {p} : K2[a] = {IF b = p THEN q ELSE b : b \in K[a]}
  <2> SUFFICES ASSUME NEW a \in Used \ {p}
               PROVE  K2[a] = {IF b = p THEN q ELSE b : b \in K[a]}
    OBVIOUS
  <2>1. K2[a] = Kin(a)' /\ K[a] = Kin(a)
    BY <1>2, <1>3
  <2> QED BY <1>1, <2>1
<1>8. Hangs(U2, IF root = p THEN q ELSE root, K2)
  BY <1>2, <1>4, <1>5, <1>6, <1>7, GraftHangs
<1>9. root' = IF root = p THEN q ELSE root
  BY DEF Grafted
<1>10. Hangs(Used', root', K2)
  BY <1>1, <1>8, <1>9
<1>11. ASSUME NEW x \in Used'
       PROVE  \A i, j \in DOMAIN Kids(x)' : Kids(x)'[i] = Kids(x)'[j] => i = j
  <2>1. CASE x = n
    <3>1. Kids(x)' = <<>>
      BY <1>1, <2>1
    <3>2. DOMAIN <<>> = {}
      OBVIOUS
    <3> QED BY <3>1, <3>2
  <2>2. CASE x = q
    <3>1. Kids(p) \in Seq(Addr) /\ Kin(p) \subseteq Used
      BY <1>1, <1>2, KidsFacts DEF Linked
    <3>2. ListsOnce(Kids(p), Kin(p))
      BY <3>1, DistinctIsList DEF Linked, Kin
    <3>3. ListsOnce(Append(Kids(p), n), Kin(p) \cup {n})
      BY <3>1, <3>2, ListEnds
    <3>4. Kids(x)' = Append(Kids(p), n)
      BY <1>1, <2>2
    <3> DEFINE w == Append(Kids(p), n)
    <3> HIDE DEF w
    <3>5. DOMAIN w = 1 .. Len(w)
      BY <3>3, LenProperties DEF ListsOnce, w
    <3> QED BY <3>3, <3>4, <3>5 DEF ListsOnce, w
  <2>3. CASE x # n /\ x # q
    <3>1. x \in Used \ {p}
      BY <1>1, <2>3
    <3> DEFINE s == Kids(x)
    <3>2. /\ \A i, j \in DOMAIN s : s[i] = s[j] => i = j
          /\ \A i \in DOMAIN s : s[i] \in Used
      BY <3>1 DEF Linked, Kin, ToSet
    <3>3. Kids(x)' = [i \in DOMAIN s |-> IF s[i] = p THEN q ELSE s[i]]
      BY <1>1, <3>1
    <3> HIDE DEF s
    <3> QED BY <3>2, <3>3
  <2> QED BY <2>1, <2>2, <2>3
<1>12. Used' \subseteq Addr
  BY <1>1, <1>2
<1>13. Linked'
  <2>1. /\ root' \in Used'
        /\ \A x \in Used' : K2[x] \subseteq Used' \ {root'}
        /\ \A x, y \in Used' : K2[x] \cap K2[y] # {} => x = y
        /\ \A S \in SUBSET Addr : root' \in S /\ (\A x \in S : K2[x] \subseteq S) => Used' \subseteq S
    BY <1>10 DEF Hangs
  <2>2. \A x \in Addr : K2[x] = Kin(x)'
    BY <1>3
  <2>3. \A x \in Used' : Kin(x)' \subseteq Used' \ {root'}
    BY <1>12, <2>1, <2>2
  <2>4. \A x, y \in Used' : Kin(x)' \cap Kin(y)' # {} => x = y
    BY <1>12, <2>1, <2>2
  <2>5. \A S \in SUBSET Addr : root' \in S /\ (\A x \in S : Kin(x)' \subseteq S) => Used' \subseteq S
    BY <2>1, <2>2
  <2> QED BY <1>11, <2>1, <2>3, <2>4, <2>5 DEF Linked
<1> QED BY <1>13

(* A parent pointer that grows old is of a child in the older half.        *)
LEMMA GraftParents ==
    ASSUME TreeInv, Linked, NEW p \in Used, NEW n \in Addr \ Used,
           NEW q \in Addr, q = p \/ q \notin Used \cup {n}, NEW k \in Key, Grafted(n, p, q, k)
    PROVE  ParentsFit'
<1>1. /\ Used' = ((Used \ {p}) \cup {q}) \cup {n}
      /\ Kids(n)' = <<>> /\ Kids(q)' = Append(Kids(p), n)
      /\ \A a \in Used \ {p} :
            Kids(a)' = [i \in DOMAIN Kids(a) |-> IF Kids(a)[i] = p THEN q ELSE Kids(a)[i]]
      /\ n # q /\ p \in Addr
  BY GraftedKids
<1>2. /\ heap'[n] = Leaf(k, q)
      /\ heap'[q].parent = heap[p].parent
      /\ \/ Len(Kids(p)) < heap[p].cap /\ q = p /\ heap'[q].cap = heap[p].cap
         \/ Len(Kids(p)) = heap[p].cap /\ heap'[q].cap = IF heap[p].cap = 0 THEN 2 ELSE 2 * heap[p].cap
      /\ \A a \in Used \ {p} : heap'[a].cap = heap[a].cap /\ heap'[a].parent = heap[a].parent
  BY DEF Grafted
<1>3. /\ Blocks /\ Used \subseteq Addr
      /\ \A a \in Used : heap[a].cap \in Nat /\ Kids(a) \in Seq(Addr)
      /\ \A a \in Used : DOMAIN Kids(a) = 1 .. Len(Kids(a)) /\ Len(Kids(a)) \in Nat
  <2>1. Blocks /\ Used \subseteq Addr
    BY DEF TreeInv, Used
  <2>2. ASSUME NEW a \in Used PROVE heap[a].cap \in Nat /\ Kids(a) \in Seq(Addr)
    <3>1. heap[a] \in Node /\ Kids(a) \in Seq(Addr)
      BY <2>1, KidsFacts
    <3> QED BY <3>1 DEF Node
  <2> QED BY <2>1, <2>2, LenProperties
<1>4. ASSUME NEW a \in Used
      PROVE  /\ Len(Kids(a)) <= heap[a].cap /\ heap[a].cap # 1
             /\ \A i \in DOMAIN Kids(a) : /\ Kids(a)[i] \in Used
                                          /\ \/ heap[Kids(a)[i]].parent = a
                                             \/ heap[a].cap > 2 /\ 2 * i <= heap[a].cap
  <2>1. \A i \in DOMAIN Kids(a) : Kids(a)[i] \in Used
    BY DEF Linked, Kin, ToSet
  <2> QED BY <2>1 DEF TreeInv, ParentsFit
<1>5. \A i \in DOMAIN Kids(p) : Kids(p)[i] # p
  BY <1>3, NotOwnChild DEF Kin, ToSet
<1> SUFFICES ASSUME NEW x \in Used'
             PROVE  /\ Len(Kids(x)') <= heap'[x].cap /\ heap'[x].cap # 1
                    /\ \A i \in DOMAIN Kids(x)' : \/ heap'[Kids(x)'[i]].parent = x
                                                  \/ heap'[x].cap > 2 /\ 2 * i <= heap'[x].cap
  BY DEF ParentsFit
<1>6. CASE x = n
  <2>1. Kids(x)' = <<>> /\ heap'[x].cap = 0
    BY <1>1, <1>2, <1>6 DEF Leaf
  <2>2. Len(<<>>) = 0 /\ DOMAIN <<>> = {}
    OBVIOUS
  <2> QED BY <2>1, <2>2
<1>7. CASE x = q
  <2> DEFINE s == Kids(p)
             m == Len(s)
             c == heap[p].cap
             w == Append(s, n)
             c2 == heap'[q].cap
  <2>1. s \in Seq(Addr) /\ m \in Nat /\ DOMAIN s = 1 .. m /\ c \in Nat /\ m <= c /\ c # 1
    BY <1>3, <1>4
  <2>2. Kids(x)' = w /\ heap'[x].cap = c2
    BY <1>1, <1>7
  <2>3. \/ m < c /\ q = p /\ c2 = c
        \/ m = c /\ c2 = IF c = 0 THEN 2 ELSE 2 * c
    BY <1>2
  <2>4. /\ \A i \in 1 .. m : /\ s[i] \in Used \ {p}
                             /\ heap[s[i]].parent = p \/ (c > 2 /\ 2 * i <= c)
    BY <1>3, <1>4, <1>5
  <2> HIDE DEF s, m, c, c2
  <2>5. Len(w) = m + 1 /\ w[m + 1] = n /\ (\A i \in 1 .. m : w[i] = s[i]) /\ w \in Seq(Addr)
    <3>1. /\ w \in Seq(Addr) /\ Len(w) = Len(s) + 1
          /\ \A i \in 1 .. Len(s) : w[i] = s[i]
          /\ w[Len(s) + 1] = n
      BY <2>1, AppendProperties
    <3> QED BY <3>1 DEF m
  <2> HIDE DEF w
  <2>6. DOMAIN w = 1 .. m + 1
    BY <2>5, LenProperties
  <2>7. m + 1 <= c2 /\ c2 # 1
    BY <2>1, <2>3
  <2>8. ASSUME NEW i \in 1 .. m + 1 PROVE heap'[w[i]].parent = q \/ (c2 > 2 /\ 2 * i <= c2)
    <3>1. CASE i = m + 1
      <4>1. heap'[w[i]] = Leaf(k, q)
        BY <1>2, <2>5, <3>1
      <4> QED BY <4>1 DEF Leaf
    <3>2. CASE i # m + 1
      <4>1. i \in 1 .. m
        BY <2>1, <3>2
      <4>2. w[i] = s[i] /\ s[i] \in Used \ {p} /\ heap'[s[i]].parent = heap[s[i]].parent
        BY <1>2, <2>4, <2>5, <4>1
      <4>3. CASE m < c /\ q = p /\ c2 = c
        BY <2>4, <4>1, <4>2, <4>3
      <4>4. CASE m = c /\ c2 = IF c = 0 THEN 2 ELSE 2 * c
        <5>1. c >= 2 /\ c2 = 2 * c /\ i <= c
          BY <2>1, <4>1, <4>4
        <5>2. c2 > 2 /\ 2 * i <= c2
          BY <2>1, <4>1, <5>1
        <5> QED BY <5>2
      <4> QED BY <2>3, <4>3, <4>4
    <3> QED BY <3>1, <3>2
  <2> QED BY <1>7, <2>2, <2>5, <2>6, <2>7, <2>8
<1>8. CASE x # n /\ x # q
  <2>1. x \in Used \ {p}
    BY <1>1, <1>8
  <2> DEFINE s == Kids(x)
             w == Kids(x)'
             c == heap[x].cap
  <2>2. /\ s \in Seq(Addr) /\ Len(s) \in Nat /\ DOMAIN s = 1 .. Len(s)
        /\ w = [i \in DOMAIN s |-> IF s[i] = p THEN q ELSE s[i]]
        /\ heap'[x].cap = c
    BY <1>1, <1>2, <1>3, <2>1
  <2>3. /\ Len(s) <= c /\ c # 1
        /\ \A i \in DOMAIN s : /\ s[i] \in Used
                               /\ heap[s[i]].parent = x \/ (c > 2 /\ 2 * i <= c)
    BY <1>4, <2>1
  <2> HIDE DEF s, w, c
  <2>4. w \in [1 .. Len(s) -> Addr]
    BY <1>3, <2>2, <2>3
  <2>5. Len(w) = Len(s) /\ DOMAIN w = DOMAIN s
    BY <2>2, <2>4, IntervalIsSeq
  <2>6. ASSUME NEW i \in DOMAIN s PROVE heap'[w[i]].parent = heap[s[i]].parent
    <3>1. CASE s[i] = p
      BY <1>2, <2>2, <3>1
    <3>2. CASE s[i] # p
      BY <1>2, <2>2, <2>3, <3>2
    <3> QED BY <3>1, <3>2
  <2>7. Len(w) <= heap'[x].cap /\ heap'[x].cap # 1
    BY <2>2, <2>3, <2>5
  <2>8. \A i \in DOMAIN w : heap'[w[i]].parent = x \/ (heap'[x].cap > 2 /\ 2 * i <= heap'[x].cap)
    BY <2>2, <2>3, <2>5, <2>6
  <2> QED BY <2>7, <2>8 DEF w
<1> QED BY <1>6, <1>7, <1>8

(* An insertion grafts a new node on one that is found, which may move.    *)
LEMMA InsertGrafts ==
    ASSUME TreeInv, NEW how \in Searches, NEW k \in Key, NEW par \in Key, Insert(how, k, par)
    PROVE  /\ Alive /\ Alive' /\ Linked
           /\ \E p \in Found(how, par) \cap Used, n \in Addr \ Used, q \in Addr :
                 (q = p \/ q \notin Used \cup {n}) /\ Grafted(n, p, q, k)
<1>1. Alive /\ Alive'
  BY DEF Insert, Running, Say, Answer, Alive
<1>2. PICK p \in Found(how, par) \ {Null}, n \in Unused : Hang(n, p, k) \/ GrowAndHang(n, p, k)
  BY DEF Insert
<1>3. p \in Used /\ n \in Addr \ Used /\ Used # {}
  <2>1. p \in Used
    BY <1>1, FoundInside
  <2> QED BY <2>1 DEF Used, Unused
<1>4. Linked
  BY <1>1, <1>3 DEF TreeInv
<1>5. PICK q \in Addr : (q = p \/ q \notin Used \cup {n}) /\ Grafted(n, p, q, k)
  <2>1. p \in Addr
    BY <1>3 DEF Used
  <2>2. CASE Hang(n, p, k)
    BY <1>3, <1>4, <2>1, <2>2, HangGrafts
  <2>3. CASE GrowAndHang(n, p, k)
    BY <1>3, <1>4, <2>3, GrowGrafts
  <2> QED BY <1>2, <2>2, <2>3
<1> QED BY <1>1, <1>2, <1>3, <1>4, <1>5

(* An insertion keeps the invariant.                                       *)
LEMMA InsertPreserves ==
    ASSUME TreeInv, NEW how \in Searches, NEW k \in Key, NEW par \in Key, Insert(how, k, par)
    PROVE  TreeInv'
<1>1. /\ Alive /\ num_el' = num_el + 1 /\ UNCHANGED fault /\ Alive'
  BY DEF Insert, Running, Say, Answer, Alive
<1>2. Linked
  BY InsertGrafts
<1>3. PICK p \in Used, n \in Addr \ Used, q \in Addr :
          (q = p \/ q \notin Used \cup {n}) /\ Grafted(n, p, q, k)
  BY InsertGrafts
<1>4. Linked /\ num_el >= Cardinality(Used) - 1 /\ num_el \in Nat /\ Blocks
  BY <1>1, <1>2, <1>3 DEF TreeInv
<1>5. (q = p \/ q \notin Used \cup {n}) /\ Grafted(n, p, q, k)
  BY <1>3
<1>6. Linked' /\ ParentsFit'
  BY <1>3, <1>4, <1>5, GraftLinked, GraftParents
<1>7. Blocks' /\ root' \in Addr \cup {Null}
  BY <1>5 DEF Grafted, Blocks, TreeInv
<1>8. Cardinality(Used') = Cardinality(Used) + 1
  <2>1. Used' = ((Used \ {p}) \cup {q}) \cup {n} /\ n # q
    BY <1>3, <1>4, <1>5, GraftedKids
  <2>2. IsFiniteSet(Used) /\ Cardinality(Used) \in Nat
    <3>1. Used \in SUBSET Addr
      BY DEF Used
    <3>2. IsFiniteSet(Used)
      BY <3>1, TreeAssumption, FS_Subset
    <3> QED BY <3>2, FS_CardinalityType
  <2>3. IsFiniteSet(Used \ {p}) /\ Cardinality(Used \ {p}) = Cardinality(Used) - 1
    BY <1>3, <2>2, FS_RemoveElement
  <2> DEFINE A == Used \ {p}
             B == A \cup {q}
  <2>4. q \notin A /\ n \notin B
    BY <1>3, <1>5, <2>1
  <2> HIDE DEF A
  <2>5. IsFiniteSet(B) /\ Cardinality(B) = Cardinality(Used)
    <3>1. Cardinality(B) = Cardinality(A) + 1 /\ IsFiniteSet(B)
      BY <2>3, <2>4, FS_AddElement DEF A
    <3> QED BY <2>2, <2>3, <3>1 DEF A
  <2> HIDE DEF B
  <2>6. Cardinality(B \cup {n}) = Cardinality(B) + 1
    BY <2>4, <2>5, FS_AddElement
  <2> QED BY <2>1, <2>5, <2>6 DEF A, B
<1>9. num_el' \in Nat /\ num_el' >= Cardinality(Used') - 1
  <2>1. Cardinality(Used) \in Nat
    <3>1. Used \in SUBSET Addr
      BY DEF Used
    <3> QED BY <3>1, TreeAssumption, FS_Subset, FS_CardinalityType
  <2> QED BY <1>1, <1>4, <1>8, <2>1
<1>10. root' # Null
  <2>1. root' \in Used'
    BY <1>6 DEF Linked
  <2>2. Used' \subseteq Addr
    BY DEF Used
  <2> QED BY <2>1, <2>2, TreeAssumption
<1>11. fault' \in {"none", "old_parent", "root_deleted", "empty"}
  BY <1>1 DEF TreeInv
<1> QED BY <1>1, <1>6, <1>7, <1>9, <1>10, <1>11 DEF TreeInv
---------------------------------------------------------------------------
(* w is the list s of S without its element a, which was at i.             *)
TakenOut(S, s, a, i, w) ==
    /\ i \in 1 .. Len(s) /\ s[i] = a /\ ListsOnce(w, S \ {a}) /\ Len(w) = Len(s) - 1
    /\ \A j \in 1 .. Len(s) - 1 : w[j] = IF j < i THEN s[j] ELSE s[j + 1]

(* A list without one of its members: what followed it moves up.           *)
LEMMA ListWithout ==
    ASSUME NEW S, NEW s, ListsOnce(s, S), NEW a \in S
    PROVE  \E i : TakenOut(S, s, a, i, RemoveFirst(s, a))
<1> DEFINE n == Len(s)
           I == {j \in 1 .. n : s[j] = a}
<1>1. /\ s \in Seq(S) /\ n \in Nat /\ s \in [1 .. n -> S]
      /\ \A x \in S : \E j \in 1 .. n : s[j] = x
      /\ \A j, l \in 1 .. n : s[j] = s[l] => j = l
  BY LenProperties DEF ListsOnce
<1>2. PICK i \in 1 .. n : s[i] = a
  BY <1>1
<1>3. I = {i}
  BY <1>1, <1>2
<1>4. Min(I) = i
  <2>1. Min({i}) = i
    BY DEF Min
  <2> QED BY <1>3, <2>1
<1>5. SelectInSeq(s, LAMBDA v : v = a) = i
  BY <1>3, <1>4 DEF SelectInSeq
<1>6. RemoveFirst(s, a) = SubSeq(s, 1, i - 1) \o SubSeq(s, i + 1, Len(s))
  BY <1>2, <1>5 DEF RemoveFirst, RemoveAt
<1> DEFINE w == [j \in 1 .. n - 1 |-> IF j < i THEN s[j] ELSE s[j + 1]]
<1>7. RemoveFirst(s, a) = w
  BY <1>1, <1>6, WithoutElement
<1> HIDE DEF n
<1>8. \A j \in 1 .. n - 1 : w[j] = IF j < i THEN s[j] ELSE s[j + 1]
  OBVIOUS
<1>9. \A j \in 1 .. n - 1 : j \in 1 .. n /\ j + 1 \in 1 .. n
  BY <1>1
<1>10. w \in [1 .. n - 1 -> S \ {a}] /\ n - 1 \in Nat
  <2>1. ASSUME NEW j \in 1 .. n - 1 PROVE w[j] \in S \ {a}
    <3>1. CASE j < i
      BY <1>1, <1>2, <1>8, <1>9, <3>1
    <3>2. CASE ~(j < i)
      <4>1. j + 1 # i
        BY <1>1, <3>2
      <4> QED BY <1>1, <1>2, <1>8, <1>9, <3>2, <4>1
    <3> QED BY <3>1, <3>2
  <2> QED BY <1>1, <1>2, <2>1
<1> HIDE DEF w
<1>11. w \in Seq(S \ {a}) /\ Len(w) = n - 1
  BY <1>10, IntervalIsSeq
<1>12. ASSUME NEW x \in S \ {a} PROVE \E j \in 1 .. n - 1 : w[j] = x
  <2>1. PICK j \in 1 .. n : s[j] = x
    BY <1>1
  <2>2. j # i
    BY <1>2, <1>12, <2>1
  <2>3. CASE j < i
    <3>1. j \in 1 .. n - 1
      BY <1>1, <2>3
    <3> QED BY <1>8, <2>1, <2>3, <3>1
  <2>4. CASE ~(j < i)
    <3>1. \E l \in 1 .. n - 1 : l + 1 = j /\ ~(l < i)
      <4>1. j - 1 \in 1 .. n - 1 /\ (j - 1) + 1 = j /\ ~(j - 1 < i)
        BY <1>1, <2>2, <2>4
      <4> QED BY <4>1
    <3> QED BY <1>8, <2>1, <3>1
  <2> QED BY <2>3, <2>4
<1>13. ASSUME NEW j \in 1 .. n - 1, NEW l \in 1 .. n - 1, w[j] = w[l] PROVE j = l
  <2>1. CASE j < i /\ l < i
    BY <1>1, <1>8, <1>9, <1>13, <2>1
  <2>2. CASE ~(j < i) /\ ~(l < i)
    <3>1. j + 1 = l + 1
      BY <1>1, <1>8, <1>9, <1>13, <2>2
    <3> QED BY <1>1, <3>1
  <2>3. CASE j < i /\ ~(l < i)
    <3>1. j = l + 1
      BY <1>1, <1>8, <1>9, <1>13, <2>3
    <3> QED BY <1>1, <2>3, <3>1
  <2>4. CASE ~(j < i) /\ l < i
    <3>1. j + 1 = l
      BY <1>1, <1>8, <1>9, <1>13, <2>4
    <3> QED BY <1>1, <2>4, <3>1
  <2> QED BY <2>1, <2>2, <2>3, <2>4
<1>14. ListsOnce(w, S \ {a})
  BY <1>11, <1>12, <1>13 DEF ListsOnce
<1> QED BY <1>2, <1>7, <1>8, <1>11, <1>14 DEF n, TakenOut

(* The blocks of D freed, and a taken out of the children of p.            *)
Pruned(D, a, p) ==
    /\ root' = root
    /\ heap' \in [Addr -> Node \cup {Null}]
    /\ \A b \in Addr : heap'[b] = Null <=> b \in D \/ b \notin Used
    /\ \A b \in (Used \ D) \ {p} : heap'[b] = heap[b]
    /\ heap'[p].kids = RemoveFirst(Kids(p), a)
    /\ heap'[p].cap = heap[p].cap /\ heap'[p].parent = heap[p].parent
    /\ heap'[p].key = heap[p].key

(* A subtree freed and its node taken out of its holder leave a tree, the  *)
(* parent pointers as they were.                                           *)
LEMMA PruneKeeps ==
    ASSUME TreeInv, Linked, NEW a \in Used \ {root}, NEW D, Subtree(a, D),
           NEW p \in Used \ D, a \in Kin(p), Pruned(D, a, p)
    PROVE  Used' = Used \ D /\ Linked' /\ ParentsFit'
<1> DEFINE K == [x \in Addr |-> Kin(x)]
           K2 == [x \in Addr |-> Kin(x)']
<1>1. /\ Blocks /\ Used \in SUBSET Addr /\ p \in Addr /\ a \in D /\ D \in SUBSET Used
      /\ \A b \in D : Kin(b) \subseteq D
      /\ \A b \in D : b = a \/ \E x \in D : b \in Kin(x)
  BY DEF TreeInv, Used, Subtree
<1>2. /\ \A b \in Addr : heap'[b] = Null <=> b \in D \/ b \notin Used
      /\ \A b \in (Used \ D) \ {p} : heap'[b] = heap[b]
      /\ heap'[p].kids = RemoveFirst(Kids(p), a)
      /\ heap'[p].cap = heap[p].cap /\ heap'[p].parent = heap[p].parent
      /\ root' = root
  BY DEF Pruned
<1>3. Used' = Used \ D
  <2>1. Used' = {b \in Addr : heap'[b] # Null}
    BY DEF Used
  <2> QED BY <1>1, <1>2, <2>1
<1>4. \A b \in Used \ D : heap'[b].parent = heap[b].parent /\ heap'[b].cap = heap[b].cap
  BY <1>2
<1>5. \A x \in Used : /\ Kids(x) \in Seq(Addr) /\ heap[x].cap \in Nat
                      /\ ListsOnce(Kids(x), Kin(x)) /\ Kids(x) = heap[x].kids
  <2> SUFFICES ASSUME NEW x \in Used
               PROVE  /\ Kids(x) \in Seq(Addr) /\ heap[x].cap \in Nat
                      /\ ListsOnce(Kids(x), Kin(x)) /\ Kids(x) = heap[x].kids
    OBVIOUS
  <2>1. Kids(x) \in Seq(Addr) /\ heap[x] \in Node /\ Kids(x) = heap[x].kids
    BY <1>1, KidsFacts
  <2>2. ListsOnce(Kids(x), Kin(x))
    BY <2>1, DistinctIsList DEF Linked, Kin
  <2> QED BY <2>1, <2>2 DEF Node
<1>6. ASSUME NEW x \in (Used \ D) \ {p} PROVE Kids(x)' = Kids(x) /\ Kin(x)' = Kin(x)
  <2>1. heap'[x] = heap[x]
    BY <1>2
  <2>2. Kids(x)' = Kids(x)
    BY <2>1 DEF Kids
  <2> QED BY <2>2 DEF Kin
<1>7. PICK i \in 1 .. Len(Kids(p)) :
          /\ ListsOnce(RemoveFirst(Kids(p), a), Kin(p) \ {a})
          /\ Len(RemoveFirst(Kids(p), a)) = Len(Kids(p)) - 1
          /\ \A j \in 1 .. Len(Kids(p)) - 1 :
                RemoveFirst(Kids(p), a)[j] = IF j < i THEN Kids(p)[j] ELSE Kids(p)[j + 1]
  <2> DEFINE s == Kids(p)
             S == Kin(p)
  <2>1. ListsOnce(s, S) /\ a \in S
    BY <1>5
  <2> HIDE DEF s, S
  <2>2. PICK i : TakenOut(S, s, a, i, RemoveFirst(s, a))
    BY <2>1, ListWithout
  <2>3. /\ i \in 1 .. Len(s) /\ ListsOnce(RemoveFirst(s, a), S \ {a})
        /\ Len(RemoveFirst(s, a)) = Len(s) - 1
        /\ \A j \in 1 .. Len(s) - 1 : RemoveFirst(s, a)[j] = IF j < i THEN s[j] ELSE s[j + 1]
    BY <2>2 DEF TakenOut
  <2> QED BY <2>3 DEF s, S
<1>8. Kids(p)' = RemoveFirst(Kids(p), a)
  <2>1. heap'[p] # Null
    BY <1>1, <1>2
  <2>2. Kids(p)' = heap'[p].kids
    BY <2>1 DEF Kids
  <2> QED BY <1>2, <2>2
<1>9. Kin(p)' = Kin(p) \ {a}
  <2>1. Kin(p)' = ToSet(Kids(p)')
    BY DEF Kin
  <2> QED BY <1>7, <1>8, <2>1, ListedOnce
<1>10. \A x \in Addr : K[x] = Kin(x) /\ K2[x] = Kin(x)'
  OBVIOUS
<1> HIDE DEF K, K2
<1>11. Hangs(Used \ D, root, K2)
  <2>1. Hangs(Used, root, K)
    BY <1>1, <1>10 DEF Linked, Hangs
  <2>2. \A b \in D : K[b] \subseteq D
    BY <1>1, <1>10
  <2>3. \A b \in D : b = a \/ \E x \in D : b \in K[x]
    BY <1>1, <1>10
  <2>4. a \in K[p] /\ K2[p] = K[p] \ {a}
    BY <1>1, <1>9, <1>10
  <2>5. \A x \in (Used \ D) \ {p} : K2[x] = K[x]
    BY <1>1, <1>6, <1>10
  <2> QED BY <1>1, <2>1, <2>2, <2>3, <2>4, <2>5, PruneHangs
<1>12. ASSUME NEW x \in Used'
       PROVE  \A j, l \in DOMAIN Kids(x)' : Kids(x)'[j] = Kids(x)'[l] => j = l
  <2>1. CASE x = p
    <3> DEFINE w == RemoveFirst(Kids(p), a)
    <3>1. Kids(x)' = w /\ ListsOnce(w, Kin(p) \ {a})
      BY <1>7, <1>8, <2>1
    <3> HIDE DEF w
    <3>2. DOMAIN w = 1 .. Len(w)
      BY <3>1, LenProperties DEF ListsOnce
    <3> QED BY <3>1, <3>2 DEF ListsOnce
  <2>2. CASE x # p
    <3>1. Kids(x)' = Kids(x) /\ x \in Used
      BY <1>3, <1>6, <2>2
    <3> QED BY <3>1 DEF Linked
  <2> QED BY <2>1, <2>2
<1>13. Linked'
  <2>1. Hangs(Used', root', K2) /\ Used' \subseteq Addr
    BY <1>1, <1>2, <1>3, <1>11
  <2>2. /\ root' \in Used'
        /\ \A x \in Used' : K2[x] \subseteq Used' \ {root'}
        /\ \A x, y \in Used' : K2[x] \cap K2[y] # {} => x = y
        /\ \A S \in SUBSET Addr : root' \in S /\ (\A x \in S : K2[x] \subseteq S) => Used' \subseteq S
    BY <2>1 DEF Hangs
  <2>3. \A x \in Used' : Kin(x)' \subseteq Used' \ {root'}
    BY <1>10, <2>1, <2>2
  <2>4. \A x, y \in Used' : Kin(x)' \cap Kin(y)' # {} => x = y
    BY <1>10, <2>1, <2>2
  <2>5. \A S \in SUBSET Addr : root' \in S /\ (\A x \in S : Kin(x)' \subseteq S) => Used' \subseteq S
    BY <1>10, <2>2
  <2> QED BY <1>12, <2>2, <2>3, <2>4, <2>5 DEF Linked
<1>14. ASSUME NEW x \in Used'
       PROVE  /\ Len(Kids(x)') <= heap'[x].cap /\ heap'[x].cap # 1
              /\ \A j \in DOMAIN Kids(x)' : \/ heap'[Kids(x)'[j]].parent = x
                                            \/ heap'[x].cap > 2 /\ 2 * j <= heap'[x].cap
  <2> DEFINE s == Kids(x)
             c == heap[x].cap
  <2>1. /\ x \in Used \ D /\ heap'[x].cap = c /\ c \in Nat
        /\ s \in Seq(Addr) /\ Len(s) <= c /\ c # 1
        /\ \A j \in DOMAIN s : heap[s[j]].parent = x \/ (c > 2 /\ 2 * j <= c)
    BY <1>3, <1>4, <1>5 DEF TreeInv, ParentsFit
  <2>2. Len(s) \in Nat /\ DOMAIN s = 1 .. Len(s)
    BY <2>1, LenProperties
  <2>3. \A b \in Kin(x)' : b \in Used \ D /\ heap'[b].parent = heap[b].parent
    <3>1. Kin(x)' \subseteq Used'
      BY <1>13 DEF Linked
    <3> QED BY <1>3, <1>4, <3>1
  <2>4. CASE x = p
    <3> DEFINE w == RemoveFirst(s, a)
    <3>1. /\ Kids(x)' = w /\ ListsOnce(w, Kin(p) \ {a}) /\ Len(w) = Len(s) - 1
          /\ \A j \in 1 .. Len(s) - 1 : w[j] = IF j < i THEN s[j] ELSE s[j + 1]
      BY <1>7, <1>8, <2>4
    <3>2. i \in 1 .. Len(s)
      BY <2>4
    <3> HIDE DEF w, s, c
    <3>3. DOMAIN w = 1 .. Len(w) /\ \A j \in 1 .. Len(w) : w[j] \in Kin(p) \ {a}
      BY <3>1, LenProperties, ElementOfSeq DEF ListsOnce
    <3>4. Kin(x)' = Kin(p) \ {a}
      BY <1>9, <2>4
    <3>5. ASSUME NEW j \in 1 .. Len(s) - 1
          PROVE  heap'[w[j]].parent = x \/ (c > 2 /\ 2 * j <= c)
      <4>1. heap'[w[j]].parent = heap[w[j]].parent
        BY <2>3, <3>1, <3>3, <3>4
      <4>2. CASE j < i
        <5>1. j \in DOMAIN s /\ w[j] = s[j]
          BY <2>2, <3>1, <4>2
        <5> QED BY <2>1, <4>1, <5>1
      <4>3. CASE ~(j < i)
        <5>1. j + 1 \in DOMAIN s /\ w[j] = s[j + 1]
          BY <2>2, <3>1, <4>3
        <5>2. heap[w[j]].parent = x \/ (c > 2 /\ 2 * (j + 1) <= c)
          BY <2>1, <5>1
        <5>3. 2 * (j + 1) <= c => 2 * j <= c
          BY <2>1, <2>2
        <5> QED BY <4>1, <5>2, <5>3
      <4> QED BY <4>2, <4>3
    <3>6. Len(w) <= c
      BY <2>1, <2>2, <3>1
    <3> QED BY <2>1, <3>1, <3>3, <3>5, <3>6
  <2>5. CASE x # p
    <3>1. Kids(x)' = s /\ Kin(x)' = Kin(x)
      BY <1>6, <2>1, <2>5
    <3>2. \A j \in DOMAIN s : s[j] \in Kin(x)
      BY DEF Kin, ToSet
    <3> HIDE DEF s, c
    <3> QED BY <2>1, <2>3, <3>1, <3>2
  <2> QED BY <2>4, <2>5
<1>15. ParentsFit'
  BY <1>14 DEF ParentsFit
<1> QED BY <1>3, <1>13, <1>15

(* A deletion frees the subtree of a node found that is not the root, and  *)
(* takes it out of its holder.                                             *)
LEMMA DeletePrunes ==
    ASSUME TreeInv, NEW how \in Searches, NEW k \in Key, Delete(how, k)
    PROVE  /\ Alive /\ Alive' /\ root # Null /\ Linked
           /\ \E a \in Found(how, k) \cap (Used \ {root}), p \in Used, D \in SUBSET Used :
                 /\ D = ToSet(ChildrenFirst(a)) /\ Subtree(a, D) /\ p \notin D /\ a \in Kin(p)
                 /\ Pruned(D, a, p) /\ reply' = Answer("delete", how, 0, KeysOf(ChildrenFirst(a)))
<1>1. Alive /\ UNCHANGED <<root, fault>> /\ Alive'
  BY DEF Delete, Running, Say, Answer, Alive
<1>2. PICK a \in Found(how, k) \ {Null, root} :
          /\ heap' = [Without(a) EXCEPT ![Holder(a)].kids = RemoveFirst(@, a)]
          /\ reply' = Answer("delete", how, 0, KeysOf(ChildrenFirst(a)))
  BY DEF Delete, Say
<1>3. a \in Used \ {root}
  BY <1>1, <1>2, FoundInside
<1>4. root # Null /\ Blocks /\ Linked /\ root \in Used /\ Used \in SUBSET Addr
  BY <1>1, <1>3 DEF TreeInv, Linked, Used
<1> DEFINE p == Holder(a)
           D == ToSet(ChildrenFirst(a))
<1>5. Subtree(a, D)
  BY <1>3, <1>4, FreedSubtree
<1>6. p \in Used /\ a \in Kin(p)
  BY <1>1, <1>3, <1>4, HolderIs
<1>7. /\ a \in D /\ D \in SUBSET Used
      /\ \A b \in D : b = a \/ \E x \in D : b \in Kin(x)
  BY <1>5 DEF Subtree
<1>8. heap' = [[b \in Addr |-> IF b \in D THEN Null ELSE heap[b]] EXCEPT ![p].kids = RemoveFirst(@, a)]
  BY <1>2 DEF Without
<1> HIDE DEF p, D
<1>9. p \notin D
  <2> SUFFICES ASSUME p \in D PROVE FALSE
    OBVIOUS
  <2>1. \A b \in D : \E x \in D : b \in Kin(x)
    BY <1>6, <1>7
  <2>2. D = {}
    BY <1>4, <1>7, <2>1, NoLoop
  <2> QED BY <1>7, <2>2
<1>10. Pruned(D, a, p)
  <2> DEFINE w == RemoveFirst(Kids(p), a)
             cut == [heap[p] EXCEPT !.kids = w]
  <2>1. heap[p] \in Node /\ Kids(p) = heap[p].kids /\ p \in Addr
    BY <1>4, <1>6, KidsFacts
  <2>2. w \in Seq(Addr)
    <3> DEFINE s == Kids(p)
               S == Kin(p)
    <3>1. s \in Seq(Addr) /\ \A i, j \in DOMAIN s : s[i] = s[j] => i = j
      BY <1>4, <1>6, <2>1, KidsFacts DEF Linked
    <3>2. ListsOnce(s, S) /\ a \in S /\ S \subseteq Addr
      BY <1>4, <1>6, <3>1, DistinctIsList DEF Kin, Linked
    <3> HIDE DEF s, S
    <3>3. ListsOnce(RemoveFirst(s, a), S \ {a})
      BY <3>2, ListWithout DEF TakenOut
    <3> DEFINE v == RemoveFirst(s, a)
    <3> HIDE DEF v
    <3>4. v \in [1 .. Len(v) -> S \ {a}] /\ Len(v) \in Nat
      BY <3>3, LenProperties DEF ListsOnce, v
    <3>5. v \in [1 .. Len(v) -> Addr]
      BY <3>2, <3>4
    <3>6. v \in Seq(Addr)
      BY <3>4, <3>5, IntervalIsSeq
    <3> QED BY <3>6 DEF v, s
  <2> HIDE DEF w
  <2>3. heap' = [b \in Addr |-> IF b = p THEN cut ELSE IF b \in D THEN Null ELSE heap[b]]
    <3>1. heap'= [[b \in Addr |-> IF b \in D THEN Null ELSE heap[b]]
                    EXCEPT ![p] = [heap[p] EXCEPT !.kids = RemoveFirst(@, a)]]
      BY <1>8, <1>9, <2>1
    <3>2. [heap[p] EXCEPT !.kids = RemoveFirst(@, a)] = cut
      BY <2>1 DEF w
    <3> QED BY <3>1, <3>2
  <2>4. cut \in Node /\ cut.kids = w /\ cut.cap = heap[p].cap /\ cut.parent = heap[p].parent
        /\ cut.key = heap[p].key
    BY <2>1, <2>2 DEF Node
  <2> HIDE DEF cut
  <2>5. /\ \A b \in Addr : heap'[b] = IF b = p THEN cut ELSE IF b \in D THEN Null ELSE heap[b]
        /\ heap'[p] = cut
    BY <2>1, <2>3
  <2>6. heap' \in [Addr -> Node \cup {Null}]
    <3>1. \A b \in Addr : (IF b = p THEN cut ELSE IF b \in D THEN Null ELSE heap[b]) \in Node \cup {Null}
      BY <1>4, <2>4 DEF Blocks
    <3> QED BY <2>3, <3>1
  <2>7. ASSUME NEW b \in Addr PROVE heap'[b] = Null <=> b \in D \/ b \notin Used
    <3>1. CASE b = p
      BY <1>6, <1>9, <2>4, <2>5, <3>1, TreeAssumption
    <3>2. CASE b # p
      BY <2>5, <3>2 DEF Used
    <3> QED BY <3>1, <3>2
  <2>8. \A b \in (Used \ D) \ {p} : heap'[b] = heap[b]
    BY <1>4, <2>5
  <2> QED BY <1>1, <2>4, <2>5, <2>6, <2>7, <2>8 DEF Pruned, w
<1> QED BY <1>1, <1>2, <1>3, <1>4, <1>5, <1>6, <1>7, <1>9, <1>10 DEF D

(* A deletion keeps the invariant: at least the node found goes, which     *)
(* num_el had counted, being under another.                                *)
LEMMA DeletePreserves ==
    ASSUME TreeInv, NEW how \in Searches, NEW k \in Key, Delete(how, k)
    PROVE  TreeInv'
<1>1. /\ Alive /\ num_el' = num_el - 1 /\ UNCHANGED <<root, fault>> /\ Alive'
  BY DEF Delete, Running, Say, Answer, Alive
<1>2. root # Null /\ Linked
  BY DeletePrunes
<1>3. PICK a \in Used \ {root}, p \in Used, D \in SUBSET Used :
          Subtree(a, D) /\ p \notin D /\ a \in Kin(p) /\ Pruned(D, a, p)
  BY DeletePrunes
<1>4. /\ num_el \in Nat /\ num_el >= Cardinality(Used) - 1
      /\ root \in Used /\ Used \in SUBSET Addr
  BY <1>1, <1>2 DEF TreeInv, Linked, Used
<1>7. a \in D /\ D \in SUBSET Used
  BY <1>3 DEF Subtree
<1>11. Used' = Used \ D /\ Linked' /\ ParentsFit'
  BY <1>2, <1>3, PruneKeeps
<1>12. num_el' \in Nat /\ num_el' >= Cardinality(Used') - 1
  <2>1. IsFiniteSet(Used) /\ Cardinality(Used) \in Nat
    <3>1. IsFiniteSet(Used)
      BY <1>4, TreeAssumption, FS_Subset
    <3> QED BY <3>1, FS_CardinalityType
  <2> DEFINE R == Used \ {a}
  <2>2. IsFiniteSet(R) /\ Cardinality(R) = Cardinality(Used) - 1
    BY <1>3, <2>1, FS_RemoveElement
  <2>3. Used' \in SUBSET R /\ R # {}
    BY <1>3, <1>4, <1>7, <1>11
  <2> HIDE DEF R
  <2>4. Cardinality(Used') <= Cardinality(R) /\ IsFiniteSet(Used')
    BY <2>2, <2>3, FS_Subset
  <2>5. Cardinality(R) # 0 /\ Cardinality(R) \in Nat /\ Cardinality(Used') \in Nat
    BY <2>2, <2>3, <2>4, FS_EmptySet, FS_CardinalityType
  <2> QED BY <1>1, <1>4, <2>1, <2>2, <2>4, <2>5
<1>13. Blocks'
  BY <1>3 DEF Pruned, Blocks
<1>14. /\ root' \in Addr \cup {Null} /\ root' # Null
       /\ fault' \in {"none", "old_parent", "root_deleted", "empty"}
  BY <1>1, <1>2 DEF TreeInv
<1> QED BY <1>1, <1>11, <1>12, <1>13, <1>14 DEF TreeInv

(* A first node is the whole tree.                                         *)
LEMMA PlantPreserves ==
    ASSUME TreeInv, NEW k \in Key, Plant(k)
    PROVE  TreeInv'
<1>1. /\ Alive /\ root = Null /\ UNCHANGED <<num_el, fault>> /\ Alive'
  BY DEF Plant, Running, Say, Answer, Alive
<1>2. PICK n \in Unused : root' = n /\ heap' = [heap EXCEPT ![n] = Leaf(k, Null)]
  BY DEF Plant
<1>3. Used = {} /\ Blocks /\ n \in Addr
  BY <1>1 DEF TreeInv, Unused
<1>4. Leaf(k, Null) \in Node /\ Leaf(k, Null).kids = <<>> /\ Leaf(k, Null).cap = 0
  <2>1. <<>> \in Seq(Addr)
    BY EmptySeq
  <2> QED BY <2>1 DEF Leaf, Node
<1>5. /\ heap' \in [Addr -> Node \cup {Null}]
      /\ heap'[n] = Leaf(k, Null) /\ \A b \in Addr \ {n} : heap'[b] = Null
  BY <1>2, <1>3, <1>4 DEF Blocks, Used
<1>6. Used' = {n}
  <2>1. Used' = {b \in Addr : heap'[b] # Null}
    BY DEF Used
  <2> QED BY <1>3, <1>4, <1>5, <2>1, TreeAssumption
<1>7. Kids(n)' = <<>> /\ Kin(n)' = {}
  <2>1. Kids(n)' = <<>>
    BY <1>4, <1>5 DEF Kids
  <2>2. ToSet(<<>>) = {}
    BY ShortLists, ListedOnce
  <2> QED BY <2>1, <2>2 DEF Kin
<1>8. DOMAIN <<>> = {} /\ Len(<<>>) = 0
  OBVIOUS
<1>9. Linked'
  BY <1>2, <1>6, <1>7, <1>8 DEF Linked
<1>10. ParentsFit'
  BY <1>4, <1>5, <1>6, <1>7, <1>8 DEF ParentsFit
<1>11. Cardinality(Used') = 1
  BY <1>6, FS_Singleton
<1>12. num_el' \in Nat /\ num_el' >= Cardinality(Used') - 1
  BY <1>1, <1>11 DEF TreeInv
<1>13. Blocks' /\ root' \in Addr \cup {Null} /\ root' # Null
  BY <1>2, <1>3, <1>5, TreeAssumption DEF Blocks
<1> QED BY <1>1, <1>9, <1>10, <1>12, <1>13 DEF TreeInv

(* tree_free frees every block.                                            *)
LEMMA FreePreserves ==
    ASSUME TreeInv, Free
    PROVE  TreeInv'
<1>1. /\ Alive /\ root # Null /\ heap' = Without(root) /\ UNCHANGED <<root, num_el, fault>>
      /\ ~Alive'
  BY DEF Free, Running, Say, Answer, Alive
<1>2. Blocks /\ Linked /\ root \in Used
  BY <1>1 DEF TreeInv, Linked
<1> DEFINE D == ToSet(ChildrenFirst(root))
<1>3. Subtree(root, D)
  BY <1>2, FreedSubtree
<1>4. heap' = [b \in Addr |-> IF b \in D THEN Null ELSE heap[b]]
  BY <1>1 DEF Without
<1> HIDE DEF D
<1>5. Used \subseteq D
  <2>1. D \in SUBSET Addr /\ root \in D /\ \A b \in D : Kin(b) \subseteq D
    BY <1>3 DEF Subtree, Used
  <2> QED BY <1>2, <2>1 DEF Linked
<1>6. \A b \in Addr : heap'[b] = Null
  BY <1>4, <1>5 DEF Used
<1>7. Used' = {} /\ Blocks'
  <2>1. Used' = {b \in Addr : heap'[b] # Null}
    BY DEF Used
  <2> QED BY <1>4, <1>6, <2>1 DEF Blocks
<1>8. ParentsFit'
  BY <1>7 DEF ParentsFit
<1> QED BY <1>1, <1>7, <1>8 DEF TreeInv

(* The calls that change no block.                                         *)
LEMMA QuietPreserves ==
    ASSUME TreeInv, UNCHANGED <<root, heap, num_el>>, Alive' = Alive,
           fault' \in {"none", "old_parent", "root_deleted", "empty"}
    PROVE  TreeInv'
<1>1. /\ Blocks' = Blocks /\ Used' = Used /\ Linked' = Linked /\ ParentsFit' = ParentsFit
  BY DEF Blocks, Used, Linked, ParentsFit, Kin, Kids
<1> QED BY <1>1 DEF TreeInv

(* A tree made anew after a release is empty, and so is the heap.          *)
LEMMA RenewPreserves ==
    ASSUME TreeInv, Renew
    PROVE  TreeInv'
<1>1. /\ ~Alive /\ root' = Null /\ num_el' = 0 /\ UNCHANGED <<heap, fault>>
  BY DEF Renew, Alive
<1>2. Used' = {} /\ Blocks'
  BY <1>1 DEF TreeInv, Used, Blocks
<1>3. ParentsFit'
  BY <1>2 DEF ParentsFit
<1> QED BY <1>1, <1>2, <1>3 DEF TreeInv

(* A new tree is empty.                                                    *)
LEMMA InitTree ==
    ASSUME Init
    PROVE  TreeInv
<1>1. root = Null /\ heap = [a \in Addr |-> Null] /\ num_el = 0 /\ fault = "none"
  BY DEF Init
<1>2. Used = {} /\ Blocks
  BY <1>1 DEF Used, Blocks
<1>3. ParentsFit
  BY <1>2 DEF ParentsFit
<1> QED BY <1>1, <1>2, <1>3 DEF TreeInv

(* One lemma per call, together.                                           *)
LEMMA NextPreserves ==
    ASSUME TreeInv, [Next]_vars
    PROVE  TreeInv'
<1> DEFINE Faults == {"none", "old_parent", "root_deleted", "empty"}
<1>1. fault \in Faults
  BY DEF TreeInv
<1>2. CASE UNCHANGED vars
  <2>1. UNCHANGED <<root, heap, num_el>> /\ Alive' = Alive /\ fault' \in Faults
    BY <1>1, <1>2 DEF vars, Alive
  <2> QED BY <2>1, QuietPreserves
<1>3. ASSUME NEW k \in Key, Plant(k) PROVE TreeInv'
  BY <1>3, PlantPreserves
<1>4. ASSUME NEW how \in Searches, NEW k \in Key, NEW par \in Key, Insert(how, k, par) PROVE TreeInv'
  BY <1>4, InsertPreserves
<1>5. ASSUME NEW how \in Searches, NEW k \in Key, Find(how, k) PROVE TreeInv'
  <2>1. UNCHANGED <<root, heap, num_el>> /\ Alive' = Alive /\ fault' \in Faults
    BY <1>1, <1>5 DEF Find, tree, Running, Say, Answer, Alive
  <2> QED BY <2>1, QuietPreserves
<1>6. ASSUME NEW how \in Searches, NEW k \in Key, Delete(how, k) PROVE TreeInv'
  BY <1>6, DeletePreserves
<1>7. ASSUME NEW how \in Searches, NEW k \in Key, DeleteMissing(how, k) PROVE TreeInv'
  <2>1. UNCHANGED <<root, heap, num_el>> /\ Alive' = Alive /\ fault' \in Faults
    BY <1>1, <1>7 DEF DeleteMissing, tree, Running, Say, Answer, Alive
  <2> QED BY <2>1, QuietPreserves
<1>8. CASE InsertFails
  <2>1. UNCHANGED <<root, heap, num_el>> /\ Alive' = Alive /\ fault' \in Faults
    BY <1>1, <1>8 DEF InsertFails, tree, Running, Say, Answer, Alive
  <2> QED BY <2>1, QuietPreserves
<1>9. CASE Free
  BY <1>9, FreePreserves
<1>10. CASE Renew
  BY <1>10, RenewPreserves
<1>11. CASE Stops
  <2>1. UNCHANGED <<root, heap, num_el>> /\ Alive' = Alive /\ fault' \in Faults
    BY <1>11 DEF Stops, tree, Alive
  <2> QED BY <2>1, QuietPreserves
<1>12. \/ UNCHANGED vars
       \/ \E k \in Key : Plant(k)
       \/ \E how \in Searches, k \in Key :
             \/ \E par \in Key : Insert(how, k, par)
             \/ Find(how, k) \/ Delete(how, k) \/ DeleteMissing(how, k)
       \/ InsertFails \/ Free \/ Renew \/ Stops
  BY DEF Next
<1> QED BY <1>2, <1>3, <1>4, <1>5, <1>6, <1>7, <1>8, <1>9, <1>10, <1>11, <1>12
---------------------------------------------------------------------------
(* The invariant of every tree, on which the others rest.                  *)
THEOREM TreeInvHolds == Spec => []TreeInv
<1>1. Init => TreeInv
  BY InitTree
<1>2. TreeInv /\ [Next]_vars => TreeInv'
  BY NextPreserves
<1> QED BY <1>1, <1>2, PTL DEF Spec

(* The fields keep their types, whatever is called.                        *)
THEOREM TypeCorrect == Spec => []TypeOK
<1>1. TreeInv => TypeOK
  BY InvImplies
<1> QED BY <1>1, TreeInvHolds, PTL

(* No insertion, deletion, failed call or move of a block loses a block,   *)
(* keeps one that was freed or makes a block the child of two: what is     *)
(* allocated is what a walk from the root visits, each node once.          *)
THEOREM IsTreeHolds == Spec => []IsTree
<1>1. TreeInv => IsTree
  BY InvImplies
<1> QED BY <1>1, TreeInvHolds, PTL

(* tree_node_insert leaves a parent pointer wrong only in the older half   *)
(* of the children of a node that grew beyond its first two slots.         *)
THEOREM OldParentsHolds == Spec => []OldParents
<1>1. TreeInv => OldParents
  BY InvImplies
<1> QED BY <1>1, TreeInvHolds, PTL

(* tree->num_el is never less than the number of nodes below the root,     *)
(* though a deletion subtracts one for a whole subtree.                    *)
THEOREM NumElCoversHolds == Spec => []NumElCovers
<1>1. TreeInv => NumElCovers
  BY InvImplies
<1> QED BY <1>1, TreeInvHolds, PTL
---------------------------------------------------------------------------
(* The generic tree as an ordered tree.  A node is the way to it from the  *)
(* root, child by child.                                                   *)
Way == Seq(Nat \ {0})

(* A step farther, and a step ahead of a way.                              *)
LEMMA Farther ==
    ASSUME NEW p \in Way, NEW i \in Nat \ {0}
    PROVE  /\ Len(p) \in Nat /\ DOMAIN p = 1 .. Len(p) /\ \A n \in 1 .. Len(p) : p[n] \in Nat \ {0}
           /\ Append(p, i) \in Way /\ Len(Append(p, i)) = Len(p) + 1 /\ Append(p, i)[Len(p) + 1] = i
           /\ \A n \in 1 .. Len(p) : Append(p, i)[n] = p[n]
           /\ Append(p, i) # <<>> /\ DOMAIN Append(p, i) = 1 .. Len(p) + 1
<1>1. p \in Seq(Nat \ {0}) /\ Len(p) \in Nat /\ DOMAIN p = 1 .. Len(p)
  BY LenProperties DEF Way
<1>2. \A n \in 1 .. Len(p) : p[n] \in Nat \ {0}
  BY <1>1, ElementOfSeq
<1>3. Append(p, i) \in Way /\ Len(Append(p, i)) = Len(p) + 1 /\ Append(p, i)[Len(p) + 1] = i
      /\ Append(p, i) # <<>> /\ \A n \in 1 .. Len(p) : Append(p, i)[n] = p[n]
  BY <1>1, AppendProperties DEF Way
<1>4. DOMAIN Append(p, i) = 1 .. Len(p) + 1
  BY <1>3, LenProperties DEF Way
<1> QED BY <1>1, <1>2, <1>3, <1>4

(* The root's way.                                                         *)
LEMMA NoWay == <<>> \in Way /\ Len(<<>>) = 0 /\ \A p \in Way : p # <<>> => Len(p) \in Nat \ {0}
  BY EmptySeq DEF Way

(* Ways with the same steps are one.                                       *)
LEMMA SameWay ==
    ASSUME NEW p \in Way, NEW q \in Way, Len(p) = Len(q), \A n \in 1 .. Len(p) : p[n] = q[n]
    PROVE  p = q
  BY SeqEqual DEF Way

(* The last step of a way and the way up to it.                            *)
LEMMA LastStep ==
    ASSUME NEW p \in Way
    PROVE  /\ p # <<>> => /\ Front(p) \in Way /\ Last(p) \in Nat \ {0}
                          /\ p = Append(Front(p), Last(p)) /\ Len(Front(p)) = Len(p) - 1
           /\ \A i \in Nat \ {0} : Front(Append(p, i)) = p /\ Last(Append(p, i)) = i
<1> DEFINE S == Nat \ {0}
<1>1. ASSUME NEW w \in Way, w # <<>>
      PROVE  /\ Front(w) \in Way /\ Len(Front(w)) = Len(w) - 1 /\ Last(w) \in S /\ Len(w) \in Nat \ {0}
             /\ \A j \in 1 .. Len(w) - 1 : Front(w)[j] = w[j]
  <2>1. w \in Seq(S) /\ Len(w) \in Nat \ {0}
    BY <1>1, NoWay DEF Way
  <2> HIDE DEF S
  <2>2. \A j \in 1 .. Len(w) : w[j] \in S
    BY <2>1, ElementOfSeq
  <2>3. 1 \in Int /\ Len(w) - 1 \in Int /\ Len(w) \in 1 .. Len(w) /\ \A j \in 1 .. Len(w) - 1 : w[j] \in S
    BY <2>1, <2>2
  <2>4. /\ Front(w) \in Seq(S) /\ Len(Front(w)) = IF 1 <= Len(w) - 1 THEN (Len(w) - 1) - 1 + 1 ELSE 0
        /\ \A j \in 1 .. (Len(w) - 1) - 1 + 1 : Front(w)[j] = w[1 + j - 1]
    BY <2>3, SubSeqProperties DEF Front
  <2>5. Len(Front(w)) = Len(w) - 1 /\ \A j \in 1 .. Len(w) - 1 : Front(w)[j] = w[j]
    <3>1. Len(Front(w)) = Len(w) - 1
      <4>1. Len(w) \in Nat /\ Len(w) # 0
        BY <2>1
      <4>2. Len(Front(w)) = IF 1 <= Len(w) - 1 THEN (Len(w) - 1) - 1 + 1 ELSE 0
        BY <2>4
      <4> DEFINE n == Len(w)
                 l == Len(Front(w))
      <4>3. n \in Nat /\ n # 0 /\ l = IF 1 <= n - 1 THEN (n - 1) - 1 + 1 ELSE 0
        BY <4>1, <4>2
      <4> HIDE DEF n, l
      <4>4. l = n - 1
        BY <4>3
      <4> QED BY <4>4 DEF n, l
    <3>2. ASSUME NEW j \in 1 .. Len(w) - 1 PROVE j \in 1 .. (Len(w) - 1) - 1 + 1 /\ 1 + j - 1 = j
      BY <2>1
    <3> QED BY <2>4, <3>1, <3>2
  <2> QED BY <2>1, <2>2, <2>3, <2>4, <2>5 DEF Way, Last, S
<1>2. ASSUME p # <<>> PROVE p = Append(Front(p), Last(p))
  <2> DEFINE f == Front(p)
             v == Append(f, Last(p))
  <2>1. f \in Way /\ Len(f) = Len(p) - 1 /\ Last(p) \in S /\ Len(p) \in Nat \ {0}
        /\ \A j \in 1 .. Len(p) - 1 : f[j] = p[j]
    BY <1>1, <1>2
  <2> HIDE DEF f
  <2>2. v \in Way /\ Len(v) = Len(f) + 1 /\ v[Len(f) + 1] = Last(p) /\ \A j \in 1 .. Len(f) : v[j] = f[j]
    BY <2>1, Farther
  <2>3. \A j \in 1 .. Len(p) : v[j] = p[j]
    BY <2>1, <2>2 DEF Last
  <2>4. Len(p) = Len(v)
    BY <2>1, <2>2
  <2> HIDE DEF v
  <2>5. p = v
    BY <2>2, <2>3, <2>4, SameWay
  <2> QED BY <2>5 DEF v, f
<1>3. ASSUME NEW i \in Nat \ {0} PROVE Front(Append(p, i)) = p /\ Last(Append(p, i)) = i
  <2> DEFINE w == Append(p, i)
  <2>1. w \in Way /\ w # <<>> /\ Len(w) = Len(p) + 1 /\ w[Len(p) + 1] = i /\ Len(p) \in Nat
        /\ \A j \in 1 .. Len(p) : w[j] = p[j]
    BY Farther
  <2> HIDE DEF w
  <2>2. Front(w) \in Way /\ Len(Front(w)) = Len(p) /\ \A j \in 1 .. Len(p) : Front(w)[j] = p[j]
    <3>1. /\ Front(w) \in Way /\ Len(Front(w)) = Len(w) - 1
          /\ \A j \in 1 .. Len(w) - 1 : Front(w)[j] = w[j]
      BY <1>1, <2>1
    <3>2. Len(w) - 1 = Len(p)
      BY <2>1
    <3> QED BY <2>1, <3>1, <3>2
  <2>3. Front(w) = p
    BY <2>2, SameWay
  <2> QED BY <2>1, <2>3 DEF w, Last
<1> QED BY <1>1, <1>2, <1>3

(* What it is to lead through another way.                                 *)
LEMMA PrefixIs ==
    ASSUME NEW p \in Way, NEW q \in Way
    PROVE  IsPrefix(p, q) <=> Len(p) <= Len(q) /\ \A n \in 1 .. Len(p) : p[n] = q[n]
<1> DEFINE S == Nat \ {0}
<1>1. p \in Seq(S) /\ q \in Seq(S) /\ Len(p) \in Nat /\ Len(q) \in Nat
  BY LenProperties DEF Way
<1>2. SubSeq(p, 1, Len(p)) = p
  BY <1>1, SubSeqFull
<1> SUFFICES ASSUME Len(p) <= Len(q)
             PROVE  p = SubSeq(q, 1, Len(p)) <=> \A n \in 1 .. Len(p) : p[n] = q[n]
  BY <1>2 DEF IsPrefix
<1> DEFINE u == SubSeq(q, 1, Len(p))
<1>3. u \in Seq(S) /\ Len(u) = Len(p) /\ \A n \in 1 .. Len(p) : u[n] = q[n]
  <2> HIDE DEF S
  <2>1. \A n \in 1 .. Len(p) : q[n] \in S
    BY <1>1, ElementOfSeq
  <2>2. /\ u \in Seq(S) /\ Len(u) = IF 1 <= Len(p) THEN Len(p) - 1 + 1 ELSE 0
        /\ \A n \in 1 .. Len(p) - 1 + 1 : u[n] = q[1 + n - 1]
    BY <1>1, <2>1, SubSeqProperties
  <2> QED BY <1>1, <2>2
<1> HIDE DEF u, S
<1>4. (\A n \in 1 .. Len(p) : p[n] = q[n]) => p = u
  BY <1>1, <1>3, SeqEqual
<1> QED BY <1>3, <1>4 DEF u

(* p turns off to the left of q.                                           *)
Diverges(p, q) == \E i \in DOMAIN p \cap DOMAIN q :
                      p[i] < q[i] /\ \A j \in 1 .. i - 1 : p[j] = q[j]

(* The orders of ways, and that each is one.                               *)
LEMMA WaysOrdered ==
    ASSUME NEW p \in Way, NEW q \in Way
    PROVE  /\ T!Lexical(p, q) <=> IsStrictPrefix(p, q) \/ Diverges(p, q)
           /\ T!ChildrenFirst(p, q) <=> IsStrictPrefix(q, p) \/ Diverges(p, q)
           /\ Diverges(p, q) => /\ ~IsPrefix(p, q) /\ ~IsPrefix(q, p) /\ ~Diverges(q, p) /\ p # q
           /\ IsStrictPrefix(p, q) => Len(p) < Len(q)
           /\ Len(p) \in Nat /\ Len(q) \in Nat
<1>1. Len(p) \in Nat /\ Len(q) \in Nat /\ DOMAIN p = 1 .. Len(p) /\ DOMAIN q = 1 .. Len(q)
      /\ (\A n \in 1 .. Len(p) : p[n] \in Nat) /\ \A n \in 1 .. Len(q) : q[n] \in Nat
  <2>1. p \in Seq(Nat \ {0}) /\ q \in Seq(Nat \ {0})
    BY DEF Way
  <2> QED BY <2>1, LenProperties, ElementOfSeq
<1>2. /\ IsPrefix(p, q) <=> Len(p) <= Len(q) /\ \A n \in 1 .. Len(p) : p[n] = q[n]
      /\ IsPrefix(q, p) <=> Len(q) <= Len(p) /\ \A n \in 1 .. Len(q) : q[n] = p[n]
  BY PrefixIs
<1>3. ASSUME Diverges(p, q) PROVE ~IsPrefix(p, q) /\ ~IsPrefix(q, p) /\ ~Diverges(q, p) /\ p # q
  <2>1. PICK i \in 1 .. Len(p) : /\ i \in 1 .. Len(q) /\ p[i] < q[i]
                                 /\ \A j \in 1 .. i - 1 : p[j] = q[j]
    BY <1>1, <1>3 DEF Diverges
  <2>2. p[i] # q[i] /\ ~(q[i] < p[i])
    BY <1>1, <2>1
  <2>3. ASSUME NEW l \in 1 .. Len(q), l \in 1 .. Len(p), q[l] < p[l], \A j \in 1 .. l - 1 : q[j] = p[j]
        PROVE  FALSE
    <3>1. q[l] # p[l] /\ i # l
      BY <1>1, <2>2, <2>3
    <3>2. i < l => i \in 1 .. l - 1
      BY <1>1, <2>1
    <3>3. l < i => l \in 1 .. i - 1
      BY <1>1, <2>1
    <3>4. i < l \/ l < i
      BY <1>1, <2>1, <3>1
    <3> QED BY <2>1, <2>2, <2>3, <3>1, <3>2, <3>3, <3>4
  <2>4. ~Diverges(q, p)
    BY <1>1, <2>3 DEF Diverges
  <2> QED BY <1>2, <2>1, <2>2, <2>4
<1>4. T!Lexical(p, q) <=> IsStrictPrefix(p, q) \/ Diverges(p, q)
  <2>1. T!IsStrictPrefix(p, q) <=> IsStrictPrefix(p, q)
    BY DEF T!IsStrictPrefix, T!IsPrefix, IsStrictPrefix, IsPrefix
  <2> QED BY <2>1 DEF T!Lexical, Diverges
<1>5. T!ChildrenFirst(p, q) <=> IsStrictPrefix(q, p) \/ Diverges(p, q)
  <2>1. /\ T!IsStrictPrefix(q, p) <=> IsStrictPrefix(q, p)
        /\ T!IsPrefix(p, q) <=> IsPrefix(p, q)
    BY DEF T!IsStrictPrefix, T!IsPrefix, IsStrictPrefix, IsPrefix
  <2>2. IsStrictPrefix(p, q) => IsPrefix(p, q)
    BY DEF IsStrictPrefix
  <2> QED BY <1>3, <1>4, <2>1, <2>2 DEF T!ChildrenFirst
<1>6. ASSUME IsStrictPrefix(p, q) PROVE Len(p) < Len(q)
  <2>1. Len(p) <= Len(q) /\ (\A n \in 1 .. Len(p) : p[n] = q[n]) /\ p # q
    BY <1>2, <1>6 DEF IsStrictPrefix
  <2>2. Len(p) # Len(q)
    BY <2>1, SameWay
  <2>3. Len(p) \in Nat /\ Len(q) \in Nat /\ Len(p) <= Len(q)
    BY <1>1, <2>1
  <2> QED BY <2>2, <2>3
<1> QED BY <1>1, <1>3, <1>4, <1>5, <1>6

(* What a step farther leaves of them.                                     *)
LEMMA OrdersFarther ==
    ASSUME NEW p \in Way, NEW q \in Way, NEW i \in Nat \ {0}
    PROVE  /\ Diverges(p, q) => Diverges(Append(p, i), q)
           /\ Diverges(q, p) => Diverges(q, Append(p, i))
           /\ IsStrictPrefix(p, Append(p, i))
           /\ IsPrefix(q, Append(p, i)) <=> q = Append(p, i) \/ IsPrefix(q, p)
           /\ IsStrictPrefix(q, p) => IsStrictPrefix(q, Append(p, i))
           /\ \A j \in Nat \ {0} : i < j => Diverges(Append(p, i), Append(p, j))
<1> DEFINE a == Append(p, i)
           m == Len(p)
<1>1. /\ m \in Nat /\ DOMAIN p = 1 .. m /\ a \in Way /\ Len(a) = m + 1 /\ a[m + 1] = i
      /\ (\A n \in 1 .. m : a[n] = p[n]) /\ DOMAIN a = 1 .. m + 1 /\ \A n \in 1 .. m : p[n] \in Nat
  BY Farther
<1>2. Len(q) \in Nat /\ DOMAIN q = 1 .. Len(q) /\ \A n \in 1 .. Len(q) : q[n] \in Nat
  BY Farther
<1> HIDE DEF a
<1>3. ASSUME NEW n \in 1 .. m PROVE n \in 1 .. m + 1 /\ \A j \in 1 .. n - 1 : j \in 1 .. m
  BY <1>1
<1>4. Diverges(p, q) => Diverges(a, q)
  <2> SUFFICES ASSUME Diverges(p, q) PROVE Diverges(a, q)
    OBVIOUS
  <2>1. PICK n \in 1 .. m : n \in DOMAIN q /\ p[n] < q[n] /\ \A j \in 1 .. n - 1 : p[j] = q[j]
    BY <1>1 DEF Diverges
  <2>2. n \in DOMAIN a \cap DOMAIN q /\ a[n] < q[n] /\ \A j \in 1 .. n - 1 : a[j] = q[j]
    BY <1>1, <1>3, <2>1
  <2> QED BY <2>2 DEF Diverges
<1>5. Diverges(q, p) => Diverges(q, a)
  <2> SUFFICES ASSUME Diverges(q, p) PROVE Diverges(q, a)
    OBVIOUS
  <2>1. PICK n \in 1 .. m : n \in DOMAIN q /\ q[n] < p[n] /\ \A j \in 1 .. n - 1 : q[j] = p[j]
    BY <1>1 DEF Diverges
  <2>2. n \in DOMAIN q \cap DOMAIN a /\ q[n] < a[n] /\ \A j \in 1 .. n - 1 : q[j] = a[j]
    BY <1>1, <1>3, <2>1
  <2> QED BY <2>2 DEF Diverges
<1>6. IsStrictPrefix(p, a)
  <2>1. IsPrefix(p, a) /\ p # a
    BY <1>1, PrefixIs
  <2> QED BY <2>1 DEF IsStrictPrefix
<1>7. /\ IsPrefix(q, a) <=> Len(q) <= m + 1 /\ \A n \in 1 .. Len(q) : q[n] = a[n]
      /\ IsPrefix(q, p) <=> Len(q) <= m /\ \A n \in 1 .. Len(q) : q[n] = p[n]
  BY <1>1, PrefixIs
<1>8. IsPrefix(q, a) <=> q = a \/ IsPrefix(q, p)
  <2>1. CASE Len(q) <= m
    <3>1. \A n \in 1 .. Len(q) : n \in 1 .. m
      BY <1>1, <1>2, <2>1
    <3>2. (\A n \in 1 .. Len(q) : q[n] = a[n]) <=> \A n \in 1 .. Len(q) : q[n] = p[n]
      BY <1>1, <3>1
    <3>3. q # a /\ Len(q) <= m + 1
      BY <1>1, <1>2, <2>1
    <3> QED BY <1>7, <2>1, <3>2, <3>3
  <2>2. CASE ~(Len(q) <= m)
    <3>1. Len(q) <= m + 1 => Len(q) = Len(a)
      <4>1. Len(q) \in Nat /\ m \in Nat /\ Len(a) = m + 1
        BY <1>1, <1>2
      <4> HIDE DEF m
      <4> QED BY <2>2, <4>1
    <3>2. IsPrefix(q, a) => q = a
      BY <1>1, <1>7, <3>1, SameWay
    <3>3. q = a => IsPrefix(q, a)
      BY <1>1, <1>7
    <3> QED BY <1>7, <2>2, <3>2, <3>3
  <2> QED BY <2>1, <2>2
<1>9. IsStrictPrefix(q, p) => IsStrictPrefix(q, a)
  <2>1. IsPrefix(q, p) => q # a
    BY <1>1, <1>2, <1>7
  <2> QED BY <1>8, <2>1 DEF IsStrictPrefix
<1>10. ASSUME NEW j \in Nat \ {0}, i < j PROVE Diverges(a, Append(p, j))
  <2> DEFINE b == Append(p, j)
  <2>1. DOMAIN b = 1 .. m + 1 /\ b[m + 1] = j /\ \A n \in 1 .. m : b[n] = p[n]
    BY Farther
  <2> HIDE DEF b
  <2>2. m + 1 \in DOMAIN a \cap DOMAIN b /\ a[m + 1] < b[m + 1]
    BY <1>1, <1>10, <2>1
  <2>3. \A n \in 1 .. (m + 1) - 1 : a[n] = b[n]
    BY <1>1, <2>1
  <2> QED BY <2>2, <2>3 DEF Diverges, b
<1> QED BY <1>4, <1>5, <1>6, <1>8, <1>9, <1>10 DEF a

(* at has the node of every way through the tree from r by the children    *)
(* kids.                                                                   *)
KidsOf == [a \in Addr |-> Kids(a)]
IsChart(at, r, kids) ==
    /\ at \in [DOMAIN at -> Addr] /\ DOMAIN at \subseteq Way
    /\ <<>> \in DOMAIN at /\ at[<<>>] = r
    /\ \A p \in Way, i \in Nat \ {0} :
          /\ Append(p, i) \in DOMAIN at <=> p \in DOMAIN at /\ i \in 1 .. Len(kids[at[p]])
          /\ Append(p, i) \in DOMAIN at => at[Append(p, i)] = kids[at[p]][i]

(* What a chart of the tree says, step by step.                            *)
LEMMA ChartSteps ==
    ASSUME Blocks, NEW at, IsChart(at, root, KidsOf)
    PROVE  /\ at \in [DOMAIN at -> Addr] /\ DOMAIN at \subseteq Way
           /\ <<>> \in DOMAIN at /\ at[<<>>] = root
           /\ \A p \in DOMAIN at, i \in Nat \ {0} :
                 Append(p, i) \in DOMAIN at <=> i \in 1 .. Len(Kids(at[p]))
           /\ \A p \in Way, i \in Nat \ {0} : Append(p, i) \in DOMAIN at =>
                 /\ p \in DOMAIN at /\ i \in DOMAIN Kids(at[p]) /\ i \in 1 .. Len(Kids(at[p]))
                 /\ at[Append(p, i)] = Kids(at[p])[i] /\ at[Append(p, i)] \in Kin(at[p])
           /\ \A p \in DOMAIN at : p # <<>> => \E q \in DOMAIN at, i \in Nat \ {0} : p = Append(q, i)
<1>1. /\ at \in [DOMAIN at -> Addr] /\ DOMAIN at \subseteq Way
      /\ <<>> \in DOMAIN at /\ at[<<>>] = root
      /\ \A p \in Way, i \in Nat \ {0} :
          /\ Append(p, i) \in DOMAIN at <=> p \in DOMAIN at /\ i \in 1 .. Len(KidsOf[at[p]])
          /\ Append(p, i) \in DOMAIN at => at[Append(p, i)] = KidsOf[at[p]][i]
  BY DEF IsChart
<1>2. \A p \in DOMAIN at : KidsOf[at[p]] = Kids(at[p]) /\ DOMAIN Kids(at[p]) = 1 .. Len(Kids(at[p]))
  <2> TAKE p \in DOMAIN at
  <2>1. at[p] \in Addr
    BY <1>1
  <2>2. Kids(at[p]) \in Seq(Addr)
    BY <2>1, KidsFacts
  <2> QED BY <2>1, <2>2, LenProperties DEF KidsOf
<1>3. ASSUME NEW p \in Way, NEW i \in Nat \ {0}, Append(p, i) \in DOMAIN at
      PROVE  /\ p \in DOMAIN at /\ i \in DOMAIN Kids(at[p]) /\ i \in 1 .. Len(Kids(at[p]))
             /\ at[Append(p, i)] = Kids(at[p])[i] /\ at[Append(p, i)] \in Kin(at[p])
  <2>1. p \in DOMAIN at /\ i \in 1 .. Len(KidsOf[at[p]]) /\ at[Append(p, i)] = KidsOf[at[p]][i]
    BY <1>1, <1>3
  <2>2. i \in DOMAIN Kids(at[p]) /\ at[Append(p, i)] = Kids(at[p])[i] /\ i \in 1 .. Len(Kids(at[p]))
    BY <1>2, <2>1
  <2> QED BY <2>1, <2>2 DEF Kin, ToSet
<1>4. ASSUME NEW p \in DOMAIN at, p # <<>> PROVE \E q \in DOMAIN at, i \in Nat \ {0} : p = Append(q, i)
  <2>1. p \in Way
    BY <1>1
  <2>2. Front(p) \in Way /\ Last(p) \in Nat \ {0} /\ p = Append(Front(p), Last(p))
    BY <1>4, <2>1, LastStep
  <2>3. Append(Front(p), Last(p)) \in DOMAIN at
    BY <2>2
  <2>4. Front(p) \in DOMAIN at
    BY <1>3, <2>2, <2>3
  <2> QED BY <2>2, <2>4
<1>5. \A p \in DOMAIN at, i \in Nat \ {0} : Append(p, i) \in DOMAIN at <=> i \in 1 .. Len(Kids(at[p]))
  <2> TAKE p \in DOMAIN at, i \in Nat \ {0}
  <2>1. p \in Way
    BY <1>1
  <2>2. Append(p, i) \in DOMAIN at <=> p \in DOMAIN at /\ i \in 1 .. Len(KidsOf[at[p]])
    BY <1>1, <2>1
  <2> QED BY <1>2, <2>2
<1> QED BY <1>1, <1>3, <1>4, <1>5

(* Each node is at one way.                                                *)
LEMMA ChartNodes ==
    ASSUME Blocks, Linked, NEW at, IsChart(at, root, KidsOf)
    PROVE  /\ \A p \in DOMAIN at : at[p] \in Used
           /\ \A p, q \in DOMAIN at : at[p] = at[q] => p = q
           /\ \A a \in Used : \E p \in DOMAIN at : at[p] = a
<1>1. /\ at \in [DOMAIN at -> Addr] /\ DOMAIN at \subseteq Way
      /\ <<>> \in DOMAIN at /\ at[<<>>] = root
      /\ \A p \in DOMAIN at, i \in Nat \ {0} :
             Append(p, i) \in DOMAIN at <=> i \in 1 .. Len(Kids(at[p]))
      /\ \A p \in Way, i \in Nat \ {0} : Append(p, i) \in DOMAIN at =>
                 /\ p \in DOMAIN at /\ i \in DOMAIN Kids(at[p]) /\ i \in 1 .. Len(Kids(at[p]))
                 /\ at[Append(p, i)] = Kids(at[p])[i] /\ at[Append(p, i)] \in Kin(at[p])
      /\ \A p \in DOMAIN at : p # <<>> => \E q \in DOMAIN at, i \in Nat \ {0} : p = Append(q, i)
  BY ChartSteps
<1>2. \A p \in Way, i \in Nat \ {0} : Len(Append(p, i)) = Len(p) + 1 /\ Len(p) \in Nat
  BY Farther
<1>3. ASSUME NEW p \in DOMAIN at PROVE at[p] \in Used
  <2> DEFINE P == {n \in 0 .. Len(p) : \A q \in DOMAIN at : Len(q) = n => at[q] \in Used}
  <2>1. Len(p) \in Nat
    BY <1>1, Farther
  <2>2. 0 \in P
    <3>1. \A q \in DOMAIN at : Len(q) = 0 => q = <<>>
      BY <1>1, NoWay
    <3> QED BY <1>1, <2>1, <3>1 DEF Linked
  <2>3. ASSUME NEW n \in 0 .. Len(p) - 1, n \in P PROVE n + 1 \in P
    <3>1. ASSUME NEW q \in DOMAIN at, Len(q) = n + 1 PROVE at[q] \in Used
      <4>1. q # <<>>
        BY <3>1, NoWay
      <4>2. PICK u \in DOMAIN at, i \in Nat \ {0} : q = Append(u, i)
        BY <1>1, <4>1
      <4>3. u \in Way /\ Len(q) = Len(u) + 1 /\ Len(u) \in Nat
        BY <1>1, <1>2, <4>2
      <4>4. Len(u) = n
        BY <3>1, <4>3
      <4>5. at[u] \in Used /\ at[q] \in Kin(at[u])
        BY <1>1, <2>3, <4>2, <4>3, <4>4
      <4> QED BY <4>5 DEF Linked
    <3> QED BY <2>1, <3>1
  <2> HIDE DEF P
  <2>4. \A n \in 0 .. Len(p) : n \in P
    BY <2>1, <2>2, <2>3, InductionTo
  <2>5. Len(p) \in P
    BY <2>1, <2>4
  <2> QED BY <2>5 DEF P
<1>4. ASSUME NEW p \in DOMAIN at, NEW z \in DOMAIN at, at[p] = at[z] PROVE p = z
  <2> DEFINE P == {n \in 0 .. Len(p) : \A u, v \in DOMAIN at : Len(u) = n /\ at[u] = at[v] => u = v}
  <2>1. Len(p) \in Nat
    BY <1>1, Farther
  <2>2. 0 \in P
    <3>1. \A q \in DOMAIN at : Len(q) = 0 => q = <<>>
      BY <1>1, NoWay
    <3>2. ASSUME NEW v \in DOMAIN at, at[v] = root PROVE v = <<>>
      <4> SUFFICES ASSUME v # <<>> PROVE FALSE
        OBVIOUS
      <4>1. PICK u \in DOMAIN at, i \in Nat \ {0} : v = Append(u, i)
        BY <1>1
      <4>2. at[v] \in Kin(at[u]) /\ at[u] \in Used
        BY <1>1, <1>3, <4>1
      <4> QED BY <3>2, <4>2 DEF Linked
    <3> QED BY <1>1, <2>1, <3>1, <3>2
  <2>3. ASSUME NEW n \in 0 .. Len(p) - 1, n \in P PROVE n + 1 \in P
    <3>1. ASSUME NEW u \in DOMAIN at, NEW v \in DOMAIN at, Len(u) = n + 1, at[u] = at[v] PROVE u = v
      <4>1. u # <<>>
        BY <3>1, NoWay
      <4>2. PICK s \in DOMAIN at, i \in Nat \ {0} : u = Append(s, i)
        BY <1>1, <4>1
      <4>3. s \in Way /\ Len(u) = Len(s) + 1 /\ Len(s) \in Nat
        BY <1>1, <1>2, <4>2
      <4>4. Len(s) = n
        BY <3>1, <4>3
      <4>5. /\ at[s] \in Used /\ at[u] \in Kin(at[s]) /\ at[u] = Kids(at[s])[i]
            /\ i \in DOMAIN Kids(at[s])
        BY <1>1, <1>3, <4>2, <4>3
      <4>6. v # <<>>
        BY <1>1, <3>1, <4>5 DEF Linked
      <4>7. PICK t \in DOMAIN at, j \in Nat \ {0} : v = Append(t, j)
        BY <1>1, <4>6
      <4>8. /\ at[t] \in Used /\ at[v] \in Kin(at[t]) /\ at[v] = Kids(at[t])[j]
            /\ j \in DOMAIN Kids(at[t])
        BY <1>1, <1>3, <4>7
      <4>9. at[s] = at[t]
        BY <3>1, <4>5, <4>8 DEF Linked
      <4>10. s = t
        BY <2>3, <4>4, <4>9
      <4>11. i = j
        BY <3>1, <4>5, <4>8, <4>9 DEF Linked
      <4> QED BY <4>2, <4>7, <4>10, <4>11
    <3> QED BY <2>1, <3>1
  <2> HIDE DEF P
  <2>4. \A n \in 0 .. Len(p) : n \in P
    BY <2>1, <2>2, <2>3, InductionTo
  <2>5. Len(p) \in P
    BY <2>1, <2>4
  <2> QED BY <1>4, <2>5 DEF P
<1>5. ASSUME NEW a \in Used PROVE \E p \in DOMAIN at : at[p] = a
  <2> DEFINE S == {at[p] : p \in DOMAIN at}
  <2>1. S \in SUBSET Addr /\ root \in S
    BY <1>1
  <2>2. ASSUME NEW p \in DOMAIN at PROVE Kin(at[p]) \subseteq S
    <3>1. at[p] \in Addr /\ Kids(at[p]) \in Seq(Addr)
      BY <1>1, KidsFacts
    <3>2. DOMAIN Kids(at[p]) = 1 .. Len(Kids(at[p]))
      BY <3>1, LenProperties
    <3>3. ASSUME NEW i \in DOMAIN Kids(at[p]) PROVE Kids(at[p])[i] \in S
      <4>1. i \in Nat \ {0} /\ p \in Way
        BY <1>1, <3>2
      <4>2. Append(p, i) \in DOMAIN at
        BY <1>1, <3>2, <3>3, <4>1
      <4>3. at[Append(p, i)] = Kids(at[p])[i]
        BY <1>1, <4>1, <4>2
      <4> QED BY <4>2, <4>3
    <3> QED BY <3>3 DEF Kin, ToSet
  <2>3. \A x \in S : Kin(x) \subseteq S
    BY <2>2
  <2> HIDE DEF S
  <2>4. Used \subseteq S
    BY <2>1, <2>3 DEF Linked
  <2> QED BY <2>4 DEF S
<1> QED BY <1>3, <1>4, <1>5

(* A way passes as many nodes as it has steps, and one.                    *)
LEMMA ChartDepth ==
    ASSUME Blocks, Linked, NEW at, IsChart(at, root, KidsOf), NEW p \in DOMAIN at
    PROVE  Len(p) \in 0 .. Cardinality(Addr)
<1>1. /\ at \in [DOMAIN at -> Addr] /\ DOMAIN at \subseteq Way
      /\ <<>> \in DOMAIN at /\ at[<<>>] = root
      /\ \A u \in Way, i \in Nat \ {0} : Append(u, i) \in DOMAIN at => u \in DOMAIN at
      /\ \A u \in DOMAIN at : u # <<>> => \E q \in DOMAIN at, i \in Nat \ {0} : u = Append(q, i)
  BY ChartSteps
<1>2. \A u, v \in DOMAIN at : at[u] = at[v] => u = v
  BY ChartNodes
<1>3. Len(p) \in Nat
  BY <1>1, Farther
<1> DEFINE Short(n) == {at[q] : q \in {u \in DOMAIN at : Len(u) <= n}}
           Past(n) == \E S \in SUBSET Short(n) : IsFiniteSet(S) /\ Cardinality(S) = n + 1
           P == {n \in 0 .. Len(p) : (\E q \in DOMAIN at : Len(q) = n) => Past(n)}
<1>4. 0 \in P
  <2>1. {root} \in SUBSET Short(0)
    BY <1>1, NoWay
  <2>2. IsFiniteSet({root}) /\ Cardinality({root}) = 0 + 1
    <3>1. IsFiniteSet({root}) /\ Cardinality({root}) = 1
      BY FS_Singleton
    <3> QED BY <3>1
  <2> QED BY <1>3, <2>1, <2>2
<1>5. ASSUME NEW n \in 0 .. Len(p) - 1, n \in P PROVE n + 1 \in P
  <2> SUFFICES ASSUME NEW q \in DOMAIN at, Len(q) = n + 1 PROVE Past(n + 1)
    BY <1>3
  <2>1. q # <<>>
    BY NoWay
  <2>2. PICK s \in DOMAIN at, i \in Nat \ {0} : q = Append(s, i)
    BY <1>1, <2>1
  <2>3. s \in Way /\ Len(q) = Len(s) + 1 /\ Len(s) \in Nat
    BY <1>1, <2>2, Farther
  <2>4. Len(s) = n
    BY <2>3
  <2>5. PICK S \in SUBSET Short(n) : IsFiniteSet(S) /\ Cardinality(S) = n + 1
    BY <1>5, <2>4
  <2>6. at[q] \notin S
    <3> SUFFICES ASSUME at[q] \in Short(n) PROVE FALSE
      BY <2>5
    <3>1. PICK u \in DOMAIN at : Len(u) <= n /\ at[q] = at[u]
      OBVIOUS
    <3>2. Len(q) <= n
      BY <1>2, <3>1
    <3> QED BY <3>2
  <2>7. IsFiniteSet(S \cup {at[q]}) /\ Cardinality(S \cup {at[q]}) = (n + 1) + 1
    BY <2>5, <2>6, FS_AddElement
  <2>8. S \cup {at[q]} \in SUBSET Short(n + 1)
    <3>1. \A u \in DOMAIN at : Len(u) \in Nat
      BY <1>1, Farther
    <3>2. \A u \in DOMAIN at : Len(u) <= n => Len(u) <= n + 1
      BY <3>1
    <3>3. Len(q) <= n + 1
      OBVIOUS
    <3> QED BY <2>5, <3>2, <3>3
  <2> QED BY <2>7, <2>8
<1>6. Past(Len(p))
  <2> HIDE DEF P
  <2>1. \A n \in 0 .. Len(p) : n \in P
    BY <1>3, <1>4, <1>5, InductionTo
  <2>2. Len(p) \in P
    BY <1>3, <2>1
  <2> QED BY <2>2 DEF P
<1>7. PICK S \in SUBSET Addr : IsFiniteSet(S) /\ Cardinality(S) = Len(p) + 1
  BY <1>1, <1>6
<1>8. Cardinality(S) <= Cardinality(Addr) /\ Cardinality(Addr) \in Nat
  BY <1>7, TreeAssumption, FS_Subset, FS_CardinalityType
<1> QED BY <1>3, <1>7, <1>8

(* The nodes of a chart n steps from the root, with their ways, and those  *)
(* down to there.                                                          *)
Level(at, n) == {<<p, at[p]>> : p \in {q \in DOMAIN at : Len(q) = n}}
Down(at, n) == {<<p, at[p]>> : p \in {q \in DOMAIN at : Len(q) <= n}}
Row(at, n) == [last |-> Level(at, n), all |-> Down(at, n)]

(* ... and a step farther.                                                 *)
LEMMA LevelFarther ==
    ASSUME Blocks, NEW at, IsChart(at, root, KidsOf), NEW n \in Nat
    PROVE  Level(at, n + 1) =
               UNION {{<<Append(x[1], i), Kids(x[2])[i]>> : i \in DOMAIN Kids(x[2])} : x \in Level(at, n)}
<1> DEFINE D == {q \in DOMAIN at : Len(q) = n}
           E == {q \in DOMAIN at : Len(q) = n + 1}
           Below(x) == {<<Append(x[1], i), Kids(x[2])[i]>> : i \in DOMAIN Kids(x[2])}
<1>1. /\ at \in [DOMAIN at -> Addr] /\ DOMAIN at \subseteq Way
      /\ <<>> \in DOMAIN at /\ at[<<>>] = root
      /\ \A p \in DOMAIN at, i \in Nat \ {0} :
             Append(p, i) \in DOMAIN at <=> i \in 1 .. Len(Kids(at[p]))
      /\ \A p \in Way, i \in Nat \ {0} : Append(p, i) \in DOMAIN at =>
                 /\ p \in DOMAIN at /\ i \in DOMAIN Kids(at[p]) /\ i \in 1 .. Len(Kids(at[p]))
                 /\ at[Append(p, i)] = Kids(at[p])[i]
      /\ \A p \in DOMAIN at : p # <<>> => \E q \in DOMAIN at, i \in Nat \ {0} : p = Append(q, i)
  BY ChartSteps
<1> DEFINE Next1 == UNION {Below(x) : x \in Level(at, n)}
<1>2. <<>> \notin E
  BY NoWay
<1>3. ASSUME NEW q \in D, NEW i \in DOMAIN Kids(at[q])
      PROVE  Append(q, i) \in E /\ at[Append(q, i)] = Kids(at[q])[i]
  <2>1. q \in Way /\ at[q] \in Addr
    BY <1>1
  <2>2. Kids(at[q]) \in Seq(Addr)
    BY <2>1, KidsFacts
  <2>3. i \in 1 .. Len(Kids(at[q])) /\ Len(Kids(at[q])) \in Nat
    BY <1>3, <2>2, LenProperties
  <2>4. i \in Nat \ {0}
    BY <2>3
  <2>5. Append(q, i) \in DOMAIN at
    BY <1>1, <2>3, <2>4
  <2>6. Len(Append(q, i)) = Len(q) + 1 /\ Len(q) \in Nat /\ Len(q) = n
    BY <2>1, <2>4, Farther
  <2>7. Len(Append(q, i)) = n + 1
    BY <2>6
  <2> QED BY <1>1, <2>1, <2>4, <2>5, <2>7
<1>4. ASSUME NEW p \in E
      PROVE  \E q \in D : \E i \in DOMAIN Kids(at[q]) : p = Append(q, i) /\ at[p] = Kids(at[q])[i]
  <2>1. PICK q \in DOMAIN at, i \in Nat \ {0} : p = Append(q, i)
    BY <1>1, <1>2
  <2>2. q \in Way /\ Len(p) = Len(q) + 1 /\ Len(q) \in Nat /\ Len(p) = n + 1
    BY <1>1, <2>1, Farther
  <2>3. Len(q) = n
    BY <2>2
  <2>4. i \in DOMAIN Kids(at[q]) /\ at[p] = Kids(at[q])[i]
    BY <1>1, <2>1, <2>2
  <2> QED BY <2>1, <2>3, <2>4
<1>5. /\ \A x : x \in Level(at, n) <=> \E p \in D : x = <<p, at[p]>>
      /\ \A x : x \in Level(at, n + 1) <=> \E p \in E : x = <<p, at[p]>>
  BY DEF Level
<1>6. \A x : x \in Next1 <=> \E y \in Level(at, n) : x \in Below(y)
  OBVIOUS
<1>7. \A q : \A x : x \in Below(<<q, at[q]>>) <=>
            \E i \in DOMAIN Kids(at[q]) : x = <<Append(q, i), Kids(at[q])[i]>>
  OBVIOUS
<1> HIDE DEF D, E, Below, Next1
<1>8. ASSUME NEW x \in Next1 PROVE x \in Level(at, n + 1)
  <2>1. PICK y \in Level(at, n) : x \in Below(y)
    BY <1>6
  <2>2. PICK q \in D : y = <<q, at[q]>>
    BY <1>5
  <2>3. PICK i \in DOMAIN Kids(at[q]) : x = <<Append(q, i), Kids(at[q])[i]>>
    BY <1>7, <2>1, <2>2
  <2>4. Append(q, i) \in E /\ x = <<Append(q, i), at[Append(q, i)]>>
    BY <1>3, <2>3
  <2> QED BY <1>5, <2>4
<1>9. ASSUME NEW x \in Level(at, n + 1) PROVE x \in Next1
  <2>1. PICK p \in E : x = <<p, at[p]>>
    BY <1>5
  <2>2. PICK q \in D : \E i \in DOMAIN Kids(at[q]) : p = Append(q, i) /\ at[p] = Kids(at[q])[i]
    BY <1>4
  <2>3. x \in Below(<<q, at[q]>>)
    BY <1>7, <2>1, <2>2
  <2>4. <<q, at[q]>> \in Level(at, n)
    BY <1>5
  <2> QED BY <1>6, <2>3, <2>4
<1>10. Level(at, n + 1) = Next1
  BY <1>8, <1>9
<1> QED BY <1>10 DEF Next1, Below

(* So the rows that list the nodes by path are the levels of the chart.   *)
LEMMA RowFarther ==
    ASSUME Blocks, NEW at, IsChart(at, root, KidsOf), NEW n \in Nat
    PROVE  Further(Row(at, n)) = Row(at, n + 1)
<1>1. \A p \in DOMAIN at : Len(p) \in Nat
  BY ChartSteps, Farther
<1>2. {q \in DOMAIN at : Len(q) <= n + 1} =
          {q \in DOMAIN at : Len(q) <= n} \cup {q \in DOMAIN at : Len(q) = n + 1}
  BY <1>1
<1>3. Down(at, n + 1) = Down(at, n) \cup Level(at, n + 1)
  BY <1>2 DEF Down, Level
<1>4. Further(Row(at, n)) = [last |-> Level(at, n + 1), all |-> Down(at, n) \cup Level(at, n + 1)]
  BY LevelFarther DEF Further, Row
<1> QED BY <1>3, <1>4 DEF Row

(* What an only element is.                                                *)
LEMMA OnlyIs == \A x : Only({x}) = x
  BY DEF Only

(* The nodes by path are the chart of the tree.                            *)
LEMMA NodesByPath ==
    ASSUME Blocks, Linked, NEW at, IsChart(at, root, KidsOf)
    PROVE  NodeByPath = at
<1> DEFINE N == Cardinality(Addr)
           top == {<<<<>>, root>>}
           r0 == [last |-> top, all |-> top]
           G(f) == [n \in 0 .. N |-> IF n = 0 THEN r0 ELSE Only({Further(r) : r \in {f[n - 1]}})]
           F == CHOOSE f : f = G(f)
           h == [n \in 0 .. N |-> Row(at, n)]
<1>1. N \in Nat
  BY TreeAssumption, FS_CardinalityType
<1>2. /\ at \in [DOMAIN at -> Addr] /\ DOMAIN at \subseteq Way
      /\ <<>> \in DOMAIN at /\ at[<<>>] = root
  BY ChartSteps
<1>3. Down(at, 0) = {<<<<>>, root>>}
  <2>1. {q \in DOMAIN at : Len(q) <= 0} = {<<>>}
    <3>1. \A q \in DOMAIN at : q # <<>> => Len(q) \in Nat \ {0}
      BY <1>2, NoWay
    <3>2. \A q \in DOMAIN at : q # <<>> => ~(Len(q) <= 0)
      BY <3>1
    <3> QED BY <1>2, <3>2, NoWay
  <2>2. Down(at, 0) = {<<p, at[p]>> : p \in {<<>>}}
    BY <2>1 DEF Down
  <2> QED BY <1>2, <2>2
<1>3a. Level(at, 0) = {<<<<>>, root>>}
  <2>1. {q \in DOMAIN at : Len(q) = 0} = {<<>>}
    <3>1. \A q \in DOMAIN at : q # <<>> => Len(q) \in Nat \ {0}
      BY <1>2, NoWay
    <3>2. \A q \in DOMAIN at : q # <<>> => ~(Len(q) = 0)
      BY <3>1
    <3> QED BY <1>2, <3>2, NoWay
  <2>2. Level(at, 0) = {<<p, at[p]>> : p \in {<<>>}}
    BY <2>1 DEF Level
  <2> QED BY <1>2, <2>2
<1>3b. Row(at, 0) = r0
  BY <1>3, <1>3a DEF Row
<1> HIDE DEF r0
<1>4. ASSUME NEW n \in 1 .. N
      PROVE  n - 1 \in 0 .. N /\ Only({Further(r) : r \in {Row(at, n - 1)}}) = Row(at, n)
  <2>1. n - 1 \in Nat /\ n - 1 \in 0 .. N /\ (n - 1) + 1 = n
    BY <1>1
  <2>2. Further(Row(at, n - 1)) = Row(at, n)
    BY <2>1, RowFarther
  <2>3. {Further(r) : r \in {Row(at, n - 1)}} = {Row(at, n)}
    BY <2>2
  <2> QED BY <2>1, <2>3, OnlyIs
<1>5. h = G(h)
  <2>1. ASSUME NEW n \in 0 .. N
        PROVE  Row(at, n) = IF n = 0 THEN r0 ELSE Only({Further(r) : r \in {h[n - 1]}})
    <3>1. CASE n = 0
      BY <1>3b, <3>1
    <3>2. CASE n # 0
      <4>1. n \in 1 .. N
        BY <3>2
      <4>2. n - 1 \in 0 .. N /\ Only({Further(r) : r \in {Row(at, n - 1)}}) = Row(at, n)
        BY <1>4, <4>1
      <4>3. h[n - 1] = Row(at, n - 1)
        BY <4>2
      <4> QED BY <3>2, <4>2, <4>3
    <3> QED BY <3>1, <3>2
  <2> QED BY <2>1
<1>6. F = G(F)
  BY <1>5
<1> HIDE DEF F, h, N
<1>7. \A n \in 0 .. N : F[n] = IF n = 0 THEN r0 ELSE Only({Further(r) : r \in {F[n - 1]}})
  BY <1>6
<1> DEFINE P == {n \in 0 .. N : F[n] = Row(at, n)}
<1>8. 0 \in P
  <2>1. 0 \in 0 .. N
    BY <1>1
  <2>2. F[0] = r0
    BY <1>7, <2>1
  <2>3. F[0] = Row(at, 0)
    BY <1>3b, <2>2
  <2> QED BY <2>1, <2>3
<1>9. ASSUME NEW n \in 0 .. N - 1, n \in P PROVE n + 1 \in P
  <2>1. n + 1 \in 1 .. N /\ n + 1 \in 0 .. N /\ (n + 1) - 1 = n /\ n + 1 # 0
    BY <1>1
  <2>2. F[n + 1] = Only({Further(r) : r \in {F[n]}})
    BY <1>7, <2>1
  <2>3. F[n + 1] = Row(at, n + 1)
    BY <1>4, <1>9, <2>1, <2>2
  <2> QED BY <2>1, <2>3
<1>10. F[N] = Row(at, N)
  <2> HIDE DEF P
  <2>1. \A n \in 0 .. N : n \in P
    BY <1>1, <1>8, <1>9, InductionTo
  <2>2. N \in P
    BY <1>1, <2>1
  <2> QED BY <2>2 DEF P
<1>11. Down(at, N) = {<<p, at[p]>> : p \in DOMAIN at}
  <2>1. \A p \in DOMAIN at : Len(p) <= N
    BY <1>1, ChartDepth DEF N
  <2>2. {q \in DOMAIN at : Len(q) <= N} = DOMAIN at
    BY <2>1
  <2> QED BY <2>2 DEF Down
<1> DEFINE W == {<<p, at[p]>> : p \in DOMAIN at}
<1>12. NodeByPath = Only({AtPaths(r.all) : r \in {F[N]}})
  BY DEF NodeByPath, F, N, r0
<1>13. NodeByPath = AtPaths(W)
  <2>1. F[N].all = W
    BY <1>10, <1>11 DEF Row
  <2>2. {AtPaths(r.all) : r \in {F[N]}} = {AtPaths(F[N].all)}
    OBVIOUS
  <2>3. NodeByPath = AtPaths(F[N].all)
    BY <1>12, <2>2, OnlyIs
  <2> QED BY <2>1, <2>3
<1>14. \A x : x \in W <=> \E p \in DOMAIN at : x = <<p, at[p]>>
  OBVIOUS
<1> HIDE DEF W
<1>15. {x[1] : x \in W} = DOMAIN at
  <2>1. \A p \in DOMAIN at : <<p, at[p]>> \in W /\ <<p, at[p]>>[1] = p
    BY <1>14
  <2>2. \A x \in W : x[1] \in DOMAIN at
    BY <1>14
  <2>3. DOMAIN at \subseteq {x[1] : x \in W}
    BY <2>1
  <2>4. {x[1] : x \in W} \subseteq DOMAIN at
    BY <2>2
  <2> QED BY <2>3, <2>4
<1>16. ASSUME NEW p \in DOMAIN at PROVE (CHOOSE x \in W : x[1] = p)[2] = at[p]
  <2>1. <<p, at[p]>> \in W /\ <<p, at[p]>>[1] = p
    BY <1>14
  <2>2. \A x \in W : x[1] = p => x = <<p, at[p]>>
    BY <1>14
  <2>3. PICK x : x = CHOOSE y \in W : y[1] = p
    OBVIOUS
  <2>4. \E y \in W : y[1] = p
    BY <2>1
  <2>5. x \in W /\ x[1] = p
    BY <2>3, <2>4
  <2>6. x = <<p, at[p]>>
    BY <2>2, <2>5
  <2>7. x[2] = at[p]
    BY <2>6
  <2> QED BY <2>3, <2>7
<1>17. NodeByPath = [p \in DOMAIN at |-> at[p]]
  BY <1>13, <1>15, <1>16 DEF AtPaths
<1> QED BY <1>2, <1>17

(* The tree is live, and at is its chart.                                  *)
Charted(at) == /\ TreeInv /\ Alive /\ root # Null /\ Blocks /\ Linked
               /\ IsChart(at, root, KidsOf)
Keyed(at) == [p \in DOMAIN at |-> heap[at[p]].key]

(* The keys by path are those of the nodes of the chart ...                *)
LEMMA KeysByChart ==
    ASSUME NEW at, Charted(at)
    PROVE  KeysByPath = Keyed(at)
<1>1. NodeByPath = at
  BY NodesByPath DEF Charted
<1>2. KeysByPath = Only({[p \in DOMAIN b |-> heap[b[p]].key] : b \in {at}})
  BY <1>1 DEF Charted, KeysByPath
<1>3. {[p \in DOMAIN b |-> heap[b[p]].key] : b \in {at}} = {Keyed(at)}
  BY DEF Keyed
<1> QED BY <1>2, <1>3, OnlyIs

(* ... before and after a step.                                            *)
LEMMA KeysByChartAll == \A at : Charted(at) => KeysByPath = Keyed(at)
  BY KeysByChart
(* ... and in the next state.                                              *)
LEMMA KeysByChartNext == (\A at : Charted(at) => KeysByPath = Keyed(at))'
  BY KeysByChartAll, PTL

(* The elements of s one after the other by L.                             *)
Lined(s, L) == \A i, j \in DOMAIN s : i < j => <<s[i], s[j]>> \in L

(* The first of a line and the others; one more behind it.                 *)
LEMMA LinedEnds ==
    ASSUME NEW S, NEW L, NEW s \in Seq(S), Lined(s, L)
    PROVE  /\ s # <<>> => /\ Lined(Tail(s), L) /\ \A y \in ToSet(Tail(s)) : <<Head(s), y>> \in L
                          /\ ToSet(s) = {Head(s)} \cup ToSet(Tail(s))
                          /\ Head(s) \in S /\ Tail(s) \in Seq(S)
           /\ \A e \in S : /\ (\A x \in ToSet(s) : <<x, e>> \in L) => Lined(Append(s, e), L)
                           /\ ToSet(Append(s, e)) = ToSet(s) \cup {e} /\ Append(s, e) \in Seq(S)
<1> DEFINE n == Len(s)
<1>1. n \in Nat /\ DOMAIN s = 1 .. n
  BY LenProperties
<1>2. ASSUME s # <<>>
      PROVE  /\ Lined(Tail(s), L) /\ \A y \in ToSet(Tail(s)) : <<Head(s), y>> \in L
             /\ ToSet(s) = {Head(s)} \cup ToSet(Tail(s)) /\ Head(s) \in S /\ Tail(s) \in Seq(S)
  <2> DEFINE t == Tail(s)
  <2>1. /\ t \in Seq(S) /\ Len(t) = n - 1 /\ Head(s) = s[1] /\ Head(s) \in S
        /\ \A i \in 1 .. Len(t) : t[i] = s[i + 1]
    BY <1>2, HeadTailProperties
  <2>2. DOMAIN t = 1 .. n - 1 /\ n # 0 /\ \A i \in 1 .. n - 1 : t[i] = s[i + 1]
    <3>1. DOMAIN t = 1 .. Len(t)
      BY <2>1, LenProperties
    <3>2. n # 0
      BY <1>2, EmptySeq
    <3> QED BY <2>1, <3>1, <3>2
  <2> HIDE DEF t, n
  <2>3. \A i \in 1 .. n - 1 : i + 1 \in 1 .. n /\ 1 \in 1 .. n /\ 1 < i + 1
    BY <1>1, <2>2
  <2>4. Lined(t, L)
    <3> SUFFICES ASSUME NEW i \in 1 .. n - 1, NEW j \in 1 .. n - 1, i < j PROVE <<t[i], t[j]>> \in L
      BY <2>2 DEF Lined
    <3>1. i + 1 < j + 1
      BY <1>1
    <3> QED BY <1>1, <2>2, <2>3, <3>1 DEF Lined
  <2>5. ASSUME NEW y \in ToSet(t) PROVE <<Head(s), y>> \in L
    <3>1. PICK i \in 1 .. n - 1 : y = t[i]
      BY <2>2 DEF ToSet
    <3> QED BY <1>1, <2>1, <2>2, <2>3, <3>1 DEF Lined
  <2>6. ToSet(s) = {Head(s)} \cup ToSet(t)
    <3>1. 1 \in 1 .. n /\ \A i \in 1 .. n : i = 1 \/ (i - 1 \in 1 .. n - 1 /\ i = (i - 1) + 1)
      BY <1>1, <2>2
    <3>2. ASSUME NEW i \in 1 .. n PROVE s[i] \in {Head(s)} \cup ToSet(t)
      <4>1. CASE i = 1
        BY <2>1, <4>1
      <4>2. CASE i # 1
        <5>1. i - 1 \in DOMAIN t /\ t[i - 1] = s[i]
          BY <2>2, <3>1, <4>2
        <5> QED BY <5>1 DEF ToSet
      <4> QED BY <4>1, <4>2
    <3>3. ToSet(s) \subseteq {Head(s)} \cup ToSet(t)
      BY <1>1, <3>2 DEF ToSet
    <3>4. ToSet(t) \subseteq ToSet(s)
      BY <1>1, <2>2, <2>3 DEF ToSet
    <3>5. Head(s) \in ToSet(s)
      BY <1>1, <2>1, <3>1 DEF ToSet
    <3> QED BY <3>3, <3>4, <3>5
  <2> QED BY <2>1, <2>4, <2>5, <2>6 DEF t
<1>3. ASSUME NEW e \in S
      PROVE  /\ (\A x \in ToSet(s) : <<x, e>> \in L) => Lined(Append(s, e), L)
             /\ ToSet(Append(s, e)) = ToSet(s) \cup {e} /\ Append(s, e) \in Seq(S)
  <2> DEFINE t == Append(s, e)
  <2>1. t \in Seq(S) /\ Len(t) = n + 1 /\ t[n + 1] = e /\ \A i \in 1 .. n : t[i] = s[i]
    BY AppendProperties
  <2>2. DOMAIN t = 1 .. n + 1
    BY <2>1, LenProperties
  <2> HIDE DEF t, n
  <2>3. \A i \in 1 .. n + 1 : i \in 1 .. n \/ i = n + 1
    BY <1>1
  <2>4. n + 1 \in 1 .. n + 1 /\ \A i \in 1 .. n : i \in 1 .. n + 1
    BY <1>1
  <2>5. ASSUME \A x \in ToSet(s) : <<x, e>> \in L PROVE Lined(t, L)
    <3> SUFFICES ASSUME NEW i \in 1 .. n + 1, NEW j \in 1 .. n + 1, i < j PROVE <<t[i], t[j]>> \in L
      BY <2>2 DEF Lined
    <3>1. i \in 1 .. n
      BY <1>1
    <3>2. CASE j \in 1 .. n
      BY <1>1, <2>1, <3>1, <3>2 DEF Lined
    <3>3. CASE j = n + 1
      BY <1>1, <2>1, <2>5, <3>1, <3>3 DEF ToSet
    <3> QED BY <2>3, <3>2, <3>3
  <2>6. ToSet(t) = ToSet(s) \cup {e}
    BY <1>1, <2>1, <2>2, <2>3, <2>4 DEF ToSet
  <2> QED BY <2>1, <2>5, <2>6 DEF t
<1> QED BY <1>2, <1>3

(* Two lines, one before the other.                                        *)
LEMMA LinedJoined ==
    ASSUME NEW S, NEW L, NEW s \in Seq(S), NEW t \in Seq(S)
    PROVE  /\ ToSet(s \o t) = ToSet(s) \cup ToSet(t) /\ s \o t \in Seq(S)
           /\ Lined(s, L) /\ Lined(t, L) /\ (\A x \in ToSet(s), y \in ToSet(t) : <<x, y>> \in L)
              => Lined(s \o t, L)
<1> DEFINE n == Len(s)
           m == Len(t)
           u == s \o t
<1>1. n \in Nat /\ DOMAIN s = 1 .. n /\ m \in Nat /\ DOMAIN t = 1 .. m
  BY LenProperties
<1>2. u \in Seq(S) /\ Len(u) = n + m /\ \A i \in 1 .. n + m : u[i] = IF i <= n THEN s[i] ELSE t[i - n]
  BY ConcatProperties
<1>3. DOMAIN u = 1 .. n + m
  BY <1>2, LenProperties
<1> HIDE DEF n, m, u
<1>4. ASSUME NEW i \in 1 .. n + m PROVE \/ i <= n /\ i \in 1 .. n /\ u[i] = s[i]
                                        \/ ~(i <= n) /\ i - n \in 1 .. m /\ u[i] = t[i - n]
  BY <1>1, <1>2
<1>5. /\ \A i \in 1 .. n : i \in 1 .. n + m /\ u[i] = s[i]
      /\ \A i \in 1 .. m : n + i \in 1 .. n + m /\ u[n + i] = t[i]
  <2>1. ASSUME NEW i \in 1 .. n PROVE i \in 1 .. n + m /\ i <= n
    BY <1>1
  <2>2. ASSUME NEW i \in 1 .. m PROVE n + i \in 1 .. n + m /\ ~(n + i <= n) /\ (n + i) - n = i
    BY <1>1
  <2> QED BY <1>2, <2>1, <2>2
<1>6. ToSet(u) = ToSet(s) \cup ToSet(t)
  <2>1. ASSUME NEW x \in ToSet(u) PROVE x \in ToSet(s) \cup ToSet(t)
    <3>1. PICK i \in 1 .. n + m : x = u[i]
      BY <1>3 DEF ToSet
    <3> QED BY <1>1, <1>4, <3>1 DEF ToSet
  <2>2. ToSet(s) \subseteq ToSet(u)
    BY <1>1, <1>3, <1>5 DEF ToSet
  <2>3. ToSet(t) \subseteq ToSet(u)
    <3> SUFFICES ASSUME NEW i \in 1 .. m PROVE t[i] \in ToSet(u)
      BY <1>1 DEF ToSet
    <3>1. n + i \in DOMAIN u /\ u[n + i] = t[i]
      BY <1>3, <1>5
    <3> QED BY <3>1 DEF ToSet
  <2> QED BY <2>1, <2>2, <2>3
<1>7. ASSUME Lined(s, L), Lined(t, L), \A x \in ToSet(s), y \in ToSet(t) : <<x, y>> \in L
      PROVE  Lined(u, L)
  <2> SUFFICES ASSUME NEW i \in 1 .. n + m, NEW j \in 1 .. n + m, i < j PROVE <<u[i], u[j]>> \in L
    BY <1>3 DEF Lined
  <2>1. CASE i <= n /\ j <= n
    BY <1>1, <1>4, <1>7, <2>1 DEF Lined
  <2>2. CASE i <= n /\ ~(j <= n)
    <3>1. i \in 1 .. n /\ u[i] = s[i] /\ j - n \in 1 .. m /\ u[j] = t[j - n]
      BY <1>4, <2>2
    <3>2. s[i] \in ToSet(s) /\ t[j - n] \in ToSet(t)
      BY <1>1, <3>1 DEF ToSet
    <3> QED BY <1>7, <3>1, <3>2
  <2>3. CASE ~(i <= n)
    <3>1. ~(j <= n) /\ i - n < j - n
      BY <1>1, <2>3
    <3>2. i - n \in 1 .. m /\ u[i] = t[i - n] /\ j - n \in 1 .. m /\ u[j] = t[j - n]
      BY <1>4, <2>3, <3>1
    <3> QED BY <1>1, <1>7, <3>1, <3>2 DEF Lined
  <2> QED BY <2>1, <2>2, <2>3
<1> QED BY <1>2, <1>6, <1>7 DEF u

(* A line turned round.                                                    *)
LEMMA LinedTurned ==
    ASSUME NEW S, NEW s \in Seq(S)
    PROVE  /\ ToSet(Reverse(s)) = ToSet(s) /\ Reverse(s) \in Seq(S) /\ Len(Reverse(s)) = Len(s)
           /\ \A L, R : Lined(s, L) /\ (\A x, y \in S : <<x, y>> \in L => <<y, x>> \in R)
                        => Lined(Reverse(s), R)
<1> DEFINE n == Len(s)
           r == Reverse(s)
<1>1. n \in Nat /\ DOMAIN s = 1 .. n /\ \A i \in 1 .. n : s[i] \in S
  BY LenProperties, ElementOfSeq
<1>2. r = [i \in 1 .. n |-> s[(n - i) + 1]]
  BY DEF Reverse
<1> HIDE DEF n, r
<1>3. DOMAIN r = 1 .. n /\ \A i \in 1 .. n : r[i] = s[(n - i) + 1] /\ (n - i) + 1 \in 1 .. n
  BY <1>1, <1>2
<1>4. r \in Seq(S) /\ Len(r) = n
  <2>1. r \in [1 .. n -> S]
    BY <1>1, <1>2, <1>3
  <2> QED BY <1>1, <2>1, IntervalIsSeq
<1>5. ToSet(r) = ToSet(s)
  <2>1. \A i \in 1 .. n : (n - ((n - i) + 1)) + 1 = i
    BY <1>1
  <2>2. ASSUME NEW i \in 1 .. n PROVE s[i] \in ToSet(r)
    <3>1. (n - i) + 1 \in DOMAIN r /\ r[(n - i) + 1] = s[i]
      BY <1>3, <2>1
    <3> QED BY <3>1 DEF ToSet
  <2>3. ToSet(s) \subseteq ToSet(r)
    BY <1>1, <2>2 DEF ToSet
  <2>4. ToSet(r) \subseteq ToSet(s)
    BY <1>1, <1>3 DEF ToSet
  <2> QED BY <2>3, <2>4
<1>6. ASSUME NEW L, NEW R, Lined(s, L), \A x, y \in S : <<x, y>> \in L => <<y, x>> \in R
      PROVE  Lined(r, R)
  <2> SUFFICES ASSUME NEW i \in 1 .. n, NEW j \in 1 .. n, i < j PROVE <<r[i], r[j]>> \in R
    BY <1>3 DEF Lined
  <2>1. (n - j) + 1 < (n - i) + 1
    BY <1>1
  <2>2. <<r[j], r[i]>> \in L
    BY <1>1, <1>3, <1>6, <2>1 DEF Lined
  <2>3. r[i] \in S /\ r[j] \in S
    BY <1>1, <1>3
  <2> QED BY <1>6, <2>2, <2>3
<1> QED BY <1>4, <1>5, <1>6 DEF r, n
---------------------------------------------------------------------------
(* By R the nodes are visited, by L they wait: what is said of a node is   *)
(* said of its children.                                                   *)
Waiting(order, a) == IF order = "turned" THEN Reverse(Kids(a)) ELSE Kids(a)
Directs(order, R, L) ==
    \A a \in Used : /\ \A b \in Kin(a) : <<a, b>> \in R
                    /\ \A x \in Used : <<x, a>> \in R => \A b \in Kin(a) : <<x, b>> \in R
                    /\ \A y \in Used : <<a, y>> \in L =>
                          /\ <<a, y>> \in R
                          /\ \A b \in Kin(a) : (IF order = "breadth" THEN <<y, b>> ELSE <<b, y>>) \in L
                    /\ Lined(Waiting(order, a), L)
InOrder(w, top, R, L) ==
    /\ w.seen \in Seq(Used) /\ w.left \in Seq(Used)
    /\ Lined(w.seen, R) /\ Lined(w.left, L)
    /\ \A x \in ToSet(w.seen), y \in ToSet(w.left) : <<x, y>> \in R
    /\ \A x \in ToSet(w.seen) \cup ToSet(w.left) : x = top \/ \E p \in ToSet(w.seen) : x \in Kin(p)

(* A step of the walk keeps the order.                                     *)
LEMMA StepInOrder ==
    ASSUME Blocks, Linked, NEW top \in Used, NEW dropped, NEW order \in Orders, NEW R, NEW L,
           Directs(order, R, L), NEW w, InOrder(w, top, R, L)
    PROVE  InOrder(Stepped(w, dropped, order), top, R, L)
<1> DEFINE a == Head(w.left)
           rest == Tail(w.left)
           s == w.seen
           k == Waiting(order, a)
<1>1. /\ s \in Seq(Used) /\ w.left \in Seq(Used) /\ Lined(s, R) /\ Lined(w.left, L)
      /\ \A x \in ToSet(s), y \in ToSet(w.left) : <<x, y>> \in R
      /\ \A x \in ToSet(s) \cup ToSet(w.left) : x = top \/ \E p \in ToSet(s) : x \in Kin(p)
  BY DEF InOrder
<1>2. CASE w.left = <<>>
  BY <1>2 DEF Stepped
<1>3. CASE w.left # <<>>
  <2>1. /\ Lined(rest, L) /\ (\A y \in ToSet(rest) : <<a, y>> \in L) /\ a \in Used
        /\ ToSet(w.left) = {a} \cup ToSet(rest) /\ rest \in Seq(Used)
    BY <1>1, <1>3, LinedEnds
  <2> HIDE DEF a, rest, s
  <2>2. CASE a \in dropped
    <3>1. Stepped(w, dropped, order) = [seen |-> s, left |-> rest]
      BY <1>3, <2>2 DEF Stepped, a, rest, s
    <3> QED BY <1>1, <2>1, <3>1 DEF InOrder
  <2>3. CASE a \notin dropped
    <3> DEFINE s2 == Append(s, a)
               l2 == IF order = "breadth" THEN rest \o k ELSE k \o rest
    <3>1. Stepped(w, dropped, order) = [seen |-> s2, left |-> l2]
      <4>1. Then(order, Kids(a), rest) = l2
        BY DEF Then, Waiting, Orders
      <4> QED BY <1>3, <2>3, <4>1 DEF Stepped, a, rest, s
    <3>2. /\ \A b \in Kin(a) : <<a, b>> \in R
          /\ \A x \in Used : <<x, a>> \in R => \A b \in Kin(a) : <<x, b>> \in R
          /\ \A y \in Used : <<a, y>> \in L =>
                /\ <<a, y>> \in R
                /\ \A b \in Kin(a) : (IF order = "breadth" THEN <<y, b>> ELSE <<b, y>>) \in L
          /\ Lined(k, L)
      BY <2>1 DEF Directs
    <3>3. k \in Seq(Used) /\ ToSet(k) = Kin(a)
      <4> DEFINE c == Kids(a)
      <4>1. c \in Seq(Used)
        <5>1. a \in Addr
          BY <2>1 DEF Used
        <5>2. c \in Seq(Addr)
          BY <5>1, KidsFacts
        <5>3. DOMAIN c = 1 .. Len(c) /\ Len(c) \in Nat /\ c \in [1 .. Len(c) -> Addr]
          BY <5>2, LenProperties
        <5>4. \A i \in 1 .. Len(c) : c[i] \in Used
          BY <2>1, <5>3 DEF Linked, Kin, ToSet
        <5>5. c \in [1 .. Len(c) -> Used]
          BY <5>3, <5>4
        <5> QED BY <5>3, <5>5, IntervalIsSeq
      <4>2. Reverse(c) \in Seq(Used) /\ ToSet(Reverse(c)) = ToSet(c)
        BY <4>1, LinedTurned
      <4> QED BY <4>1, <4>2 DEF Waiting, Kin
    <3>4. \A e \in ToSet(s) : e \in Used
      <4>1. DOMAIN s = 1 .. Len(s)
        BY <1>1, LenProperties
      <4> QED BY <1>1, <4>1, ElementOfSeq DEF ToSet
    <3>5. \A e \in ToSet(rest) : e \in Used
      <4>1. DOMAIN rest = 1 .. Len(rest)
        BY <2>1, LenProperties
      <4> QED BY <2>1, <4>1, ElementOfSeq DEF ToSet
    <3>6. s2 \in Seq(Used) /\ ToSet(s2) = ToSet(s) \cup {a} /\ Lined(s2, R)
      <4>1. \A x \in ToSet(s) : <<x, a>> \in R
        BY <1>1, <2>1
      <4> QED BY <1>1, <2>1, <4>1, LinedEnds
    <3>7. l2 \in Seq(Used) /\ ToSet(l2) = ToSet(rest) \cup Kin(a) /\ Lined(l2, L)
      <4>1. CASE order = "breadth"
        <5>1. \A x \in ToSet(rest), y \in ToSet(k) : <<x, y>> \in L
          BY <2>1, <3>2, <3>3, <3>5, <4>1
        <5> HIDE DEF k
        <5>2. /\ ToSet(rest \o k) = ToSet(rest) \cup ToSet(k) /\ rest \o k \in Seq(Used)
              /\ Lined(rest \o k, L)
          BY <2>1, <3>2, <3>3, <5>1, LinedJoined
        <5> QED BY <3>3, <4>1, <5>2
      <4>2. CASE order # "breadth"
        <5>1. \A x \in ToSet(k), y \in ToSet(rest) : <<x, y>> \in L
          BY <2>1, <3>2, <3>3, <3>5, <4>2
        <5> HIDE DEF k
        <5>2. /\ ToSet(k \o rest) = ToSet(k) \cup ToSet(rest) /\ k \o rest \in Seq(Used)
              /\ Lined(k \o rest, L)
          BY <2>1, <3>2, <3>3, <5>1, LinedJoined
        <5> QED BY <3>3, <4>2, <5>2
      <4> QED BY <4>1, <4>2
    <3> HIDE DEF s2, l2, k
    <3>8. \A x \in ToSet(s2), y \in ToSet(l2) : <<x, y>> \in R
      BY <1>1, <2>1, <3>2, <3>4, <3>5, <3>6, <3>7
    <3>9. \A x \in ToSet(s2) \cup ToSet(l2) : x = top \/ \E p \in ToSet(s2) : x \in Kin(p)
      BY <1>1, <2>1, <3>6, <3>7
    <3> DEFINE w2 == [seen |-> s2, left |-> l2]
    <3>10. w2.seen = s2 /\ w2.left = l2
      OBVIOUS
    <3> HIDE DEF w2
    <3>11. InOrder(w2, top, R, L)
      BY <3>6, <3>7, <3>8, <3>9, <3>10 DEF InOrder
    <3> QED BY <3>1, <3>11 DEF w2
  <2> QED BY <2>2, <2>3
<1> QED BY <1>2, <1>3

(* Every walk is in the order of its nodes, and passes over no node on the *)
(* way to one it visits.                                                   *)
LEMMA WalkInOrder ==
    ASSUME Blocks, Linked, NEW top \in Used, NEW dropped, NEW order \in Orders, NEW R, NEW L,
           Directs(order, R, L)
    PROVE  LET s == Visits(top, dropped, order)
           IN  /\ s \in Seq(Used) /\ Lined(s, R)
               /\ \A x \in ToSet(s) : x = top \/ \E p \in ToSet(s) : x \in Kin(p)
<1> DEFINE N == Cardinality(Addr)
<1>1. N \in Nat /\ top \in Addr
  BY TreeAssumption, FS_CardinalityType DEF Used
<1>2. PICK f : IsWalk(f, top, dropped, order) /\ Visits(top, dropped, order) = f[N].seen
  BY <1>1, VisitsWalk
<1>3. /\ f[0] = [seen |-> <<>>, left |-> <<top>>]
      /\ \A t \in 1 .. N : f[t] = Stepped(f[t - 1], dropped, order)
  BY <1>2 DEF IsWalk
<1> HIDE DEF N
<1> DEFINE P == {t \in 0 .. N : InOrder(f[t], top, R, L)}
<1>4. 0 \in P
  <2>1. <<>> \in Seq(Used) /\ <<top>> \in Seq(Used)
    BY EmptySeq
  <2>2. ToSet(<<>>) = {} /\ ToSet(<<top>>) = {top} /\ DOMAIN <<>> = {} /\ DOMAIN <<top>> = {1}
    <3>1. DOMAIN <<>> = {} /\ DOMAIN <<top>> = 1 .. 1 /\ <<top>>[1] = top
      OBVIOUS
    <3>2. DOMAIN <<top>> = {1}
      BY <3>1
    <3> QED BY <3>1, <3>2 DEF ToSet
  <2>3. Lined(<<>>, R) /\ Lined(<<top>>, L)
    BY <2>2 DEF Lined
  <2> DEFINE w == f[0]
  <2>4. w.seen = <<>> /\ w.left = <<top>>
    BY <1>3
  <2> HIDE DEF w
  <2>5. InOrder(w, top, R, L)
    BY <2>1, <2>2, <2>3, <2>4 DEF InOrder
  <2> QED BY <1>1, <2>5 DEF w
<1>5. ASSUME NEW t \in 0 .. N - 1, t \in P PROVE t + 1 \in P
  <2>1. t + 1 \in 1 .. N /\ (t + 1) - 1 = t /\ t + 1 \in 0 .. N
    BY <1>1
  <2>2. f[t + 1] = Stepped(f[t], dropped, order)
    BY <1>3, <2>1
  <2>3. InOrder(f[t], top, R, L)
    BY <1>5
  <2>4. InOrder(f[t + 1], top, R, L)
    BY <2>2, <2>3, StepInOrder
  <2> QED BY <2>1, <2>4
<1>6. InOrder(f[N], top, R, L)
  <2> HIDE DEF P
  <2>1. \A t \in 0 .. N : t \in P
    BY <1>1, <1>4, <1>5, InductionTo
  <2>2. N \in P
    BY <1>1, <2>1
  <2> QED BY <2>2 DEF P
<1>7. /\ f[N].seen \in Seq(Used) /\ Lined(f[N].seen, R)
      /\ \A x \in ToSet(f[N].seen) : x = top \/ \E p \in ToSet(f[N].seen) : x \in Kin(p)
  BY <1>6 DEF InOrder
<1> QED BY <1>2, <1>7

(* The way to a node of the chart.                                         *)
Place(at, a) == CHOOSE p \in DOMAIN at : at[p] = a

(* It leads there, and to a child by one step more.                        *)
LEMMA PlaceIs ==
    ASSUME NEW at, Charted(at)
    PROVE  /\ \A a \in Used : Place(at, a) \in DOMAIN at /\ Place(at, a) \in Way /\ at[Place(at, a)] = a
           /\ \A p \in DOMAIN at : p \in Way /\ at[p] \in Used /\ Place(at, at[p]) = p
           /\ \A a \in Used : \A i \in DOMAIN Kids(a) :
                 /\ i \in Nat \ {0} /\ Kids(a)[i] \in Used /\ Kids(a)[i] \in Kin(a)
                 /\ Place(at, Kids(a)[i]) = Append(Place(at, a), i)
           /\ \A a \in Used : \A b \in Kin(a) :
                 \E i \in DOMAIN Kids(a) : b = Kids(a)[i] /\ Place(at, b) = Append(Place(at, a), i)
           /\ Place(at, root) = <<>> /\ root \in Used
<1>1. Blocks /\ Linked /\ IsChart(at, root, KidsOf)
  BY DEF Charted
<1>2. /\ \A p \in DOMAIN at : at[p] \in Used
      /\ \A p, q \in DOMAIN at : at[p] = at[q] => p = q
      /\ \A a \in Used : \E p \in DOMAIN at : at[p] = a
  BY <1>1, ChartNodes
<1>3. /\ at \in [DOMAIN at -> Addr] /\ DOMAIN at \subseteq Way
      /\ <<>> \in DOMAIN at /\ at[<<>>] = root
      /\ \A p \in DOMAIN at, i \in Nat \ {0} :
             Append(p, i) \in DOMAIN at <=> i \in 1 .. Len(Kids(at[p]))
      /\ \A p \in Way, i \in Nat \ {0} : Append(p, i) \in DOMAIN at =>
             at[Append(p, i)] = Kids(at[p])[i]
  BY <1>1, ChartSteps
<1>4. \A a \in Used : Place(at, a) \in DOMAIN at /\ Place(at, a) \in Way /\ at[Place(at, a)] = a
  BY <1>2, <1>3 DEF Place
<1>5. \A p \in DOMAIN at : p \in Way /\ at[p] \in Used /\ Place(at, at[p]) = p
  BY <1>2, <1>3, <1>4
<1>6. ASSUME NEW a \in Used, NEW i \in DOMAIN Kids(a)
      PROVE  /\ i \in Nat \ {0} /\ Kids(a)[i] \in Used /\ Kids(a)[i] \in Kin(a)
             /\ Place(at, Kids(a)[i]) = Append(Place(at, a), i)
  <2>1. Kids(a) \in Seq(Addr)
    BY <1>1, KidsFacts DEF Used
  <2>2. i \in 1 .. Len(Kids(a)) /\ i \in Nat \ {0}
    <3>1. i \in 1 .. Len(Kids(a)) /\ Len(Kids(a)) \in Nat
      BY <2>1, LenProperties
    <3> QED BY <3>1
  <2>3. Kids(a)[i] \in Kin(a)
    BY DEF Kin, ToSet
  <2> DEFINE p == Place(at, a)
  <2>4. p \in DOMAIN at /\ p \in Way /\ at[p] = a
    BY <1>4
  <2> HIDE DEF p
  <2>5. Append(p, i) \in DOMAIN at /\ at[Append(p, i)] = Kids(a)[i]
    BY <1>3, <2>2, <2>4
  <2>6. Place(at, Kids(a)[i]) = Append(p, i)
    BY <1>5, <2>5
  <2> QED BY <1>1, <2>2, <2>3, <2>6 DEF Linked, p
<1>7. ASSUME NEW a \in Used, NEW b \in Kin(a)
      PROVE  \E i \in DOMAIN Kids(a) : b = Kids(a)[i] /\ Place(at, b) = Append(Place(at, a), i)
  <2>1. PICK i \in DOMAIN Kids(a) : b = Kids(a)[i]
    BY DEF Kin, ToSet
  <2> QED BY <1>6, <2>1
<1>8. Place(at, root) = <<>> /\ root \in Used
  BY <1>1, <1>3, <1>5 DEF Linked
<1> QED BY <1>4, <1>5, <1>6, <1>7, <1>8

(* The orders of ways as orders of nodes: when y may come after x, and     *)
(* when y may wait behind x.                                               *)
After(order, p, q) ==
    CASE order = "depth" -> IsStrictPrefix(p, q) \/ Diverges(p, q)
      [] order = "turned" -> IsStrictPrefix(p, q) \/ Diverges(q, p)
      [] order = "breadth" -> Len(p) < Len(q) \/ (Len(p) = Len(q) /\ Diverges(p, q))
Behind(order, p, q) ==
    CASE order = "depth" -> Diverges(p, q)
      [] order = "turned" -> Diverges(q, p)
      [] order = "breadth" -> \/ Len(p) = Len(q) /\ Diverges(p, q)
                              \/ Len(q) = Len(p) + 1 /\ Diverges(q, p)
Visit(at, order) == {e \in Used \X Used : After(order, Place(at, e[1]), Place(at, e[2]))}
Queue(at, order) == {e \in Used \X Used : Behind(order, Place(at, e[1]), Place(at, e[2]))}

(* What is said of a way, said of a step farther.                          *)
LEMMA OrderSteps ==
    ASSUME NEW order \in Orders, NEW p \in Way, NEW i \in Nat \ {0}
    PROVE  /\ After(order, p, Append(p, i))
           /\ \A q \in Way : After(order, q, p) => After(order, q, Append(p, i))
           /\ \A q \in Way : Behind(order, p, q) =>
                 /\ After(order, p, q)
                 /\ IF order = "breadth" THEN Behind(order, q, Append(p, i))
                                         ELSE Behind(order, Append(p, i), q)
           /\ \A j \in Nat \ {0} : i < j =>
                 IF order = "turned" THEN Behind(order, Append(p, j), Append(p, i))
                                     ELSE Behind(order, Append(p, i), Append(p, j))
<1> DEFINE a == Append(p, i)
<1>1. Len(p) \in Nat /\ a \in Way /\ Len(a) = Len(p) + 1
  BY Farther
<1>2. /\ IsStrictPrefix(p, a)
      /\ \A q \in Way : /\ Diverges(p, q) => Diverges(a, q)
                        /\ Diverges(q, p) => Diverges(q, a)
                        /\ IsStrictPrefix(q, p) => IsStrictPrefix(q, a)
      /\ \A j \in Nat \ {0} : i < j => Diverges(a, Append(p, j))
  BY OrdersFarther
<1>3. \A q \in Way : Len(q) \in Nat
  BY Farther
<1>4. \A j \in Nat \ {0} : Len(Append(p, j)) = Len(p) + 1
  BY Farther
<1> HIDE DEF a
<1>5. CASE order = "depth"
  BY <1>2, <1>5 DEF After, Behind, a
<1>6. CASE order = "turned"
  BY <1>2, <1>6 DEF After, Behind, a
<1>7. CASE order = "breadth"
  <2>1. After(order, p, a)
    BY <1>1, <1>7 DEF After
  <2>2. ASSUME NEW q \in Way, After(order, q, p) PROVE After(order, q, a)
    <3>1. Len(q) <= Len(p) /\ Len(q) \in Nat
      BY <1>1, <1>3, <1>7, <2>2 DEF After
    <3>2. Len(q) < Len(a)
      BY <1>1, <3>1
    <3> QED BY <1>7, <3>2 DEF After
  <2>3. ASSUME NEW q \in Way, Behind(order, p, q) PROVE After(order, p, q) /\ Behind(order, q, a)
    <3>1. CASE Len(p) = Len(q) /\ Diverges(p, q)
      <4>1. Len(a) = Len(q) + 1 /\ Diverges(a, q)
        BY <1>1, <1>2, <3>1
      <4> QED BY <1>7, <3>1, <4>1 DEF After, Behind
    <3>2. CASE Len(q) = Len(p) + 1 /\ Diverges(q, p)
      <4>1. Len(p) < Len(q) /\ Len(q) = Len(a) /\ Diverges(q, a)
        BY <1>1, <1>2, <3>2
      <4> QED BY <1>7, <4>1 DEF After, Behind
    <3> QED BY <1>7, <2>3, <3>1, <3>2 DEF Behind
  <2>4. ASSUME NEW j \in Nat \ {0}, i < j PROVE Behind(order, a, Append(p, j))
    <3>1. Len(a) = Len(Append(p, j)) /\ Diverges(a, Append(p, j))
      BY <1>1, <1>2, <1>4, <2>4
    <3> QED BY <1>7, <3>1 DEF Behind
  <2> QED BY <1>7, <2>1, <2>2, <2>3, <2>4 DEF a
<1> QED BY <1>5, <1>6, <1>7 DEF Orders

(* So the walks of a charted tree are in these orders.                     *)
LEMMA VisitDirects ==
    ASSUME NEW at, Charted(at), NEW order \in Orders
    PROVE  Directs(order, Visit(at, order), Queue(at, order))
<1> DEFINE R == Visit(at, order)
           L == Queue(at, order)
           w(a) == Place(at, a)
<1>1. /\ \A a \in Used : w(a) \in Way
      /\ \A a \in Used : \A i \in DOMAIN Kids(a) :
             i \in Nat \ {0} /\ Kids(a)[i] \in Used /\ w(Kids(a)[i]) = Append(w(a), i)
      /\ \A a \in Used : \A b \in Kin(a) : \E i \in DOMAIN Kids(a) : b = Kids(a)[i]
  BY PlaceIs
<1>2. \A x, y \in Used : /\ <<x, y>> \in R <=> After(order, w(x), w(y))
                         /\ <<x, y>> \in L <=> Behind(order, w(x), w(y))
  BY DEF Visit, Queue
<1> HIDE DEF R, L, w
<1>3. ASSUME NEW a \in Used, NEW b \in Kin(a)
      PROVE  /\ <<a, b>> \in R
             /\ \A x \in Used : <<x, a>> \in R => <<x, b>> \in R
             /\ \A y \in Used : <<a, y>> \in L =>
                   /\ <<a, y>> \in R
                   /\ (IF order = "breadth" THEN <<y, b>> ELSE <<b, y>>) \in L
  <2>1. PICK i \in Nat \ {0} : b \in Used /\ w(b) = Append(w(a), i)
    BY <1>1
  <2>2. /\ After(order, w(a), w(b))
        /\ \A q \in Way : After(order, q, w(a)) => After(order, q, w(b))
        /\ \A q \in Way : Behind(order, w(a), q) =>
              /\ After(order, w(a), q)
              /\ IF order = "breadth" THEN Behind(order, q, w(b)) ELSE Behind(order, w(b), q)
    BY <1>1, <2>1, OrderSteps
  <2>3. <<a, b>> \in R /\ \A x \in Used : <<x, a>> \in R => <<x, b>> \in R
    BY <1>1, <1>2, <2>1, <2>2
  <2>4. ASSUME NEW y \in Used, <<a, y>> \in L
        PROVE  <<a, y>> \in R /\ (IF order = "breadth" THEN <<y, b>> ELSE <<b, y>>) \in L
    <3>1. w(y) \in Way /\ Behind(order, w(a), w(y))
      BY <1>1, <1>2, <2>4
    <3>2. CASE order = "breadth"
      BY <1>2, <2>1, <2>2, <3>1, <3>2
    <3>3. CASE order # "breadth"
      BY <1>2, <2>1, <2>2, <3>1, <3>3
    <3> QED BY <3>2, <3>3
  <2> QED BY <2>3, <2>4
<1>4. ASSUME NEW a \in Used, NEW y \in Used, <<a, y>> \in L PROVE <<a, y>> \in R
  <2>1. Behind(order, w(a), w(y)) /\ w(a) \in Way /\ w(y) \in Way /\ 1 \in Nat \ {0}
    BY <1>1, <1>2, <1>4
  <2>2. After(order, w(a), w(y))
    BY <2>1, OrderSteps
  <2> QED BY <1>2, <2>2
<1>5. ASSUME NEW a \in Used PROVE Lined(Waiting(order, a), L)
  <2> DEFINE c == Kids(a)
             M == {e \in Used \X Used : IF order = "turned" THEN <<e[2], e[1]>> \in L ELSE e \in L}
  <2>1. c \in Seq(Addr) /\ Blocks
    BY KidsFacts DEF Used, Charted
  <2>2. c \in Seq(Used) /\ DOMAIN c = 1 .. Len(c)
    <3>1. DOMAIN c = 1 .. Len(c) /\ Len(c) \in Nat /\ c \in [1 .. Len(c) -> Addr]
      BY <2>1, LenProperties
    <3>2. c \in [1 .. Len(c) -> Used]
      BY <1>1, <3>1
    <3> QED BY <3>1, <3>2, IntervalIsSeq
  <2>3. ASSUME NEW i \in DOMAIN c, NEW j \in DOMAIN c, i < j PROVE <<c[i], c[j]>> \in M
    <3>1. /\ i \in Nat \ {0} /\ j \in Nat \ {0} /\ c[i] \in Used /\ c[j] \in Used /\ w(a) \in Way
          /\ w(c[i]) = Append(w(a), i) /\ w(c[j]) = Append(w(a), j)
      BY <1>1
    <3>2. IF order = "turned" THEN Behind(order, w(c[j]), w(c[i])) ELSE Behind(order, w(c[i]), w(c[j]))
      BY <2>3, <3>1, OrderSteps
    <3>3. IF order = "turned" THEN <<c[j], c[i]>> \in L ELSE <<c[i], c[j]>> \in L
      BY <1>2, <3>1, <3>2
    <3> QED BY <3>1, <3>3
  <2>4. Lined(c, M)
    BY <2>3 DEF Lined
  <2>5. CASE order = "turned"
    <3>1. \A x, y \in Used : <<x, y>> \in M => <<y, x>> \in L
      BY <2>5
    <3> HIDE DEF M, c
    <3>2. Lined(Reverse(c), L)
      BY <2>2, <2>4, <3>1, LinedTurned
    <3> QED BY <2>5, <3>2 DEF Waiting, c
  <2>6. CASE order # "turned"
    <3>1. \A e \in M : e \in L
      BY <2>6
    <3>2. Lined(c, L)
      BY <2>4, <3>1 DEF Lined
    <3> QED BY <2>6, <3>2 DEF Waiting
  <2> QED BY <2>5, <2>6
<1>6. Directs(order, R, L)
  BY <1>3, <1>4, <1>5 DEF Directs
<1> QED BY <1>6 DEF R, L

(* A prefix is the same to both modules.                                   *)
LEMMA SamePrefix == \A p, q : /\ T!IsPrefix(p, q) <=> IsPrefix(p, q)
                              /\ T!IsStrictPrefix(p, q) <=> IsStrictPrefix(p, q)
  BY DEF T!IsStrictPrefix, T!IsPrefix, IsStrictPrefix, IsPrefix

(* From the root the whole tree is visited, whatever the order.            *)
LEMMA AllVisited ==
    ASSUME Blocks, Linked, NEW order \in Orders
    PROVE  ToSet(Visits(root, {}, order)) = Used
<1>1. root \in Used
  BY DEF Linked
<1>2. PICK V : Subtree(root, V) /\ ListsOnce(Visits(root, {}, order), V)
  BY <1>1, WalkIsSubtree
<1>3. V \in SUBSET Addr /\ root \in V /\ V \subseteq Used /\ \A b \in V : Kin(b) \subseteq V
  BY <1>2 DEF Subtree, Used
<1>4. V = Used
  BY <1>3 DEF Linked
<1> QED BY <1>2, <1>4, ListedOnce

(* The ways of the nodes a search meets are those the ordered tree allows, *)
(* and it meets them in its order.                                         *)
Ways(at, s) == {Place(at, x) : x \in ToSet(s)}
(* A search meets a set of nodes the ordered tree allows, in its order.    *)
LEMMA SearchMeets ==
    ASSUME NEW at, Charted(at), NEW how \in Searches, NEW d \in Dropped(how)
    PROVE  LET met == Visited(how, d)
           IN  /\ met \in Seq(Used)
               /\ Ways(at, met) \in T!Met(Keyed(at), how)
               /\ \A i, j \in DOMAIN met : i < j =>
                     T!Earlier(how, Place(at, met[i]), Place(at, met[j]))
<1> DEFINE order == IF how = "depth" THEN "depth" ELSE "breadth"
           met == Visits(root, d, order)
           S == Ways(at, met)
<1>1. order \in Orders /\ Blocks /\ Linked /\ root # Null
  BY DEF Orders, Charted
<1>2. /\ \A a \in Used : Place(at, a) \in DOMAIN at /\ Place(at, a) \in Way
      /\ \A p \in DOMAIN at : at[p] \in Used /\ Place(at, at[p]) = p /\ p \in Way
      /\ \A a \in Used : \A b \in Kin(a) :
            \E i \in DOMAIN Kids(a) : b = Kids(a)[i] /\ Place(at, b) = Append(Place(at, a), i)
      /\ \A a \in Used : \A i \in DOMAIN Kids(a) : i \in Nat \ {0}
      /\ Place(at, root) = <<>> /\ root \in Used
  BY PlaceIs
<1>3. how # "short" => d = {}
  BY DEF Dropped
<1>4. Visited(how, d) = met
  <2>1. CASE how = "depth"
    BY <1>1, <1>3, <2>1 DEF Visited, DepthFirst
  <2>2. CASE how # "depth"
    BY <1>1, <2>2 DEF Visited, BreadthFirst
  <2> QED BY <2>1, <2>2
<1> HIDE DEF order
<1>5. /\ met \in Seq(Used) /\ Lined(met, Visit(at, order))
      /\ \A x \in ToSet(met) : x = root \/ \E p \in ToSet(met) : x \in Kin(p)
  <2>1. Directs(order, Visit(at, order), Queue(at, order))
    BY <1>1, VisitDirects
  <2> QED BY <1>1, <1>2, <2>1, WalkInOrder
<1> HIDE DEF met
<1>6. DOMAIN met = 1 .. Len(met) /\ (\A i \in DOMAIN met : met[i] \in Used) /\ ToSet(met) \subseteq Used
  <2>1. DOMAIN met = 1 .. Len(met) /\ \A i \in DOMAIN met : met[i] \in Used
    BY <1>5, LenProperties, ElementOfSeq
  <2> QED BY <2>1 DEF ToSet
<1>7. ASSUME NEW i \in DOMAIN met, NEW j \in DOMAIN met, i < j
      PROVE  T!Earlier(how, Place(at, met[i]), Place(at, met[j]))
  <2> DEFINE p == Place(at, met[i])
             q == Place(at, met[j])
  <2>1. <<met[i], met[j]>> \in Visit(at, order)
    BY <1>5, <1>7 DEF Lined
  <2>2. After(order, p, q) /\ p \in Way /\ q \in Way
    BY <1>2, <1>6, <2>1 DEF Visit
  <2> HIDE DEF p, q
  <2>3. T!Lexical(p, q) <=> IsStrictPrefix(p, q) \/ Diverges(p, q)
    BY <2>2, WaysOrdered
  <2>4. ASSUME how = "depth" PROVE T!Earlier(how, p, q)
    BY <2>2, <2>3, <2>4 DEF order, After, T!Earlier
  <2>5. ASSUME how # "depth" PROVE T!Earlier(how, p, q)
    BY <2>2, <2>3, <2>5 DEF order, After, T!Earlier
  <2> QED BY <2>4, <2>5 DEF p, q
<1>8. S \in SUBSET DOMAIN at
  BY <1>2, <1>6 DEF Ways
<1>9. S \in T!Met(Keyed(at), how)
  <2>1. DOMAIN Keyed(at) = DOMAIN at
    BY DEF Keyed
  <2>2. CASE how # "short"
    <3>1. ToSet(met) = Used
      BY <1>1, <1>3, <2>2, AllVisited DEF met
    <3>2. S = DOMAIN at
      BY <1>2, <1>8, <3>1 DEF Ways
    <3> QED BY <2>1, <2>2, <3>2 DEF T!Met
  <2>3. CASE how = "short"
    <3>1. ASSUME NEW p0 \in S, NEW q0 \in DOMAIN at, IsPrefix(q0, p0) PROVE q0 \in S
      <4> DEFINE n == Len(p0)
                 P == {m \in 0 .. n : \A p \in S, q \in DOMAIN at : Len(p) = m /\ IsPrefix(q, p) => q \in S}
      <4>1. n \in Nat
        BY <1>2, <1>8, Farther
      <4>2. \A p \in S : Len(p) \in Nat /\ p \in Way
        BY <1>2, <1>8, Farther
      <4>3. \A q \in DOMAIN at : IsPrefix(q, <<>>) => q = <<>>
        <5> SUFFICES ASSUME NEW q \in DOMAIN at, IsPrefix(q, <<>>) PROVE q = <<>>
          OBVIOUS
        <5>1. Len(q) <= Len(<<>>) /\ q \in Way
          BY <1>2 DEF IsPrefix
        <5> QED BY <5>1, NoWay
      <4>4. ASSUME NEW p \in S, p # <<>>
            PROVE  \E u \in S : \E i \in Nat \ {0} : u \in Way /\ p = Append(u, i) /\ Len(p) = Len(u) + 1
        <5>1. PICK x \in ToSet(met) : p = Place(at, x)
          BY DEF Ways
        <5>2. x # root
          BY <1>2, <4>4, <5>1
        <5>3. PICK y \in ToSet(met) : x \in Kin(y)
          BY <1>5, <5>2
        <5>4. PICK i \in DOMAIN Kids(y) : p = Append(Place(at, y), i)
          BY <1>2, <1>6, <5>1, <5>3
        <5>5. Place(at, y) \in S /\ Place(at, y) \in Way /\ i \in Nat \ {0}
          BY <1>2, <1>6 DEF Ways
        <5> QED BY <5>4, <5>5, Farther
      <4>5. 0 \in P
        <5>1. \A p \in S : Len(p) = 0 => p = <<>>
          BY <4>2, NoWay
        <5> QED BY <4>1, <4>3, <5>1
      <4>6. ASSUME NEW m \in 0 .. n - 1, m \in P PROVE m + 1 \in P
        <5> SUFFICES ASSUME NEW p \in S, NEW q \in DOMAIN at, Len(p) = m + 1, IsPrefix(q, p)
                     PROVE  q \in S
          BY <4>1
        <5>1. p # <<>>
          BY NoWay
        <5>2. PICK u \in S, i \in Nat \ {0} : u \in Way /\ p = Append(u, i) /\ Len(p) = Len(u) + 1
          BY <4>4, <5>1
        <5>3. Len(u) = m
          BY <4>2, <5>2
        <5>4. q = p \/ IsPrefix(q, u)
          BY <1>2, <5>2, OrdersFarther
        <5> QED BY <4>6, <5>3, <5>4
      <4> HIDE DEF P
      <4>7. \A m \in 0 .. n : m \in P
        BY <4>1, <4>5, <4>6, InductionTo
      <4>8. n \in P
        BY <4>1, <4>7
      <4> QED BY <3>1, <4>8 DEF P
    <3>2. \A p \in S : \A q \in DOMAIN at : T!IsPrefix(q, p) => q \in S
      BY <3>1, SamePrefix
    <3> QED BY <1>8, <2>1, <2>3, <3>2 DEF T!Met
  <2> QED BY <2>2, <2>3
<1> QED BY <1>4, <1>5, <1>7, <1>9

(* What a search finds is the first of the ordered tree's.                 *)
LEMMA FoundIsFirst ==
    ASSUME NEW at, Charted(at), NEW how \in Searches, NEW k, NEW a \in Found(how, k)
    PROVE  \E S \in T!Met(Keyed(at), how) :
              \/ a = Null /\ \A p \in S : Keyed(at)[p] # k
              \/ a \in Used /\ Place(at, a) \in S /\ T!First(Keyed(at), how, S, k, Place(at, a))
<1>1. PICK d \in Dropped(how) :
         LET met == Visited(how, d)
             i == SelectInSeq(met, LAMBDA b : heap[b].key = k)
         IN  a = IF i = 0 THEN Null ELSE met[i]
  BY DEF Found
<1> DEFINE met == Visited(how, d)
           S == Ways(at, met)
           I == {i \in 1 .. Len(met) : heap[met[i]].key = k}
<1>2. /\ met \in Seq(Used) /\ S \in T!Met(Keyed(at), how)
      /\ \A i, j \in DOMAIN met : i < j => T!Earlier(how, Place(at, met[i]), Place(at, met[j]))
  BY SearchMeets
<1>3. a = IF I = {} THEN Null ELSE IF Min(I) = 0 THEN Null ELSE met[Min(I)]
  BY <1>1 DEF SelectInSeq
<1> HIDE DEF met
<1>4. Len(met) \in Nat /\ DOMAIN met = 1 .. Len(met) /\ \A i \in DOMAIN met : met[i] \in Used
  BY <1>2, LenProperties, ElementOfSeq
<1>5. \A b \in Used : Keyed(at)[Place(at, b)] = heap[b].key
  BY PlaceIs DEF Keyed
<1>6. CASE I = {}
  <2>1. ASSUME NEW p \in S PROVE Keyed(at)[p] # k
    <3>1. PICK i \in DOMAIN met : p = Place(at, met[i])
      BY DEF Ways, ToSet
    <3> QED BY <1>4, <1>5, <1>6, <3>1
  <2> QED BY <1>2, <1>3, <1>6, <2>1
<1>7. CASE I # {}
  <2>1. Min(I) \in I /\ \A j \in I : Min(I) <= j
    <3>1. I \in SUBSET Nat /\ \A x \in I : x \in Int
      BY <1>4
    <3> HIDE DEF I
    <3>2. \E x \in I : \A y \in I : x <= y
      BY <1>7, <3>1, LeastNatural
    <3> QED BY <3>2 DEF Min
  <2> DEFINE m == Min(I)
             p == Place(at, a)
  <2>2. m \in DOMAIN met /\ m # 0 /\ heap[met[m]].key = k /\ m \in Nat
    BY <1>4, <2>1
  <2>3. a = met[m] /\ a \in Used
    BY <1>3, <1>4, <1>7, <2>2
  <2>4. \A j \in I : m <= j
    BY <2>1
  <2> HIDE DEF m
  <2>5. p \in S /\ Keyed(at)[p] = k
    BY <1>5, <2>2, <2>3 DEF Ways, ToSet
  <2>6. ASSUME NEW q \in S, Keyed(at)[q] = k PROVE q = p \/ T!Earlier(how, p, q)
    <3>1. PICK j \in DOMAIN met : q = Place(at, met[j])
      BY DEF Ways, ToSet
    <3>2. j \in I
      BY <1>4, <1>5, <2>6, <3>1
    <3>3. m = j \/ m < j
      BY <1>4, <2>2, <2>4, <3>2
    <3> QED BY <1>2, <2>2, <2>3, <3>1, <3>3
  <2>7. T!First(Keyed(at), how, S, k, p)
    BY <2>5, <2>6 DEF T!First
  <2> QED BY <1>2, <2>3, <2>5, <2>7
<1> QED BY <1>6, <1>7

(* So is a number of elements.                                             *)
LEMMA SameCardinality == \A S : T!Cardinality(S) = Cardinality(S)
  BY DEF T!Cardinality, Cardinality

(* There is one way to list a set of ways children before parents.         *)
LEMMA OneListing ==
    ASSUME NEW G \in SUBSET Way, NEW n \in Nat, IsFiniteSet(G), Cardinality(G) = n,
           NEW s \in [1 .. n -> G], NEW t \in [1 .. n -> G],
           \A i, j \in 1 .. n : i < j => T!ChildrenFirst(s[i], s[j]) /\ T!ChildrenFirst(t[i], t[j])
    PROVE  s = t
<1>1. ASSUME NEW p \in Way, NEW q \in Way, T!ChildrenFirst(p, q) PROVE p # q /\ ~T!ChildrenFirst(q, p)
  <2>1. /\ T!ChildrenFirst(p, q) <=> IsStrictPrefix(q, p) \/ Diverges(p, q)
        /\ T!ChildrenFirst(q, p) <=> IsStrictPrefix(p, q) \/ Diverges(q, p)
        /\ Diverges(p, q) => ~IsPrefix(p, q) /\ ~IsPrefix(q, p) /\ ~Diverges(q, p) /\ p # q
        /\ Diverges(q, p) => ~IsPrefix(p, q) /\ ~IsPrefix(q, p)
        /\ IsStrictPrefix(q, p) => Len(q) < Len(p)
        /\ IsStrictPrefix(p, q) => Len(p) < Len(q)
        /\ Len(p) \in Nat /\ Len(q) \in Nat
    BY WaysOrdered
  <2>2. /\ IsStrictPrefix(q, p) => IsPrefix(q, p) /\ p # q
        /\ IsStrictPrefix(p, q) => IsPrefix(p, q)
    BY DEF IsStrictPrefix
  <2>3. ~(Len(q) < Len(p) /\ Len(p) < Len(q))
    BY <2>1
  <2> QED BY <1>1, <2>1, <2>2, <2>3
<1>2. \A i \in 1 .. n : s[i] \in Way /\ t[i] \in Way /\ s[i] \in G /\ t[i] \in G
  OBVIOUS
<1>3. ASSUME NEW u \in [1 .. n -> G], \A i, j \in 1 .. n : i < j => T!ChildrenFirst(u[i], u[j])
      PROVE  /\ \A i, j \in 1 .. n : u[i] = u[j] => i = j
             /\ \A e \in G : \E i \in 1 .. n : u[i] = e
  <2>1. ASSUME NEW i \in 1 .. n, NEW j \in 1 .. n, u[i] = u[j] PROVE i = j
    <3>1. u[i] \in Way /\ u[j] \in Way
      OBVIOUS
    <3>2. ~(i < j) /\ ~(j < i)
      BY <1>1, <1>3, <2>1, <3>1
    <3> QED BY <3>2
  <2>2. u \in Injection(1 .. n, G)
    BY <2>1 DEF Injection, IsInjective
  <2>3. Cardinality(1 .. n) = n
    <3>1. Cardinality(1 .. n) = IF 1 > n THEN 0 ELSE n - 1 + 1
      BY FS_Interval
    <3> QED BY <3>1
  <2>4. u \in Surjection(1 .. n, G)
    BY <2>2, <2>3, FS_Injection
  <2> QED BY <2>1, <2>4 DEF Surjection
<1>4. /\ \A i, j \in 1 .. n : s[i] = s[j] => i = j
      /\ \A i, j \in 1 .. n : t[i] = t[j] => i = j
      /\ \A e \in G : \E i \in 1 .. n : s[i] = e
      /\ \A e \in G : \E i \in 1 .. n : t[i] = e
  BY <1>3
<1> DEFINE P == {m \in 0 .. n : \A j \in 1 .. m : s[j] = t[j]}
<1>5. 0 \in P
  OBVIOUS
<1>6. ASSUME NEW m \in 0 .. n - 1, m \in P PROVE m + 1 \in P
  <2> DEFINE i == m + 1
  <2>1. i \in 1 .. n /\ i \in 0 .. n /\ \A j \in 1 .. n : j \in 1 .. m \/ j = i \/ i < j
    OBVIOUS
  <2>2. \A j \in 1 .. m : s[j] = t[j] /\ j \in 1 .. n /\ j # i
    BY <1>6
  <2> HIDE DEF i
  <2>3. s[i] = t[i]
    <3> SUFFICES ASSUME s[i] # t[i] PROVE FALSE
      OBVIOUS
    <3>1. PICK j \in 1 .. n : t[j] = s[i]
      BY <1>2, <1>4, <2>1
    <3>2. PICK l \in 1 .. n : s[l] = t[i]
      BY <1>2, <1>4, <2>1
    <3>3. i < j
      <4>1. j \notin 1 .. m
        BY <1>4, <2>1, <2>2, <3>1
      <4> QED BY <2>1, <3>1, <4>1
    <3>4. i < l
      <4>1. l \notin 1 .. m
        BY <1>4, <2>1, <2>2, <3>2
      <4> QED BY <2>1, <3>2, <4>1
    <3>5. T!ChildrenFirst(s[i], s[l]) /\ T!ChildrenFirst(t[i], t[j])
      BY <2>1, <3>3, <3>4
    <3> QED BY <1>1, <1>2, <2>1, <3>1, <3>2, <3>5
  <2>4. \A j \in 1 .. i : j \in 1 .. m \/ j = i
    BY DEF i
  <2>5. \A j \in 1 .. i : s[j] = t[j]
    BY <2>2, <2>3, <2>4
  <2> QED BY <2>1, <2>5 DEF i
<1>7. \A j \in 1 .. n : s[j] = t[j]
  <2> HIDE DEF P
  <2>1. \A m \in 0 .. n : m \in P
    BY <1>5, <1>6, InductionTo
  <2>2. n \in P
    BY <2>1
  <2> QED BY <2>2 DEF P
<1> QED BY <1>7

(* What is freed with a node is what its way leads through, in the order   *)
(* the ordered tree gives.                                                 *)
LEMMA FreedKeys ==
    ASSUME NEW at, Charted(at), NEW a \in Used
    PROVE  /\ \A p \in DOMAIN at : at[p] \in ToSet(ChildrenFirst(a)) <=> IsPrefix(Place(at, a), p)
           /\ T!KeysFreed(Keyed(at), Place(at, a)) = KeysOf(ChildrenFirst(a))
<1> DEFINE D == ToSet(ChildrenFirst(a))
           w == Place(at, a)
           c == ChildrenFirst(a)
           turned == Visits(a, {}, "turned")
<1>1. Blocks /\ Linked /\ IsChart(at, root, KidsOf) /\ "turned" \in Orders
  BY DEF Charted, Orders
<1>2. /\ \A b \in Used : Place(at, b) \in DOMAIN at /\ Place(at, b) \in Way /\ at[Place(at, b)] = b
      /\ \A p \in DOMAIN at : at[p] \in Used /\ Place(at, at[p]) = p /\ p \in Way
      /\ \A b \in Used : \A e \in Kin(b) :
            \E i \in DOMAIN Kids(b) : e = Kids(b)[i] /\ Place(at, e) = Append(Place(at, b), i)
      /\ \A b \in Used : \A i \in DOMAIN Kids(b) : i \in Nat \ {0} /\ Kids(b)[i] \in Kin(b)
  BY PlaceIs
<1>3. Subtree(a, D)
  BY <1>1, FreedSubtree
<1>4. /\ a \in D /\ D \subseteq Used /\ \A b \in D : Kin(b) \subseteq D
      /\ \A b \in D : b = a \/ \E p \in D : b \in Kin(p)
  BY <1>3 DEF Subtree
<1>5. PICK V : Subtree(a, V) /\ ListsOnce(turned, V)
  BY <1>1, WalkIsSubtree
<1>6. ListsOnce(c, D)
  <2>1. ListsOnce(c, V)
    BY <1>5, ListTurned DEF ChildrenFirst
  <2>2. D = V
    BY <2>1, ListedOnce
  <2> QED BY <2>1, <2>2
<1>7. c \in Seq(Used) /\ \A i, j \in DOMAIN c : i < j => T!ChildrenFirst(Place(at, c[i]), Place(at, c[j]))
  <2> DEFINE R == Visit(at, "turned")
             Q == {e \in Used \X Used : <<e[2], e[1]>> \in R}
  <2>1. Directs("turned", R, Queue(at, "turned"))
    BY <1>1, VisitDirects
  <2>2. turned \in Seq(Used) /\ Lined(turned, R)
    BY <1>1, <2>1, WalkInOrder
  <2>3. \A x, y \in Used : <<x, y>> \in R => <<y, x>> \in Q
    OBVIOUS
  <2> HIDE DEF R, turned
  <2>4. Reverse(turned) \in Seq(Used) /\ Lined(Reverse(turned), Q)
    <3> HIDE DEF Q
    <3> QED BY <2>2, <2>3, LinedTurned
  <2>5. c = Reverse(turned)
    BY DEF ChildrenFirst, turned
  <2>6. ASSUME NEW i \in DOMAIN c, NEW j \in DOMAIN c, i < j
        PROVE  T!ChildrenFirst(Place(at, c[i]), Place(at, c[j]))
    <3> DEFINE p == Place(at, c[i])
               q == Place(at, c[j])
    <3>1. <<c[i], c[j]>> \in Q
      BY <2>4, <2>5, <2>6 DEF Lined
    <3>2. c[i] \in Used /\ c[j] \in Used /\ <<c[j], c[i]>> \in R
      BY <3>1
    <3>3. After("turned", q, p) /\ p \in Way /\ q \in Way
      BY <1>2, <3>2 DEF R, Visit
    <3> HIDE DEF p, q
    <3>4. IsStrictPrefix(q, p) \/ Diverges(p, q)
      BY <3>3 DEF After
    <3>5. T!ChildrenFirst(p, q)
      BY <3>3, <3>4, WaysOrdered
    <3> QED BY <3>5 DEF p, q
  <2> QED BY <2>4, <2>5, <2>6
<1> HIDE DEF D, w, c
<1>8. w \in Way /\ w \in DOMAIN at /\ at[w] = a /\ Len(w) \in Nat
  BY <1>2, Farther DEF w
<1>9. ASSUME NEW p0 \in DOMAIN at, IsPrefix(w, p0) PROVE at[p0] \in D
  <2> DEFINE n == Len(p0)
             P == {m \in 0 .. n : \A p \in DOMAIN at : Len(p) = m /\ IsPrefix(w, p) => at[p] \in D}
  <2>1. n \in Nat
    BY <1>2, Farther
  <2>2. /\ \A p \in DOMAIN at : p # <<>> => \E q \in DOMAIN at, i \in Nat \ {0} : p = Append(q, i)
        /\ \A p \in Way, i \in Nat \ {0} : Append(p, i) \in DOMAIN at => at[Append(p, i)] \in Kin(at[p])
    BY <1>1, ChartSteps
  <2>3. ASSUME NEW p \in DOMAIN at, IsPrefix(w, p), p = <<>> PROVE at[p] \in D
    <3>1. Len(w) <= Len(<<>>)
      BY <2>3 DEF IsPrefix
    <3>2. w = <<>>
      BY <1>8, <3>1, NoWay
    <3> QED BY <1>4, <1>8, <2>3, <3>2
  <2>4. 0 \in P
    <3>1. \A p \in DOMAIN at : Len(p) = 0 => p = <<>>
      BY <1>2, NoWay
    <3> QED BY <2>1, <2>3, <3>1
  <2>5. ASSUME NEW m \in 0 .. n - 1, m \in P PROVE m + 1 \in P
    <3> SUFFICES ASSUME NEW p \in DOMAIN at, Len(p) = m + 1, IsPrefix(w, p) PROVE at[p] \in D
      BY <2>1
    <3>1. p # <<>>
      BY NoWay
    <3>2. PICK q \in DOMAIN at, i \in Nat \ {0} : p = Append(q, i)
      BY <2>2, <3>1
    <3>3. q \in Way /\ Len(p) = Len(q) + 1 /\ Len(q) \in Nat
      BY <1>2, <3>2, Farther
    <3>4. Len(q) = m
      BY <3>3
    <3>5. w = p \/ IsPrefix(w, q)
      BY <1>8, <3>2, <3>3, OrdersFarther
    <3>6. CASE w = p
      BY <1>4, <1>8, <3>6
    <3>7. CASE IsPrefix(w, q)
      <4>1. at[q] \in D
        BY <2>5, <3>4, <3>7
      <4> QED BY <1>4, <2>2, <3>2, <3>3, <4>1
    <3> QED BY <3>5, <3>6, <3>7
  <2> HIDE DEF P
  <2>6. \A m \in 0 .. n : m \in P
    BY <2>1, <2>4, <2>5, InductionTo
  <2>7. n \in P
    BY <2>1, <2>6
  <2> QED BY <1>9, <2>7 DEF P
<1>10. ASSUME NEW b \in D PROVE IsPrefix(w, Place(at, b))
  <2> DEFINE C == {e \in D : ~IsPrefix(w, Place(at, e))}
  <2>1. ASSUME NEW e \in C PROVE \E p \in C : e \in Kin(p)
    <3>1. IsPrefix(w, w)
      BY <1>8, PrefixIs
    <3>2. e # a
      BY <3>1 DEF w
    <3>3. PICK p \in D : e \in Kin(p)
      BY <1>4, <3>2
    <3>4. PICK i \in Nat \ {0} : Place(at, e) = Append(Place(at, p), i)
      BY <1>2, <1>4, <3>3
    <3>5. Place(at, p) \in Way
      BY <1>2, <1>4
    <3>6. IsPrefix(w, Place(at, p)) => IsPrefix(w, Place(at, e))
      BY <1>8, <3>4, <3>5, OrdersFarther
    <3> QED BY <3>3, <3>6
  <2>2. C \in SUBSET Used
    BY <1>4
  <2> HIDE DEF C
  <2>3. C = {}
    BY <1>1, <2>1, <2>2, NoLoop
  <2> QED BY <2>3 DEF C
<1>11. \A p \in DOMAIN at : at[p] \in D <=> IsPrefix(w, p)
  BY <1>2, <1>9, <1>10
<1> DEFINE t == Keyed(at)
           gone == {q \in DOMAIN t : T!IsPrefix(w, q)}
           n == Len(c)
           OK(s) == \A i, j \in DOMAIN s : i < j => T!ChildrenFirst(s[i], s[j])
           s0 == [i \in 1 .. n |-> Place(at, c[i])]
           met == CHOOSE s \in [1 .. T!Cardinality(gone) -> gone] : OK(s)
<1>12. DOMAIN t = DOMAIN at /\ \A p \in DOMAIN at : t[p] = heap[at[p]].key
  BY DEF Keyed
<1> HIDE DEF t
<1>13. gone = {q \in DOMAIN at : at[q] \in D}
  BY <1>11, <1>12, SamePrefix
<1>14. n \in Nat /\ DOMAIN c = 1 .. n /\ (\A i \in 1 .. n : c[i] \in D)
       /\ (\A b \in D : \E i \in 1 .. n : c[i] = b) /\ \A i, j \in 1 .. n : c[i] = c[j] => i = j
  <2>1. c \in Seq(D) /\ n \in Nat /\ DOMAIN c = 1 .. n
    BY <1>6, LenProperties DEF ListsOnce
  <2> QED BY <1>6, <2>1, ElementOfSeq DEF ListsOnce
<1> HIDE DEF gone, n
<1>15. s0 \in [1 .. n -> gone] /\ \A i \in 1 .. n : s0[i] = Place(at, c[i]) /\ at[s0[i]] = c[i]
  BY <1>2, <1>4, <1>13, <1>14
<1>16. IsFiniteSet(gone) /\ Cardinality(gone) = n /\ gone \in SUBSET Way
  <2>1. s0 \in Injection(1 .. n, gone)
    BY <1>14, <1>15 DEF Injection, IsInjective
  <2>2. \A q \in gone : \E i \in 1 .. n : s0[i] = q
    BY <1>2, <1>13, <1>14, <1>15
  <2>3. s0 \in Surjection(1 .. n, gone)
    BY <1>15, <2>2 DEF Surjection
  <2>4. IsFiniteSet(1 .. n) /\ Cardinality(1 .. n) = n
    <3>1. IsFiniteSet(1 .. n) /\ Cardinality(1 .. n) = IF 1 > n THEN 0 ELSE n - 1 + 1
      BY <1>14, FS_Interval
    <3> QED BY <1>14, <3>1
  <2>5. IsFiniteSet(gone) /\ Cardinality(gone) = n
    BY <2>1, <2>3, <2>4, FS_Surjection
  <2> QED BY <1>2, <1>13, <2>5
<1>17. OK(s0)
  BY <1>7, <1>14, <1>15
<1> HIDE DEF s0
<1>18. T!Cardinality(gone) = n
  BY <1>16, SameCardinality
<1>19. met \in [1 .. n -> gone] /\ OK(met)
  BY <1>15, <1>17, <1>18
<1> HIDE DEF met
<1>20. met = s0
  <2>1. \A i, j \in 1 .. n : i < j => T!ChildrenFirst(met[i], met[j]) /\ T!ChildrenFirst(s0[i], s0[j])
    BY <1>15, <1>17, <1>19
  <2> QED BY <1>14, <1>15, <1>16, <1>19, <2>1, OneListing
<1>21. T!KeysFreed(t, w) = [i \in DOMAIN met |-> t[met[i]]]
  BY DEF T!KeysFreed, met, gone
<1>22. [i \in DOMAIN met |-> t[met[i]]] = KeysOf(c)
  <2>1. DOMAIN met = DOMAIN c /\ \A i \in DOMAIN c : t[met[i]] = heap[c[i]].key
    <3>1. DOMAIN met = DOMAIN c
      BY <1>14, <1>15, <1>20
    <3>2. \A i \in DOMAIN c : s0[i] \in DOMAIN at /\ at[s0[i]] = c[i]
      BY <1>13, <1>14, <1>15
    <3> QED BY <1>12, <1>20, <3>1, <3>2
  <2> QED BY <2>1 DEF KeysOf
<1> QED BY <1>11, <1>21, <1>22 DEF w, D, c, t

(* A live tree that is not empty has a chart.                              *)
HasChart == Alive /\ root # Null => \E at : IsChart(at, root, KidsOf)
PathInv == TreeInv /\ HasChart

(* A live tree with its chart.                                             *)
LEMMA HasChartIs ==
    ASSUME PathInv, Alive, root # Null
    PROVE  \E at : Charted(at)
<1>1. TreeInv /\ Blocks /\ Linked /\ \E at : IsChart(at, root, KidsOf)
  BY DEF PathInv, HasChart, TreeInv
<1> QED BY <1>1 DEF Charted

(* The keys by path after a step that leaves a tree with the chart at, or  *)
(* none.                                                                   *)
LEMMA ChartAfter ==
    ASSUME TreeInv', Alive', root' # Null, NEW at, IsChart(at, root', [a \in Addr |-> Kids(a)'])
    PROVE  HasChart' /\ KeysByPath' = [p \in DOMAIN at |-> heap'[at[p]].key]
<1>1. KidsOf' = [a \in Addr |-> Kids(a)']
  BY DEF KidsOf
<1>2. IsChart(at, root, KidsOf)'
  <2>1. IsChart(at, root', KidsOf')
    BY <1>1
  <2> QED BY <2>1 DEF IsChart
<1>3. Charted(at)'
  <2>1. Blocks' /\ Linked'
    BY DEF TreeInv
  <2> QED BY <1>2, <2>1 DEF Charted
<1>4. KeysByPath' = Keyed(at)'
  BY <1>3, KeysByChartNext
<1>5. Keyed(at)' = [p \in DOMAIN at |-> heap'[at[p]].key]
  BY DEF Keyed
<1>6. HasChart'
  BY <1>2 DEF HasChart
<1> QED BY <1>4, <1>5, <1>6

(* There are no paths in an empty tree, nor in one that is freed.          *)
LEMMA NoPaths ==
    /\ root = Null \/ ~Alive => KeysByPath = <<>>
    /\ root' = Null \/ ~Alive' => KeysByPath' = <<>> /\ HasChart'
  BY DEF KeysByPath, HasChart

(* A step that leaves the nodes as they are leaves the keys by path so.    *)
LEMMA QuietPaths ==
    ASSUME PathInv, TreeInv', UNCHANGED <<root, heap>>, Alive' = Alive
    PROVE  HasChart' /\ KeysByPath' = KeysByPath
<1>1. CASE Alive /\ root # Null
  <2>1. PICK at : Charted(at)
    BY <1>1, HasChartIs
  <2>2. \A a \in Addr : Kids(a)' = Kids(a)
    BY DEF Kids
  <2>3. [a \in Addr |-> Kids(a)'] = KidsOf
    BY <2>2 DEF KidsOf
  <2>4. IsChart(at, root', [a \in Addr |-> Kids(a)'])
    BY <2>1, <2>3 DEF Charted
  <2>5. HasChart' /\ KeysByPath' = [p \in DOMAIN at |-> heap'[at[p]].key]
    BY <1>1, <2>4, ChartAfter
  <2>6. KeysByPath = [p \in DOMAIN at |-> heap[at[p]].key]
    BY <2>1, KeysByChart DEF Keyed
  <2> QED BY <2>5, <2>6
<1>2. CASE ~(Alive /\ root # Null)
  BY <1>2, NoPaths
<1> QED BY <1>1, <1>2

(* A tree's first node.                                                    *)
LEMMA PlantPaths ==
    ASSUME PathInv, TreeInv', NEW k \in Key, Plant(k)
    PROVE  HasChart' /\ T!Plant(k)
<1>1. PICK n \in Unused : root' = n /\ heap' = [heap EXCEPT ![n] = Leaf(k, Null)]
  BY DEF Plant
<1>2. reply' = Answer("insert", "no", 0, <<>>) /\ root = Null
  BY DEF Plant, Say
<1>3. n \in Addr /\ heap \in [Addr -> Node \cup {Null}] /\ n # Null
  BY TreeAssumption DEF Unused, PathInv, TreeInv, Blocks
<1>4. heap'[n] = Leaf(k, Null)
  BY <1>1, <1>3
<1>5. Leaf(k, Null) # Null
  <2>1. Leaf(k, Null) \in Node
    BY DEF Leaf, Node
  <2> QED BY <2>1, TreeAssumption
<1>6. Kids(n)' = <<>>
  BY <1>4, <1>5 DEF Kids, Leaf
<1> DEFINE at == [p \in {<<>>} |-> n]
<1>7. IsChart(at, root', [a \in Addr |-> Kids(a)'])
  <2>1. at \in [DOMAIN at -> Addr] /\ DOMAIN at \subseteq Way /\ <<>> \in DOMAIN at /\ at[<<>>] = root'
    BY <1>1, <1>3, NoWay
  <2>2. [a \in Addr |-> Kids(a)'][at[<<>>]] = <<>>
    BY <1>3, <1>6
  <2>3. ASSUME NEW p \in Way, NEW i \in Nat \ {0}
        PROVE  Append(p, i) \notin DOMAIN at
               /\ ~(p \in DOMAIN at /\ i \in 1 .. Len([a \in Addr |-> Kids(a)'][at[p]]))
    <3>1. Append(p, i) # <<>>
      BY Farther
    <3>2. p \in DOMAIN at => p = <<>>
      OBVIOUS
    <3>3. i \notin 1 .. Len(<<>>)
      BY NoWay
    <3> QED BY <2>2, <3>1, <3>2, <3>3
  <2> HIDE DEF at
  <2> QED BY <2>1, <2>3 DEF IsChart
<1>8. HasChart' /\ KeysByPath' = [p \in DOMAIN at |-> heap'[at[p]].key]
  <2>1. Alive'
    BY <1>2 DEF Alive, Answer
  <2> HIDE DEF at
  <2> QED BY <1>1, <1>3, <1>7, <2>1, ChartAfter
<1>9. KeysByPath' = [p \in {<<>>} |-> k]
  <2>1. heap'[n].key = k
    BY <1>4 DEF Leaf
  <2> QED BY <1>8, <2>1
<1>10. DOMAIN KeysByPath = {}
  BY <1>2, NoPaths, EmptySeq
<1>11. reply' = T!Answer("insert", "no", 0, <<>>)
  BY <1>2 DEF Answer, T!Answer
<1> QED BY <1>8, <1>9, <1>10, <1>11 DEF T!Plant

(* What a search of a tree, empty or not, finds is in the ordered tree.    *)
LEMMA FoundByPath ==
    ASSUME PathInv, Alive, NEW how \in Searches, NEW k, NEW a \in Found(how, k)
    PROVE  \/ a = Null /\ \E S \in T!Met(KeysByPath, how) : \A p \in S : KeysByPath[p] # k
           \/ a # Null /\ \E S \in T!Met(KeysByPath, how) : \E p \in S : KeysByPath[p] = k
<1>1. CASE root # Null
  <2>1. PICK at : Charted(at)
    BY <1>1, HasChartIs
  <2>2. KeysByPath = Keyed(at)
    BY <2>1, KeysByChart
  <2>3. PICK S \in T!Met(Keyed(at), how) :
              \/ a = Null /\ \A p \in S : Keyed(at)[p] # k
              \/ a \in Used /\ Place(at, a) \in S /\ T!First(Keyed(at), how, S, k, Place(at, a))
    BY <2>1, FoundIsFirst
  <2>4. a \in Used => a # Null
    BY TreeAssumption DEF Used
  <2> QED BY <2>2, <2>3, <2>4 DEF T!First
<1>2. CASE root = Null
  <2>1. KeysByPath = <<>> /\ DOMAIN KeysByPath = {}
    BY <1>2, NoPaths, EmptySeq
  <2>2. {} \in T!Met(KeysByPath, how)
    BY <2>1 DEF T!Met
  <2>3. a = Null
    <3>1. \A d : Visited(how, d) = <<>>
      BY <1>2 DEF Visited
    <3>2. SelectInSeq(<<>>, LAMBDA x : heap[x].key = k) = 0
      BY EmptySeq DEF SelectInSeq
    <3> QED BY <3>1, <3>2 DEF Found
  <2> QED BY <2>2, <2>3
<1> QED BY <1>1, <1>2

(* The calls that change no node.                                          *)
LEMMA FindPaths ==
    ASSUME PathInv, TreeInv', NEW how \in Searches, NEW k \in Key, Find(how, k)
    PROVE  HasChart' /\ (T!Find(how, k) \/ T!Missing("find", how, k))
<1>1. PICK a \in Found(how, k) : reply' = Answer("find", how, IF a = Null THEN 1 ELSE 0, <<>>)
  BY DEF Find, Say
<1>2. Alive /\ Alive' /\ UNCHANGED <<root, heap>>
  BY <1>1 DEF Find, Running, Alive, Answer, tree
<1>3. HasChart' /\ KeysByPath' = KeysByPath
  BY <1>2, QuietPaths
<1>4. CASE a = Null
  <2>1. \E S \in T!Met(KeysByPath, how) : \A p \in S : KeysByPath[p] # k
    BY <1>2, <1>4, FoundByPath
  <2>2. reply' = T!Answer("find", how, 1, <<>>)
    BY <1>1, <1>4 DEF Answer, T!Answer
  <2> QED BY <1>3, <2>1, <2>2 DEF T!Missing
<1>5. CASE a # Null
  <2>1. \E S \in T!Met(KeysByPath, how) : \E p \in S : KeysByPath[p] = k
    BY <1>2, <1>5, FoundByPath
  <2>2. reply' = T!Answer("find", how, 0, <<>>)
    BY <1>1, <1>5 DEF Answer, T!Answer
  <2> QED BY <1>3, <2>1, <2>2 DEF T!Find
<1> QED BY <1>4, <1>5

(* A deletion of a key that is not found.                                  *)
LEMMA DeleteMissingPaths ==
    ASSUME PathInv, TreeInv', NEW how \in Searches, NEW k \in Key, DeleteMissing(how, k)
    PROVE  HasChart' /\ T!Missing("delete", how, k)
<1>1. Null \in Found(how, k) /\ reply' = Answer("delete", how, 1, <<>>)
  BY DEF DeleteMissing, Say
<1>2. Alive /\ Alive' /\ UNCHANGED <<root, heap>>
  BY <1>1 DEF DeleteMissing, Running, Alive, Answer, tree
<1>3. HasChart' /\ KeysByPath' = KeysByPath
  BY <1>2, QuietPaths
<1>4. \E S \in T!Met(KeysByPath, how) : \A p \in S : KeysByPath[p] # k
  BY <1>1, <1>2, FoundByPath
<1>5. reply' = T!Answer("delete", how, 1, <<>>)
  BY <1>1 DEF Answer, T!Answer
<1> QED BY <1>3, <1>4, <1>5 DEF T!Missing

(* An insertion that fails.                                                *)
LEMMA InsertFailsPaths ==
    ASSUME PathInv, TreeInv', InsertFails
    PROVE  HasChart' /\ T!InsertFails
<1>1. reply' = Answer("insert", "no", 1, <<>>)
  BY DEF InsertFails, Say
<1>2. Alive /\ Alive' /\ UNCHANGED <<root, heap>>
  BY <1>1 DEF InsertFails, Running, Alive, Answer, tree
<1>3. HasChart' /\ KeysByPath' = KeysByPath
  BY <1>2, QuietPaths
<1>4. reply' = T!Answer("insert", "no", 1, <<>>)
  BY <1>1 DEF Answer, T!Answer
<1> QED BY <1>3, <1>4 DEF T!InsertFails

(* tree_new after tree_free.                                               *)
LEMMA RenewPaths ==
    ASSUME PathInv, Renew
    PROVE  HasChart' /\ T!Renew
<1>1. root' = Null /\ reply.op = "free" /\ reply' = Answer("new", "no", 0, <<>>)
  BY DEF Renew, Say
<1>2. KeysByPath = <<>> /\ KeysByPath' = <<>> /\ HasChart'
  BY <1>1, NoPaths DEF Alive
<1>3. reply' = T!Answer("new", "no", 0, <<>>)
  BY <1>1 DEF Answer, T!Answer
<1> QED BY <1>1, <1>2, <1>3 DEF T!Renew

(* A call that is not served, or none, is no step of the ordered tree.     *)
LEMMA StutterPaths ==
    ASSUME PathInv, TreeInv', UNCHANGED <<root, heap, reply>>
    PROVE  HasChart' /\ UNCHANGED <<KeysByPath, reply>>
<1>1. Alive' = Alive
  BY DEF Alive
<1> QED BY <1>1, QuietPaths

(* tree_free gives the keys of all nodes, children first.                  *)
LEMMA FreePaths ==
    ASSUME PathInv, Free
    PROVE  HasChart' /\ T!Free
<1>1. Alive /\ root # Null /\ reply' = Answer("free", "no", 0, KeysOf(ChildrenFirst(root)))
  BY DEF Free, Running, Say
<1>2. PICK at : Charted(at)
  BY <1>1, HasChartIs
<1>3. ~Alive' /\ reply'.op = "free"
  BY <1>1 DEF Alive, Answer
<1>4. KeysByPath' = <<>> /\ HasChart'
  BY <1>3, NoPaths
<1>5. KeysByPath = Keyed(at) /\ DOMAIN Keyed(at) = DOMAIN at
  BY <1>2, KeysByChart DEF Keyed
<1>6. Place(at, root) = <<>> /\ root \in Used
  BY <1>2, PlaceIs
<1>7. T!KeysFreed(KeysByPath, <<>>) = KeysOf(ChildrenFirst(root))
  BY <1>2, <1>5, <1>6, FreedKeys
<1>8. DOMAIN KeysByPath # {}
  BY <1>2, <1>5 DEF Charted, IsChart
<1>9. reply' = T!Answer("free", "no", 0, T!KeysFreed(KeysByPath, <<>>))
  BY <1>1, <1>7 DEF Answer, T!Answer
<1> QED BY <1>3, <1>4, <1>8, <1>9 DEF T!Free

(* The children of a node, counted by their ways.                          *)
LEMMA ChildCount ==
    ASSUME NEW at, Charted(at), NEW w \in DOMAIN at
    PROVE  T!Cardinality({i \in DOMAIN Keyed(at) : Len(i) = Len(w) + 1 /\ T!IsPrefix(w, i)})
             = Len(Kids(at[w]))
<1> DEFINE m == Len(Kids(at[w]))
           C == {i \in DOMAIN Keyed(at) : Len(i) = Len(w) + 1 /\ T!IsPrefix(w, i)}
           f == [i \in 1 .. m |-> Append(w, i)]
<1>1. /\ DOMAIN at \subseteq Way /\ DOMAIN Keyed(at) = DOMAIN at
      /\ \A p \in DOMAIN at, i \in Nat \ {0} :
             Append(p, i) \in DOMAIN at <=> i \in 1 .. Len(Kids(at[p]))
  BY ChartSteps DEF Charted, Keyed
<1>2. m \in Nat
  <2>1. Kids(at[w]) \in Seq(Addr)
    BY KidsFacts, ChartSteps DEF Charted
  <2> QED BY <2>1, LenProperties
<1>3. w \in Way /\ Len(w) \in Nat
  BY <1>1, Farther
<1>4. ASSUME NEW i \in 1 .. m PROVE Append(w, i) \in C
  <2>1. i \in Nat \ {0}
    BY <1>2
  <2>2. Append(w, i) \in DOMAIN at
    BY <1>1, <2>1
  <2>3. Append(w, i) \in Way /\ Len(Append(w, i)) = Len(w) + 1 /\ \A n \in 1 .. Len(w) : Append(w, i)[n] = w[n]
    BY <1>3, <2>1, Farther
  <2>4. IsPrefix(w, Append(w, i))
    <3>1. Len(w) <= Len(Append(w, i)) /\ \A n \in 1 .. Len(w) : w[n] = Append(w, i)[n]
      BY <1>3, <2>3
    <3> QED BY <1>3, <2>3, <3>1, PrefixIs
  <2> QED BY <1>1, <2>2, <2>3, <2>4, SamePrefix
<1>5. ASSUME NEW q \in C PROVE \E i \in 1 .. m : q = Append(w, i)
  <2>1. q \in DOMAIN at /\ q \in Way /\ Len(q) = Len(w) + 1 /\ IsPrefix(w, q)
    BY <1>1, SamePrefix
  <2>2. q # <<>>
    BY <1>3, <2>1, NoWay
  <2>3. Front(q) \in Way /\ Last(q) \in Nat \ {0} /\ q = Append(Front(q), Last(q)) /\ Len(Front(q)) = Len(q) - 1
    BY <2>1, <2>2, LastStep
  <2>4. Len(Front(q)) = Len(w)
    BY <1>3, <2>1, <2>3
  <2>5. \A n \in 1 .. Len(w) : Front(q)[n] = w[n]
    <3>1. \A n \in 1 .. Len(w) : w[n] = q[n]
      BY <1>3, <2>1, PrefixIs
    <3>2. \A n \in 1 .. Len(Front(q)) : Append(Front(q), Last(q))[n] = Front(q)[n]
      BY <2>3, Farther
    <3> QED BY <2>3, <2>4, <3>1, <3>2
  <2>6. Front(q) = w
    BY <1>3, <2>3, <2>4, <2>5, SameWay
  <2>7. Append(w, Last(q)) \in DOMAIN at
    BY <2>1, <2>3, <2>6
  <2>8. Last(q) \in 1 .. m
    BY <1>1, <2>3, <2>7
  <2> QED BY <2>3, <2>6, <2>8
<1>6. \A i, j \in 1 .. m : f[i] = f[j] => i = j
  <2> TAKE i, j \in 1 .. m
  <2>1. i \in Nat \ {0} /\ j \in Nat \ {0}
    BY <1>2
  <2>2. Append(w, i)[Len(w) + 1] = i /\ Append(w, j)[Len(w) + 1] = j
    BY <1>3, <2>1, Farther
  <2> QED BY <2>2
<1> HIDE DEF C
<1>7. f \in Bijection(1 .. m, C)
  <2>1. f \in [1 .. m -> C]
    BY <1>4
  <2>2. \A q \in C : \E i \in 1 .. m : f[i] = q
    BY <1>5
  <2> QED BY <1>6, <2>1, <2>2 DEF Bijection, Injection, Surjection, IsInjective
<1>8. IsFiniteSet(1 .. m) /\ Cardinality(1 .. m) = m
  <2>1. 0 \in Int /\ 1 \in Int /\ m \in Int
    BY <1>2
  <2> HIDE DEF m
  <2>2. IsFiniteSet(1 .. m) /\ Cardinality(1 .. m) = IF 1 > m THEN 0 ELSE m - 1 + 1
    BY <2>1, FS_Interval
  <2> QED BY <1>2, <2>2
<1>9. Cardinality(C) = m
  BY <1>7, <1>8, FS_Bijection DEF ExistsBijection
<1> QED BY <1>9, SameCardinality DEF C

(* The chart with a new last child n of the node at w, which moves to q.   *)
Longer(at, w, n, q) ==
    LET new == Append(w, Len(Kids(at[w])) + 1)
    IN  [x \in DOMAIN at \cup {new} |-> IF x = new THEN n ELSE IF x = w THEN q ELSE at[x]]

(* ... is the chart of the tree with that child.                           *)
LEMMA GraftChart ==
    ASSUME TreeInv, NEW at, Charted(at), NEW w \in DOMAIN at, NEW n \in Addr \ Used, NEW q \in Addr,
           q = at[w] \/ q \notin Used \cup {n}, NEW k \in Key, Grafted(n, at[w], q, k)
    PROVE  /\ IsChart(Longer(at, w, n, q), root', [a \in Addr |-> Kids(a)'])
           /\ Append(w, Len(Kids(at[w])) + 1) \notin DOMAIN at
<1> DEFINE p == at[w]
           m == Len(Kids(at[w]))
           new == Append(w, m + 1)
           at2 == Longer(at, w, n, q)
           K2 == [a \in Addr |-> Kids(a)']
<1>1. /\ Blocks /\ Linked /\ IsChart(at, root, KidsOf)
  BY DEF Charted
<1>2. /\ at \in [DOMAIN at -> Addr] /\ DOMAIN at \subseteq Way
      /\ <<>> \in DOMAIN at /\ at[<<>>] = root
      /\ \A x \in DOMAIN at, i \in Nat \ {0} :
             Append(x, i) \in DOMAIN at <=> i \in 1 .. Len(Kids(at[x]))
      /\ \A x \in Way, i \in Nat \ {0} : Append(x, i) \in DOMAIN at =>
                 /\ x \in DOMAIN at /\ i \in DOMAIN Kids(at[x])
                 /\ at[Append(x, i)] = Kids(at[x])[i] /\ at[Append(x, i)] \in Kin(at[x])
  BY <1>1, ChartSteps
<1>3. /\ \A x \in DOMAIN at : at[x] \in Used
      /\ \A x, y \in DOMAIN at : at[x] = at[y] => x = y
  BY <1>1, ChartNodes
<1>4. p \in Used /\ p \notin Kin(p)
  BY <1>1, <1>3, NotOwnChild
<1>5. /\ n # q
      /\ K2[n] = <<>> /\ K2[q] = Append(Kids(p), n)
      /\ \A a \in Used \ {p} :
            K2[a] = [i \in DOMAIN Kids(a) |-> IF Kids(a)[i] = p THEN q ELSE Kids(a)[i]]
  <2>1. /\ n # q /\ Kids(n)' = <<>> /\ Kids(q)' = Append(Kids(p), n)
        /\ \A a \in Used \ {p} :
              Kids(a)' = [i \in DOMAIN Kids(a) |-> IF Kids(a)[i] = p THEN q ELSE Kids(a)[i]]
    BY <1>1, <1>4, GraftedKids
  <2>2. Used \subseteq Addr
    BY DEF Used
  <2> HIDE DEF p
  <2> QED BY <2>1, <2>2
<1>6. \A a \in Addr : Kids(a) \in Seq(Addr) /\ Len(Kids(a)) \in Nat /\ DOMAIN Kids(a) = 1 .. Len(Kids(a))
  BY <1>1, KidsFacts, LenProperties
<1>7. m \in Nat /\ m + 1 \in Nat \ {0} /\ w \in Way /\ p \in Addr
  BY <1>2, <1>4, <1>6 DEF Used
<1>8. /\ \A x \in Way, i \in Nat \ {0} : Append(x, i) = new <=> x = w /\ i = m + 1
      /\ new \in Way /\ new # w /\ new # <<>>
  <2> HIDE DEF m
  <2>1. \A x \in Way, i \in Nat \ {0} :
            Front(Append(x, i)) = x /\ Last(Append(x, i)) = i
    BY LastStep
  <2>2. Front(new) = w /\ Last(new) = m + 1
    BY <1>7, <2>1
  <2>3. new \in Way /\ Len(new) = Len(w) + 1 /\ Len(w) \in Nat /\ new # <<>>
    BY <1>7, Farther
  <2>4. new # w
    BY <2>3
  <2>5. ASSUME NEW x \in Way, NEW i \in Nat \ {0} PROVE Append(x, i) = new <=> x = w /\ i = m + 1
    <3>1. Append(x, i) = new => x = w /\ i = m + 1
      BY <2>1, <2>2
    <3> QED BY <3>1
  <2> QED BY <2>3, <2>4, <2>5
<1>9. new \notin DOMAIN at
  <2>1. m + 1 \notin 1 .. m
    BY <1>7
  <2> QED BY <1>2, <1>7, <2>1
<1>10. /\ DOMAIN at2 = DOMAIN at \cup {new} /\ at2[new] = n /\ at2[w] = q
       /\ \A x \in DOMAIN at \ {w} : at2[x] = at[x] /\ at[x] \in Used \ {p}
       /\ at2 = [x \in DOMAIN at2 |-> at2[x]]
  <2>1. at2 = [x \in DOMAIN at \cup {new} |-> IF x = new THEN n ELSE IF x = w THEN q ELSE at[x]]
    BY DEF Longer
  <2> HIDE DEF at2, new
  <2> QED BY <1>3, <1>8, <1>9, <2>1
<1> HIDE DEF at2, new, m, p, K2
<1>11. at2 \in [DOMAIN at2 -> Addr] /\ DOMAIN at2 \subseteq Way
  <2>1. \A x \in DOMAIN at2 : at2[x] \in Addr /\ x \in Way
    BY <1>2, <1>8, <1>10
  <2> QED BY <1>10, <2>1
<1>12. <<>> \in DOMAIN at2 /\ at2[<<>>] = root'
  <2>1. root' = IF root = p THEN q ELSE root
    BY DEF Grafted, p
  <2>2. root = p <=> w = <<>>
    BY <1>2, <1>3 DEF p
  <2> QED BY <1>2, <1>10, <2>1, <2>2
<1>13. ASSUME NEW x \in Way, NEW i \in Nat \ {0}
       PROVE  /\ Append(x, i) \in DOMAIN at2 <=> x \in DOMAIN at2 /\ i \in 1 .. Len(K2[at2[x]])
              /\ Append(x, i) \in DOMAIN at2 => at2[Append(x, i)] = K2[at2[x]][i]
  <2>1. CASE x = w
    <3>1. /\ K2[at2[x]] = Append(Kids(p), n) /\ Len(Append(Kids(p), n)) = m + 1
          /\ \A j \in 1 .. m : Append(Kids(p), n)[j] = Kids(p)[j]
          /\ Append(Kids(p), n)[m + 1] = n
      BY <1>5, <1>6, <1>7, <1>10, <2>1, AppendProperties DEF m, p
    <3>2. Append(w, i) \in DOMAIN at <=> i \in 1 .. m
      BY <1>2 DEF m
    <3>3. Append(w, i) = new <=> i = m + 1
      BY <1>7, <1>8
    <3>4. CASE i \in 1 .. m
      <4>1. Append(w, i) \in DOMAIN at /\ Append(w, i) # new
        BY <1>9, <3>2, <3>4
      <4>2. at[Append(w, i)] = Kids(p)[i] /\ at[Append(w, i)] \in Kin(p)
        BY <1>2, <1>7, <4>1 DEF p
      <4>3. Append(w, i) # w
        BY <1>4, <4>2 DEF p
      <4>4. at2[Append(w, i)] = Kids(p)[i]
        BY <1>10, <4>1, <4>2, <4>3
      <4>5. i \in 1 .. m + 1 /\ x \in DOMAIN at2
        BY <1>7, <1>10, <2>1, <3>4
      <4> QED BY <1>10, <2>1, <3>1, <3>4, <4>1, <4>4, <4>5
    <3>5. CASE i = m + 1
      <4>1. i \in 1 .. m + 1 /\ x \in DOMAIN at2 /\ Append(x, i) = new
        BY <1>7, <1>10, <2>1, <3>3, <3>5
      <4> QED BY <1>10, <3>1, <3>5, <4>1
    <3>6. CASE i \notin 1 .. m /\ i # m + 1
      <4>1. i \notin 1 .. m + 1
        BY <1>7, <3>6
      <4>2. Append(x, i) \notin DOMAIN at2
        BY <1>10, <2>1, <3>2, <3>3, <3>6
      <4> QED BY <3>1, <4>1, <4>2
    <3> QED BY <3>4, <3>5, <3>6
  <2>2. CASE x = new
    <3>1. Append(x, i) \notin DOMAIN at
      BY <1>2, <1>9, <2>2
    <3>2. Append(x, i) # new
      BY <1>8, <2>2
    <3>3. K2[at2[x]] = <<>> /\ i \notin 1 .. Len(<<>>)
      BY <1>5, <1>10, <2>2, NoWay
    <3> QED BY <1>10, <3>1, <3>2, <3>3
  <2>3. CASE x \in DOMAIN at /\ x # w
    <3> DEFINE a == at[x]
    <3>1. at2[x] = a /\ a \in Used /\ a # p /\ a \in Addr /\ x \in DOMAIN at2
      BY <1>10, <2>3 DEF Used
    <3> HIDE DEF a
    <3>2. K2[a] = [j \in DOMAIN Kids(a) |-> IF Kids(a)[j] = p THEN q ELSE Kids(a)[j]]
      BY <1>5, <3>1
    <3>3. DOMAIN Kids(a) = 1 .. Len(Kids(a)) /\ Len(Kids(a)) \in Nat
      BY <1>6, <3>1
    <3>4. Len(K2[a]) = Len(Kids(a))
      BY <3>2, <3>3
    <3>5. Append(x, i) # new
      BY <1>8, <2>3
    <3>6. Append(x, i) \in DOMAIN at <=> i \in 1 .. Len(Kids(a))
      BY <1>2, <2>3 DEF a
    <3>7. Append(x, i) \in DOMAIN at2 <=> i \in 1 .. Len(K2[a])
      BY <1>10, <3>4, <3>5, <3>6
    <3>8. ASSUME Append(x, i) \in DOMAIN at2 PROVE at2[Append(x, i)] = K2[a][i]
      <4>1. Append(x, i) \in DOMAIN at /\ i \in DOMAIN Kids(a)
        BY <1>10, <3>3, <3>5, <3>6, <3>8
      <4>2. at[Append(x, i)] = Kids(a)[i]
        BY <1>2, <4>1 DEF a
      <4>3. K2[a][i] = IF Kids(a)[i] = p THEN q ELSE Kids(a)[i]
        BY <3>2, <4>1
      <4>4. Append(x, i) = w <=> Kids(a)[i] = p
        BY <1>3, <4>1, <4>2 DEF p
      <4> QED BY <1>10, <4>1, <4>2, <4>3, <4>4
    <3> QED BY <3>1, <3>7, <3>8
  <2>4. CASE x \notin DOMAIN at /\ x # new
    <3>1. Append(x, i) \notin DOMAIN at
      BY <1>2, <2>4
    <3>2. Append(x, i) # new
      BY <1>8, <2>4
    <3> QED BY <1>10, <2>4, <3>1, <3>2
  <2> QED BY <2>1, <2>2, <2>3, <2>4
<1>14. IsChart(at2, root', K2)
  BY <1>11, <1>12, <1>13 DEF IsChart
<1> QED BY <1>9, <1>14 DEF at2, K2, new, m

(* So an insertion hangs a last child under the node the ordered tree      *)
(* finds.                                                                  *)
LEMMA InsertPaths ==
    ASSUME PathInv, TreeInv', NEW how \in Searches, NEW k \in Key, NEW par \in Key,
           Insert(how, k, par)
    PROVE  HasChart' /\ T!Insert(how, k, par)
<1>1. TreeInv
  BY DEF PathInv
<1>2. /\ Alive /\ Alive' /\ Linked
      /\ \E p \in Found(how, par) \cap Used, n \in Addr \ Used, q \in Addr :
            (q = p \/ q \notin Used \cup {n}) /\ Grafted(n, p, q, k)
  BY <1>1, InsertGrafts
<1>3. PICK p \in Found(how, par) \cap Used, n \in Addr \ Used, q \in Addr :
          (q = p \/ q \notin Used \cup {n}) /\ Grafted(n, p, q, k)
  BY <1>2
<1>4. root # Null /\ p # Null
  BY <1>2, TreeAssumption DEF Linked, Used
<1>5. PICK at : Charted(at)
  BY <1>2, <1>4, HasChartIs
<1> DEFINE w == Place(at, p)
           t == Keyed(at)
           new == Append(w, Len(Kids(p)) + 1)
           at2 == Longer(at, w, n, q)
<1>6. w \in DOMAIN at /\ w \in Way /\ at[w] = p
  BY <1>5, PlaceIs
<1>7. KeysByPath = t /\ DOMAIN t = DOMAIN at
  BY <1>5, KeysByChart DEF Keyed
<1>8. PICK S \in T!Met(t, how) : w \in S /\ T!First(t, how, S, par, w)
  <2>1. p \in Found(how, par)
    OBVIOUS
  <2>2. PICK S \in T!Met(t, how) :
              \/ p = Null /\ \A x \in S : t[x] # par
              \/ p \in Used /\ w \in S /\ T!First(t, how, S, par, w)
    BY <1>5, <2>1, FoundIsFirst
  <2> QED BY <1>4, <2>2
<1> HIDE DEF w
<1>9. IsChart(at2, root', [a \in Addr |-> Kids(a)']) /\ new \notin DOMAIN at
  BY <1>1, <1>3, <1>5, <1>6, GraftChart
<1>10. HasChart' /\ KeysByPath' = [x \in DOMAIN at2 |-> heap'[at2[x]].key]
  <2>1. root' # Null
    BY <1>3, <1>4, TreeAssumption DEF Grafted
  <2> HIDE DEF at2
  <2> QED BY <1>2, <1>9, <2>1, ChartAfter
<1>11. KeysByPath' = [x \in DOMAIN t \cup {new} |-> IF x = new THEN k ELSE t[x]]
  <2>1. at2 = [x \in DOMAIN at \cup {new} |-> IF x = new THEN n ELSE IF x = w THEN q ELSE at[x]]
    BY <1>6 DEF Longer
  <2>2. DOMAIN at2 = DOMAIN t \cup {new}
    BY <1>7, <2>1
  <2>3. ASSUME NEW x \in DOMAIN t \cup {new}
        PROVE  heap'[at2[x]].key = IF x = new THEN k ELSE t[x]
    <3>1. heap'[n].key = k
      BY <1>3 DEF Grafted, Leaf
    <3>2. heap'[q].key = heap[p].key
      BY <1>3 DEF Grafted
    <3>3. \A a \in Used \ {p} : heap'[a].key = heap[a].key
      BY <1>3 DEF Grafted
    <3>4. \A y \in DOMAIN at : at[y] \in Used /\ (at[y] = p => y = w) /\ t[y] = heap[at[y]].key
      BY <1>5, <1>6, PlaceIs DEF Keyed, w
    <3> HIDE DEF at2, t
    <3>5. CASE x = new
      BY <2>1, <3>1, <3>5
    <3>6. CASE x # new /\ x = w
      BY <1>6, <1>7, <2>1, <3>2, <3>4, <3>6
    <3>7. CASE x # new /\ x # w
      <4>1. x \in DOMAIN at /\ at2[x] = at[x]
        BY <1>7, <2>1, <3>7
      <4> QED BY <3>3, <3>4, <3>7, <4>1
    <3> QED BY <3>5, <3>6, <3>7
  <2> HIDE DEF at2, t, new
  <2> QED BY <1>10, <2>2, <2>3
<1>12. T!Cardinality({i \in DOMAIN t : Len(i) = Len(w) + 1 /\ T!IsPrefix(w, i)}) = Len(Kids(p))
  BY <1>5, <1>6, ChildCount
<1>13. reply' = T!Answer("insert", how, 0, <<>>)
  BY DEF Insert, Say, Answer, T!Answer
<1> HIDE DEF t
<1>14. \E S1 \in T!Met(t, how) : \E p1 \in S1 :
          LET n1 == T!Cardinality({i \in DOMAIN t : Len(i) = Len(p1) + 1 /\ T!IsPrefix(p1, i)})
              new1 == Append(p1, n1 + 1)
          IN  /\ T!First(t, how, S1, par, p1)
              /\ KeysByPath' = [x \in DOMAIN t \cup {new1} |-> IF x = new1 THEN k ELSE t[x]]
  <2>1. w \in S /\ T!First(t, how, S, par, w)
    BY <1>8
  <2> QED BY <1>8, <1>11, <1>12, <2>1
<1> QED BY <1>7, <1>10, <1>13, <1>14, ZenonT(60) DEF T!Insert

(* The ways of a tree without its node at w: Old(w, x) is where the node   *)
(* at x was before, New(w, x) where the node at x is now.                  *)
Shifts(w, x) == Len(x) >= Len(w) /\ x[Len(w)] >= w[Len(w)] /\ \A i \in 1 .. Len(w) - 1 : x[i] = w[i]
New(w, x) == IF Shifts(w, x) THEN [x EXCEPT ![Len(w)] = @ - 1] ELSE x
Old(w, x) == IF Shifts(w, x) THEN [x EXCEPT ![Len(w)] = @ + 1] ELSE x

(* The steps of a way.                                                     *)
LEMMA StepsOf ==
    ASSUME NEW x \in Way
    PROVE  /\ Len(x) \in Nat /\ \A j \in 1 .. Len(x) : x[j] \in Nat \ {0}
           /\ x # <<>> => Len(x) \in Nat \ {0}
<1>1. 1 \in Nat \ {0}
  OBVIOUS
<1> QED BY <1>1, NoWay, Farther

(* A way with another step in its place d.                                 *)
OtherWay(x, d, e) == [x EXCEPT ![d] = e]

(* ... is one.                                                             *)
LEMMA OtherStep ==
    ASSUME NEW x \in Way, NEW d \in 1 .. Len(x), NEW e \in Nat \ {0}
    PROVE  /\ OtherWay(x, d, e) \in Way /\ Len(OtherWay(x, d, e)) = Len(x)
           /\ \A j \in 1 .. Len(x) : OtherWay(x, d, e)[j] = IF j = d THEN e ELSE x[j]
  BY ExceptSeq DEF Way, OtherWay

(* Where a node was, it did not go; and the two are inverse.               *)
LEMMA OldWays ==
    ASSUME NEW w \in Way, w # <<>>, NEW x \in Way
    PROVE  /\ Old(w, x) \in Way /\ Len(Old(w, x)) = Len(x)
           /\ \A j \in 1 .. Len(x) :
                 Old(w, x)[j] = IF Shifts(w, x) /\ j = Len(w) THEN x[j] + 1 ELSE x[j]
           /\ ~IsPrefix(w, Old(w, x))
           /\ New(w, Old(w, x)) = x
           /\ ~IsPrefix(w, x) => New(w, x) \in Way /\ Old(w, New(w, x)) = x
           /\ Len(x) < Len(w) => Old(w, x) = x
<1> DEFINE d == Len(w)
           y == Old(w, x)
           z == New(w, x)
<1>1. /\ d \in Nat \ {0} /\ Len(x) \in Nat /\ d \in 1 .. d
      /\ \A j \in 1 .. Len(x) : x[j] \in Nat \ {0}
      /\ \A j \in 1 .. d : w[j] \in Nat \ {0}
  <2>1. Len(w) \in Nat \ {0} /\ Len(x) \in Nat
    BY StepsOf
  <2>2. Len(w) \in 1 .. Len(w)
    BY <2>1
  <2> QED BY <2>1, <2>2, StepsOf
<1>2. Shifts(w, x) <=> Len(x) >= d /\ x[d] >= w[d] /\ \A i \in 1 .. d - 1 : x[i] = w[i]
  BY DEF Shifts
<1>3. ~Shifts(w, x) => y = x /\ z = x
  BY DEF Old, New
<1>4. IsPrefix(w, x) <=> d <= Len(x) /\ \A n \in 1 .. d : w[n] = x[n]
  BY PrefixIs
<1>5. CASE ~Shifts(w, x)
  <2>1. ~IsPrefix(w, x)
    <3> SUFFICES ASSUME d <= Len(x), \A n \in 1 .. d : w[n] = x[n] PROVE FALSE
      BY <1>4
    <3>1. x[d] = w[d] /\ x[d] \in Nat /\ \A i \in 1 .. d - 1 : x[i] = w[i]
      BY <1>1
    <3> QED BY <1>1, <1>2, <1>5, <3>1
  <2> HIDE DEF d
  <2> QED BY <1>1, <1>3, <1>5, <2>1
<1>6. CASE Shifts(w, x)
  <2>1. d \in 1 .. Len(x) /\ x[d] \in Nat \ {0} /\ x[d] >= w[d] /\ w[d] \in Nat \ {0}
    BY <1>1, <1>2, <1>6
  <2>2. y = OtherWay(x, d, x[d] + 1) /\ z = OtherWay(x, d, x[d] - 1)
    BY <1>6 DEF Old, New, OtherWay
  <2> HIDE DEF y, z, d
  <2>3. y \in Way /\ Len(y) = Len(x) /\ \A j \in 1 .. Len(x) : y[j] = IF j = d THEN x[d] + 1 ELSE x[j]
    <3>1. PICK e \in Nat \ {0} : e = x[d] + 1
      BY <2>1
    <3>2. y = OtherWay(x, d, e)
      BY <2>2, <3>1
    <3>3. y \in Way /\ Len(y) = Len(x) /\ \A j \in 1 .. Len(x) : y[j] = IF j = d THEN e ELSE x[j]
      BY <2>1, <3>2, OtherStep
    <3> QED BY <3>1, <3>3
  <2>4. y[d] = x[d] + 1 /\ \A i \in 1 .. d - 1 : y[i] = w[i]
    <3>1. \A i \in 1 .. d - 1 : i \in 1 .. Len(x) /\ i # d
      BY <1>1, <2>1
    <3> QED BY <1>2, <1>6, <2>1, <2>3, <3>1
  <2>5. Shifts(w, y) /\ ~IsPrefix(w, y)
    <3>1. Len(y) >= d /\ y[d] >= w[d] /\ y[d] # w[d]
      BY <1>1, <2>1, <2>3, <2>4
    <3>2. Shifts(w, y)
      BY <2>4, <3>1 DEF Shifts, d
    <3>3. IsPrefix(w, y) => w[d] = y[d]
      BY <1>1, <2>3, PrefixIs DEF d
    <3> QED BY <3>1, <3>2, <3>3
  <2>6. New(w, y) = x
    <3>1. New(w, y) = OtherWay(y, d, y[d] - 1)
      BY <2>5 DEF New, d, OtherWay
    <3>2. y[d] - 1 = x[d] /\ d \in 1 .. Len(y)
      BY <2>1, <2>3, <2>4
    <3>3. /\ New(w, y) \in Way /\ Len(New(w, y)) = Len(y)
          /\ \A j \in 1 .. Len(y) : New(w, y)[j] = IF j = d THEN x[d] ELSE y[j]
      <4> DEFINE e == x[d]
                 v == New(w, y)
      <4>1. y \in Way /\ d \in 1 .. Len(y) /\ e \in Nat \ {0} /\ v = OtherWay(y, d, e)
        BY <2>1, <2>3, <3>1, <3>2
      <4> HIDE DEF e, v
      <4>2. v \in Way /\ Len(v) = Len(y) /\ \A j \in 1 .. Len(y) : v[j] = IF j = d THEN e ELSE y[j]
        BY <4>1, OtherStep
      <4> QED BY <4>2 DEF e, v
    <3>4. \A j \in 1 .. Len(x) : New(w, y)[j] = x[j]
      BY <2>3, <3>2, <3>3
    <3> QED BY <2>3, <3>3, <3>4, SameWay
  <2>7. ASSUME ~IsPrefix(w, x) PROVE z \in Way /\ Old(w, z) = x
    <3>1. x[d] # w[d]
      <4> SUFFICES ASSUME x[d] = w[d] PROVE IsPrefix(w, x)
        BY <2>7
      <4>1. \A n \in 1 .. d : n = d \/ n \in 1 .. d - 1
        BY <1>1
      <4>2. \A n \in 1 .. d : w[n] = x[n]
        BY <1>2, <1>6, <4>1
      <4> QED BY <1>1, <1>4, <2>1, <4>2
    <3>2. x[d] - 1 \in Nat \ {0} /\ x[d] - 1 >= w[d]
      BY <2>1, <3>1
    <3>3. z \in Way /\ Len(z) = Len(x) /\ \A j \in 1 .. Len(x) : z[j] = IF j = d THEN x[d] - 1 ELSE x[j]
      <4>1. PICK e \in Nat \ {0} : e = x[d] - 1
        BY <3>2
      <4>2. z = OtherWay(x, d, e)
        BY <2>2, <4>1
      <4>3. z \in Way /\ Len(z) = Len(x) /\ \A j \in 1 .. Len(x) : z[j] = IF j = d THEN e ELSE x[j]
        BY <2>1, <4>2, OtherStep
      <4> QED BY <4>1, <4>3
    <3>4. Shifts(w, z)
      <4>1. \A i \in 1 .. d - 1 : i \in 1 .. Len(x) /\ i # d
        BY <1>1, <2>1
      <4>2. \A i \in 1 .. d - 1 : z[i] = w[i]
        BY <1>2, <1>6, <3>3, <4>1
      <4>3. z[d] >= w[d] /\ Len(z) >= d
        BY <1>1, <2>1, <3>2, <3>3
      <4> QED BY <4>2, <4>3 DEF Shifts, d
    <3>5. Old(w, z) = OtherWay(z, d, z[d] + 1)
      BY <3>4 DEF Old, d, OtherWay
    <3>6. z[d] + 1 = x[d] /\ d \in 1 .. Len(z)
      BY <2>1, <3>3
    <3>7. /\ Old(w, z) \in Way /\ Len(Old(w, z)) = Len(z)
          /\ \A j \in 1 .. Len(z) : Old(w, z)[j] = IF j = d THEN x[d] ELSE z[j]
      <4> DEFINE e == x[d]
                 v == Old(w, z)
      <4>1. z \in Way /\ d \in 1 .. Len(z) /\ e \in Nat \ {0} /\ v = OtherWay(z, d, e)
        BY <2>1, <3>3, <3>5, <3>6
      <4> HIDE DEF e, v
      <4>2. v \in Way /\ Len(v) = Len(z) /\ \A j \in 1 .. Len(z) : v[j] = IF j = d THEN e ELSE z[j]
        BY <4>1, OtherStep
      <4> QED BY <4>2 DEF e, v
    <3>8. \A j \in 1 .. Len(x) : Old(w, z)[j] = x[j]
      BY <3>3, <3>6, <3>7
    <3> QED BY <3>3, <3>7, <3>8, SameWay
  <2>8. ~(Len(x) < d)
    BY <1>1, <2>1
  <2>9. \A j \in 1 .. Len(x) : y[j] = IF Shifts(w, x) /\ j = d THEN x[j] + 1 ELSE x[j]
    BY <1>6, <2>3
  <2> QED BY <2>3, <2>5, <2>6, <2>7, <2>8, <2>9 DEF y, z, d
<1> QED BY <1>5, <1>6

(* A step farther, from the holder of the node at w and from elsewhere.    *)
LEMMA OldFarther ==
    ASSUME NEW h \in Way, NEW m \in Nat \ {0}, NEW x \in Way, NEW i \in Nat \ {0}
    PROVE  Old(Append(h, m), Append(x, i)) =
               IF x = h THEN Append(h, IF i >= m THEN i + 1 ELSE i)
               ELSE Append(Old(Append(h, m), x), i)
<1> DEFINE w == Append(h, m)
           d == Len(w)
           xi == Append(x, i)
<1>1. /\ w \in Way /\ w # <<>> /\ d = Len(h) + 1 /\ Len(h) \in Nat /\ w[d] = m
      /\ \A n \in 1 .. Len(h) : w[n] = h[n]
  <2>1. /\ w \in Way /\ w # <<>> /\ Len(w) = Len(h) + 1 /\ Len(h) \in Nat /\ w[Len(h) + 1] = m
        /\ \A n \in 1 .. Len(h) : w[n] = h[n]
    BY Farther
  <2> QED BY <2>1
<1>2. /\ xi \in Way /\ Len(xi) = Len(x) + 1 /\ Len(x) \in Nat /\ xi[Len(x) + 1] = i
      /\ \A n \in 1 .. Len(x) : xi[n] = x[n]
      /\ \A n \in 1 .. Len(x) : x[n] \in Nat \ {0}
  BY Farther
<1> HIDE DEF w, d, xi
<1>3. /\ Old(w, xi) \in Way /\ Len(Old(w, xi)) = Len(xi)
      /\ \A j \in 1 .. Len(xi) : Old(w, xi)[j] = IF Shifts(w, xi) /\ j = d THEN xi[j] + 1 ELSE xi[j]
      /\ Old(w, x) \in Way /\ Len(Old(w, x)) = Len(x)
      /\ \A j \in 1 .. Len(x) : Old(w, x)[j] = IF Shifts(w, x) /\ j = d THEN x[j] + 1 ELSE x[j]
  BY <1>1, <1>2, OldWays DEF d
<1>4. \A y : Shifts(w, y) <=> Len(y) >= d /\ y[d] >= m /\ \A n \in 1 .. Len(h) : y[n] = h[n]
  <2>1. d - 1 = Len(h)
    BY <1>1
  <2> QED BY <1>1, <2>1 DEF Shifts, d
<1>5. ASSUME x = h PROVE Old(w, xi) = Append(h, IF i >= m THEN i + 1 ELSE i)
  <2> DEFINE j == IF i >= m THEN i + 1 ELSE i
  <2>1. j \in Nat \ {0}
    OBVIOUS
  <2>2. Shifts(w, xi) <=> i >= m
    BY <1>1, <1>2, <1>4, <1>5
  <2> HIDE DEF j
  <2>3. /\ Append(h, j) \in Way /\ Len(Append(h, j)) = Len(h) + 1 /\ Append(h, j)[Len(h) + 1] = j
        /\ \A n \in 1 .. Len(h) : Append(h, j)[n] = h[n]
    BY <2>1, Farther
  <2>4. \A n \in 1 .. Len(h) + 1 : Old(w, xi)[n] = Append(h, j)[n]
    <3> TAKE n \in 1 .. Len(h) + 1
    <3>1. CASE n = Len(h) + 1
      BY <1>1, <1>2, <1>3, <1>5, <2>2, <2>3, <3>1 DEF j
    <3>2. CASE n # Len(h) + 1
      <4>1. n \in 1 .. Len(h) /\ n # d
        BY <1>1, <3>2
      <4> QED BY <1>2, <1>3, <1>5, <2>3, <4>1
    <3> QED BY <3>1, <3>2
  <2>5. Old(w, xi) = Append(h, j)
    <3>1. Len(Old(w, xi)) = Len(h) + 1
      BY <1>2, <1>3, <1>5
    <3>2. /\ Old(w, xi) \in Way /\ Append(h, j) \in Way /\ Len(Old(w, xi)) = Len(Append(h, j))
          /\ \A n \in 1 .. Len(Old(w, xi)) : Old(w, xi)[n] = Append(h, j)[n]
      BY <1>3, <2>3, <2>4, <3>1
    <3> QED BY <3>2, SameWay
  <2> QED BY <2>5 DEF j
<1>6. ASSUME x # h PROVE Old(w, xi) = Append(Old(w, x), i)
  <2>1. /\ Append(Old(w, x), i) \in Way /\ Len(Append(Old(w, x), i)) = Len(x) + 1
        /\ Append(Old(w, x), i)[Len(x) + 1] = i
        /\ \A n \in 1 .. Len(x) : Append(Old(w, x), i)[n] = Old(w, x)[n]
    <3> DEFINE y == Old(w, x)
    <3>1. y \in Way /\ Len(y) = Len(x)
      BY <1>3
    <3> HIDE DEF y
    <3>2. /\ Append(y, i) \in Way /\ Len(Append(y, i)) = Len(y) + 1
          /\ Append(y, i)[Len(y) + 1] = i /\ \A n \in 1 .. Len(y) : Append(y, i)[n] = y[n]
      BY <3>1, Farther
    <3>3. /\ Append(y, i) \in Way /\ Len(Append(y, i)) = Len(x) + 1
          /\ Append(y, i)[Len(x) + 1] = i /\ \A n \in 1 .. Len(x) : Append(y, i)[n] = y[n]
      BY <3>1, <3>2
    <3> QED BY <3>3 DEF y
  <2>2. Shifts(w, xi) => Len(x) >= d
    <3> SUFFICES ASSUME Shifts(w, xi), Len(x) < d PROVE x = h
      BY <1>1, <1>2, <1>6
    <3>1. Len(xi) >= d /\ \A n \in 1 .. Len(h) : xi[n] = h[n]
      BY <1>4
    <3>2. Len(x) = Len(h)
      BY <1>1, <1>2, <3>1
    <3>3. \A n \in 1 .. Len(x) : x[n] = h[n]
      BY <1>2, <3>1, <3>2
    <3> QED BY <3>2, <3>3, SameWay
  <2>3. Len(x) >= d => (Shifts(w, xi) <=> Shifts(w, x))
    <3> SUFFICES ASSUME Len(x) >= d PROVE Shifts(w, xi) <=> Shifts(w, x)
      OBVIOUS
    <3>1. d \in 1 .. Len(x) /\ \A n \in 1 .. Len(h) : n \in 1 .. Len(x)
      BY <1>1, <1>2
    <3>2. xi[d] = x[d] /\ (\A n \in 1 .. Len(h) : xi[n] = x[n]) /\ Len(xi) >= d
      BY <1>1, <1>2, <3>1
    <3> QED BY <1>4, <3>2
  <2>4. Shifts(w, x) => Len(x) >= d
    BY <1>4
  <2>5. Shifts(w, xi) <=> Shifts(w, x)
    BY <2>2, <2>3, <2>4
  <2>6. \A n \in 1 .. Len(x) + 1 : Old(w, xi)[n] = Append(Old(w, x), i)[n]
    <3> TAKE n \in 1 .. Len(x) + 1
    <3>1. CASE n = Len(x) + 1
      <4>1. n \in 1 .. Len(xi) /\ (Shifts(w, xi) => n # d)
        BY <1>1, <1>2, <2>2, <3>1
      <4> QED BY <1>2, <1>3, <2>1, <3>1, <4>1
    <3>2. CASE n # Len(x) + 1
      <4>1. n \in 1 .. Len(x) /\ n \in 1 .. Len(xi)
        BY <1>2, <3>2
      <4> QED BY <1>2, <1>3, <2>1, <2>5, <4>1
    <3> QED BY <3>1, <3>2
  <2>7. /\ Old(w, xi) \in Way /\ Append(Old(w, x), i) \in Way
        /\ Len(Old(w, xi)) = Len(Append(Old(w, x), i))
        /\ \A n \in 1 .. Len(Old(w, xi)) : Old(w, xi)[n] = Append(Old(w, x), i)[n]
    BY <1>2, <1>3, <2>1, <2>6
  <2> QED BY <2>7, SameWay
<1> QED BY <1>5, <1>6 DEF w, xi

(* From elsewhere ...                                                      *)
LEMMA OldElsewhere ==
    ASSUME NEW h \in Way, NEW m \in Nat \ {0}, NEW x \in Way, NEW i \in Nat \ {0}, x # h
    PROVE  Old(Append(h, m), Append(x, i)) = Append(Old(Append(h, m), x), i)
  BY OldFarther

(* ... and from its holder.                                                *)
LEMMA OldBelow ==
    ASSUME NEW h \in Way, NEW m \in Nat \ {0}, NEW i \in Nat \ {0}
    PROVE  Old(Append(h, m), Append(h, i)) = Append(h, IF i >= m THEN i + 1 ELSE i)
  BY OldFarther, SMTT(60)

(* A list without the element in its place m.                              *)
LEMMA WithoutPlace ==
    ASSUME Blocks, Linked, NEW p \in Used, NEW m \in DOMAIN Kids(p), NEW a, a = Kids(p)[m]
    PROVE  /\ Len(RemoveFirst(Kids(p), a)) = Len(Kids(p)) - 1 /\ Len(Kids(p)) \in Nat
           /\ m \in 1 .. Len(Kids(p))
           /\ \A j \in 1 .. Len(Kids(p)) - 1 :
                 RemoveFirst(Kids(p), a)[j] = Kids(p)[IF j >= m THEN j + 1 ELSE j]
<1> DEFINE s == Kids(p)
           S == Kin(p)
<1>1. p \in Addr /\ s \in Seq(Addr) /\ a = s[m] /\ m \in DOMAIN s
  BY KidsFacts DEF Used
<1>2. ListsOnce(s, S) /\ a \in S
  <2>1. ListsOnce(s, S)
    BY <1>1, DistinctIsList DEF Linked, Kin
  <2>2. a \in S
    BY <1>1 DEF Kin, ToSet
  <2> QED BY <2>1, <2>2
<1> HIDE DEF s, S
<1>3. Len(s) \in Nat /\ DOMAIN s = 1 .. Len(s)
  BY <1>1, LenProperties
<1>4. PICK i : TakenOut(S, s, a, i, RemoveFirst(s, a))
  BY <1>2, ListWithout
<1>5. /\ i \in 1 .. Len(s) /\ s[i] = a /\ Len(RemoveFirst(s, a)) = Len(s) - 1
      /\ \A j \in 1 .. Len(s) - 1 : RemoveFirst(s, a)[j] = IF j < i THEN s[j] ELSE s[j + 1]
  <2> DEFINE v == RemoveFirst(s, a)
  <2>1. TakenOut(S, s, a, i, v)
    BY <1>4
  <2> HIDE DEF v
  <2>2. /\ i \in 1 .. Len(s) /\ s[i] = a /\ Len(v) = Len(s) - 1
        /\ \A j \in 1 .. Len(s) - 1 : v[j] = IF j < i THEN s[j] ELSE s[j + 1]
    BY <2>1, Zenon DEF TakenOut
  <2> QED BY <2>2 DEF v
<1>6. i = m
  <2>1. \A j, l \in DOMAIN s : s[j] = s[l] => j = l
    BY SMTT(60) DEF Linked, s
  <2>2. i \in DOMAIN s /\ m \in DOMAIN s /\ s[i] = s[m]
    BY <1>1, <1>3, <1>5, ZenonT(60)
  <2> QED BY <2>1, <2>2
<1>7. \A j \in 1 .. Len(s) - 1 : RemoveFirst(s, a)[j] = s[IF j >= m THEN j + 1 ELSE j]
  <2> TAKE j \in 1 .. Len(s) - 1
  <2>1. CASE j < m
    <3>1. ~(j >= m)
      BY <1>5, <1>6, <2>1
    <3> QED BY <1>5, <1>6, <2>1, <3>1
  <2>2. CASE ~(j < m)
    <3>1. j >= m
      BY <1>5, <1>6, <2>2
    <3> QED BY <1>5, <1>6, <2>2, <3>1
  <2> QED BY <2>1, <2>2
<1> QED BY <1>1, <1>3, <1>5, <1>7, ZenonT(60) DEF s

(* The chart without what is at w or below it.                             *)
Shorter(at, w) == [x \in {y \in Way : Old(w, y) \in DOMAIN at} |-> at[Old(w, x)]]

(* Its ways are those left, each moved to where it is now.                 *)
LEMMA ShorterWays ==
    ASSUME NEW at, DOMAIN at \subseteq Way, NEW w \in Way, w # <<>>
    PROVE  DOMAIN Shorter(at, w) = {New(w, r) : r \in DOMAIN at \ {q \in DOMAIN at : IsPrefix(w, q)}}
<1>1. DOMAIN Shorter(at, w) = {y \in Way : Old(w, y) \in DOMAIN at}
  BY DEF Shorter
<1>2. ASSUME NEW y \in DOMAIN Shorter(at, w)
      PROVE  \E r \in DOMAIN at \ {q \in DOMAIN at : IsPrefix(w, q)} : y = New(w, r)
  <2>1. y \in Way /\ Old(w, y) \in DOMAIN at
    BY <1>1
  <2>2. ~IsPrefix(w, Old(w, y)) /\ New(w, Old(w, y)) = y
    BY <2>1, OldWays
  <2> QED BY <2>1, <2>2
<1>3. ASSUME NEW r \in DOMAIN at, ~IsPrefix(w, r)
      PROVE  New(w, r) \in DOMAIN Shorter(at, w)
  <2>1. New(w, r) \in Way /\ Old(w, New(w, r)) = r
    BY <1>3, OldWays
  <2> QED BY <1>1, <2>1
<1> QED BY <1>2, <1>3

(* It is the chart of the tree that is left.                               *)
LEMMA PruneChart ==
    ASSUME NEW at, Charted(at), NEW h \in DOMAIN at, NEW m \in DOMAIN Kids(at[h]),
           NEW D, at[h] \notin D, Pruned(D, Kids(at[h])[m], at[h]),
           \A x \in DOMAIN at : at[x] \in D <=> IsPrefix(Append(h, m), x)
    PROVE  IsChart(Shorter(at, Append(h, m)), root', [b \in Addr |-> Kids(b)'])
<1> DEFINE p == at[h]
           a == Kids(p)[m]
           w == Append(h, m)
           at2 == Shorter(at, w)
           K2 == [b \in Addr |-> Kids(b)']
           s == Kids(p)
           v == RemoveFirst(s, a)
           n == Len(s)
<1>1. /\ Blocks /\ Linked /\ IsChart(at, root, KidsOf) /\ root' = root
  BY DEF Charted, Pruned
<1>2. /\ at \in [DOMAIN at -> Addr] /\ DOMAIN at \subseteq Way
      /\ <<>> \in DOMAIN at /\ at[<<>>] = root
      /\ \A x \in DOMAIN at, i \in Nat \ {0} :
             Append(x, i) \in DOMAIN at <=> i \in 1 .. Len(Kids(at[x]))
      /\ \A x \in Way, i \in Nat \ {0} : Append(x, i) \in DOMAIN at =>
                 /\ x \in DOMAIN at /\ at[Append(x, i)] = Kids(at[x])[i]
  BY <1>1, ChartSteps
<1>3. /\ \A x \in DOMAIN at : at[x] \in Used
      /\ \A x, y \in DOMAIN at : at[x] = at[y] => x = y
  BY <1>1, ChartNodes
<1>4. h \in Way /\ p \in Used /\ Used \subseteq Addr
  BY <1>2, <1>3 DEF Used
<1>5. /\ Len(v) = n - 1 /\ n \in Nat /\ m \in 1 .. n
      /\ \A j \in 1 .. n - 1 : v[j] = s[IF j >= m THEN j + 1 ELSE j]
  BY <1>1, <1>4, WithoutPlace
<1>6. /\ K2[p] = v
      /\ \A b \in Used \ D : b # p => K2[b] = Kids(b)
  <2>1. \A b \in Used \ D : heap'[b] # Null
    BY <1>4 DEF Pruned
  <2>2. \A b \in Used \ D : Kids(b)' = heap'[b].kids
    BY <2>1 DEF Kids
  <2>3. heap'[p].kids = v /\ p \notin D
    BY DEF Pruned
  <2>4. \A b \in Used \ D : b # p => Kids(b)' = Kids(b)
    <3> SUFFICES ASSUME NEW b \in Used \ D, b # p PROVE Kids(b)' = Kids(b)
      OBVIOUS
    <3>1. heap'[b] = heap[b]
      BY DEF Pruned
    <3> QED BY <3>1 DEF Kids
  <2> HIDE DEF p, v
  <2> QED BY <1>4, <2>2, <2>3, <2>4
<1>7. /\ m \in Nat \ {0} /\ w \in Way /\ w # <<>> /\ Len(h) < Len(w) /\ 0 < Len(w)
  <2>1. m \in Nat \ {0}
    BY <1>5
  <2>2. w \in Way /\ w # <<>> /\ Len(w) = Len(h) + 1 /\ Len(h) \in Nat
    BY <1>4, <2>1, Farther
  <2> QED BY <2>1, <2>2
<1>8. \A y \in DOMAIN at : at[y] \in D <=> IsPrefix(w, y)
  OBVIOUS
<1>9. /\ \A y : y \in DOMAIN at2 <=> y \in Way /\ Old(w, y) \in DOMAIN at
      /\ \A y \in DOMAIN at2 : at2[y] = at[Old(w, y)]
      /\ at2 = [y \in DOMAIN at2 |-> at2[y]]
  BY DEF Shorter
<1>10. at[h] = p /\ p \notin D
  OBVIOUS
<1> HIDE DEF p, a, w, at2, K2, s, v, n
<1>11. /\ \A y \in Way : /\ Old(w, y) \in Way /\ ~IsPrefix(w, Old(w, y))
                         /\ New(w, Old(w, y)) = y
       /\ Old(w, h) = h /\ Old(w, <<>>) = <<>> /\ New(w, h) = h
  <2>1. \A y \in Way : /\ Old(w, y) \in Way /\ ~IsPrefix(w, Old(w, y))
                       /\ New(w, Old(w, y)) = y
    BY <1>7, OldWays
  <2>2. Old(w, h) = h
    BY <1>4, <1>7, OldWays
  <2>3. Old(w, <<>>) = <<>>
    BY <1>7, NoWay, OldWays
  <2> QED BY <1>4, <2>1, <2>2, <2>3
<1>12. at2 \in [DOMAIN at2 -> Addr] /\ DOMAIN at2 \subseteq Way
  <2>1. \A y \in DOMAIN at2 : at2[y] \in Addr /\ y \in Way
    BY <1>2, <1>9
  <2> QED BY <1>9, <2>1
<1>13. <<>> \in DOMAIN at2 /\ at2[<<>>] = root'
  BY <1>1, <1>2, <1>9, <1>11, NoWay
<1>14. ASSUME NEW x \in Way, NEW i \in Nat \ {0}
       PROVE  /\ Append(x, i) \in DOMAIN at2 <=> x \in DOMAIN at2 /\ i \in 1 .. Len(K2[at2[x]])
              /\ Append(x, i) \in DOMAIN at2 => at2[Append(x, i)] = K2[at2[x]][i]
  <2>1. Append(x, i) \in Way
    BY Farther
  <2>2. CASE x = h
    <3> DEFINE j == IF i >= m THEN i + 1 ELSE i
    <3>1. Old(w, Append(x, i)) = Append(h, j)
      BY <1>4, <1>7, <2>2, OldBelow DEF w
    <3>2. h \in DOMAIN at2 /\ at2[h] = p
      BY <1>4, <1>9, <1>10, <1>11
    <3>3. j \in Nat \ {0} /\ (j \in 1 .. n <=> i \in 1 .. n - 1)
      BY <1>5, <1>7
    <3>4. i \in 1 .. n - 1 => v[i] = s[j]
      BY <1>5
    <3> HIDE DEF j
    <3>5. Append(h, j) \in DOMAIN at <=> j \in 1 .. n
      BY <1>2, <1>10, <3>3 DEF s, n
    <3>6. Append(h, j) \in DOMAIN at => at[Append(h, j)] = s[j]
      BY <1>2, <1>4, <1>10, <3>3 DEF s
    <3>7. Append(x, i) \in DOMAIN at2 <=> i \in 1 .. n - 1
      BY <1>9, <2>1, <3>1, <3>3, <3>5
    <3>8. Append(x, i) \in DOMAIN at2 => at2[Append(x, i)] = v[i]
      BY <1>9, <3>1, <3>3, <3>4, <3>5, <3>6, <3>7
    <3> QED BY <1>5, <1>6, <2>2, <3>2, <3>7, <3>8
  <2>3. CASE x # h
    <3> DEFINE y == Old(w, x)
    <3>1. Old(w, Append(x, i)) = Append(y, i)
      <4>1. h \in Way /\ m \in Nat \ {0} /\ x \in Way /\ i \in Nat \ {0}
        BY <1>4, <1>7
      <4>2. Old(Append(h, m), Append(x, i)) = Append(Old(Append(h, m), x), i)
        BY <2>3, <4>1, OldElsewhere, ZenonT(60)
      <4> QED BY <4>2 DEF w
    <3>2. y \in Way /\ ~IsPrefix(w, y) /\ y # h
      BY <1>11, <2>3
    <3> HIDE DEF y
    <3>3. x \in DOMAIN at2 <=> y \in DOMAIN at
      BY <1>9 DEF y
    <3>4. Append(x, i) \in DOMAIN at2 <=> Append(y, i) \in DOMAIN at
      BY <1>9, <2>1, <3>1
    <3>5. CASE y \in DOMAIN at
      <4>1. at[y] \in Used \ D /\ at[y] # p
        BY <1>3, <1>8, <1>10, <3>2, <3>5
      <4>2. at2[x] = at[y] /\ K2[at[y]] = Kids(at[y])
        BY <1>6, <1>9, <3>3, <3>5, <4>1 DEF y
      <4>3. Append(y, i) \in DOMAIN at <=> i \in 1 .. Len(Kids(at[y]))
        BY <1>2, <3>5
      <4>4. Append(x, i) \in DOMAIN at2 => at2[Append(x, i)] = Kids(at[y])[i]
        BY <1>2, <1>9, <3>1, <3>2, <3>4, ZenonT(60)
      <4> QED BY <3>3, <3>4, <3>5, <4>2, <4>3, <4>4
    <3>6. CASE y \notin DOMAIN at
      <4>1. Append(y, i) \notin DOMAIN at
        BY <1>2, <3>2, <3>6
      <4> QED BY <3>3, <3>4, <3>6, <4>1
    <3> QED BY <3>5, <3>6
  <2> QED BY <2>2, <2>3
<1>15. IsChart(at2, root', K2)
  BY <1>12, <1>13, <1>14 DEF IsChart
<1> QED BY <1>15 DEF at2, w, K2

(* So a deletion takes away what is below the node the ordered tree finds, *)
(* and gives the keys there.                                               *)
LEMMA DeletePaths ==
    ASSUME PathInv, TreeInv', NEW how \in Searches, NEW k \in Key, Delete(how, k)
    PROVE  HasChart' /\ T!Delete(how, k)
<1>1. TreeInv
  BY DEF PathInv
<1>2. Alive /\ Alive' /\ root # Null /\ Linked
  BY <1>1, DeletePrunes
<1>3. PICK a \in Found(how, k) \cap (Used \ {root}), p \in Used, D \in SUBSET Used :
          /\ D = ToSet(ChildrenFirst(a)) /\ p \notin D /\ a \in Kin(p) /\ Pruned(D, a, p)
          /\ reply' = Answer("delete", how, 0, KeysOf(ChildrenFirst(a)))
  BY <1>1, DeletePrunes
<1>4. PICK at : Charted(at)
  BY <1>2, HasChartIs
<1> DEFINE h == Place(at, p)
           w == Place(at, a)
           t == Keyed(at)
           at2 == Shorter(at, w)
<1>5. KeysByPath = t /\ DOMAIN t = DOMAIN at /\ \A x \in DOMAIN at : t[x] = heap[at[x]].key
  BY <1>4, KeysByChart DEF Keyed
<1>6. /\ h \in DOMAIN at /\ at[h] = p
      /\ w \in DOMAIN at /\ w \in Way /\ at[w] = a /\ DOMAIN at \subseteq Way
      /\ \A x \in DOMAIN at : at[x] \in Used
  BY <1>3, <1>4, PlaceIs
<1>7. PICK m \in DOMAIN Kids(p) : a = Kids(p)[m] /\ w = Append(h, m)
  BY <1>3, <1>4, PlaceIs
<1>8. w # <<>>
  BY <1>3, <1>4, <1>6 DEF Charted, IsChart
<1>9. a # Null /\ a \in Used
  BY <1>3, TreeAssumption DEF Used
<1>10. PICK S \in T!Met(t, how) : w \in S /\ T!First(t, how, S, k, w)
  <2>1. a \in Found(how, k)
    BY <1>3
  <2>2. PICK S \in T!Met(t, how) :
              \/ a = Null /\ \A x \in S : t[x] # k
              \/ a \in Used /\ w \in S /\ T!First(t, how, S, k, w)
    BY <1>4, <2>1, FoundIsFirst
  <2> QED BY <1>9, <2>2
<1>11. /\ \A x \in DOMAIN at : at[x] \in D <=> IsPrefix(w, x)
       /\ T!KeysFreed(t, w) = KeysOf(ChildrenFirst(a))
  BY <1>3, <1>4, <1>9, FreedKeys
<1> HIDE DEF w, h
<1>12. IsChart(at2, root', [b \in Addr |-> Kids(b)'])
  <2>1. at[h] \notin D /\ Pruned(D, Kids(at[h])[m], at[h]) /\ m \in DOMAIN Kids(at[h])
    BY <1>3, <1>6, <1>7
  <2>2. \A x \in DOMAIN at : at[x] \in D <=> IsPrefix(Append(h, m), x)
    BY <1>7, <1>11
  <2>3. IsChart(Shorter(at, Append(h, m)), root', [b \in Addr |-> Kids(b)'])
    BY <1>4, <1>6, <2>1, <2>2, PruneChart
  <2> QED BY <1>7, <2>3
<1>13. HasChart' /\ KeysByPath' = [x \in DOMAIN at2 |-> heap'[at2[x]].key]
  <2>1. root' # Null
    BY <1>2, <1>3 DEF Pruned
  <2> HIDE DEF at2
  <2> QED BY <1>2, <1>12, <2>1, ChartAfter
<1>14. DOMAIN at2 = {New(w, r) : r \in DOMAIN t \ {q \in DOMAIN t : T!IsPrefix(w, q)}}
  <2>1. DOMAIN at2 = {New(w, r) : r \in DOMAIN at \ {q \in DOMAIN at : IsPrefix(w, q)}}
    BY <1>6, <1>8, ShorterWays
  <2>2. {q \in DOMAIN t : T!IsPrefix(w, q)} = {q \in DOMAIN at : IsPrefix(w, q)}
    BY <1>5, SamePrefix
  <2> HIDE DEF at2, t
  <2> QED BY <1>5, <2>1, <2>2
<1>15. ASSUME NEW x \in DOMAIN at2 PROVE heap'[at2[x]].key = t[Old(w, x)]
  <2>1. x \in Way /\ Old(w, x) \in DOMAIN at /\ at2[x] = at[Old(w, x)]
    BY DEF Shorter
  <2> HIDE DEF at2, t
  <2>2. ~IsPrefix(w, Old(w, x))
    BY <1>6, <1>8, <2>1, OldWays
  <2>3. at[Old(w, x)] \in Used \ D
    BY <1>6, <1>11, <2>1, <2>2
  <2>4. \A b \in Used \ D : heap'[b].key = heap[b].key
    <3> SUFFICES ASSUME NEW b \in Used \ D PROVE heap'[b].key = heap[b].key
      OBVIOUS
    <3>1. CASE b = p
      BY <1>3, <3>1 DEF Pruned
    <3>2. CASE b # p
      BY <1>3, <3>2 DEF Pruned
    <3> QED BY <3>1, <3>2
  <2> QED BY <1>5, <2>1, <2>3, <2>4
<1> HIDE DEF at2, t
<1>16. KeysByPath' = [x \in {New(w, r) : r \in DOMAIN t \ {q \in DOMAIN t : T!IsPrefix(w, q)}}
                         |-> t[Old(w, x)]]
  BY <1>13, <1>14, <1>15
<1>17. reply' = T!Answer("delete", how, 0, T!KeysFreed(t, w))
  BY <1>3, <1>11 DEF Answer, T!Answer
<1>18. reply'.op = "delete" /\ reply'.how = how
  BY <1>3 DEF Answer
<1>19. \E S1 \in T!Met(t, how) : \E p1 \in S1 :
          /\ p1 # <<>> /\ T!First(t, how, S1, k, p1)
          /\ reply' = T!Answer("delete", how, 0, T!KeysFreed(t, p1))
          /\ KeysByPath' = [x \in {New(p1, r) : r \in DOMAIN t \ {q \in DOMAIN t : T!IsPrefix(p1, q)}}
                              |-> t[Old(p1, x)]]
  <2>1. w \in S /\ T!First(t, how, S, k, w)
    BY <1>10
  <2> QED BY <1>8, <1>10, <1>16, <1>17, <2>1
<1>20. \E S1 \in T!Met(KeysByPath, how) : \E p1 \in S1 :
          /\ p1 # <<>> /\ T!First(KeysByPath, how, S1, k, p1)
          /\ reply' = T!Answer("delete", how, 0, T!KeysFreed(KeysByPath, p1))
          /\ KeysByPath' = [x \in {New(p1, r) : r \in DOMAIN KeysByPath
                                                  \ {q \in DOMAIN KeysByPath : T!IsPrefix(p1, q)}}
                              |-> KeysByPath[Old(p1, x)]]
  BY <1>5, <1>19
<1>21. T!Delete(how, k)
  BY <1>18, <1>20 DEF T!Delete, New, Old, Shifts
<1> QED BY <1>13, <1>21

(* The first tree is the empty one.                                        *)
LEMMA PathsBegin == Init => PathInv /\ T!Init
<1> SUFFICES ASSUME Init PROVE PathInv /\ T!Init
  OBVIOUS
<1>1. root = Null /\ reply = Answer("new", "no", 0, <<>>)
  BY DEF Init
<1>2. KeysByPath = <<>>
  BY <1>1, NoPaths
<1>3. HasChart
  BY <1>1 DEF HasChart
<1>4. TreeInv
  BY InitTree
<1> QED BY <1>1, <1>2, <1>3, <1>4 DEF PathInv, T!Init, T!Answer, Answer

(* Every step of the generic tree is a call on the ordered tree, or none.  *)
LEMMA PathsStep ==
    ASSUME PathInv, [Next]_vars
    PROVE  PathInv' /\ [T!Next]_(T!vars)
<1>1. TreeInv'
  BY NextPreserves DEF PathInv
<1>2. SUFFICES HasChart' /\ [T!Next]_(T!vars)
  BY <1>1 DEF PathInv
<1>3. ASSUME NEW k \in Key, Plant(k) PROVE HasChart' /\ T!Next
  BY <1>1, <1>3, PlantPaths DEF T!Next
<1>4. ASSUME NEW how \in Searches, NEW k \in Key
      PROVE  /\ \A par \in Key : Insert(how, k, par) => HasChart' /\ T!Next
             /\ Find(how, k) => HasChart' /\ T!Next
             /\ Delete(how, k) => HasChart' /\ T!Next
             /\ DeleteMissing(how, k) => HasChart' /\ T!Next
  <2>1. how \in {"depth", "breadth", "short"}
    BY DEF Searches
  <2>2. ASSUME NEW par \in Key, Insert(how, k, par) PROVE HasChart' /\ T!Next
    <3>1. HasChart' /\ T!Insert(how, k, par)
      BY <1>1, <2>2, InsertPaths
    <3> QED BY <2>1, <3>1 DEF T!Next
  <2>3. ASSUME Find(how, k) PROVE HasChart' /\ T!Next
    <3>1. HasChart' /\ (T!Find(how, k) \/ T!Missing("find", how, k))
      BY <1>1, <2>3, FindPaths
    <3> QED BY <2>1, <3>1 DEF T!Next
  <2>4. ASSUME Delete(how, k) PROVE HasChart' /\ T!Next
    <3>1. HasChart' /\ T!Delete(how, k)
      BY <1>1, <2>4, DeletePaths
    <3> QED BY <2>1, <3>1 DEF T!Next
  <2>5. ASSUME DeleteMissing(how, k) PROVE HasChart' /\ T!Next
    <3>1. HasChart' /\ T!Missing("delete", how, k)
      BY <1>1, <2>5, DeleteMissingPaths
    <3> QED BY <2>1, <3>1 DEF T!Next
  <2> QED BY <2>2, <2>3, <2>4, <2>5
<1>5. ASSUME InsertFails PROVE HasChart' /\ T!Next
  BY <1>1, <1>5, InsertFailsPaths DEF T!Next
<1>6. ASSUME Free PROVE HasChart' /\ T!Next
  BY <1>6, FreePaths DEF T!Next
<1>7. ASSUME Renew PROVE HasChart' /\ T!Next
  BY <1>7, RenewPaths DEF T!Next
<1>8. ASSUME Stops \/ UNCHANGED vars PROVE HasChart' /\ UNCHANGED T!vars
  <2>1. UNCHANGED <<root, heap, reply>>
    BY <1>8 DEF Stops, vars, tree
  <2> QED BY <1>1, <2>1, StutterPaths DEF T!vars
<1>9. Next \/ UNCHANGED vars
  OBVIOUS
<1> QED BY <1>3, <1>4, <1>5, <1>6, <1>7, <1>8, <1>9 DEF Next

(* The generic tree is an ordered tree: a search finds, in depth first or  *)
(* breadth first order, the first node with the key that it may meet; an   *)
(* insertion hangs a last child under it, a deletion takes it away with    *)
(* all below it, children before parents, and renumbers the siblings after *)
(* it; short of memory or not, moved or not, every other node keeps its    *)
(* path and its key.                                                       *)
THEOREM OrderedTreeImplemented == Spec => ImplementsTree
<1>1. Init => PathInv /\ T!Init
  BY PathsBegin
<1>2. PathInv /\ [Next]_vars => PathInv' /\ [T!Next]_(T!vars)
  BY PathsStep
<1> QED BY <1>1, <1>2, PTL DEF Spec, ImplementsTree, T!Spec
---------------------------------------------------------------------------
(***************************************************************************)
(* The AVL tree.                                                           *)
(***************************************************************************)
NoTree == Avl!NoTree

(* The rows of a tree that Avl!NodesTo goes down by. *)
IsRows(f, t, n) == f = [i \in 0 .. n |-> IF i = 0 THEN {t} \ {NoTree}
                                         ELSE f[i - 1] \cup Avl!Children(f[i - 1])]

(* There are such rows, and the nodes are in the last one.                 *)
LEMMA RowsExist ==
    ASSUME NEW t, NEW n \in Nat
    PROVE  \E f : IsRows(f, t, n) /\ Avl!NodesTo(t, n) = f[n]
<1> DEFINE P == {m \in 0 .. n : \E f : IsRows(f, t, m)}
<1>1. 0 \in P
  <2> DEFINE f == [i \in 0 .. 0 |-> {t} \ {NoTree}]
  <2>1. f = [i \in 0 .. 0 |-> IF i = 0 THEN {t} \ {NoTree} ELSE f[i - 1] \cup Avl!Children(f[i - 1])]
    OBVIOUS
  <2> HIDE DEF f
  <2> QED BY <2>1 DEF IsRows
<1>2. ASSUME NEW m \in 0 .. n - 1, m \in P PROVE m + 1 \in P
  <2>1. PICK f : IsRows(f, t, m)
    BY <1>2
  <2> DEFINE C == f[m] \cup Avl!Children(f[m])
             g == [i \in 0 .. m + 1 |-> IF i = m + 1 THEN C ELSE f[i]]
  <2>2. \A i \in 0 .. m : f[i] = IF i = 0 THEN {t} \ {NoTree} ELSE f[i - 1] \cup Avl!Children(f[i - 1])
    BY <2>1 DEF IsRows
  <2>3. ASSUME NEW i \in 0 .. m + 1
        PROVE  g[i] = IF i = 0 THEN {t} \ {NoTree} ELSE g[i - 1] \cup Avl!Children(g[i - 1])
    <3>1. CASE i = m + 1
      <4>1. i # 0 /\ i - 1 = m /\ m \in 0 .. m + 1 /\ m # m + 1
        BY <3>1
      <4>2. g[i] = C /\ g[i - 1] = f[m]
        BY <3>1, <4>1
      <4> QED BY <4>1, <4>2
    <3>2. CASE i # m + 1
      <4>1. i \in 0 .. m /\ (i # 0 => i - 1 \in 0 .. m + 1 /\ i - 1 # m + 1)
        BY <3>2
      <4>2. g[i] = f[i] /\ (i # 0 => g[i - 1] = f[i - 1])
        BY <3>2, <4>1
      <4> QED BY <2>2, <4>1, <4>2
    <3> QED BY <3>1, <3>2
  <2>4. g = [i \in 0 .. m + 1 |-> g[i]]
    OBVIOUS
  <2> HIDE DEF g
  <2>5. IsRows(g, t, m + 1)
    BY <2>3, <2>4 DEF IsRows
  <2>6. m + 1 \in 0 .. n
    BY <1>2
  <2> QED BY <2>5, <2>6
<1>3. \A m \in 0 .. n : m \in P
  <2> HIDE DEF P
  <2> QED BY <1>1, <1>2, InductionTo
<1>4. \E f : IsRows(f, t, n)
  BY <1>3
<1> DEFINE G == CHOOSE f : IsRows(f, t, n)
<1>5. IsRows(G, t, n)
  BY <1>4
<1>6. Avl!NodesTo(t, n) = G[n]
  BY DEF Avl!NodesTo, IsRows, NoTree
<1> QED BY <1>5, <1>6

Grows(f, n) == \A i \in 0 .. n - 1 : f[i + 1] = f[i] \cup Avl!Children(f[i])

(* What the rows of a tree are made of.                                    *)
LEMMA RowsAre ==
    ASSUME NEW t, NEW n \in Nat, NEW f, IsRows(f, t, n)
    PROVE  /\ f[0] = {t} \ {NoTree}
           /\ Grows(f, n)
           /\ t # NoTree => \A i \in 0 .. n : t \in f[i]
           /\ t = NoTree => \A i \in 0 .. n : f[i] = {}
<1>1. \A i \in 0 .. n : f[i] = IF i = 0 THEN {t} \ {NoTree} ELSE f[i - 1] \cup Avl!Children(f[i - 1])
  BY DEF IsRows
<1>2. f[0] = {t} \ {NoTree}
  <2>1. 0 \in 0 .. n
    OBVIOUS
  <2> QED BY <1>1, <2>1
<1>3. ASSUME NEW i \in 0 .. n - 1 PROVE f[i + 1] = f[i] \cup Avl!Children(f[i])
  <2>1. i + 1 \in 0 .. n /\ i + 1 # 0 /\ (i + 1) - 1 = i
    BY <1>3
  <2> QED BY <1>1, <2>1
<1>4. ASSUME t # NoTree PROVE \A i \in 0 .. n : t \in f[i]
  <2> DEFINE P == {i \in 0 .. n : t \in f[i]}
  <2>1. 0 \in P
    BY <1>2, <1>4
  <2>2. \A i \in 0 .. n - 1 : i \in P => i + 1 \in P
    BY <1>3
  <2>3. \A i \in 0 .. n : i \in P
    <3> HIDE DEF P
    <3> QED BY <2>1, <2>2, InductionTo
  <2> QED BY <2>3
<1>5. ASSUME t = NoTree PROVE \A i \in 0 .. n : f[i] = {}
  <2> DEFINE P == {i \in 0 .. n : f[i] = {}}
  <2>1. 0 \in P
    BY <1>2, <1>5
  <2>2. \A i \in 0 .. n - 1 : i \in P => i + 1 \in P
    BY <1>3 DEF Avl!Children
  <2>3. \A i \in 0 .. n : i \in P
    <3> HIDE DEF P
    <3> QED BY <2>1, <2>2, InductionTo
  <2> QED BY <2>3
<1>6. Grows(f, n)
  BY <1>3 DEF Grows
<1> QED BY <1>2, <1>4, <1>5, <1>6

(* The nodes of a tree are its root and the nodes of its subtrees.         *)
LEMMA NodesToAre ==
    ASSUME NEW t
    PROVE  /\ t = NoTree => \A n \in Nat : Avl!NodesTo(t, n) = {}
           /\ t # NoTree => /\ Avl!NodesTo(t, 0) = {t}
                            /\ \A n \in Nat : Avl!NodesTo(t, n + 1) =
                                   {t} \cup Avl!NodesTo(t.left, n) \cup Avl!NodesTo(t.right, n)
<1>1. ASSUME t = NoTree, NEW n \in Nat PROVE Avl!NodesTo(t, n) = {}
  <2>1. PICK f : IsRows(f, t, n) /\ Avl!NodesTo(t, n) = f[n]
    BY RowsExist
  <2>2. n \in 0 .. n
    OBVIOUS
  <2> QED BY <1>1, <2>1, <2>2, RowsAre
<1>2. ASSUME t # NoTree PROVE Avl!NodesTo(t, 0) = {t}
  <2>1. PICK f : IsRows(f, t, 0) /\ Avl!NodesTo(t, 0) = f[0]
    BY RowsExist
  <2>2. f[0] = {t} \ {NoTree}
    BY <2>1, RowsAre
  <2> QED BY <1>2, <2>1, <2>2
<1>3. ASSUME t # NoTree, NEW n \in Nat
      PROVE  Avl!NodesTo(t, n + 1) = {t} \cup Avl!NodesTo(t.left, n) \cup Avl!NodesTo(t.right, n)
  <2> DEFINE A == t.left
             B == t.right
  <2>1. PICK f : IsRows(f, t, n + 1) /\ Avl!NodesTo(t, n + 1) = f[n + 1]
    BY RowsExist
  <2>2. PICK l : IsRows(l, A, n) /\ Avl!NodesTo(A, n) = l[n]
    BY RowsExist
  <2>3. PICK r : IsRows(r, B, n) /\ Avl!NodesTo(B, n) = r[n]
    BY RowsExist
  <2>4. /\ f[0] = {t}
        /\ \A i \in 0 .. n : f[i + 1] = f[i] \cup Avl!Children(f[i])
    <3> DEFINE m == n + 1
    <3>1. IsRows(f, t, m) /\ m \in Nat
      BY <2>1
    <3> HIDE DEF m
    <3>2. f[0] = {t} \ {NoTree} /\ Grows(f, m)
      BY <3>1, RowsAre
    <3>3. 0 .. m - 1 = 0 .. n
      BY DEF m
    <3> QED BY <1>3, <3>2, <3>3 DEF Grows
  <2> HIDE DEF A, B
  <2>5. /\ l[0] = {A} \ {NoTree} /\ \A i \in 0 .. n : {A} \ {NoTree} \subseteq l[i]
        /\ \A i \in 0 .. n - 1 : l[i + 1] = l[i] \cup Avl!Children(l[i])
    <3>1. /\ l[0] = {A} \ {NoTree} /\ Grows(l, n)
          /\ A # NoTree => \A i \in 0 .. n : A \in l[i]
      BY <2>2, RowsAre
    <3> QED BY <3>1 DEF Grows
  <2>6. /\ r[0] = {B} \ {NoTree} /\ \A i \in 0 .. n : {B} \ {NoTree} \subseteq r[i]
        /\ \A i \in 0 .. n - 1 : r[i + 1] = r[i] \cup Avl!Children(r[i])
    <3>1. /\ r[0] = {B} \ {NoTree} /\ Grows(r, n)
          /\ B # NoTree => \A i \in 0 .. n : B \in r[i]
      BY <2>3, RowsAre
    <3> QED BY <3>1 DEF Grows
  <2>7. Avl!Children({t}) = ({A} \cup {B}) \ {NoTree}
    BY DEF Avl!Children, NoTree, A, B
  <2>8. \A X, Y : Avl!Children(X \cup Y) = Avl!Children(X) \cup Avl!Children(Y)
    BY DEF Avl!Children
  <2> DEFINE P == {i \in 0 .. n : f[i + 1] = {t} \cup l[i] \cup r[i]}
  <2>9. 0 \in P
    <3>1. f[1] = {t} \cup Avl!Children({t})
      BY <2>4
    <3> QED BY <3>1, <2>5, <2>6, <2>7
  <2>10. ASSUME NEW i \in 0 .. n - 1, i \in P PROVE i + 1 \in P
    <3>1. f[(i + 1) + 1] = f[i + 1] \cup Avl!Children(f[i + 1])
      BY <2>4
    <3>2. f[i + 1] = {t} \cup l[i] \cup r[i]
      BY <2>10
    <3>3. Avl!Children(f[i + 1]) = Avl!Children({t}) \cup Avl!Children(l[i]) \cup Avl!Children(r[i])
      <4>1. Avl!Children({t} \cup l[i] \cup r[i]) =
                Avl!Children({t} \cup l[i]) \cup Avl!Children(r[i])
        BY <2>8
      <4>2. Avl!Children({t} \cup l[i]) = Avl!Children({t}) \cup Avl!Children(l[i])
        BY <2>8
      <4> QED BY <3>2, <4>1, <4>2
    <3>4. l[i + 1] = l[i] \cup Avl!Children(l[i]) /\ r[i + 1] = r[i] \cup Avl!Children(r[i])
      BY <2>5, <2>6
    <3>5. {A} \ {NoTree} \subseteq l[i] /\ {B} \ {NoTree} \subseteq r[i]
      BY <2>5, <2>6
    <3>6. f[(i + 1) + 1] = {t} \cup l[i + 1] \cup r[i + 1]
      BY <3>1, <3>2, <3>3, <3>4, <3>5, <2>7
    <3> QED BY <3>6
  <2>11. \A i \in 0 .. n : i \in P
    <3> HIDE DEF P
    <3> QED BY <2>9, <2>10, InductionTo
  <2> QED BY <2>1, <2>2, <2>3, <2>11 DEF A, B
<1> QED BY <1>1, <1>2, <1>3

(* Nodes whose subtrees are made of the same nodes, whose recorded heights *)
(* are the true ones and that lean by at most one.                         *)
TreeNode(S) == [key : AvlKey, height : Nat \ {0}, left : S \cup {NoTree}, right : S \cup {NoTree}]
Even(S) == /\ S \subseteq TreeNode(S)
           /\ \A u \in S : /\ u.height = Avl!Larger(u.left.height, u.right.height) + 1
                           /\ u.left.height - u.right.height \in -1 .. 1

(* A node of such a tree.                                                  *)
LEMMA EvenNode ==
    ASSUME NEW S, Even(S), NEW u \in S
    PROVE  /\ u # NoTree /\ u.key \in AvlKey /\ u.height \in Nat \ {0}
           /\ u.left \in S \cup {NoTree} /\ u.right \in S \cup {NoTree}
           /\ u.left.height \in 0 .. u.height - 1 /\ u.right.height \in 0 .. u.height - 1
           /\ u.height = Avl!Larger(u.left.height, u.right.height) + 1
           /\ u.left.height - u.right.height \in -1 .. 1
           /\ u = [key |-> u.key, height |-> u.height, left |-> u.left, right |-> u.right]
<1>1. /\ u.key \in AvlKey /\ u.height \in Nat \ {0}
      /\ u.left \in S \cup {NoTree} /\ u.right \in S \cup {NoTree}
      /\ u = [key |-> u.key, height |-> u.height, left |-> u.left, right |-> u.right]
  BY DEF Even, TreeNode
<1>2. NoTree.height = 0
  BY DEF NoTree, Avl!NoTree
<1>3. \A v \in S \cup {NoTree} : v.height \in Nat
  BY <1>2 DEF Even, TreeNode
<1>4. u.left.height \in Nat /\ u.right.height \in Nat
  BY <1>1, <1>3
<1>5. /\ u.height = Avl!Larger(u.left.height, u.right.height) + 1
      /\ u.left.height - u.right.height \in -1 .. 1
  BY DEF Even
<1>6. u.left.height \in 0 .. u.height - 1 /\ u.right.height \in 0 .. u.height - 1
  BY <1>4, <1>5 DEF Avl!Larger
<1>7. u # NoTree
  BY <1>1, <1>2
<1> QED BY <1>1, <1>5, <1>6, <1>7

(* No node lies below the recorded height, and all are of the set.         *)
LEMMA NodesStop ==
    ASSUME NEW S, Even(S), NEW t \in S \cup {NoTree}
    PROVE  /\ t.height \in Nat /\ Avl!Nodes(t) \subseteq S
           /\ \A m \in Nat : m >= t.height => Avl!NodesTo(t, m) = Avl!Nodes(t)
<1>1. NoTree.height = 0
  BY DEF NoTree, Avl!NoTree
<1>2. \A u \in S \cup {NoTree} : u.height \in Nat
  BY <1>1, EvenNode
<1> DEFINE N == t.height
<1>3. N \in Nat
  BY <1>2
<1> DEFINE P == {h \in 0 .. N : \A u \in S \cup {NoTree} : u.height <= h =>
                     \A m \in Nat : m >= u.height => Avl!NodesTo(u, m) = Avl!NodesTo(u, u.height)}
<1>4. 0 \in P
  <2>1. ASSUME NEW u \in S \cup {NoTree}, u.height <= 0, NEW m \in Nat
        PROVE  Avl!NodesTo(u, m) = Avl!NodesTo(u, u.height)
    <3>1. u = NoTree
      BY <2>1, EvenNode
    <3> QED BY <3>1, <1>1, NodesToAre
  <2> QED BY <1>3, <2>1
<1>5. ASSUME NEW h \in 0 .. N - 1, h \in P PROVE h + 1 \in P
  <2>1. ASSUME NEW u \in S \cup {NoTree}, u.height <= h + 1, NEW m \in Nat, m >= u.height
        PROVE  Avl!NodesTo(u, m) = Avl!NodesTo(u, u.height)
    <3>1. CASE u = NoTree
      BY <3>1, <1>1, NodesToAre
    <3>2. CASE u # NoTree
      <4> DEFINE A == u.left
                 B == u.right
                 g == u.height - 1
                 j == m - 1
      <4>1. /\ A \in S \cup {NoTree} /\ B \in S \cup {NoTree}
            /\ A.height \in 0 .. g /\ B.height \in 0 .. g /\ u.height \in Nat \ {0}
        BY <3>2, EvenNode
      <4>2. g \in Nat /\ j \in Nat /\ j >= g /\ h >= g /\ u.height = g + 1 /\ m = j + 1 /\ h \in Nat
        BY <2>1, <4>1
      <4>3. /\ Avl!NodesTo(u, g + 1) = {u} \cup Avl!NodesTo(A, g) \cup Avl!NodesTo(B, g)
            /\ Avl!NodesTo(u, j + 1) = {u} \cup Avl!NodesTo(A, j) \cup Avl!NodesTo(B, j)
        BY <3>2, <4>2, NodesToAre
      <4> HIDE DEF A, B, g, j
      <4>4. \A v \in S \cup {NoTree} : v.height <= h =>
                \A i \in Nat : i >= v.height => Avl!NodesTo(v, i) = Avl!NodesTo(v, v.height)
        BY <1>5
      <4>5. Avl!NodesTo(A, g) = Avl!NodesTo(A, j)
        BY <4>1, <4>2, <4>4
      <4>6. Avl!NodesTo(B, g) = Avl!NodesTo(B, j)
        BY <4>1, <4>2, <4>4
      <4> QED BY <4>2, <4>3, <4>5, <4>6
    <3> QED BY <3>1, <3>2
  <2>2. h + 1 \in 0 .. N
    BY <1>3, <1>5
  <2> QED BY <2>1, <2>2
<1>6. N \in P
  <2>1. \A h \in 0 .. N : h \in P
    <3> HIDE DEF P
    <3> QED BY <1>3, <1>4, <1>5, InductionTo
  <2> QED BY <1>3, <2>1
<1> DEFINE Q == {i \in 0 .. N : \A u \in S \cup {NoTree} : Avl!NodesTo(u, i) \subseteq S}
<1>7. 0 \in Q
  <2>1. ASSUME NEW u \in S \cup {NoTree} PROVE Avl!NodesTo(u, 0) \subseteq S
    BY NodesToAre
  <2> QED BY <1>3, <2>1
<1>8. ASSUME NEW i \in 0 .. N - 1, i \in Q PROVE i + 1 \in Q
  <2>1. ASSUME NEW u \in S \cup {NoTree} PROVE Avl!NodesTo(u, i + 1) \subseteq S
    <3>1. CASE u = NoTree
      BY <3>1, NodesToAre
    <3>2. CASE u # NoTree
      <4>1. u \in S /\ u.left \in S \cup {NoTree} /\ u.right \in S \cup {NoTree}
        BY <3>2, EvenNode
      <4>2. Avl!NodesTo(u.left, i) \subseteq S /\ Avl!NodesTo(u.right, i) \subseteq S
        BY <1>8, <4>1
      <4>3. Avl!NodesTo(u, i + 1) = {u} \cup Avl!NodesTo(u.left, i) \cup Avl!NodesTo(u.right, i)
        BY <3>2, NodesToAre
      <4> QED BY <4>1, <4>2, <4>3
    <3> QED BY <3>1, <3>2
  <2>2. i + 1 \in 0 .. N
    BY <1>3, <1>8
  <2> QED BY <2>1, <2>2
<1>9. N \in Q
  <2>1. \A i \in 0 .. N : i \in Q
    <3> HIDE DEF Q
    <3> QED BY <1>3, <1>7, <1>8, InductionTo
  <2> QED BY <1>3, <2>1
<1>10. Avl!Nodes(t) = Avl!NodesTo(t, N)
  BY DEF Avl!Nodes, Avl!Height
<1> QED BY <1>3, <1>6, <1>9, <1>10

(* The nodes of a tree are its root and those of its two subtrees.         *)
LEMMA EvenNodes ==
    ASSUME NEW S, Even(S), NEW t \in S \cup {NoTree}
    PROVE  /\ t.height \in Nat /\ Avl!Nodes(t) \subseteq S
           /\ t = NoTree => t.height = 0 /\ Avl!Nodes(t) = {}
           /\ t # NoTree => Avl!Nodes(t) = {t} \cup Avl!Nodes(t.left) \cup Avl!Nodes(t.right)
<1>1. t.height \in Nat /\ Avl!Nodes(t) \subseteq S
  BY NodesStop
<1>2. ASSUME t = NoTree PROVE t.height = 0 /\ Avl!Nodes(t) = {}
  BY <1>1, <1>2, NodesToAre DEF Avl!Nodes, Avl!Height, NoTree, Avl!NoTree
<1>3. ASSUME t # NoTree PROVE Avl!Nodes(t) = {t} \cup Avl!Nodes(t.left) \cup Avl!Nodes(t.right)
  <2> DEFINE A == t.left
             B == t.right
             g == t.height - 1
  <2>1. /\ A \in S \cup {NoTree} /\ B \in S \cup {NoTree}
        /\ A.height \in 0 .. g /\ B.height \in 0 .. g /\ t.height \in Nat \ {0}
    BY <1>3, EvenNode
  <2>2. g \in Nat /\ t.height = g + 1
    BY <2>1
  <2>3. Avl!NodesTo(t, g + 1) = {t} \cup Avl!NodesTo(A, g) \cup Avl!NodesTo(B, g)
    BY <1>3, <2>2, NodesToAre
  <2>4. Avl!Nodes(t) = Avl!NodesTo(t, g + 1)
    BY <2>2 DEF Avl!Nodes, Avl!Height
  <2> HIDE DEF A, B, g
  <2>5. Avl!NodesTo(A, g) = Avl!Nodes(A)
    BY <2>1, <2>2, NodesStop
  <2>6. Avl!NodesTo(B, g) = Avl!Nodes(B)
    BY <2>1, <2>2, NodesStop
  <2> QED BY <2>3, <2>4, <2>5, <2>6 DEF A, B
<1> QED BY <1>1, <1>2, <1>3

(* Induction over a tree: what the empty tree has, and every node whose    *)
(* two subtrees have it, all subtrees have.                                *)
LEMMA TreeInduction ==
    ASSUME NEW S, Even(S), NEW P, NoTree \in P,
           \A u \in S : u.left \in P /\ u.right \in P => u \in P
    PROVE  S \subseteq P
<1>1. SUFFICES ASSUME NEW t \in S PROVE t \in P
  OBVIOUS
<1> DEFINE N == t.height
           Q == {h \in 0 .. N : \A u \in S \cup {NoTree} : u.height <= h => u \in P}
<1>2. N \in Nat
  BY EvenNode
<1>3. 0 \in Q
  <2>1. ASSUME NEW u \in S \cup {NoTree}, u.height <= 0 PROVE u \in P
    BY <2>1, EvenNode
  <2> QED BY <1>2, <2>1
<1>4. ASSUME NEW h \in 0 .. N - 1, h \in Q PROVE h + 1 \in Q
  <2>1. ASSUME NEW u \in S \cup {NoTree}, u.height <= h + 1 PROVE u \in P
    <3>1. CASE u = NoTree
      BY <3>1
    <3>2. CASE u # NoTree
      <4>1. /\ u \in S /\ u.left \in S \cup {NoTree} /\ u.right \in S \cup {NoTree}
            /\ u.left.height \in 0 .. u.height - 1 /\ u.right.height \in 0 .. u.height - 1
            /\ u.height \in Nat
        BY <3>2, EvenNode
      <4>2. u.left.height <= h /\ u.right.height <= h
        BY <2>1, <4>1
      <4>3. u.left \in P /\ u.right \in P
        BY <1>4, <4>1, <4>2
      <4> QED BY <4>1, <4>3
    <3> QED BY <3>1, <3>2
  <2>2. h + 1 \in 0 .. N
    BY <1>2, <1>4
  <2> QED BY <2>1, <2>2
<1>5. N \in Q
  <2>1. \A h \in 0 .. N : h \in Q
    <3> HIDE DEF Q
    <3> QED BY <1>2, <1>3, <1>4, InductionTo
  <2> QED BY <1>2, <2>1
<1> QED BY <1>2, <1>5

(* The nodes of a tree are themselves such a set.                          *)
LEMMA NodesEven ==
    ASSUME NEW S, Even(S), NEW t \in S \cup {NoTree}
    PROVE  Even(Avl!Nodes(t)) /\ \A u \in Avl!Nodes(t) : Avl!Nodes(u) \subseteq Avl!Nodes(t)
<1> DEFINE P == {v \in S \cup {NoTree} : \A u \in Avl!Nodes(v) :
                     /\ u.left \in Avl!Nodes(v) \cup {NoTree} /\ u.right \in Avl!Nodes(v) \cup {NoTree}
                     /\ Avl!Nodes(u) \subseteq Avl!Nodes(v)}
<1>1. NoTree \in P
  BY EvenNodes
<1>2. ASSUME NEW v \in S, v.left \in P, v.right \in P PROVE v \in P
  <2> DEFINE A == v.left
             B == v.right
  <2>1. v # NoTree /\ A \in S \cup {NoTree} /\ B \in S \cup {NoTree}
    BY EvenNode
  <2>2. Avl!Nodes(v) = {v} \cup Avl!Nodes(A) \cup Avl!Nodes(B)
    BY <2>1, EvenNodes
  <2>3. A \in Avl!Nodes(A) \cup {NoTree} /\ B \in Avl!Nodes(B) \cup {NoTree}
    BY <2>1, EvenNodes
  <2> HIDE DEF A, B
  <2>4. ASSUME NEW u \in Avl!Nodes(v)
        PROVE  /\ u.left \in Avl!Nodes(v) \cup {NoTree} /\ u.right \in Avl!Nodes(v) \cup {NoTree}
               /\ Avl!Nodes(u) \subseteq Avl!Nodes(v)
    <3>1. CASE u = v
      BY <2>2, <2>3, <3>1 DEF A, B
    <3>2. CASE u \in Avl!Nodes(A)
      <4>1. A \in P
        BY <1>2 DEF A
      <4> QED BY <2>2, <3>2, <4>1
    <3>3. CASE u \in Avl!Nodes(B)
      <4>1. B \in P
        BY <1>2 DEF B
      <4> QED BY <2>2, <3>3, <4>1
    <3> QED BY <2>2, <2>4, <3>1, <3>2, <3>3
  <2> QED BY <2>4
<1>3. S \subseteq P
  <2> HIDE DEF P
  <2> QED BY <1>1, <1>2, TreeInduction
<1>4. t \in P
  BY <1>1, <1>3
<1> DEFINE M == Avl!Nodes(t)
<1>5. M \subseteq S
  BY EvenNodes
<1>6. \A u \in M : u.left \in M \cup {NoTree} /\ u.right \in M \cup {NoTree}
  BY <1>4
<1> HIDE DEF M
<1>7. M \subseteq TreeNode(M)
  <2>1. ASSUME NEW u \in M PROVE u \in TreeNode(M)
    <3>1. /\ u.key \in AvlKey /\ u.height \in Nat \ {0}
          /\ u = [key |-> u.key, height |-> u.height, left |-> u.left, right |-> u.right]
      BY <1>5, EvenNode
    <3> QED BY <3>1, <1>6 DEF TreeNode
  <2> QED BY <2>1
<1>8. Even(M)
  BY <1>5, <1>7 DEF Even
<1> QED BY <1>4, <1>8 DEF M

(* A search tree with those heights.                                       *)
Ordered(u) == /\ \A k \in Avl!KeysOf(u.left) : k < u.key
              /\ \A k \in Avl!KeysOf(u.right) : k > u.key
Good(t) == \E S : t \in S \cup {NoTree} /\ Even(S) /\ \A u \in S : Ordered(u)

(* The keys are numbers.                                                   *)
LEMMA KeysAreNumbers == AvlKey \subseteq Int /\ MaxLeaked \in Nat /\ Null \notin AvlKey
  BY KeysAssumption DEF Avl!AvlAssumption

(* The empty tree is one.                                                  *)
LEMMA NoTreeIsGood ==
    Good(NoTree) /\ NoTree.height = 0 /\ Avl!KeysOf(NoTree) = {} /\ Avl!Nodes(NoTree) = {}
<1>1. Even({})
  BY DEF Even
<1>2. NoTree.height = 0 /\ Avl!Nodes(NoTree) = {}
  BY <1>1, EvenNodes
<1> QED BY <1>1, <1>2 DEF Good, Avl!KeysOf

(* A tree, its nodes and its keys.                                         *)
LEMMA GoodTree ==
    ASSUME NEW t, Good(t)
    PROVE  /\ t.height \in Nat /\ Avl!KeysOf(t) \subseteq AvlKey
           /\ Even(Avl!Nodes(t)) /\ t \in Avl!Nodes(t) \cup {NoTree}
           /\ \A u \in Avl!Nodes(t) : /\ Ordered(u) /\ u # NoTree
                                      /\ Good(u) /\ Good(u.left) /\ Good(u.right)
                                      /\ u.left \in Avl!Nodes(t) \cup {NoTree}
                                      /\ u.right \in Avl!Nodes(t) \cup {NoTree}
                                      /\ u.key \in AvlKey /\ u.key \in Avl!KeysOf(t)
<1>1. PICK S : t \in S \cup {NoTree} /\ Even(S) /\ \A u \in S : Ordered(u)
  BY DEF Good
<1> DEFINE M == Avl!Nodes(t)
<1>2. t.height \in Nat /\ M \subseteq S
  BY <1>1, EvenNodes
<1>3. Even(M)
  BY <1>1, NodesEven
<1>4. t \in M \cup {NoTree}
  BY <1>1, EvenNodes
<1> HIDE DEF M
<1>5. \A u \in M : Ordered(u)
  BY <1>1, <1>2
<1>6. ASSUME NEW u \in M
      PROVE  /\ u # NoTree /\ u.key \in AvlKey
             /\ u.left \in M \cup {NoTree} /\ u.right \in M \cup {NoTree}
  BY <1>3, EvenNode
<1>7. \A u \in M \cup {NoTree} : Good(u)
  BY <1>3, <1>5 DEF Good
<1>8. Avl!KeysOf(t) = {n.key : n \in M}
  BY DEF Avl!KeysOf, M
<1> QED BY <1>2, <1>3, <1>4, <1>5, <1>6, <1>7, <1>8 DEF M

(* The root of a tree.                                                     *)
LEMMA GoodRoot ==
    ASSUME NEW t, Good(t), t # NoTree
    PROVE  /\ t \in Avl!Nodes(t) /\ t.key \in AvlKey
           /\ t = [key |-> t.key, height |-> t.height, left |-> t.left, right |-> t.right]
           /\ Good(t.left) /\ Good(t.right) /\ Ordered(t)
           /\ t.left.height \in Nat /\ t.right.height \in Nat
           /\ t.height = Avl!Larger(t.left.height, t.right.height) + 1
           /\ t.left.height - t.right.height \in -1 .. 1
           /\ Avl!Nodes(t) = {t} \cup Avl!Nodes(t.left) \cup Avl!Nodes(t.right)
           /\ Avl!KeysOf(t) = {t.key} \cup Avl!KeysOf(t.left) \cup Avl!KeysOf(t.right)
<1>1. t \in Avl!Nodes(t) /\ Even(Avl!Nodes(t))
  BY GoodTree
<1>2. Good(t.left) /\ Good(t.right) /\ Ordered(t) /\ t.key \in AvlKey
  BY <1>1, GoodTree
<1>3. t.left.height \in Nat /\ t.right.height \in Nat
  BY <1>2, GoodTree
<1>4. /\ t.height = Avl!Larger(t.left.height, t.right.height) + 1
      /\ t.left.height - t.right.height \in -1 .. 1
      /\ t = [key |-> t.key, height |-> t.height, left |-> t.left, right |-> t.right]
  BY <1>1, EvenNode
<1>5. Avl!Nodes(t) = {t} \cup Avl!Nodes(t.left) \cup Avl!Nodes(t.right)
  BY <1>1, EvenNodes
<1>6. Avl!KeysOf(t) = {t.key} \cup Avl!KeysOf(t.left) \cup Avl!KeysOf(t.right)
  BY <1>5 DEF Avl!KeysOf
<1> QED BY <1>1, <1>2, <1>3, <1>4, <1>5, <1>6

(* A tree put together from a key and two trees.                           *)
Made(k, l, r) == [key |-> k, height |-> Avl!Larger(l.height, r.height) + 1, left |-> l, right |-> r]
Below(l, k) == \A i \in Avl!KeysOf(l) : i < k
Above(r, k) == \A i \in Avl!KeysOf(r) : k < i

(* What is put together so is a tree.                                      *)
LEMMA GoodMade ==
    ASSUME NEW k \in AvlKey, NEW l, NEW r, Good(l), Good(r), Below(l, k), Above(r, k),
           l.height - r.height \in -1 .. 1
    PROVE  /\ Good(Made(k, l, r)) /\ Made(k, l, r) # NoTree
           /\ Avl!KeysOf(Made(k, l, r)) = {k} \cup Avl!KeysOf(l) \cup Avl!KeysOf(r)
<1> DEFINE t == Made(k, l, r)
<1>1. /\ t.key = k /\ t.left = l /\ t.right = r
      /\ t.height = Avl!Larger(l.height, r.height) + 1
      /\ t = [key |-> t.key, height |-> t.height, left |-> t.left, right |-> t.right]
  BY DEF Made
<1> HIDE DEF t
<1>2. PICK A : l \in A \cup {NoTree} /\ Even(A) /\ \A u \in A : Ordered(u)
  BY DEF Good
<1>3. PICK B : r \in B \cup {NoTree} /\ Even(B) /\ \A u \in B : Ordered(u)
  BY DEF Good
<1> DEFINE S == {t} \cup A \cup B
<1>4. l.height \in Nat /\ r.height \in Nat
  BY GoodTree
<1>5. t.height \in Nat \ {0}
  BY <1>1, <1>4 DEF Avl!Larger
<1>6. S \subseteq TreeNode(S)
  <2>1. ASSUME NEW u \in S PROVE u \in TreeNode(S)
    <3>1. /\ u.key \in AvlKey /\ u.height \in Nat \ {0}
          /\ u.left \in S \cup {NoTree} /\ u.right \in S \cup {NoTree}
          /\ u = [key |-> u.key, height |-> u.height, left |-> u.left, right |-> u.right]
      <4>1. CASE u = t
        BY <4>1, <1>1, <1>2, <1>3, <1>5
      <4>2. CASE u \in A
        BY <4>2, <1>2, EvenNode
      <4>3. CASE u \in B
        BY <4>3, <1>3, EvenNode
      <4> QED BY <4>1, <4>2, <4>3
    <3> HIDE DEF S
    <3> QED BY <3>1 DEF TreeNode
  <2> QED BY <2>1
<1>7. Even(S)
  <2>1. ASSUME NEW u \in S
        PROVE  /\ u.height = Avl!Larger(u.left.height, u.right.height) + 1
               /\ u.left.height - u.right.height \in -1 .. 1
    <3>1. CASE u = t
      BY <3>1, <1>1
    <3>2. CASE u \in A
      BY <3>2, <1>2, EvenNode
    <3>3. CASE u \in B
      BY <3>3, <1>3, EvenNode
    <3> QED BY <3>1, <3>2, <3>3
  <2> QED BY <1>6, <2>1 DEF Even
<1>8. t # NoTree
  BY <1>5, NoTreeIsGood
<1>9. Avl!Nodes(t) = {t} \cup Avl!Nodes(l) \cup Avl!Nodes(r)
  <2>1. t \in S
    OBVIOUS
  <2> HIDE DEF S
  <2> QED BY <2>1, <1>1, <1>7, <1>8, EvenNodes
<1>10. Avl!KeysOf(t) = {k} \cup Avl!KeysOf(l) \cup Avl!KeysOf(r)
  BY <1>1, <1>9 DEF Avl!KeysOf
<1>11. Ordered(t)
  <2>1. k \in Int /\ Avl!KeysOf(r) \subseteq Int
    BY GoodTree, KeysAreNumbers
  <2> QED BY <1>1, <2>1 DEF Ordered, Below, Above
<1>12. Good(t)
  <2>1. t \in S /\ \A u \in S : Ordered(u)
    BY <1>2, <1>3, <1>11
  <2> QED BY <2>1, <1>7 DEF Good
<1> QED BY <1>8, <1>10, <1>12 DEF t

(* A tree is put together from its parts.                                  *)
LEMMA GoodIsMade ==
    ASSUME NEW t, Good(t), t # NoTree
    PROVE  t = Made(t.key, t.left, t.right) /\ Below(t.left, t.key) /\ Above(t.right, t.key)
<1>1. /\ t = [key |-> t.key, height |-> t.height, left |-> t.left, right |-> t.right]
      /\ t.height = Avl!Larger(t.left.height, t.right.height) + 1
      /\ Ordered(t) /\ t.key \in AvlKey /\ Good(t.right)
  BY GoodRoot
<1>2. t.key \in Int /\ Avl!KeysOf(t.right) \subseteq Int
  BY <1>1, GoodTree, KeysAreNumbers
<1> QED BY <1>1, <1>2 DEF Made, Ordered, Below, Above

Node2(k, h, l, r) == [key |-> k, height |-> h, left |-> l, right |-> r]

(* A node whose left subtree is too high by one, rotated once: that        *)
(* subtree does not lean to the right.                                     *)
LEMMA RotatedRight ==
    ASSUME NEW k \in AvlKey, NEW h, NEW x, NEW r, Good(x), Good(r), x # NoTree,
           Below(x, k), Above(r, k), x.height = r.height + 2, x.left.height >= x.right.height,
           NEW v, v = Avl!RightRotate(Node2(k, h, x, r))
    PROVE  /\ Good(v) /\ v # NoTree
           /\ Avl!KeysOf(v) = {k} \cup Avl!KeysOf(x) \cup Avl!KeysOf(r)
           /\ v.height = IF x.left.height = x.right.height THEN x.height + 1 ELSE x.height
<1>1. /\ x.key \in AvlKey /\ Good(x.left) /\ Good(x.right)
      /\ x.left.height \in Nat /\ x.right.height \in Nat
      /\ x.height = Avl!Larger(x.left.height, x.right.height) + 1
      /\ x.left.height - x.right.height \in -1 .. 1
      /\ Avl!KeysOf(x) = {x.key} \cup Avl!KeysOf(x.left) \cup Avl!KeysOf(x.right)
      /\ x = Made(x.key, x.left, x.right) /\ Below(x.left, x.key) /\ Above(x.right, x.key)
  BY GoodRoot, GoodIsMade
<1>2. r.height \in Nat /\ Avl!KeysOf(r) \subseteq Int /\ Avl!KeysOf(x) \subseteq Int /\ k \in Int
  BY GoodTree, KeysAreNumbers
<1> DEFINE low == Made(k, x.right, r)
<1>3. v = Made(x.key, x.left, low)
  <2> DEFINE xk == x.key
             xl == x.left
             xr == x.right
             xh == Avl!Larger(xl.height, xr.height) + 1
  <2>1. x = Node2(xk, xh, xl, xr)
    BY <1>1 DEF Made, Node2
  <2> HIDE DEF xk, xl, xr, xh
  <2>2. [Node2(k, h, x, r) EXCEPT !.left = xr] = Node2(k, h, xr, r)
    BY DEF Node2
  <2>3. Avl!Measured(Node2(k, h, xr, r)) = Made(k, xr, r)
    BY DEF Node2, Made, Avl!Measured, Avl!Height
  <2>4. [x EXCEPT !.right = Made(k, xr, r)] = Node2(xk, xh, xl, Made(k, xr, r))
    BY <2>1 DEF Node2
  <2>5. Avl!Measured(Node2(xk, xh, xl, Made(k, xr, r))) = Made(xk, xl, Made(k, xr, r))
    BY DEF Node2, Made, Avl!Measured, Avl!Height
  <2>6. Node2(k, h, x, r).left = x /\ x.right = xr
    BY DEF Node2, xr
  <2>7. v = Avl!Measured([x EXCEPT !.right = Avl!Measured([Node2(k, h, x, r) EXCEPT !.left = xr])])
    BY <2>6 DEF Avl!RightRotate
  <2> QED BY <2>2, <2>3, <2>4, <2>5, <2>7 DEF xk, xl, xr
<1>4. /\ Below(x.right, k) /\ x.right.height - r.height \in -1 .. 1
      /\ low.height = x.right.height + 1
  BY <1>1, <1>2 DEF Below, Avl!Larger, Made
<1>5. Good(low) /\ Avl!KeysOf(low) = {k} \cup Avl!KeysOf(x.right) \cup Avl!KeysOf(r)
  BY <1>1, <1>4, GoodMade
<1> HIDE DEF low
<1>6. Above(low, x.key)
  <2>1. x.key < k /\ x.key \in Int
    BY <1>1, KeysAreNumbers DEF Below
  <2>2. \A i \in Avl!KeysOf(r) : i \in Int /\ k < i
    BY <1>2 DEF Above
  <2> QED BY <1>1, <1>2, <1>5, <2>1, <2>2 DEF Above
<1>7. x.left.height - low.height \in -1 .. 1
  BY <1>1, <1>4
<1>8. /\ Good(v) /\ v # NoTree
      /\ Avl!KeysOf(v) = {x.key} \cup Avl!KeysOf(x.left) \cup Avl!KeysOf(low)
  BY <1>1, <1>3, <1>5, <1>6, <1>7, GoodMade
<1>9. Avl!KeysOf(v) = {k} \cup Avl!KeysOf(x) \cup Avl!KeysOf(r)
  BY <1>1, <1>5, <1>8
<1>10. v.height = IF x.left.height = x.right.height THEN x.height + 1 ELSE x.height
  <2>1. v.height = Avl!Larger(x.left.height, low.height) + 1
    BY <1>3 DEF Made
  <2> QED BY <2>1, <1>1, <1>4 DEF Avl!Larger
<1> QED BY <1>8, <1>9, <1>10

(* The same, rotated twice: that subtree leans to the right.               *)
LEMMA RotatedLeftRight ==
    ASSUME NEW k \in AvlKey, NEW h, NEW x, NEW r, Good(x), Good(r), x # NoTree,
           Below(x, k), Above(r, k), x.height = r.height + 2, x.left.height < x.right.height,
           NEW v, v = Avl!RightRotate(Node2(k, h, Avl!LeftRotate(x), r))
    PROVE  /\ Good(v) /\ v # NoTree
           /\ Avl!KeysOf(v) = {k} \cup Avl!KeysOf(x) \cup Avl!KeysOf(r)
           /\ v.height = x.height
<1>1. /\ x.key \in AvlKey /\ Good(x.left) /\ Good(x.right)
      /\ x.left.height \in Nat /\ x.right.height \in Nat
      /\ x.height = Avl!Larger(x.left.height, x.right.height) + 1
      /\ x.left.height - x.right.height \in -1 .. 1
      /\ Avl!KeysOf(x) = {x.key} \cup Avl!KeysOf(x.left) \cup Avl!KeysOf(x.right)
      /\ x = Made(x.key, x.left, x.right) /\ Below(x.left, x.key) /\ Above(x.right, x.key)
  BY GoodRoot, GoodIsMade
<1>2. r.height \in Nat /\ Avl!KeysOf(r) \subseteq Int /\ Avl!KeysOf(x) \subseteq Int /\ k \in Int
  BY GoodTree, KeysAreNumbers
<1> DEFINE w == x.right
<1>3. w # NoTree
  BY <1>1, NoTreeIsGood
<1>4. /\ w.key \in AvlKey /\ Good(w.left) /\ Good(w.right)
      /\ w.left.height \in Nat /\ w.right.height \in Nat
      /\ w.height = Avl!Larger(w.left.height, w.right.height) + 1
      /\ w.left.height - w.right.height \in -1 .. 1
      /\ Avl!KeysOf(w) = {w.key} \cup Avl!KeysOf(w.left) \cup Avl!KeysOf(w.right)
      /\ w = Made(w.key, w.left, w.right) /\ Below(w.left, w.key) /\ Above(w.right, w.key)
  <2>1. Good(w)
    BY <1>1
  <2> HIDE DEF w
  <2> QED BY <2>1, <1>3, GoodRoot, GoodIsMade
<1>5. Avl!KeysOf(x) = {x.key} \cup Avl!KeysOf(x.left) \cup Avl!KeysOf(w)
  BY <1>1
<1>6. Above(w, x.key) /\ w.height = x.left.height + 1 /\ r.height = x.left.height
  BY <1>1, <1>2 DEF Avl!Larger
<1> DEFINE left == Made(x.key, x.left, w.left)
           low == Made(k, w.right, r)
<1>7. v = Made(w.key, left, low)
  <2> DEFINE xk == x.key
             xl == x.left
             xh == Avl!Larger(xl.height, w.height) + 1
             wk == w.key
             wl == w.left
             wr == w.right
             wh == Avl!Larger(wl.height, wr.height) + 1
             lx == Made(xk, xl, wl)
             g == Avl!Larger(lx.height, wr.height) + 1
  <2>1. x = Node2(xk, xh, xl, w)
    BY <1>1 DEF Made, Node2
  <2>2. w = Node2(wk, wh, wl, wr)
    BY <1>4 DEF Made, Node2
  <2> HIDE DEF xk, xl, xh, w, wk, wl, wr, wh, lx, g
  <2>3. x.right = w /\ w.left = wl /\ w.right = wr
    BY DEF w, wl, wr
  <2>4. [x EXCEPT !.right = wl] = Node2(xk, xh, xl, wl)
    BY <2>1 DEF Node2
  <2>5. Avl!Measured(Node2(xk, xh, xl, wl)) = lx
    BY DEF Node2, Made, Avl!Measured, Avl!Height, lx
  <2>6. [w EXCEPT !.left = lx] = Node2(wk, wh, lx, wr)
    BY <2>2 DEF Node2
  <2>7. Avl!Measured(Node2(wk, wh, lx, wr)) = Node2(wk, g, lx, wr)
    BY DEF Node2, Avl!Measured, Avl!Height, g
  <2>8. Avl!LeftRotate(x) = Node2(wk, g, lx, wr)
    BY <2>3, <2>4, <2>5, <2>6, <2>7 DEF Avl!LeftRotate
  <2> DEFINE y == Node2(wk, g, lx, wr)
  <2>9. [Node2(k, h, y, r) EXCEPT !.left = wr] = Node2(k, h, wr, r)
    BY DEF Node2
  <2>10. Avl!Measured(Node2(k, h, wr, r)) = Made(k, wr, r)
    BY DEF Node2, Made, Avl!Measured, Avl!Height
  <2>11. [y EXCEPT !.right = Made(k, wr, r)] = Node2(wk, g, lx, Made(k, wr, r))
    BY DEF Node2
  <2>12. Avl!Measured(Node2(wk, g, lx, Made(k, wr, r))) = Made(wk, lx, Made(k, wr, r))
    BY DEF Node2, Made, Avl!Measured, Avl!Height
  <2>13. Node2(k, h, y, r).left = y /\ y.right = wr
    BY DEF Node2
  <2>14. v = Avl!RightRotate(Node2(k, h, y, r))
    BY <2>8
  <2> HIDE DEF y
  <2>15. v = Avl!Measured([y EXCEPT !.right = Avl!Measured([Node2(k, h, y, r) EXCEPT !.left = wr])])
    BY <2>13, <2>14 DEF Avl!RightRotate
  <2>16. v = Made(wk, lx, Made(k, wr, r))
    BY <2>9, <2>10, <2>11, <2>12, <2>15 DEF y
  <2> QED BY <2>16 DEF lx, wk, wl, wr, xk, xl
<1> HIDE DEF w
<1>8. /\ Above(w.left, x.key) /\ x.left.height - w.left.height \in -1 .. 1
      /\ left.height = x.left.height + 1
  BY <1>1, <1>4, <1>6 DEF Above, Avl!Larger, Made
<1>9. Good(left) /\ Avl!KeysOf(left) = {x.key} \cup Avl!KeysOf(x.left) \cup Avl!KeysOf(w.left)
  BY <1>1, <1>4, <1>8, GoodMade
<1>10. /\ Below(w.right, k) /\ w.right.height - r.height \in -1 .. 1
       /\ low.height = r.height + 1
  BY <1>1, <1>2, <1>4, <1>5, <1>6 DEF Below, Avl!Larger, Made
<1>11. Good(low) /\ Avl!KeysOf(low) = {k} \cup Avl!KeysOf(w.right) \cup Avl!KeysOf(r)
  BY <1>4, <1>10, GoodMade
<1>12. Above(low, w.key)
  <2>1. w.key < k
    BY <1>4, <1>5 DEF Below
  <2>2. w.key \in Int
    BY <1>4, KeysAreNumbers
  <2> QED BY <1>2, <1>4, <1>11, <2>1, <2>2 DEF Above
<1>13. Below(left, w.key)
  <2>1. x.key < w.key
    BY <1>4, <1>6 DEF Above
  <2>2. /\ w.key \in Int /\ x.key \in Int
        /\ \A i \in Avl!KeysOf(x.left) : i \in Int /\ i < x.key
    BY <1>1, <1>2, <1>4, KeysAreNumbers DEF Below
  <2> QED BY <1>4, <1>9, <2>1, <2>2 DEF Below
<1> HIDE DEF left, low
<1>14. left.height - low.height \in -1 .. 1
  BY <1>1, <1>2, <1>6, <1>8, <1>10
<1>15. /\ Good(v) /\ v # NoTree
       /\ Avl!KeysOf(v) = {w.key} \cup Avl!KeysOf(left) \cup Avl!KeysOf(low)
  BY <1>4, <1>7, <1>9, <1>11, <1>12, <1>13, <1>14, GoodMade
<1>16. Avl!KeysOf(v) = {k} \cup Avl!KeysOf(x) \cup Avl!KeysOf(r)
  BY <1>4, <1>5, <1>9, <1>11, <1>15
<1>17. v.height = x.height
  <2>1. v.height = Avl!Larger(left.height, low.height) + 1
    BY <1>7 DEF Made
  <2> QED BY <2>1, <1>1, <1>6, <1>8, <1>10 DEF Avl!Larger
<1> QED BY <1>15, <1>16, <1>17

(* A node whose right subtree is too high by one, rotated once: that       *)
(* subtree does not lean to the left.                                      *)
LEMMA RotatedLeft ==
    ASSUME NEW k \in AvlKey, NEW h, NEW x, NEW l, Good(x), Good(l), x # NoTree,
           Above(x, k), Below(l, k), x.height = l.height + 2, x.right.height >= x.left.height,
           NEW v, v = Avl!LeftRotate(Node2(k, h, l, x))
    PROVE  /\ Good(v) /\ v # NoTree
           /\ Avl!KeysOf(v) = {k} \cup Avl!KeysOf(x) \cup Avl!KeysOf(l)
           /\ v.height = IF x.right.height = x.left.height THEN x.height + 1 ELSE x.height
<1>1. /\ x.key \in AvlKey /\ Good(x.right) /\ Good(x.left)
      /\ x.right.height \in Nat /\ x.left.height \in Nat
      /\ x.height = Avl!Larger(x.left.height, x.right.height) + 1
      /\ x.left.height - x.right.height \in -1 .. 1
      /\ Avl!KeysOf(x) = {x.key} \cup Avl!KeysOf(x.right) \cup Avl!KeysOf(x.left)
      /\ x = Made(x.key, x.left, x.right) /\ Above(x.right, x.key) /\ Below(x.left, x.key)
  BY GoodRoot, GoodIsMade
<1>2. l.height \in Nat /\ Avl!KeysOf(l) \subseteq Int /\ Avl!KeysOf(x) \subseteq Int /\ k \in Int
  BY GoodTree, KeysAreNumbers
<1> DEFINE low == Made(k, l, x.left)
<1>3. v = Made(x.key, low, x.right)
  <2> DEFINE xk == x.key
             xr == x.right
             xl == x.left
             xh == Avl!Larger(xl.height, xr.height) + 1
  <2>1. x = Node2(xk, xh, xl, xr)
    BY <1>1 DEF Made, Node2
  <2> HIDE DEF xk, xr, xl, xh
  <2>2. [Node2(k, h, l, x) EXCEPT !.right = xl] = Node2(k, h, l, xl)
    BY DEF Node2
  <2>3. Avl!Measured(Node2(k, h, l, xl)) = Made(k, l, xl)
    BY DEF Node2, Made, Avl!Measured, Avl!Height
  <2>4. [x EXCEPT !.left = Made(k, l, xl)] = Node2(xk, xh, Made(k, l, xl), xr)
    BY <2>1 DEF Node2
  <2>5. Avl!Measured(Node2(xk, xh, Made(k, l, xl), xr)) = Made(xk, Made(k, l, xl), xr)
    BY DEF Node2, Made, Avl!Measured, Avl!Height
  <2>6. Node2(k, h, l, x).right = x /\ x.left = xl
    BY DEF Node2, xl
  <2>7. v = Avl!Measured([x EXCEPT !.left = Avl!Measured([Node2(k, h, l, x) EXCEPT !.right = xl])])
    BY <2>6 DEF Avl!LeftRotate
  <2> QED BY <2>2, <2>3, <2>4, <2>5, <2>7 DEF xk, xr, xl
<1>4. /\ Above(x.left, k) /\ l.height - x.left.height \in -1 .. 1
      /\ low.height = x.left.height + 1
  BY <1>1, <1>2 DEF Above, Avl!Larger, Made
<1>5. Good(low) /\ Avl!KeysOf(low) = {k} \cup Avl!KeysOf(x.left) \cup Avl!KeysOf(l)
  BY <1>1, <1>4, GoodMade
<1> HIDE DEF low
<1>6. Below(low, x.key)
  <2>1. k < x.key /\ x.key \in Int
    BY <1>1, KeysAreNumbers DEF Above
  <2>2. \A i \in Avl!KeysOf(l) : i \in Int /\ i < k
    BY <1>2 DEF Below
  <2> QED BY <1>1, <1>2, <1>5, <2>1, <2>2 DEF Below
<1>7. low.height - x.right.height \in -1 .. 1
  BY <1>1, <1>4
<1>8. /\ Good(v) /\ v # NoTree
      /\ Avl!KeysOf(v) = {x.key} \cup Avl!KeysOf(x.right) \cup Avl!KeysOf(low)
  BY <1>1, <1>3, <1>5, <1>6, <1>7, GoodMade
<1>9. Avl!KeysOf(v) = {k} \cup Avl!KeysOf(x) \cup Avl!KeysOf(l)
  BY <1>1, <1>5, <1>8
<1>10. v.height = IF x.right.height = x.left.height THEN x.height + 1 ELSE x.height
  <2>1. v.height = Avl!Larger(low.height, x.right.height) + 1
    BY <1>3 DEF Made
  <2> QED BY <2>1, <1>1, <1>4 DEF Avl!Larger
<1> QED BY <1>8, <1>9, <1>10

(* The same, rotated twice: that subtree leans to the left.                *)
LEMMA RotatedRightLeft ==
    ASSUME NEW k \in AvlKey, NEW h, NEW x, NEW l, Good(x), Good(l), x # NoTree,
           Above(x, k), Below(l, k), x.height = l.height + 2, x.right.height < x.left.height,
           NEW v, v = Avl!LeftRotate(Node2(k, h, l, Avl!RightRotate(x)))
    PROVE  /\ Good(v) /\ v # NoTree
           /\ Avl!KeysOf(v) = {k} \cup Avl!KeysOf(x) \cup Avl!KeysOf(l)
           /\ v.height = x.height
<1>1. /\ x.key \in AvlKey /\ Good(x.right) /\ Good(x.left)
      /\ x.right.height \in Nat /\ x.left.height \in Nat
      /\ x.height = Avl!Larger(x.left.height, x.right.height) + 1
      /\ x.left.height - x.right.height \in -1 .. 1
      /\ Avl!KeysOf(x) = {x.key} \cup Avl!KeysOf(x.right) \cup Avl!KeysOf(x.left)
      /\ x = Made(x.key, x.left, x.right) /\ Above(x.right, x.key) /\ Below(x.left, x.key)
  BY GoodRoot, GoodIsMade
<1>2. l.height \in Nat /\ Avl!KeysOf(l) \subseteq Int /\ Avl!KeysOf(x) \subseteq Int /\ k \in Int
  BY GoodTree, KeysAreNumbers
<1> DEFINE w == x.left
<1>3. w # NoTree
  BY <1>1, NoTreeIsGood
<1>4. /\ w.key \in AvlKey /\ Good(w.right) /\ Good(w.left)
      /\ w.right.height \in Nat /\ w.left.height \in Nat
      /\ w.height = Avl!Larger(w.left.height, w.right.height) + 1
      /\ w.left.height - w.right.height \in -1 .. 1
      /\ Avl!KeysOf(w) = {w.key} \cup Avl!KeysOf(w.right) \cup Avl!KeysOf(w.left)
      /\ w = Made(w.key, w.left, w.right) /\ Above(w.right, w.key) /\ Below(w.left, w.key)
  <2>1. Good(w)
    BY <1>1
  <2> HIDE DEF w
  <2> QED BY <2>1, <1>3, GoodRoot, GoodIsMade
<1>5. Avl!KeysOf(x) = {x.key} \cup Avl!KeysOf(x.right) \cup Avl!KeysOf(w)
  BY <1>1
<1>6. Below(w, x.key) /\ w.height = x.right.height + 1 /\ l.height = x.right.height
  BY <1>1, <1>2 DEF Avl!Larger
<1> DEFINE right == Made(x.key, w.right, x.right)
           low == Made(k, l, w.left)
<1>7. v = Made(w.key, low, right)
  <2> DEFINE xk == x.key
             xr == x.right
             xh == Avl!Larger(w.height, xr.height) + 1
             wk == w.key
             wr == w.right
             wl == w.left
             wh == Avl!Larger(wl.height, wr.height) + 1
             lx == Made(xk, wr, xr)
             g == Avl!Larger(wl.height, lx.height) + 1
  <2>1. x = Node2(xk, xh, w, xr)
    BY <1>1 DEF Made, Node2
  <2>2. w = Node2(wk, wh, wl, wr)
    BY <1>4 DEF Made, Node2
  <2> HIDE DEF xk, xr, xh, w, wk, wr, wl, wh, lx, g
  <2>3. x.left = w /\ w.right = wr /\ w.left = wl
    BY DEF w, wr, wl
  <2>4. [x EXCEPT !.left = wr] = Node2(xk, xh, wr, xr)
    BY <2>1 DEF Node2
  <2>5. Avl!Measured(Node2(xk, xh, wr, xr)) = lx
    BY DEF Node2, Made, Avl!Measured, Avl!Height, lx
  <2>6. [w EXCEPT !.right = lx] = Node2(wk, wh, wl, lx)
    BY <2>2 DEF Node2
  <2>7. Avl!Measured(Node2(wk, wh, wl, lx)) = Node2(wk, g, wl, lx)
    BY DEF Node2, Avl!Measured, Avl!Height, g
  <2>8. Avl!RightRotate(x) = Node2(wk, g, wl, lx)
    BY <2>3, <2>4, <2>5, <2>6, <2>7 DEF Avl!RightRotate
  <2> DEFINE y == Node2(wk, g, wl, lx)
  <2>9. [Node2(k, h, l, y) EXCEPT !.right = wl] = Node2(k, h, l, wl)
    BY DEF Node2
  <2>10. Avl!Measured(Node2(k, h, l, wl)) = Made(k, l, wl)
    BY DEF Node2, Made, Avl!Measured, Avl!Height
  <2>11. [y EXCEPT !.left = Made(k, l, wl)] = Node2(wk, g, Made(k, l, wl), lx)
    BY DEF Node2
  <2>12. Avl!Measured(Node2(wk, g, Made(k, l, wl), lx)) = Made(wk, Made(k, l, wl), lx)
    BY DEF Node2, Made, Avl!Measured, Avl!Height
  <2>13. Node2(k, h, l, y).right = y /\ y.left = wl
    BY DEF Node2
  <2>14. v = Avl!LeftRotate(Node2(k, h, l, y))
    BY <2>8
  <2> HIDE DEF y
  <2>15. v = Avl!Measured([y EXCEPT !.left = Avl!Measured([Node2(k, h, l, y) EXCEPT !.right = wl])])
    BY <2>13, <2>14 DEF Avl!LeftRotate
  <2>16. v = Made(wk, Made(k, l, wl), lx)
    BY <2>9, <2>10, <2>11, <2>12, <2>15 DEF y
  <2> QED BY <2>16 DEF lx, wk, wr, wl, xk, xr
<1> HIDE DEF w
<1>8. /\ Below(w.right, x.key) /\ w.right.height - x.right.height \in -1 .. 1
      /\ right.height = x.right.height + 1
  BY <1>1, <1>4, <1>6 DEF Below, Avl!Larger, Made
<1>9. Good(right) /\ Avl!KeysOf(right) = {x.key} \cup Avl!KeysOf(x.right) \cup Avl!KeysOf(w.right)
  BY <1>1, <1>4, <1>8, GoodMade
<1>10. /\ Above(w.left, k) /\ l.height - w.left.height \in -1 .. 1
       /\ low.height = l.height + 1
  BY <1>1, <1>2, <1>4, <1>5, <1>6 DEF Above, Avl!Larger, Made
<1>11. Good(low) /\ Avl!KeysOf(low) = {k} \cup Avl!KeysOf(w.left) \cup Avl!KeysOf(l)
  BY <1>4, <1>10, GoodMade
<1>12. Below(low, w.key)
  <2>1. k < w.key
    BY <1>4, <1>5 DEF Above
  <2>2. w.key \in Int
    BY <1>4, KeysAreNumbers
  <2> QED BY <1>2, <1>4, <1>11, <2>1, <2>2 DEF Below
<1>13. Above(right, w.key)
  <2>1. w.key < x.key
    BY <1>4, <1>6 DEF Below
  <2>2. /\ w.key \in Int /\ x.key \in Int
        /\ \A i \in Avl!KeysOf(x.right) : i \in Int /\ x.key < i
    BY <1>1, <1>2, <1>4, KeysAreNumbers DEF Above
  <2> QED BY <1>4, <1>9, <2>1, <2>2 DEF Above
<1> HIDE DEF right, low
<1>14. low.height - right.height \in -1 .. 1
  BY <1>1, <1>2, <1>6, <1>8, <1>10
<1>15. /\ Good(v) /\ v # NoTree
       /\ Avl!KeysOf(v) = {w.key} \cup Avl!KeysOf(right) \cup Avl!KeysOf(low)
  BY <1>4, <1>7, <1>9, <1>11, <1>12, <1>13, <1>14, GoodMade
<1>16. Avl!KeysOf(v) = {k} \cup Avl!KeysOf(x) \cup Avl!KeysOf(l)
  BY <1>4, <1>5, <1>9, <1>11, <1>15
<1>17. v.height = x.height
  <2>1. v.height = Avl!Larger(low.height, right.height) + 1
    BY <1>7 DEF Made
  <2> QED BY <2>1, <1>1, <1>6, <1>8, <1>10 DEF Avl!Larger
<1> QED BY <1>15, <1>16, <1>17

(* No node is higher than the root.                                        *)
LEMMA NodesLower ==
    ASSUME NEW t, Good(t)
    PROVE  \A u \in Avl!Subtrees(t) : /\ u.height \in 0 .. t.height
                                      /\ u = NoTree \/ /\ u.left \in Avl!Subtrees(t)
                                                       /\ u.right \in Avl!Subtrees(t)
                                                       /\ u.left.height \in 0 .. u.height - 1
                                                       /\ u.right.height \in 0 .. u.height - 1
<1> DEFINE M == Avl!Nodes(t)
           P == {v \in M \cup {NoTree} : \A u \in Avl!Nodes(v) : u.height <= v.height}
<1>1. Even(M) /\ t \in M \cup {NoTree} /\ t.height \in Nat
  BY GoodTree
<1> HIDE DEF M
<1>2. NoTree \in P
  BY NoTreeIsGood
<1>3. ASSUME NEW v \in M, v.left \in P, v.right \in P PROVE v \in P
  <2> DEFINE A == v.left
             B == v.right
  <2>1. /\ v # NoTree /\ A \in M \cup {NoTree} /\ B \in M \cup {NoTree}
        /\ v.height \in Nat /\ A.height \in 0 .. v.height - 1 /\ B.height \in 0 .. v.height - 1
    BY <1>1, EvenNode
  <2>2. Avl!Nodes(v) = {v} \cup Avl!Nodes(A) \cup Avl!Nodes(B)
    BY <1>1, <2>1, EvenNodes
  <2>3. A \in P /\ B \in P
    BY <1>3
  <2>4. \A u \in M \cup {NoTree} : u.height \in Nat /\ Avl!Nodes(u) \subseteq M
    BY <1>1, EvenNodes
  <2> HIDE DEF A, B
  <2>5. ASSUME NEW u \in Avl!Nodes(v) PROVE u.height <= v.height
    <3>1. CASE u = v
      BY <3>1, <2>1
    <3>2. CASE u \in Avl!Nodes(A)
      BY <3>2, <2>1, <2>3, <2>4
    <3>3. CASE u \in Avl!Nodes(B)
      BY <3>3, <2>1, <2>3, <2>4
    <3> QED BY <2>2, <3>1, <3>2, <3>3
  <2> QED BY <2>5
<1>4. M \subseteq P
  <2> HIDE DEF P
  <2> QED BY <1>1, <1>2, <1>3, TreeInduction
<1>5. \A u \in M : u.height \in 0 .. t.height
  <2>1. t # NoTree => t \in P
    BY <1>1, <1>4
  <2>2. \A u \in M : u.height \in Nat
    BY <1>1, EvenNode
  <2>3. t = NoTree => M = {}
    BY NoTreeIsGood DEF M
  <2> QED BY <2>1, <2>2, <2>3, <1>1 DEF M
<1>6. NoTree.height \in 0 .. t.height
  BY <1>1, NoTreeIsGood
<1>7. \A u \in M : /\ u.left \in M \cup {NoTree} /\ u.right \in M \cup {NoTree}
                   /\ u.left.height \in 0 .. u.height - 1 /\ u.right.height \in 0 .. u.height - 1
  BY <1>1, EvenNode
<1> QED BY <1>5, <1>6, <1>7 DEF M, Avl!Subtrees, NoTree

(* What the procedures of the model do at a node, given what they answer   *)
(* for its two subtrees: x is the leaf of an insertion, or the order of a  *)
(* walk.                                                                   *)
StepAt(op, k, x, u, a, b) ==
    CASE op = "insert" -> IF u = NoTree THEN x
                          ELSE IF k = u.key THEN u
                          ELSE Avl!BalancedForInsert(Avl!Measured(IF k < u.key THEN [u EXCEPT !.left = a]
                                                                  ELSE [u EXCEPT !.right = b]), k)
      [] op = "search" -> IF u = NoTree THEN NoTree
                          ELSE IF k = u.key THEN u ELSE IF k < u.key THEN a ELSE b
      [] op = "min" -> IF u = NoTree \/ u.left = NoTree THEN u ELSE a
      [] op = "delete" -> [i \in AvlKey |->
                               IF u = NoTree THEN NoTree
                               ELSE IF Avl!Without(u, i, a, b) = NoTree THEN NoTree
                                    ELSE Avl!BalancedForDelete(Avl!Measured(Avl!Without(u, i, a, b)))]
      [] op = "walk" -> IF u = NoTree THEN <<>> ELSE Avl!Met(u.key, a, b, x)
Ops == {"insert", "search", "min", "delete", "walk"}

(* At the empty tree there is nothing to be given.                         *)
LEMMA StepAtNoTree ==
    ASSUME NEW op \in Ops, NEW k, NEW x, NEW a, NEW b, NEW c, NEW d
    PROVE  StepAt(op, k, x, NoTree, a, b) = StepAt(op, k, x, NoTree, c, d)
<1>1. CASE op = "insert" 
  BY <1>1 DEF StepAt
<1>2. CASE op = "search" 
  BY <1>2 DEF StepAt
<1>3. CASE op = "min" 
  BY <1>3 DEF StepAt
<1>4. CASE op = "delete" 
  BY <1>4 DEF StepAt
<1>5. CASE op = "walk" 
  BY <1>5 DEF StepAt
<1> QED BY <1>1, <1>2, <1>3, <1>4, <1>5 DEF Ops

(* Such a procedure has an answer for every tree.                          *)
IsFold(f, t, op, k, x) ==
    f = [u \in Avl!Subtrees(t) |-> StepAt(op, k, x, u, f[u.left], f[u.right])]

(* Every tree has such a fold.                                             *)
LEMMA ProcedureExists ==
    ASSUME NEW t, Good(t), NEW op \in Ops, NEW k, NEW x
    PROVE  \E f : IsFold(f, t, op, k, x)
<1> DEFINE S == Avl!Subtrees(t)
           N == t.height
           L(h) == {u \in S : u.height <= h}
           P == {h \in 0 .. N : \E f : f = [u \in L(h) |-> StepAt(op, k, x, u, f[u.left], f[u.right])]}
<1>1. /\ N \in Nat
      /\ \A u \in S : /\ u.height \in 0 .. N
                      /\ u = NoTree \/ /\ u.left \in S /\ u.right \in S
                                       /\ u.left.height \in 0 .. u.height - 1
                                       /\ u.right.height \in 0 .. u.height - 1
  BY GoodTree, NodesLower
<1> HIDE DEF S, N
<1>2. 0 \in P
  <2> DEFINE v == StepAt(op, k, x, NoTree, 0, 0)
             f == [u \in L(0) |-> v]
  <2>1. ASSUME NEW u \in L(0) PROVE f[u] = StepAt(op, k, x, u, f[u.left], f[u.right])
    <3>1. u = NoTree
      BY <1>1
    <3>2. f[u] = v
      OBVIOUS
    <3> HIDE DEF f
    <3> QED BY <3>1, <3>2, StepAtNoTree
  <2>2. f = [u \in L(0) |-> StepAt(op, k, x, u, f[u.left], f[u.right])]
    <3>1. f = [u \in L(0) |-> f[u]]
      OBVIOUS
    <3> HIDE DEF f
    <3> QED BY <2>1, <3>1
  <2> HIDE DEF f, L
  <2> QED BY <1>1, <2>2
<1>3. ASSUME NEW h \in 0 .. N - 1, h \in P PROVE h + 1 \in P
  <2>1. PICK f : f = [u \in L(h) |-> StepAt(op, k, x, u, f[u.left], f[u.right])]
    BY <1>3
  <2> DEFINE g == [u \in L(h + 1) |-> StepAt(op, k, x, u, f[u.left], f[u.right])]
  <2>2. \A u \in L(h) : u \in L(h + 1) /\ g[u] = f[u]
    <3>1. \A u \in L(h) : u \in L(h + 1)
      BY <1>1, <1>3
    <3>2. \A u \in L(h) : f[u] = StepAt(op, k, x, u, f[u.left], f[u.right])
      BY <2>1
    <3> HIDE DEF L
    <3> QED BY <3>1, <3>2
  <2>3. ASSUME NEW u \in L(h + 1)
        PROVE  StepAt(op, k, x, u, f[u.left], f[u.right]) = StepAt(op, k, x, u, g[u.left], g[u.right])
    <3>1. CASE u = NoTree
      <4> HIDE DEF g
      <4> QED BY <3>1, StepAtNoTree
    <3>2. CASE u # NoTree
      <4>1. u.left \in L(h) /\ u.right \in L(h)
        BY <1>1, <1>3, <3>2
      <4>2. g[u.left] = f[u.left] /\ g[u.right] = f[u.right]
        <5> HIDE DEF g, L
        <5> QED BY <2>2, <4>1
      <4> HIDE DEF g, L
      <4> QED BY <4>2
    <3> QED BY <3>1, <3>2
  <2>4. g = [u \in L(h + 1) |-> StepAt(op, k, x, u, g[u.left], g[u.right])]
    <3>1. ASSUME NEW u \in L(h + 1) PROVE g[u] = StepAt(op, k, x, u, g[u.left], g[u.right])
      <4>1. g[u] = StepAt(op, k, x, u, f[u.left], f[u.right])
        OBVIOUS
      <4> HIDE DEF g, L
      <4> QED BY <2>3, <4>1
    <3>2. g = [u \in L(h + 1) |-> g[u]]
      OBVIOUS
    <3> HIDE DEF g, L
    <3> QED BY <3>1, <3>2
  <2> HIDE DEF g, L
  <2>5. h + 1 \in 0 .. N
    BY <1>1, <1>3
  <2> QED BY <2>4, <2>5
<1> HIDE DEF P
<1>4. N \in P
  <2>1. \A h \in 0 .. N : h \in P
    BY <1>1, <1>2, <1>3, InductionTo
  <2> QED BY <1>1, <2>1
<1>5. L(N) = S
  BY <1>1
<1> HIDE DEF L
<1>6. PICK f : f = [u \in L(N) |-> StepAt(op, k, x, u, f[u.left], f[u.right])]
  BY <1>4 DEF P
<1> QED BY <1>5, <1>6 DEF S, IsFold

(* The procedures answer what they do at the root, given their answers for *)
(* its subtrees.                                                           *)
IsProcedure(f, t, op, k, x) ==
    \A u \in Avl!Subtrees(t) : f[u] = StepAt(op, k, x, u, f[u.left], f[u.right])

(* insert is one, with the leaf to hang up,                                *)
LEMMA InsertedIsProcedure ==
    ASSUME NEW t, Good(t), NEW k, NEW x
    PROVE  \E f : Avl!Inserted(t, k, x) = f[t] /\ IsProcedure(f, t, "insert", k, x)
<1> DEFINE IsF(f) == f = [u \in Avl!Subtrees(t) |->
                IF u = NoTree THEN x
                ELSE IF k = u.key THEN u
                ELSE Avl!BalancedForInsert(Avl!Measured(IF k < u.key THEN [u EXCEPT !.left = f[u.left]]
                                                        ELSE [u EXCEPT !.right = f[u.right]]), k)]
           F == CHOOSE f : IsF(f)
<1>1. \E f : IsF(f)
  <2>1. PICK f : IsFold(f, t, "insert", k, x)
    BY ProcedureExists DEF Ops
  <2> QED BY <2>1 DEF IsFold, StepAt
<1>2. IsF(F)
  <2> HIDE DEF IsF
  <2> QED BY <1>1
<1>3. Avl!Inserted(t, k, x) = F[t]
  BY DEF Avl!Inserted, NoTree
<1>4. IsProcedure(F, t, "insert", k, x)
  <2> HIDE DEF F
  <2> QED BY <1>2 DEF IsProcedure, StepAt
<1> QED BY <1>3, <1>4

(* the search for a key is one,                                            *)
LEMMA SubIsProcedure ==
    ASSUME NEW t, Good(t), NEW k
    PROVE  \E f : Avl!Sub(t, k) = f[t] /\ IsProcedure(f, t, "search", k, 0)
<1> DEFINE IsF(f) == f = [u \in Avl!Subtrees(t) |->
                IF u = NoTree THEN NoTree
                ELSE IF k = u.key THEN u ELSE IF k < u.key THEN f[u.left] ELSE f[u.right]]
           F == CHOOSE f : IsF(f)
<1>1. \E f : IsF(f)
  <2>1. PICK f : IsFold(f, t, "search", k, 0)
    BY ProcedureExists DEF Ops
  <2> QED BY <2>1 DEF IsFold, StepAt
<1>2. IsF(F)
  <2> HIDE DEF IsF
  <2> QED BY <1>1
<1>3. Avl!Sub(t, k) = F[t]
  BY DEF Avl!Sub, NoTree
<1>4. IsProcedure(F, t, "search", k, 0)
  <2> HIDE DEF F
  <2> QED BY <1>2 DEF IsProcedure, StepAt
<1> QED BY <1>3, <1>4

(* min_value_node is one,                                                  *)
LEMMA MinIsProcedure ==
    ASSUME NEW t, Good(t)
    PROVE  \E f : Avl!MinValueNode(t) = f[t] /\ IsProcedure(f, t, "min", 0, 0)
<1> DEFINE IsF(f) == f = [u \in Avl!Subtrees(t) |->
                IF u = NoTree \/ u.left = NoTree THEN u ELSE f[u.left]]
           F == CHOOSE f : IsF(f)
<1>1. \E f : IsF(f)
  <2>1. PICK f : IsFold(f, t, "min", 0, 0)
    BY ProcedureExists DEF Ops
  <2> QED BY <2>1 DEF IsFold, StepAt
<1>2. IsF(F)
  <2> HIDE DEF IsF
  <2> QED BY <1>1
<1>3. Avl!MinValueNode(t) = F[t]
  BY DEF Avl!MinValueNode, NoTree
<1>4. IsProcedure(F, t, "min", 0, 0)
  <2> HIDE DEF F
  <2> QED BY <1>2 DEF IsProcedure, StepAt
<1> QED BY <1>3, <1>4

(* delete_node is one, for all keys at once,                               *)
LEMMA DeletedIsProcedure ==
    ASSUME NEW t, Good(t)
    PROVE  \E f : /\ \A k \in AvlKey : Avl!Deleted(t, k) = f[t][k]
                  /\ IsProcedure(f, t, "delete", 0, 0)
<1> DEFINE IsF(f) == f = [u \in Avl!Subtrees(t) |-> [i \in AvlKey |->
                IF u = NoTree THEN NoTree
                ELSE IF Avl!Without(u, i, f[u.left], f[u.right]) = NoTree THEN NoTree
                     ELSE Avl!BalancedForDelete(Avl!Measured(Avl!Without(u, i, f[u.left], f[u.right])))]]
           F == CHOOSE f : IsF(f)
<1>1. \E f : IsF(f)
  <2>1. PICK f : IsFold(f, t, "delete", 0, 0)
    BY ProcedureExists DEF Ops
  <2> QED BY <2>1 DEF IsFold, StepAt
<1>2. IsF(F)
  <2> HIDE DEF IsF
  <2> QED BY <1>1
<1>3. \A k \in AvlKey : Avl!Deleted(t, k) = F[t][k]
  BY DEF Avl!Deleted, NoTree
<1>4. IsProcedure(F, t, "delete", 0, 0)
  <2> HIDE DEF F
  <2> QED BY <1>2 DEF IsProcedure, StepAt
<1> QED BY <1>3, <1>4

(* and so is each of the three walks.                                      *)
LEMMA WalkIsProcedure ==
    ASSUME NEW t, Good(t), NEW order
    PROVE  \E f : Avl!Walk(t, order) = f[t] /\ IsProcedure(f, t, "walk", 0, order)
<1> DEFINE IsF(f) == f = [u \in Avl!Subtrees(t) |->
                IF u = NoTree THEN <<>> ELSE Avl!Met(u.key, f[u.left], f[u.right], order)]
           F == CHOOSE f : IsF(f)
<1>1. \E f : IsF(f)
  <2>1. PICK f : IsFold(f, t, "walk", 0, order)
    BY ProcedureExists DEF Ops
  <2> QED BY <2>1 DEF IsFold, StepAt
<1>2. IsF(F)
  <2> HIDE DEF IsF
  <2> QED BY <1>1
<1>3. Avl!Walk(t, order) = F[t]
  BY DEF Avl!Walk, NoTree
<1>4. IsProcedure(F, t, "walk", 0, order)
  <2> HIDE DEF F
  <2> QED BY <1>2 DEF IsProcedure, StepAt
<1> QED BY <1>3, <1>4

(* Induction over one tree.                                                *)
LEMMA GoodInduction ==
    ASSUME NEW t, Good(t), NEW P, NoTree \in P,
           \A u \in Avl!Nodes(t) : u.left \in P /\ u.right \in P => u \in P
    PROVE  t \in P
<1> DEFINE S == Avl!Nodes(t)
<1>1. Even(S) /\ t \in S \cup {NoTree}
  BY GoodTree
<1>2. \A u \in S : u.left \in P /\ u.right \in P => u \in P
  OBVIOUS
<1> HIDE DEF S
<1>3. S \subseteq P
  BY <1>1, <1>2, TreeInduction
<1> QED BY <1>1, <1>3

(* What a procedure answers for the empty tree and at a node.              *)
LEMMA ProcedureSteps ==
    ASSUME NEW t, Good(t), NEW f, NEW op, NEW k, NEW x, IsProcedure(f, t, op, k, x)
    PROVE  /\ f[NoTree] = StepAt(op, k, x, NoTree, f[NoTree.left], f[NoTree.right])
           /\ \A u \in Avl!Nodes(t) : f[u] = StepAt(op, k, x, u, f[u.left], f[u.right])
<1>1. NoTree \in Avl!Subtrees(t) /\ \A u \in Avl!Nodes(t) : u \in Avl!Subtrees(t)
  BY DEF Avl!Subtrees, NoTree
<1> QED BY <1>1 DEF IsProcedure

(* A search finds the node of its key, if there is one.                    *)
LEMMA SearchFinds ==
    ASSUME NEW t, Good(t), NEW k \in AvlKey
    PROVE  /\ k \in Avl!KeysOf(t) => Avl!Sub(t, k) \in Avl!Nodes(t) /\ Avl!Sub(t, k).key = k
           /\ k \notin Avl!KeysOf(t) => Avl!Sub(t, k) = NoTree
<1>1. PICK f : Avl!Sub(t, k) = f[t] /\ IsProcedure(f, t, "search", k, 0)
  BY SubIsProcedure
<1>2. f[NoTree] = NoTree
  BY <1>1, ProcedureSteps DEF StepAt
<1>3. ASSUME NEW u \in Avl!Nodes(t)
      PROVE  f[u] = IF k = u.key THEN u ELSE IF k < u.key THEN f[u.left] ELSE f[u.right]
  <2>1. f[u] = StepAt("search", k, 0, u, f[u.left], f[u.right]) /\ u # NoTree
    BY <1>1, ProcedureSteps, GoodTree
  <2> QED BY <2>1 DEF StepAt
<1> DEFINE P == {u \in Avl!Nodes(t) \cup {NoTree} :
                    /\ k \in Avl!KeysOf(u) => f[u] \in Avl!Nodes(u) /\ f[u].key = k
                    /\ k \notin Avl!KeysOf(u) => f[u] = NoTree}
<1>4. NoTree \in P
  BY <1>2, NoTreeIsGood
<1>5. ASSUME NEW u \in Avl!Nodes(t), u.left \in P, u.right \in P PROVE u \in P
  <2>1. Good(u) /\ u # NoTree
    BY GoodTree
  <2>2. /\ u \in Avl!Nodes(u) /\ u.key \in AvlKey
        /\ Avl!Nodes(u) = {u} \cup Avl!Nodes(u.left) \cup Avl!Nodes(u.right)
        /\ Avl!KeysOf(u) = {u.key} \cup Avl!KeysOf(u.left) \cup Avl!KeysOf(u.right)
        /\ Below(u.left, u.key) /\ Above(u.right, u.key)
    BY <2>1, GoodRoot, GoodIsMade
  <2>3. k \in Int /\ u.key \in Int
    BY <2>2, KeysAreNumbers
  <2>4. CASE k = u.key
    BY <1>3, <2>2, <2>4
  <2>5. CASE k < u.key
    <3>1. k \notin Avl!KeysOf(u.right)
      BY <2>2, <2>3, <2>5 DEF Above
    <3>2. f[u] = f[u.left] /\ k # u.key
      BY <1>3, <2>3, <2>5
    <3> QED BY <1>5, <2>2, <3>1, <3>2
  <2>6. CASE k > u.key
    <3>1. k \notin Avl!KeysOf(u.left)
      BY <2>2, <2>3, <2>6 DEF Below
    <3>2. f[u] = f[u.right] /\ k # u.key
      BY <1>3, <2>3, <2>6
    <3> QED BY <1>5, <2>2, <3>1, <3>2
  <2> QED BY <2>3, <2>4, <2>5, <2>6
<1>6. t \in P
  <2> HIDE DEF P
  <2> QED BY <1>4, <1>5, GoodInduction
<1> QED BY <1>1, <1>6

(* The least key is where min_value_node ends.                             *)
LEMMA MinIsLeast ==
    ASSUME NEW t, Good(t), t # NoTree
    PROVE  /\ Avl!MinValueNode(t) \in Avl!Nodes(t)
           /\ Avl!MinValueNode(t).key \in Avl!KeysOf(t)
           /\ \A i \in Avl!KeysOf(t) : Avl!MinValueNode(t).key <= i
<1>1. PICK f : Avl!MinValueNode(t) = f[t] /\ IsProcedure(f, t, "min", 0, 0)
  BY MinIsProcedure
<1>2. ASSUME NEW u \in Avl!Nodes(t)
      PROVE  f[u] = IF u.left = NoTree THEN u ELSE f[u.left]
  <2>1. f[u] = StepAt("min", 0, 0, u, f[u.left], f[u.right]) /\ u # NoTree
    BY <1>1, ProcedureSteps, GoodTree
  <2> QED BY <2>1 DEF StepAt
<1> DEFINE P == {u \in Avl!Nodes(t) \cup {NoTree} :
                    u # NoTree => /\ f[u] \in Avl!Nodes(u)
                                  /\ \A i \in Avl!KeysOf(u) : f[u].key <= i}
<1>3. NoTree \in P
  OBVIOUS
<1>4. ASSUME NEW u \in Avl!Nodes(t), u.left \in P, u.right \in P PROVE u \in P
  <2>1. Good(u) /\ u # NoTree
    BY GoodTree
  <2>2. /\ u \in Avl!Nodes(u) /\ u.key \in AvlKey /\ Good(u.left) /\ Good(u.right)
        /\ Avl!Nodes(u) = {u} \cup Avl!Nodes(u.left) \cup Avl!Nodes(u.right)
        /\ Avl!KeysOf(u) = {u.key} \cup Avl!KeysOf(u.left) \cup Avl!KeysOf(u.right)
        /\ Below(u.left, u.key) /\ Above(u.right, u.key)
    BY <2>1, GoodRoot, GoodIsMade
  <2>3. /\ u.key \in Int /\ Avl!KeysOf(u.left) \subseteq Int /\ Avl!KeysOf(u.right) \subseteq Int
    BY <2>2, GoodTree, KeysAreNumbers
  <2>4. CASE u.left = NoTree
    <3>1. f[u] = u /\ Avl!KeysOf(u.left) = {}
      BY <1>2, <2>4, NoTreeIsGood
    <3>2. \A i \in Avl!KeysOf(u) : u.key <= i
      BY <2>2, <2>3, <3>1 DEF Above
    <3> QED BY <2>2, <3>1, <3>2
  <2>5. CASE u.left # NoTree
    <3>1. /\ f[u] = f[u.left] /\ f[u] \in Avl!Nodes(u.left)
          /\ \A i \in Avl!KeysOf(u.left) : f[u].key <= i
      BY <1>2, <1>4, <2>5
    <3>2. f[u].key \in Avl!KeysOf(u.left)
      BY <3>1 DEF Avl!KeysOf
    <3>3. f[u].key < u.key /\ f[u].key \in Int
      BY <2>2, <2>3, <3>2 DEF Below
    <3>4. \A i \in Avl!KeysOf(u) : f[u].key <= i
      BY <2>2, <2>3, <3>1, <3>3 DEF Above
    <3> QED BY <2>2, <3>1, <3>4
  <2> QED BY <2>4, <2>5
<1>5. t \in P
  <2> HIDE DEF P
  <2> QED BY <1>3, <1>4, GoodInduction
<1> QED BY <1>1, <1>5 DEF Avl!KeysOf

(* The rotations that the end of insert chooses.                           *)
LEMMA InsertRotations ==
    ASSUME NEW t, t # NoTree, t.left.height \in Nat, t.right.height \in Nat, NEW k \in Int
    PROVE  /\ t.left.height - t.right.height \in -1 .. 1 => Avl!BalancedForInsert(t, k) = t
           /\ (t.left.height - t.right.height > 1 /\ t.left.key \in Int) =>
                 /\ k < t.left.key => Avl!BalancedForInsert(t, k) = Avl!RightRotate(t)
                 /\ k > t.left.key =>
                       Avl!BalancedForInsert(t, k) = Avl!RightRotate([t EXCEPT !.left = Avl!LeftRotate(@)])
           /\ (t.left.height - t.right.height < -1 /\ t.right.key \in Int) =>
                 /\ k > t.right.key => Avl!BalancedForInsert(t, k) = Avl!LeftRotate(t)
                 /\ k < t.right.key =>
                       Avl!BalancedForInsert(t, k) = Avl!LeftRotate([t EXCEPT !.right = Avl!RightRotate(@)])
<1> DEFINE b == Avl!Balance(t)
           one == Avl!RightRotate([t EXCEPT !.left = Avl!LeftRotate(@)])
           two == Avl!LeftRotate([t EXCEPT !.right = Avl!RightRotate(@)])
           right == Avl!RightRotate(t)
           left == Avl!LeftRotate(t)
           lk == t.left.key
           rk == t.right.key
<1>1. b = t.left.height - t.right.height /\ b \in Int
  BY DEF Avl!Balance, Avl!Height, NoTree
<1>2. Avl!BalancedForInsert(t, k) =
          CASE b > 1 /\ k < lk -> right
            [] b < -1 /\ k > rk -> left
            [] b > 1 /\ k > lk -> one
            [] b < -1 /\ k < rk -> two
            [] OTHER -> t
  BY DEF Avl!BalancedForInsert
<1> DEFINE v == Avl!BalancedForInsert(t, k)
<1> HIDE DEF v, b, one, two, right, left, lk, rk
<1>3. v = CASE b > 1 /\ k < lk -> right
            [] b < -1 /\ k > rk -> left
            [] b > 1 /\ k > lk -> one
            [] b < -1 /\ k < rk -> two
            [] OTHER -> t
  BY <1>2 DEF v
<1>4. b \in -1 .. 1 => v = t
  BY <1>1, <1>3
<1>5. b > 1 /\ lk \in Int => (k < lk => v = right) /\ (k > lk => v = one)
  BY <1>1, <1>3
<1>6. b < -1 /\ rk \in Int => (k > rk => v = left) /\ (k < rk => v = two)
  BY <1>1, <1>3
<1> QED BY <1>1, <1>4, <1>5, <1>6 DEF v, one, two, right, left, lk, rk

(* What an insertion leaves of a tree: a key more, and if it is higher     *)
(* then by one, and it leans to where the key went.                        *)
Grown(u, v, k) ==
    /\ Good(v) /\ v # NoTree /\ Avl!KeysOf(v) = Avl!KeysOf(u) \cup {k}
    /\ v.height \in {u.height, u.height + 1}
    /\ u # NoTree /\ v.height = u.height + 1 =>
          /\ v.key # k
          /\ k < v.key => v.left.height = v.right.height + 1
          /\ k > v.key => v.right.height = v.left.height + 1

(* The key went to the left.                                               *)
LEMMA GrownLeft ==
    ASSUME NEW u, Good(u), u # NoTree, NEW k \in AvlKey, k \notin Avl!KeysOf(u), k < u.key,
           NEW v, Grown(u.left, v, k)
    PROVE  Grown(u, Avl!BalancedForInsert(Avl!Measured([u EXCEPT !.left = v]), k), k)
<1> DEFINE l == u.left
           r == u.right
           uk == u.key
           uh == u.height
<1>1. /\ uk \in AvlKey /\ Good(l) /\ Good(r) /\ u = Node2(uk, uh, l, r)
      /\ l.height \in Nat /\ r.height \in Nat
      /\ uh = Avl!Larger(l.height, r.height) + 1
      /\ l.height - r.height \in -1 .. 1
      /\ Avl!KeysOf(u) = {uk} \cup Avl!KeysOf(l) \cup Avl!KeysOf(r)
      /\ Below(l, uk) /\ Above(r, uk)
  BY GoodRoot, GoodIsMade DEF Node2
<1>2. uk \in Int /\ k \in Int
  BY <1>1, KeysAreNumbers
<1>3. /\ Good(v) /\ v # NoTree /\ Avl!KeysOf(v) = Avl!KeysOf(l) \cup {k}
      /\ v.height \in {l.height, l.height + 1}
      /\ l # NoTree /\ v.height = l.height + 1 =>
          /\ v.key # k
          /\ k < v.key => v.left.height = v.right.height + 1
          /\ k > v.key => v.right.height = v.left.height + 1
  BY DEF Grown
<1> HIDE DEF l, r, uk, uh
<1> DEFINE h == Avl!Larger(v.height, r.height) + 1
           y == Node2(uk, h, v, r)
<1>4. Avl!Measured([u EXCEPT !.left = v]) = y
  <2>1. [u EXCEPT !.left = v] = Node2(uk, uh, v, r)
    BY <1>1 DEF Node2
  <2>2. Avl!Measured(Node2(uk, uh, v, r)) = Node2(uk, h, v, r)
    BY DEF Avl!Measured, Avl!Height, Node2
  <2> QED BY <2>1, <2>2
<1>5. Below(v, uk) /\ v.key \in AvlKey /\ v.key \in Int
  <2>1. v.key \in AvlKey
    BY <1>3, GoodRoot
  <2>2. k < uk
    BY DEF uk
  <2> QED BY <1>1, <1>3, <2>1, <2>2, KeysAreNumbers DEF Below
<1>6. v.height \in Nat
  BY <1>1, <1>3
<1>7. y.left = v /\ y.right = r /\ y.height = h /\ y.key = uk /\ y = Made(uk, v, r)
  BY DEF Node2, Made
<1>8. h \in Nat \ {0} /\ uh \in Nat
  BY <1>1, <1>6 DEF Avl!Larger
<1>9. y # NoTree
  BY <1>7, <1>8, NoTreeIsGood
<1> HIDE DEF y
<1>10. Avl!KeysOf(u) \cup {k} = {uk} \cup Avl!KeysOf(v) \cup Avl!KeysOf(r)
  BY <1>1, <1>3
<1>11. CASE v.height - r.height \in -1 .. 1
  <2>1. Good(y) /\ Avl!KeysOf(y) = {uk} \cup Avl!KeysOf(v) \cup Avl!KeysOf(r)
    BY <1>1, <1>3, <1>5, <1>7, <1>11, GoodMade
  <2>2. Avl!BalancedForInsert(y, k) = y
    BY <1>1, <1>2, <1>6, <1>7, <1>9, <1>11, InsertRotations
  <2>3. h \in {uh, uh + 1} /\ (h = uh + 1 => v.height = r.height + 1)
    BY <1>1, <1>3, <1>6, <1>11 DEF Avl!Larger
  <2>4. k < y.key
    BY <1>7 DEF uk
  <2>5. Grown(u, y, k)
    <3>1. y.height \in {u.height, u.height + 1}
      BY <2>3, <1>7 DEF uh
    <3>2. y.height = u.height + 1 => /\ y.key # k
                                     /\ k < y.key => y.left.height = y.right.height + 1
                                     /\ ~ (k > y.key)
      BY <2>3, <2>4, <1>2, <1>7 DEF uh
    <3> QED BY <2>1, <3>1, <3>2, <1>9, <1>10 DEF Grown
  <2> QED BY <1>4, <2>2, <2>5
<1>12. CASE v.height - r.height \notin -1 .. 1
  <2>1. /\ v.height = r.height + 2 /\ v.height = l.height + 1 /\ l.height = r.height + 1
        /\ uh = v.height /\ l # NoTree
    <3>1. v.height = r.height + 2 /\ v.height = l.height + 1 /\ l.height = r.height + 1
      BY <1>1, <1>3, <1>6, <1>12
    <3>2. uh = v.height
      BY <1>1, <3>1 DEF Avl!Larger
    <3> QED BY <3>1, <3>2, <1>1, NoTreeIsGood
  <2>2. /\ v.key # k
        /\ k < v.key => v.left.height = v.right.height + 1
        /\ k > v.key => v.right.height = v.left.height + 1
    BY <1>3, <2>1
  <2>3. v.left.height \in Nat /\ v.right.height \in Nat
    BY <1>3, GoodRoot
  <2>4. y.left.height - y.right.height > 1 /\ y.left.height \in Nat /\ y.right.height \in Nat
    BY <1>1, <1>6, <1>7, <2>1
  <2> DEFINE z == Avl!BalancedForInsert(y, k)
  <2>5. /\ Good(z) /\ z # NoTree /\ z.height = v.height
        /\ Avl!KeysOf(z) = {uk} \cup Avl!KeysOf(v) \cup Avl!KeysOf(r)
    <3>1. CASE k < v.key
      <4>1. z = Avl!RightRotate(y)
        BY <1>2, <1>5, <1>7, <1>9, <2>4, <3>1, InsertRotations
      <4>2. v.left.height >= v.right.height /\ v.left.height # v.right.height
        BY <2>2, <2>3, <3>1
      <4> HIDE DEF z
      <4>3. z = Avl!RightRotate(Node2(uk, h, v, r))
        BY <4>1 DEF y
      <4> HIDE DEF h
      <4> QED BY <1>1, <1>3, <1>5, <2>1, <4>2, <4>3, RotatedRight
    <3>2. CASE k > v.key
      <4>1. z = Avl!RightRotate([y EXCEPT !.left = Avl!LeftRotate(@)])
        BY <1>2, <1>5, <1>7, <1>9, <2>4, <3>2, InsertRotations
      <4>2. v.left.height < v.right.height
        BY <2>2, <2>3, <3>2
      <4>3. [y EXCEPT !.left = Avl!LeftRotate(@)] = Node2(uk, h, Avl!LeftRotate(v), r)
        BY DEF y, Node2
      <4> HIDE DEF z
      <4>4. z = Avl!RightRotate(Node2(uk, h, Avl!LeftRotate(v), r))
        BY <4>1, <4>3
      <4> HIDE DEF h
      <4> QED BY <1>1, <1>3, <1>5, <2>1, <4>2, <4>4, RotatedLeftRight
    <3> QED BY <1>2, <1>5, <2>2, <3>1, <3>2
  <2> HIDE DEF z
  <2>6. z.height = u.height /\ z.height # u.height + 1
    BY <1>8, <2>1, <2>5 DEF uh
  <2>7. Grown(u, z, k)
    BY <1>10, <2>5, <2>6 DEF Grown
  <2> QED BY <1>4, <2>7 DEF z
<1> QED BY <1>11, <1>12

(* The key went to the right.                                              *)
LEMMA GrownRight ==
    ASSUME NEW u, Good(u), u # NoTree, NEW k \in AvlKey, k \notin Avl!KeysOf(u), k > u.key,
           NEW v, Grown(u.right, v, k)
    PROVE  Grown(u, Avl!BalancedForInsert(Avl!Measured([u EXCEPT !.right = v]), k), k)
<1> DEFINE r == u.right
           l == u.left
           uk == u.key
           uh == u.height
<1>1. /\ uk \in AvlKey /\ Good(r) /\ Good(l) /\ u = Node2(uk, uh, l, r)
      /\ r.height \in Nat /\ l.height \in Nat
      /\ uh = Avl!Larger(l.height, r.height) + 1
      /\ l.height - r.height \in -1 .. 1
      /\ Avl!KeysOf(u) = {uk} \cup Avl!KeysOf(r) \cup Avl!KeysOf(l)
      /\ Above(r, uk) /\ Below(l, uk)
  BY GoodRoot, GoodIsMade DEF Node2
<1>2. uk \in Int /\ k \in Int
  BY <1>1, KeysAreNumbers
<1>3. /\ Good(v) /\ v # NoTree /\ Avl!KeysOf(v) = Avl!KeysOf(r) \cup {k}
      /\ v.height \in {r.height, r.height + 1}
      /\ r # NoTree /\ v.height = r.height + 1 =>
          /\ v.key # k
          /\ k > v.key => v.right.height = v.left.height + 1
          /\ k < v.key => v.left.height = v.right.height + 1
  BY DEF Grown
<1> HIDE DEF r, l, uk, uh
<1> DEFINE h == Avl!Larger(l.height, v.height) + 1
           y == Node2(uk, h, l, v)
<1>4. Avl!Measured([u EXCEPT !.right = v]) = y
  <2>1. [u EXCEPT !.right = v] = Node2(uk, uh, l, v)
    BY <1>1 DEF Node2
  <2>2. Avl!Measured(Node2(uk, uh, l, v)) = Node2(uk, h, l, v)
    BY DEF Avl!Measured, Avl!Height, Node2
  <2> QED BY <2>1, <2>2
<1>5. Above(v, uk) /\ v.key \in AvlKey /\ v.key \in Int
  <2>1. v.key \in AvlKey
    BY <1>3, GoodRoot
  <2>2. k > uk
    BY DEF uk
  <2> QED BY <1>1, <1>3, <2>1, <2>2, KeysAreNumbers DEF Above
<1>6. v.height \in Nat
  BY <1>1, <1>3
<1>7. y.right = v /\ y.left = l /\ y.height = h /\ y.key = uk /\ y = Made(uk, l, v)
  BY DEF Node2, Made
<1>8. h \in Nat \ {0} /\ uh \in Nat
  BY <1>1, <1>6 DEF Avl!Larger
<1>9. y # NoTree
  BY <1>7, <1>8, NoTreeIsGood
<1> HIDE DEF y
<1>10. Avl!KeysOf(u) \cup {k} = {uk} \cup Avl!KeysOf(v) \cup Avl!KeysOf(l)
  BY <1>1, <1>3
<1>11. CASE l.height - v.height \in -1 .. 1
  <2>1. Good(y) /\ Avl!KeysOf(y) = {uk} \cup Avl!KeysOf(v) \cup Avl!KeysOf(l)
    BY <1>1, <1>3, <1>5, <1>7, <1>11, GoodMade
  <2>2. Avl!BalancedForInsert(y, k) = y
    BY <1>1, <1>2, <1>6, <1>7, <1>9, <1>11, InsertRotations
  <2>3. h \in {uh, uh + 1} /\ (h = uh + 1 => v.height = l.height + 1)
    BY <1>1, <1>3, <1>6, <1>11 DEF Avl!Larger
  <2>4. k > y.key
    BY <1>7 DEF uk
  <2>5. Grown(u, y, k)
    <3>1. y.height \in {u.height, u.height + 1}
      BY <2>3, <1>7 DEF uh
    <3>2. y.height = u.height + 1 => /\ y.key # k
                                     /\ k > y.key => y.right.height = y.left.height + 1
                                     /\ ~ (k < y.key)
      BY <2>3, <2>4, <1>2, <1>7 DEF uh
    <3> QED BY <2>1, <3>1, <3>2, <1>9, <1>10 DEF Grown
  <2> QED BY <1>4, <2>2, <2>5
<1>12. CASE l.height - v.height \notin -1 .. 1
  <2>1. /\ v.height = l.height + 2 /\ v.height = r.height + 1 /\ r.height = l.height + 1
        /\ uh = v.height /\ r # NoTree
    <3>1. v.height = l.height + 2 /\ v.height = r.height + 1 /\ r.height = l.height + 1
      BY <1>1, <1>3, <1>6, <1>12
    <3>2. uh = v.height
      BY <1>1, <3>1 DEF Avl!Larger
    <3> QED BY <3>1, <3>2, <1>1, NoTreeIsGood
  <2>2. /\ v.key # k
        /\ k > v.key => v.right.height = v.left.height + 1
        /\ k < v.key => v.left.height = v.right.height + 1
    BY <1>3, <2>1
  <2>3. v.right.height \in Nat /\ v.left.height \in Nat
    BY <1>3, GoodRoot
  <2>4. y.left.height - y.right.height < -1 /\ y.right.height \in Nat /\ y.left.height \in Nat
    BY <1>1, <1>6, <1>7, <2>1
  <2> DEFINE z == Avl!BalancedForInsert(y, k)
  <2>5. /\ Good(z) /\ z # NoTree /\ z.height = v.height
        /\ Avl!KeysOf(z) = {uk} \cup Avl!KeysOf(v) \cup Avl!KeysOf(l)
    <3>1. CASE k > v.key
      <4>1. z = Avl!LeftRotate(y)
        BY <1>2, <1>5, <1>7, <1>9, <2>4, <3>1, InsertRotations
      <4>2. v.right.height >= v.left.height /\ v.right.height # v.left.height
        BY <2>2, <2>3, <3>1
      <4> HIDE DEF z
      <4>3. z = Avl!LeftRotate(Node2(uk, h, l, v))
        BY <4>1 DEF y
      <4> HIDE DEF h
      <4> QED BY <1>1, <1>3, <1>5, <2>1, <4>2, <4>3, RotatedLeft
    <3>2. CASE k < v.key
      <4>1. z = Avl!LeftRotate([y EXCEPT !.right = Avl!RightRotate(@)])
        BY <1>2, <1>5, <1>7, <1>9, <2>4, <3>2, InsertRotations
      <4>2. v.right.height < v.left.height
        BY <2>2, <2>3, <3>2
      <4>3. [y EXCEPT !.right = Avl!RightRotate(@)] = Node2(uk, h, l, Avl!RightRotate(v))
        BY DEF y, Node2
      <4> HIDE DEF z
      <4>4. z = Avl!LeftRotate(Node2(uk, h, l, Avl!RightRotate(v)))
        BY <4>1, <4>3
      <4> HIDE DEF h
      <4> QED BY <1>1, <1>3, <1>5, <2>1, <4>2, <4>4, RotatedRightLeft
    <3> QED BY <1>2, <1>5, <2>2, <3>1, <3>2
  <2> HIDE DEF z
  <2>6. z.height = u.height /\ z.height # u.height + 1
    BY <1>8, <2>1, <2>5 DEF uh
  <2>7. Grown(u, z, k)
    BY <1>10, <2>5, <2>6 DEF Grown
  <2> QED BY <1>4, <2>7 DEF z
<1> QED BY <1>11, <1>12

(* insert adds the key, at the one node where it is missing.               *)
LEMMA InsertedGrows ==
    ASSUME NEW t, Good(t), NEW k \in AvlKey, k \notin Avl!KeysOf(t)
    PROVE  Grown(t, Avl!Inserted(t, k, Avl!Leaf(k)), k)
<1> DEFINE leaf == Avl!Leaf(k)
<1>1. PICK f : Avl!Inserted(t, k, leaf) = f[t] /\ IsProcedure(f, t, "insert", k, leaf)
  BY InsertedIsProcedure
<1>2. Grown(NoTree, leaf, k)
  <2>1. leaf = Made(k, NoTree, NoTree)
    BY NoTreeIsGood DEF Avl!Leaf, Made, Avl!Larger, NoTree
  <2>2. Below(NoTree, k) /\ Above(NoTree, k)
    BY NoTreeIsGood DEF Below, Above
  <2>3. Good(leaf) /\ leaf # NoTree /\ Avl!KeysOf(leaf) = {k}
    BY <2>1, <2>2, NoTreeIsGood, GoodMade
  <2>4. leaf.height = 1
    BY DEF Avl!Leaf
  <2> HIDE DEF leaf
  <2> QED BY <2>3, <2>4, NoTreeIsGood DEF Grown
<1> HIDE DEF leaf
<1>3. f[NoTree] = leaf
  BY <1>1, ProcedureSteps DEF StepAt
<1> DEFINE P == {u \in Avl!Nodes(t) \cup {NoTree} : k \notin Avl!KeysOf(u) => Grown(u, f[u], k)}
<1>4. NoTree \in P
  BY <1>2, <1>3
<1>5. ASSUME NEW u \in Avl!Nodes(t), u.left \in P, u.right \in P PROVE u \in P
  <2>1. Good(u) /\ u # NoTree
    BY GoodTree
  <2>2. /\ u.key \in AvlKey
        /\ Avl!KeysOf(u) = {u.key} \cup Avl!KeysOf(u.left) \cup Avl!KeysOf(u.right)
    BY <2>1, GoodRoot
  <2>3. f[u] = StepAt("insert", k, leaf, u, f[u.left], f[u.right])
    BY <1>1, ProcedureSteps
  <2>4. SUFFICES ASSUME k \notin Avl!KeysOf(u) PROVE Grown(u, f[u], k)
    OBVIOUS
  <2>5. Grown(u.left, f[u.left], k) /\ Grown(u.right, f[u.right], k) /\ k # u.key
    BY <1>5, <2>2, <2>4
  <2>6. k \in Int /\ u.key \in Int
    BY <2>2, KeysAreNumbers
  <2>7. CASE k < u.key
    <3>1. f[u] = Avl!BalancedForInsert(Avl!Measured([u EXCEPT !.left = f[u.left]]), k)
      BY <2>1, <2>3, <2>5, <2>7 DEF StepAt
    <3> HIDE DEF P
    <3> QED BY <2>1, <2>4, <2>5, <2>7, <3>1, GrownLeft
  <2>8. CASE k > u.key
    <3>1. ~ (k < u.key)
      BY <2>6, <2>8
    <3>2. f[u] = Avl!BalancedForInsert(Avl!Measured([u EXCEPT !.right = f[u.right]]), k)
      BY <2>1, <2>3, <2>5, <3>1 DEF StepAt
    <3> HIDE DEF P
    <3> QED BY <2>1, <2>4, <2>5, <2>8, <3>2, GrownRight
  <2> QED BY <2>5, <2>6, <2>7, <2>8
<1>6. t \in P
  <2> HIDE DEF P
  <2> QED BY <1>4, <1>5, GoodInduction
<1> QED BY <1>1, <1>6 DEF leaf

(* A node measured again is as it was.                                     *)
LEMMA MeasuredAgain ==
    ASSUME NEW u, Good(u), u # NoTree
    PROVE  /\ Avl!Measured([u EXCEPT !.left = u.left]) = u
           /\ Avl!Measured([u EXCEPT !.right = u.right]) = u
           /\ Avl!Measured(u) = u
<1> DEFINE uk == u.key
           l == u.left
           r == u.right
           h == Avl!Larger(l.height, r.height) + 1
<1>1. u = Node2(uk, h, l, r)
  BY GoodIsMade DEF Made, Node2
<1> HIDE DEF uk, l, r, h
<1>2. [u EXCEPT !.left = l] = Node2(uk, h, l, r) /\ [u EXCEPT !.right = r] = Node2(uk, h, l, r)
  BY <1>1 DEF Node2
<1>3. Avl!Measured(Node2(uk, h, l, r)) = Node2(uk, h, l, r)
  BY DEF Avl!Measured, Avl!Height, Node2, h
<1> QED BY <1>1, <1>2, <1>3 DEF l, r

(* insert leaves the tree as it was when the key is there or there is no   *)
(* memory for a node: the root that avl_insert keeps is the right one.     *)
LEMMA FailedInsertKeeps ==
    ASSUME NEW t, Good(t), NEW k \in AvlKey
    PROVE  /\ Avl!Inserted(t, k, NoTree) = t
           /\ t # NoTree => Avl!Sub(t, t.key) = t
<1>1. PICK f : Avl!Inserted(t, k, NoTree) = f[t] /\ IsProcedure(f, t, "insert", k, NoTree)
  BY InsertedIsProcedure
<1>2. f[NoTree] = NoTree
  BY <1>1, ProcedureSteps DEF StepAt
<1> DEFINE P == {u \in Avl!Nodes(t) \cup {NoTree} : f[u] = u}
<1>3. NoTree \in P
  BY <1>2
<1>4. ASSUME NEW u \in Avl!Nodes(t), u.left \in P, u.right \in P PROVE u \in P
  <2>1. Good(u) /\ u # NoTree
    BY GoodTree
  <2>2. /\ u.left.height \in Nat /\ u.right.height \in Nat
        /\ u.left.height - u.right.height \in -1 .. 1
    BY <2>1, GoodRoot
  <2>3. f[u] = StepAt("insert", k, NoTree, u, f[u.left], f[u.right])
    BY <1>1, ProcedureSteps
  <2>4. f[u.left] = u.left /\ f[u.right] = u.right
    BY <1>4
  <2>5. Avl!BalancedForInsert(u, k) = u
    BY <2>1, <2>2, KeysAreNumbers, InsertRotations
  <2>6. f[u] = u
    BY <2>1, <2>3, <2>4, <2>5, MeasuredAgain DEF StepAt
  <2> QED BY <2>6
<1>5. t \in P
  <2> HIDE DEF P
  <2> QED BY <1>3, <1>4, GoodInduction
<1>6. ASSUME t # NoTree PROVE Avl!Sub(t, t.key) = t
  <2>1. t \in Avl!Nodes(t) /\ t.key \in AvlKey
    BY <1>6, GoodRoot
  <2>2. PICK g : Avl!Sub(t, t.key) = g[t] /\ IsProcedure(g, t, "search", t.key, 0)
    BY SubIsProcedure
  <2>3. g[t] = StepAt("search", t.key, 0, t, g[t.left], g[t.right])
    BY <2>1, <2>2, ProcedureSteps
  <2> QED BY <1>6, <2>2, <2>3 DEF StepAt
<1> QED BY <1>1, <1>5, <1>6

(* The rotations that the end of delete_node chooses.                      *)
LEMMA DeleteRotations ==
    ASSUME NEW t, t # NoTree, t.left.height \in Nat, t.right.height \in Nat
    PROVE  /\ t.left.height - t.right.height \in -1 .. 1 => Avl!BalancedForDelete(t) = t
           /\ (/\ t.left.height - t.right.height > 1 /\ t.left # NoTree
               /\ t.left.left.height \in Nat /\ t.left.right.height \in Nat) =>
                 /\ t.left.left.height >= t.left.right.height =>
                       Avl!BalancedForDelete(t) = Avl!RightRotate(t)
                 /\ t.left.left.height < t.left.right.height =>
                       Avl!BalancedForDelete(t) = Avl!RightRotate([t EXCEPT !.left = Avl!LeftRotate(@)])
           /\ (/\ t.left.height - t.right.height < -1 /\ t.right # NoTree
               /\ t.right.left.height \in Nat /\ t.right.right.height \in Nat) =>
                 /\ t.right.right.height >= t.right.left.height =>
                       Avl!BalancedForDelete(t) = Avl!LeftRotate(t)
                 /\ t.right.right.height < t.right.left.height =>
                       Avl!BalancedForDelete(t) = Avl!LeftRotate([t EXCEPT !.right = Avl!RightRotate(@)])
<1> DEFINE b == Avl!Balance(t)
           lb == Avl!Balance(t.left)
           rb == Avl!Balance(t.right)
           one == Avl!RightRotate([t EXCEPT !.left = Avl!LeftRotate(@)])
           two == Avl!LeftRotate([t EXCEPT !.right = Avl!RightRotate(@)])
           right == Avl!RightRotate(t)
           left == Avl!LeftRotate(t)
           v == Avl!BalancedForDelete(t)
<1>1. b = t.left.height - t.right.height /\ b \in Int
  BY DEF Avl!Balance, Avl!Height, NoTree
<1>2. t.left # NoTree => lb = t.left.left.height - t.left.right.height
  BY DEF Avl!Balance, Avl!Height, NoTree
<1>3. t.right # NoTree => rb = t.right.left.height - t.right.right.height
  BY DEF Avl!Balance, Avl!Height, NoTree
<1>4. v = CASE b > 1 /\ lb >= 0 -> right
            [] b > 1 /\ lb < 0 -> one
            [] b < -1 /\ rb <= 0 -> left
            [] b < -1 /\ rb > 0 -> two
            [] OTHER -> t
  BY DEF Avl!BalancedForDelete
<1> HIDE DEF v, b, lb, rb, one, two, right, left
<1>5. b \in -1 .. 1 => v = t
  BY <1>1, <1>4
<1>6. b > 1 /\ lb \in Int => (lb >= 0 => v = right) /\ (lb < 0 => v = one)
  BY <1>1, <1>4
<1>7. b < -1 /\ rb \in Int => (rb <= 0 => v = left) /\ (rb > 0 => v = two)
  BY <1>1, <1>4
<1>8. t.left.height - t.right.height \in -1 .. 1 => v = t
  BY <1>1, <1>5
<1>9. ASSUME t.left.height - t.right.height > 1, t.left # NoTree,
             t.left.left.height \in Nat, t.left.right.height \in Nat
      PROVE  /\ t.left.left.height >= t.left.right.height => v = right
             /\ t.left.left.height < t.left.right.height => v = one
  BY <1>1, <1>2, <1>6, <1>9
<1>10. ASSUME t.left.height - t.right.height < -1, t.right # NoTree,
              t.right.left.height \in Nat, t.right.right.height \in Nat
       PROVE  /\ t.right.right.height >= t.right.left.height => v = left
              /\ t.right.right.height < t.right.left.height => v = two
  BY <1>1, <1>3, <1>7, <1>10
<1> QED BY <1>8, <1>9, <1>10 DEF v, one, two, right, left

(* What a deletion leaves of a tree: a key less, and it is lower by one at *)
(* most.                                                                   *)
Shrunk(u, v, x) ==
    /\ Good(v) /\ Avl!KeysOf(v) = Avl!KeysOf(u) \ {x}
    /\ v.height \in {u.height - 1, u.height}

(* A node put together again when its left subtree has become v, lower by  *)
(* one or not.                                                             *)
LEMMA RebalancedLeft ==
    ASSUME NEW k \in AvlKey, NEW v, NEW r, Good(v), Good(r), Below(v, k), Above(r, k),
           NEW lh \in Nat, v.height \in {lh - 1, lh}, lh - r.height \in -1 .. 1,
           NEW w, w = Avl!BalancedForDelete(Made(k, v, r))
    PROVE  /\ Good(w) /\ w # NoTree
           /\ Avl!KeysOf(w) = {k} \cup Avl!KeysOf(v) \cup Avl!KeysOf(r)
           /\ w.height \in {Avl!Larger(lh, r.height), Avl!Larger(lh, r.height) + 1}
<1> DEFINE h == Avl!Larger(v.height, r.height) + 1
           y == Node2(k, h, v, r)
<1>1. v.height \in Nat /\ r.height \in Nat
  BY GoodTree
<1>2. y.left = v /\ y.right = r /\ y.height = h /\ y = Made(k, v, r)
  BY DEF Node2, Made
<1>3. h \in Nat \ {0}
  BY <1>1 DEF Avl!Larger
<1>4. y # NoTree
  BY <1>2, <1>3, NoTreeIsGood
<1>5. w = Avl!BalancedForDelete(y)
  BY <1>2
<1> HIDE DEF y
<1>6. CASE v.height - r.height \in -1 .. 1
  <2>1. w = y
    BY <1>1, <1>2, <1>4, <1>5, <1>6, DeleteRotations
  <2>2. /\ Good(w) /\ w # NoTree
        /\ Avl!KeysOf(w) = {k} \cup Avl!KeysOf(v) \cup Avl!KeysOf(r)
    BY <2>1, <1>2, <1>6, GoodMade
  <2>3. w.height = h
    BY <2>1, <1>2
  <2> QED BY <2>2, <2>3, <1>1, <1>6 DEF Avl!Larger
<1>7. CASE v.height - r.height \notin -1 .. 1
  <2>1. r.height = v.height + 2 /\ lh = v.height + 1 /\ r # NoTree
    BY <1>1, <1>7, NoTreeIsGood
  <2>2. r.left.height \in Nat /\ r.right.height \in Nat
    BY <2>1, GoodRoot
  <2>3. y.left.height - y.right.height < -1 /\ y.right # NoTree
    BY <1>1, <1>2, <2>1
  <2>4. CASE r.right.height >= r.left.height
    <3>1. w = Avl!LeftRotate(y)
      BY <1>1, <1>2, <1>4, <1>5, <2>2, <2>3, <2>4, DeleteRotations
    <3>2. w = Avl!LeftRotate(Node2(k, h, v, r))
      BY <3>1 DEF y
    <3> HIDE DEF h
    <3>3. /\ Good(w) /\ w # NoTree
          /\ Avl!KeysOf(w) = {k} \cup Avl!KeysOf(r) \cup Avl!KeysOf(v)
          /\ w.height = IF r.right.height = r.left.height THEN r.height + 1 ELSE r.height
      BY <2>1, <2>4, <3>2, RotatedLeft
    <3> QED BY <3>3, <1>1, <2>1 DEF Avl!Larger
  <2>5. CASE r.right.height < r.left.height
    <3>1. w = Avl!LeftRotate([y EXCEPT !.right = Avl!RightRotate(@)])
      BY <1>1, <1>2, <1>4, <1>5, <2>2, <2>3, <2>5, DeleteRotations
    <3>2. [y EXCEPT !.right = Avl!RightRotate(@)] = Node2(k, h, v, Avl!RightRotate(r))
      BY DEF y, Node2
    <3>3. w = Avl!LeftRotate(Node2(k, h, v, Avl!RightRotate(r)))
      BY <3>1, <3>2
    <3> HIDE DEF h
    <3>4. /\ Good(w) /\ w # NoTree
          /\ Avl!KeysOf(w) = {k} \cup Avl!KeysOf(r) \cup Avl!KeysOf(v)
          /\ w.height = r.height
      BY <2>1, <2>5, <3>3, RotatedRightLeft, SMTT(60)
    <3> QED BY <3>4, <1>1, <2>1 DEF Avl!Larger
  <2> QED BY <2>2, <2>4, <2>5
<1> QED BY <1>6, <1>7

(* A node put together again when its right subtree has become v, lower by *)
(* one or not.                                                             *)
LEMMA RebalancedRight ==
    ASSUME NEW k \in AvlKey, NEW v, NEW l, Good(v), Good(l), Above(v, k), Below(l, k),
           NEW rh \in Nat, v.height \in {rh - 1, rh}, l.height - rh \in -1 .. 1,
           NEW w, w = Avl!BalancedForDelete(Made(k, l, v))
    PROVE  /\ Good(w) /\ w # NoTree
           /\ Avl!KeysOf(w) = {k} \cup Avl!KeysOf(v) \cup Avl!KeysOf(l)
           /\ w.height \in {Avl!Larger(l.height, rh), Avl!Larger(l.height, rh) + 1}
<1> DEFINE h == Avl!Larger(l.height, v.height) + 1
           y == Node2(k, h, l, v)
<1>1. v.height \in Nat /\ l.height \in Nat
  BY GoodTree
<1>2. y.right = v /\ y.left = l /\ y.height = h /\ y = Made(k, l, v)
  BY DEF Node2, Made
<1>3. h \in Nat \ {0}
  BY <1>1 DEF Avl!Larger
<1>4. y # NoTree
  BY <1>2, <1>3, NoTreeIsGood
<1>5. w = Avl!BalancedForDelete(y)
  BY <1>2
<1> HIDE DEF y
<1>6. CASE l.height - v.height \in -1 .. 1
  <2>1. w = y
    BY <1>1, <1>2, <1>4, <1>5, <1>6, DeleteRotations
  <2>2. /\ Good(w) /\ w # NoTree
        /\ Avl!KeysOf(w) = {k} \cup Avl!KeysOf(v) \cup Avl!KeysOf(l)
    BY <2>1, <1>2, <1>6, GoodMade
  <2>3. w.height = h
    BY <2>1, <1>2
  <2> QED BY <2>2, <2>3, <1>1, <1>6 DEF Avl!Larger
<1>7. CASE l.height - v.height \notin -1 .. 1
  <2>1. l.height = v.height + 2 /\ rh = v.height + 1 /\ l # NoTree
    BY <1>1, <1>7, NoTreeIsGood
  <2>2. l.right.height \in Nat /\ l.left.height \in Nat
    BY <2>1, GoodRoot
  <2>3. y.left.height - y.right.height > 1 /\ y.left # NoTree
    BY <1>1, <1>2, <2>1
  <2>4. CASE l.left.height >= l.right.height
    <3>1. w = Avl!RightRotate(y)
      BY <1>1, <1>2, <1>4, <1>5, <2>2, <2>3, <2>4, DeleteRotations
    <3>2. w = Avl!RightRotate(Node2(k, h, l, v))
      BY <3>1 DEF y
    <3> HIDE DEF h
    <3>3. /\ Good(w) /\ w # NoTree
          /\ Avl!KeysOf(w) = {k} \cup Avl!KeysOf(l) \cup Avl!KeysOf(v)
          /\ w.height = IF l.left.height = l.right.height THEN l.height + 1 ELSE l.height
      BY <2>1, <2>4, <3>2, RotatedRight
    <3> QED BY <3>3, <1>1, <2>1 DEF Avl!Larger
  <2>5. CASE l.left.height < l.right.height
    <3>1. w = Avl!RightRotate([y EXCEPT !.left = Avl!LeftRotate(@)])
      BY <1>1, <1>2, <1>4, <1>5, <2>2, <2>3, <2>5, DeleteRotations
    <3>2. [y EXCEPT !.left = Avl!LeftRotate(@)] = Node2(k, h, Avl!LeftRotate(l), v)
      BY DEF y, Node2
    <3>3. w = Avl!RightRotate(Node2(k, h, Avl!LeftRotate(l), v))
      BY <3>1, <3>2
    <3> HIDE DEF h
    <3>4. /\ Good(w) /\ w # NoTree
          /\ Avl!KeysOf(w) = {k} \cup Avl!KeysOf(l) \cup Avl!KeysOf(v)
          /\ w.height = l.height
      BY <2>1, <2>5, <3>3, RotatedLeftRight, SMTT(60)
    <3> QED BY <3>4, <1>1, <2>1 DEF Avl!Larger
  <2> QED BY <2>2, <2>4, <2>5
<1> QED BY <1>6, <1>7

(* A node with another left or right subtree, and with another key too,    *)
(* measured.                                                               *)
LEMMA MeasuredIsMade ==
    ASSUME NEW u, Good(u), u # NoTree, NEW v, NEW k
    PROVE  /\ Avl!Measured([u EXCEPT !.left = v]) = Made(u.key, v, u.right)
           /\ Avl!Measured([u EXCEPT !.right = v]) = Made(u.key, u.left, v)
           /\ Avl!Measured([u EXCEPT !.key = k, !.right = v]) = Made(k, u.left, v)
           /\ [u EXCEPT !.left = v] # NoTree /\ [u EXCEPT !.right = v] # NoTree
           /\ [u EXCEPT !.key = k, !.right = v] # NoTree
<1> DEFINE uk == u.key
           l == u.left
           r == u.right
           h == u.height
<1>1. u = Node2(uk, h, l, r) /\ h # 0
  <2>1. l.height \in Nat /\ r.height \in Nat /\ h = Avl!Larger(l.height, r.height) + 1
    BY GoodRoot
  <2>2. u = Node2(uk, h, l, r)
    BY GoodRoot DEF Node2
  <2> QED BY <2>1, <2>2 DEF Avl!Larger
<1> HIDE DEF uk, l, r, h
<1>2. /\ [u EXCEPT !.left = v] = Node2(uk, h, v, r)
      /\ [u EXCEPT !.right = v] = Node2(uk, h, l, v)
      /\ [u EXCEPT !.key = k, !.right = v] = Node2(k, h, l, v)
  <2>1. [u EXCEPT !.left = v] = Node2(uk, h, v, r)
    BY <1>1 DEF Node2
  <2>2. [u EXCEPT !.right = v] = Node2(uk, h, l, v)
    BY <1>1 DEF Node2
  <2>3. [u EXCEPT !.key = k, !.right = v] = Node2(k, h, l, v)
    <3>1. [u EXCEPT !.key = k, !.right = v] = [[u EXCEPT !.key = k] EXCEPT !.right = v]
      OBVIOUS
    <3>2. [u EXCEPT !.key = k] = Node2(k, h, l, r)
      BY <1>1 DEF Node2
    <3>3. [Node2(k, h, l, r) EXCEPT !.right = v] = Node2(k, h, l, v)
      BY DEF Node2
    <3> QED BY <3>1, <3>2, <3>3
  <2> QED BY <2>1, <2>2, <2>3
<1>3. \A a, b, c : /\ Avl!Measured(Node2(a, h, b, c)) = Made(a, b, c)
                   /\ Node2(a, h, b, c) # NoTree
  <2>1. ASSUME NEW a, NEW b, NEW c PROVE Avl!Measured(Node2(a, h, b, c)) = Made(a, b, c)
    BY DEF Avl!Measured, Avl!Height, Node2, Made
  <2>2. ASSUME NEW a, NEW b, NEW c PROVE Node2(a, h, b, c) # NoTree
    <3>1. Node2(a, h, b, c).height = h
      BY DEF Node2
    <3> QED BY <3>1, <1>1, NoTreeIsGood
  <2> QED BY <2>1, <2>2
<1> QED BY <1>2, <1>3 DEF uk, l, r

(* delete_node removes its key and no other; where there are two subtrees  *)
(* it puts the least key of the right one in its place.                    *)
LEMMA DeletedShrinks ==
    ASSUME NEW t, Good(t), NEW k \in AvlKey
    PROVE  Shrunk(t, Avl!Deleted(t, k), k)
<1>1. PICK f : /\ \A i \in AvlKey : Avl!Deleted(t, i) = f[t][i]
               /\ IsProcedure(f, t, "delete", 0, 0)
  BY DeletedIsProcedure
<1>2. \A x \in AvlKey : f[NoTree][x] = NoTree
  BY <1>1, ProcedureSteps DEF StepAt
<1>3. ASSUME NEW u \in Avl!Nodes(t), NEW x \in AvlKey, NEW w, w = Avl!Without(u, x, f[u.left], f[u.right])
      PROVE  f[u][x] = IF w = NoTree THEN NoTree ELSE Avl!BalancedForDelete(Avl!Measured(w))
  <2>1. f[u] = StepAt("delete", 0, 0, u, f[u.left], f[u.right]) /\ u # NoTree
    BY <1>1, ProcedureSteps, GoodTree
  <2> QED BY <1>3, <2>1 DEF StepAt
<1> DEFINE P == {u \in Avl!Nodes(t) \cup {NoTree} : \A x \in AvlKey : Shrunk(u, f[u][x], x)}
<1>4. NoTree \in P
  BY <1>2, NoTreeIsGood DEF Shrunk
<1>5. ASSUME NEW u \in Avl!Nodes(t), u.left \in P, u.right \in P PROVE u \in P
  <2> DEFINE l == u.left
             r == u.right
             uk == u.key
  <2>1. Good(u) /\ u # NoTree
    BY GoodTree
  <2>2. /\ uk \in AvlKey /\ Good(l) /\ Good(r)
        /\ l.height \in Nat /\ r.height \in Nat /\ u.height = Avl!Larger(l.height, r.height) + 1
        /\ l.height - r.height \in -1 .. 1
        /\ Avl!KeysOf(u) = {uk} \cup Avl!KeysOf(l) \cup Avl!KeysOf(r)
        /\ Below(l, uk) /\ Above(r, uk)
    BY <2>1, GoodRoot, GoodIsMade
  <2>3. /\ uk \in Int /\ Avl!KeysOf(l) \subseteq AvlKey /\ Avl!KeysOf(r) \subseteq AvlKey
        /\ Avl!KeysOf(l) \subseteq Int /\ Avl!KeysOf(r) \subseteq Int
    BY <2>2, GoodTree, KeysAreNumbers
  <2>4. ASSUME NEW x \in AvlKey PROVE Shrunk(u, f[u][x], x)
    <3> DEFINE w == Avl!Without(u, x, f[l], f[r])
               z == Avl!BalancedForDelete(Avl!Measured(w))
    <3>1. f[u][x] = IF w = NoTree THEN NoTree ELSE z
      BY <1>3
    <3>2. x \in Int
      BY KeysAreNumbers
    <3>3. \A i \in AvlKey : Shrunk(l, f[l][i], i) /\ Shrunk(r, f[r][i], i)
      BY <1>5
    <3> HIDE DEF P
    <3>4. CASE x < uk
      <4> DEFINE v == f[l][x]
      <4>1. w = [u EXCEPT !.left = v]
        BY <3>4 DEF Avl!Without
      <4>2. Shrunk(l, v, x)
        BY <3>3
      <4> HIDE DEF v, w, l, r, uk
      <4>3. w # NoTree /\ Avl!Measured(w) = Made(uk, v, r)
        BY <2>1, <4>1, MeasuredIsMade DEF uk, r
      <4>4. /\ Good(v) /\ v.height \in {l.height - 1, l.height}
            /\ Avl!KeysOf(v) = Avl!KeysOf(l) \ {x}
        BY <4>2 DEF Shrunk
      <4>5. Below(v, uk)
        BY <2>2, <4>4 DEF Below
      <4> HIDE DEF z
      <4>6. z = Avl!BalancedForDelete(Made(uk, v, r))
        BY <4>3 DEF z
      <4>7. /\ Good(z) /\ Avl!KeysOf(z) = {uk} \cup Avl!KeysOf(v) \cup Avl!KeysOf(r)
            /\ z.height \in {Avl!Larger(l.height, r.height), Avl!Larger(l.height, r.height) + 1}
        BY <2>2, <4>4, <4>5, <4>6, RebalancedLeft
      <4>8. x # uk /\ x \notin Avl!KeysOf(r)
        BY <2>2, <2>3, <3>2, <3>4 DEF Above
      <4>9. Avl!KeysOf(z) = Avl!KeysOf(u) \ {x}
        BY <2>2, <4>4, <4>7, <4>8
      <4>10. z.height \in {u.height - 1, u.height}
        BY <2>2, <4>7 DEF Avl!Larger
      <4> QED BY <3>1, <4>3, <4>7, <4>9, <4>10 DEF Shrunk
    <3>5. CASE x > uk
      <4> DEFINE v == f[r][x]
      <4>1. w = [u EXCEPT !.right = v]
        BY <2>3, <3>2, <3>5 DEF Avl!Without
      <4>2. Shrunk(r, v, x)
        BY <3>3
      <4> HIDE DEF v, w, l, r, uk
      <4>3. w # NoTree /\ Avl!Measured(w) = Made(uk, l, v)
        BY <2>1, <4>1, MeasuredIsMade DEF uk, l
      <4>4. /\ Good(v) /\ v.height \in {r.height - 1, r.height}
            /\ Avl!KeysOf(v) = Avl!KeysOf(r) \ {x}
        BY <4>2 DEF Shrunk
      <4>5. Above(v, uk)
        BY <2>2, <4>4 DEF Above
      <4> HIDE DEF z
      <4>6. z = Avl!BalancedForDelete(Made(uk, l, v))
        BY <4>3 DEF z
      <4>7. /\ Good(z) /\ Avl!KeysOf(z) = {uk} \cup Avl!KeysOf(v) \cup Avl!KeysOf(l)
            /\ z.height \in {Avl!Larger(l.height, r.height), Avl!Larger(l.height, r.height) + 1}
        BY <2>2, <4>4, <4>5, <4>6, RebalancedRight
      <4>8. x # uk /\ x \notin Avl!KeysOf(l)
        BY <2>2, <2>3, <3>2, <3>5 DEF Below
      <4>9. Avl!KeysOf(z) = Avl!KeysOf(u) \ {x}
        BY <2>2, <4>4, <4>7, <4>8
      <4>10. z.height \in {u.height - 1, u.height}
        BY <2>2, <4>7 DEF Avl!Larger
      <4> QED BY <3>1, <4>3, <4>7, <4>9, <4>10 DEF Shrunk
    <3>6. CASE x = uk
      <4>1. x \notin Avl!KeysOf(l) /\ x \notin Avl!KeysOf(r)
        BY <2>2, <2>3, <3>6 DEF Below, Above
      <4>2. CASE l = NoTree \/ r = NoTree
        <5> DEFINE c == IF l = NoTree THEN r ELSE l
        <5>1. w = c
          BY <2>3, <3>2, <3>6, <4>2 DEF Avl!Without, NoTree
        <5> HIDE DEF w, z, l, r, uk
        <5>2. l = NoTree => l.height = 0 /\ Avl!KeysOf(l) = {}
          BY NoTreeIsGood
        <5>3. r = NoTree => r.height = 0 /\ Avl!KeysOf(r) = {}
          BY NoTreeIsGood
        <5>4. Good(c)
          BY <2>2
        <5>5. Avl!KeysOf(c) = Avl!KeysOf(u) \ {x}
          BY <2>2, <3>6, <4>1, <4>2, <5>2, <5>3
        <5>6. c.height \in {u.height - 1, u.height}
          BY <2>2, <4>2, <5>2, <5>3 DEF Avl!Larger
        <5> HIDE DEF c
        <5>7. c # NoTree => z = c
          <6>1. ASSUME c # NoTree PROVE Avl!Measured(c) = c /\ Avl!BalancedForDelete(c) = c
            <7>1. /\ c.left.height \in Nat /\ c.right.height \in Nat
                  /\ c.left.height - c.right.height \in -1 .. 1
              BY <5>4, <6>1, GoodRoot
            <7> QED BY <5>4, <6>1, <7>1, MeasuredAgain, DeleteRotations
          <6> QED BY <5>1, <6>1 DEF z
        <5>8. f[u][x] = c
          BY <3>1, <5>1, <5>7
        <5> QED BY <5>4, <5>5, <5>6, <5>8 DEF Shrunk
      <4>3. CASE l # NoTree /\ r # NoTree
        <5> DEFINE next == Avl!MinValueNode(r).key
                   v == f[r][next]
        <5>1. w = [u EXCEPT !.key = next, !.right = v]
          BY <2>3, <3>2, <3>6, <4>3 DEF Avl!Without, NoTree
        <5>2. next \in Avl!KeysOf(r) /\ \A i \in Avl!KeysOf(r) : next <= i
          BY <2>2, <4>3, MinIsLeast
        <5> HIDE DEF next
        <5>3. next \in AvlKey /\ next \in Int /\ uk < next
          BY <2>2, <2>3, <5>2 DEF Above
        <5>4. Shrunk(r, v, next)
          BY <3>3, <5>3
        <5> HIDE DEF v, w, l, r, uk
        <5>5. w # NoTree /\ Avl!Measured(w) = Made(next, l, v)
          BY <2>1, <5>1, MeasuredIsMade DEF l
        <5>6. /\ Good(v) /\ v.height \in {r.height - 1, r.height}
              /\ Avl!KeysOf(v) = Avl!KeysOf(r) \ {next}
          BY <5>4 DEF Shrunk
        <5>7. Above(v, next)
          BY <2>3, <5>2, <5>3, <5>6 DEF Above
        <5>8. Below(l, next)
          BY <2>2, <2>3, <5>3 DEF Below
        <5> HIDE DEF z
        <5>9. z = Avl!BalancedForDelete(Made(next, l, v))
          BY <5>5 DEF z
        <5>10. /\ Good(z) /\ Avl!KeysOf(z) = {next} \cup Avl!KeysOf(v) \cup Avl!KeysOf(l)
               /\ z.height \in {Avl!Larger(l.height, r.height), Avl!Larger(l.height, r.height) + 1}
          BY <2>2, <5>3, <5>6, <5>7, <5>8, <5>9, RebalancedRight
        <5>11. Avl!KeysOf(z) = Avl!KeysOf(u) \ {x}
          BY <2>2, <3>6, <4>1, <5>2, <5>6, <5>10
        <5>12. z.height \in {u.height - 1, u.height}
          BY <2>2, <5>10 DEF Avl!Larger
        <5> QED BY <3>1, <5>5, <5>10, <5>11, <5>12 DEF Shrunk
      <4> QED BY <4>2, <4>3
    <3> QED BY <2>3, <3>2, <3>4, <3>5, <3>6
  <2> QED BY <2>4
<1>6. t \in P
  <2> HIDE DEF P
  <2> QED BY <1>4, <1>5, GoodInduction
<1> QED BY <1>1, <1>6

(* A tree has finitely many keys.                                          *)
LEMMA KeysFinite ==
    ASSUME NEW t, Good(t)
    PROVE  IsFiniteSet(Avl!KeysOf(t))
<1> DEFINE P == {u \in Avl!Nodes(t) \cup {NoTree} : IsFiniteSet(Avl!KeysOf(u))}
<1>1. NoTree \in P
  BY NoTreeIsGood, FS_EmptySet
<1>2. ASSUME NEW u \in Avl!Nodes(t), u.left \in P, u.right \in P PROVE u \in P
  <2>1. Avl!KeysOf(u) = {u.key} \cup Avl!KeysOf(u.left) \cup Avl!KeysOf(u.right)
    BY GoodTree, GoodRoot
  <2>2. IsFiniteSet(Avl!KeysOf(u.left) \cup Avl!KeysOf(u.right))
    BY <1>2, FS_Union
  <2>3. Avl!KeysOf(u) = (Avl!KeysOf(u.left) \cup Avl!KeysOf(u.right)) \cup {u.key}
    BY <2>1
  <2>4. IsFiniteSet(Avl!KeysOf(u))
    BY <2>2, <2>3, FS_AddElement
  <2> QED BY <2>4
<1>3. t \in P
  <2> HIDE DEF P
  <2> QED BY <1>1, <1>2, GoodInduction
<1> QED BY <1>3

(* A sequence that goes up.                                                *)
Rising(s) == \A i, j \in 1 .. Len(s) : i < j => s[i] < s[j]

(* Two of them, one below the other, joined.                               *)
LEMMA RisingJoined ==
    ASSUME NEW S \in SUBSET Int, NEW Z \in SUBSET Int, NEW s \in Seq(S), NEW t \in Seq(Z),
           Rising(s), Rising(t), \A a \in S, b \in Z : a < b
    PROVE  Rising(s \o t)
<1> DEFINE c == s \o t
           m == Len(s)
           n == Len(t)
<1>1. /\ m \in Nat /\ n \in Nat /\ s \in [1 .. m -> S] /\ t \in [1 .. n -> Z]
  BY LenProperties
<1>2. s \in Seq(Int) /\ t \in Seq(Int)
  <2>1. s \in [1 .. m -> Int] /\ t \in [1 .. n -> Int]
    BY <1>1
  <2> QED BY <1>1, <2>1, IntervalIsSeq
<1>3. /\ Len(c) = m + n
      /\ \A i \in 1 .. m + n : c[i] = IF i <= m THEN s[i] ELSE t[i - m]
  BY <1>2, ConcatProperties
<1> HIDE DEF c
<1>4. ASSUME NEW i \in 1 .. m + n, NEW j \in 1 .. m + n, i < j PROVE c[i] < c[j]
  <2>1. CASE j <= m
    <3>1. i \in 1 .. m /\ j \in 1 .. m /\ i <= m
      BY <1>1, <1>4, <2>1
    <3>2. c[i] = s[i] /\ c[j] = s[j]
      BY <1>3, <2>1, <3>1
    <3> QED BY <1>4, <3>1, <3>2 DEF Rising
  <2>2. CASE i > m
    <3>1. i - m \in 1 .. n /\ j - m \in 1 .. n /\ i - m < j - m /\ ~ (i <= m) /\ ~ (j <= m)
      BY <1>1, <1>4, <2>2
    <3>2. c[i] = t[i - m] /\ c[j] = t[j - m]
      BY <1>3, <3>1
    <3> QED BY <3>1, <3>2 DEF Rising
  <2>3. CASE i <= m /\ j > m
    <3>1. i \in 1 .. m /\ j - m \in 1 .. n /\ ~ (j <= m)
      BY <1>1, <1>4, <2>3
    <3>2. c[i] \in S /\ c[j] \in Z
      BY <1>1, <1>3, <2>3, <3>1
    <3> QED BY <3>2
  <2> QED BY <1>1, <2>1, <2>2, <2>3
<1> QED BY <1>3, <1>4 DEF Rising, c

(* A walk meets every key once, the one in order in ascending order.       *)
LEMMA WalkMeets ==
    ASSUME NEW t, Good(t), NEW order \in {"pre_order", "in_order", "post_order"}
    PROVE  /\ ListsOnce(Avl!Walk(t, order), Avl!KeysOf(t))
           /\ order = "in_order" => Rising(Avl!Walk(t, order))
<1>1. PICK f : Avl!Walk(t, order) = f[t] /\ IsProcedure(f, t, "walk", 0, order)
  BY WalkIsProcedure
<1>2. f[NoTree] = <<>>
  BY <1>1, ProcedureSteps DEF StepAt
<1> DEFINE P == {u \in Avl!Nodes(t) \cup {NoTree} :
                    ListsOnce(f[u], Avl!KeysOf(u)) /\ (order = "in_order" => Rising(f[u]))}
<1>3. NoTree \in P
  <2>1. Rising(<<>>)
    BY DEF Rising
  <2> QED BY <1>2, <2>1, ShortLists, NoTreeIsGood
<1>4. ASSUME NEW u \in Avl!Nodes(t), u.left \in P, u.right \in P PROVE u \in P
  <2> DEFINE uk == u.key
             l == f[u.left]
             r == f[u.right]
             L == Avl!KeysOf(u.left)
             R == Avl!KeysOf(u.right)
  <2>1. Good(u) /\ u # NoTree
    BY GoodTree
  <2>2. /\ uk \in AvlKey /\ Avl!KeysOf(u) = {uk} \cup L \cup R /\ Good(u.left) /\ Good(u.right)
        /\ Below(u.left, uk) /\ Above(u.right, uk)
    BY <2>1, GoodRoot, GoodIsMade
  <2>3. uk \in Int /\ L \subseteq Int /\ R \subseteq Int
    BY <2>2, GoodTree, KeysAreNumbers
  <2>4. (\A i \in L : i < uk) /\ (\A i \in R : uk < i)
    BY <2>2 DEF Below, Above
  <2>5. f[u] = Avl!Met(uk, l, r, order)
    <3>1. f[u] = StepAt("walk", 0, order, u, f[u.left], f[u.right])
      BY <1>1, ProcedureSteps
    <3> QED BY <2>1, <3>1 DEF StepAt
  <2>6. ListsOnce(l, L) /\ ListsOnce(r, R) /\ (order = "in_order" => Rising(l) /\ Rising(r))
    BY <1>4
  <2> HIDE DEF uk, l, r, L, R
  <2>7. ListsOnce(<<uk>>, {uk}) /\ L \cap R = {} /\ L \cap {uk} = {} /\ R \cap {uk} = {}
    <3>1. \A i \in L : i # uk /\ i \notin R
      BY <2>3, <2>4
    <3>2. \A i \in R : i # uk
      BY <2>3, <2>4
    <3> QED BY <3>1, <3>2, ShortLists
  <2>8. ListsOnce(<<uk>> \o l, {uk} \cup L) /\ ListsOnce(l \o <<uk>>, L \cup {uk}) /\ ListsOnce(l \o r, L \cup R)
    <3>1. {uk} \cap L = {}
      BY <2>7
    <3> QED BY <2>6, <2>7, <3>1, ListsJoined
  <2>9. CASE order = "pre_order"
    <3>1. f[u] = (<<uk>> \o l) \o r
      BY <2>5, <2>9 DEF Avl!Met
    <3>2. ({uk} \cup L) \cap R = {} /\ Avl!KeysOf(u) = ({uk} \cup L) \cup R
      BY <2>2, <2>7
    <3>3. ListsOnce((<<uk>> \o l) \o r, ({uk} \cup L) \cup R)
      BY <2>6, <2>8, <3>2, ListsJoined
    <3> QED BY <2>9, <3>1, <3>2, <3>3
  <2>10. CASE order = "in_order"
    <3>1. f[u] = (l \o <<uk>>) \o r
      BY <2>5, <2>10 DEF Avl!Met
    <3>2. (L \cup {uk}) \cap R = {} /\ Avl!KeysOf(u) = (L \cup {uk}) \cup R
      BY <2>2, <2>7
    <3>3. ListsOnce((l \o <<uk>>) \o r, (L \cup {uk}) \cup R)
      BY <2>6, <2>8, <3>2, ListsJoined
    <3>4. Rising(l \o <<uk>>)
      <4>1. Rising(<<uk>>)
        BY DEF Rising
      <4>2. l \in Seq(L) /\ <<uk>> \in Seq({uk})
        BY <2>6, <2>7 DEF ListsOnce
      <4>3. \A a \in L, b \in {uk} : a < b
        BY <2>4
      <4>4. L \in SUBSET Int /\ {uk} \in SUBSET Int
        BY <2>3
      <4>5. Rising(l)
        BY <2>6, <2>10
      <4> QED BY <4>1, <4>2, <4>3, <4>4, <4>5, RisingJoined
    <3>5. Rising((l \o <<uk>>) \o r)
      <4>1. l \o <<uk>> \in Seq(L \cup {uk}) /\ r \in Seq(R)
        BY <2>6, <2>8 DEF ListsOnce
      <4>2. \A a \in L \cup {uk}, b \in R : a < b
        <5>1. ASSUME NEW a \in L, NEW b \in R PROVE a < b
          <6>1. a < uk /\ uk < b /\ a \in Int /\ b \in Int
            BY <2>3, <2>4
          <6> QED BY <6>1, <2>3
        <5> QED BY <2>4, <5>1
      <4>3. L \cup {uk} \in SUBSET Int /\ R \in SUBSET Int
        BY <2>3
      <4> QED BY <2>6, <2>10, <3>4, <4>1, <4>2, <4>3, RisingJoined
    <3> QED BY <3>1, <3>2, <3>3, <3>5
  <2>11. CASE order = "post_order"
    <3>1. f[u] = (l \o r) \o <<uk>>
      BY <2>5, <2>11 DEF Avl!Met
    <3>2. (L \cup R) \cap {uk} = {} /\ Avl!KeysOf(u) = (L \cup R) \cup {uk}
      BY <2>2, <2>7
    <3>3. ListsOnce((l \o r) \o <<uk>>, (L \cup R) \cup {uk})
      BY <2>7, <2>8, <3>2, ListsJoined
    <3> QED BY <2>11, <3>1, <3>2, <3>3
  <2> QED BY <2>9, <2>10, <2>11
<1>5. t \in P
  <2> HIDE DEF P
  <2> QED BY <1>3, <1>4, GoodInduction
<1> QED BY <1>1, <1>5

(* The invariant: the tree stays a balanced search tree, also while it is  *)
(* not alive, and num_el is what it holds and what was lost.               *)
IsReply(r) == /\ r.op \in {"new", "free", "insert", "delete", "pre_order", "in_order", "post_order"}
              /\ r.key \in AvlKey \cup {Null} /\ r.code \in {0, 1} /\ r.out \in Seq(AvlKey)
AvlInv ==
    /\ Good(avl_root)
    /\ avl_num_el \in Nat /\ leaked \in 0 .. MaxLeaked /\ alive \in BOOLEAN
    /\ IsReply(avl_reply)
    /\ alive => avl_num_el = Cardinality(Avl!KeysOf(avl_root)) + leaked

(* The answers of the calls.                                               *)
LEMMA RepliesAre ==
    ASSUME NEW op \in {"new", "free", "insert", "delete", "pre_order", "in_order", "post_order"},
           NEW k \in AvlKey \cup {Null}, NEW code \in {0, 1}, NEW out \in Seq(AvlKey)
    PROVE  IsReply(Avl!Answer(op, k, code, out))
  BY DEF IsReply, Avl!Answer

(* A set with a key more, and with one less.                               *)
LEMMA KeysCounted ==
    ASSUME NEW t, Good(t), NEW k
    PROVE  /\ Cardinality(Avl!KeysOf(t)) \in Nat
           /\ k \notin Avl!KeysOf(t) => Cardinality(Avl!KeysOf(t) \cup {k}) = Cardinality(Avl!KeysOf(t)) + 1
           /\ k \in Avl!KeysOf(t) => Cardinality(Avl!KeysOf(t) \ {k}) = Cardinality(Avl!KeysOf(t)) - 1
  BY KeysFinite, FS_CardinalityType, FS_AddElement, FS_RemoveElement

(* avl_insert of a key that is new, and a block for it to be had.          *)
LEMMA AvlInsert ==
    ASSUME AvlInv, NEW k \in AvlKey, Avl!Insert(k)
    PROVE  AvlInv' /\ Avl!O!Insert(k)
<1>1. /\ alive /\ Avl!Sub(avl_root, k) = NoTree
      /\ avl_root' = Avl!Inserted(avl_root, k, Avl!Leaf(k))
      /\ avl_num_el' = avl_num_el + 1 /\ avl_reply' = Avl!Answer("insert", k, 0, <<>>)
      /\ leaked' = leaked /\ alive' = alive
  BY DEF Avl!Insert, Avl!Holds, NoTree
<1>2. Good(avl_root) /\ avl_num_el \in Nat /\ leaked \in 0 .. MaxLeaked /\ alive \in BOOLEAN
      /\ avl_num_el = Cardinality(Avl!KeysOf(avl_root)) + leaked
  BY <1>1 DEF AvlInv
<1>3. k \notin Avl!KeysOf(avl_root)
  <2>1. \A u \in Avl!Nodes(avl_root) : u # NoTree
    BY <1>2, GoodTree
  <2> QED BY <1>1, <1>2, <2>1, SearchFinds
<1>4. Good(avl_root') /\ Avl!KeysOf(avl_root') = Avl!KeysOf(avl_root) \cup {k}
  BY <1>1, <1>2, <1>3, InsertedGrows DEF Grown
<1>5. Cardinality(Avl!KeysOf(avl_root')) = Cardinality(Avl!KeysOf(avl_root)) + 1
  BY <1>2, <1>3, <1>4, KeysCounted
<1>6. IsReply(avl_reply')
  <2>1. <<>> \in Seq(AvlKey)
    OBVIOUS
  <2> QED BY <1>1, <2>1, RepliesAre
<1>7. Cardinality(Avl!KeysOf(avl_root)) \in Nat
  BY <1>2, KeysCounted
<1>8. AvlInv'
  BY <1>1, <1>2, <1>4, <1>5, <1>6, <1>7, KeysAreNumbers DEF AvlInv
<1>9. Avl!O!Insert(k)
  BY <1>1, <1>3, <1>4 DEF Avl!O!Insert, Avl!O!Answer, Avl!Answer
<1> QED BY <1>8, <1>9

(* avl_insert of a key that is there already, or without memory.           *)
LEMMA AvlInsertFails ==
    ASSUME AvlInv, NEW k \in AvlKey, Avl!InsertFails(k)
    PROVE  AvlInv' /\ Avl!O!Refuse(k)
<1>1. /\ avl_root' = IF avl_root = NoTree THEN NoTree
                     ELSE Avl!Sub(Avl!Inserted(avl_root, k, NoTree), avl_root.key)
      /\ avl_num_el' = avl_num_el /\ avl_reply' = Avl!Answer("insert", k, 1, <<>>)
      /\ leaked' = leaked /\ alive' = alive
  BY DEF Avl!InsertFails, NoTree
<1>2. Good(avl_root)
  BY DEF AvlInv
<1>3. avl_root' = avl_root
  BY <1>1, <1>2, FailedInsertKeeps
<1>4. IsReply(avl_reply')
  <2>1. <<>> \in Seq(AvlKey)
    OBVIOUS
  <2> QED BY <1>1, <2>1, RepliesAre
<1>5. AvlInv'
  BY <1>1, <1>3, <1>4 DEF AvlInv
<1>6. Avl!O!Refuse(k)
  BY <1>1, <1>3 DEF Avl!O!Refuse, Avl!O!Answer, Avl!Answer
<1> QED BY <1>5, <1>6

(* The node that a deletion unlinks is of the tree, and so is its child.   *)
LEMMA UnlinkedInside ==
    ASSUME Good(avl_root), NEW k \in AvlKey, k \in Avl!KeysOf(avl_root)
    PROVE  ~ Avl!IsLeaf(Avl!Unlinked(k)) => Avl!HandedOver(k) \in Avl!KeysOf(avl_root)
<1> DEFINE t == Avl!Sub(avl_root, k)
           M == Avl!Nodes(avl_root)
           n == Avl!Unlinked(k)
           c == IF n.left # NoTree THEN n.left ELSE n.right
<1>1. t \in M
  BY SearchFinds
<1>2. /\ Even(M) /\ \A u \in M : u.left \in M \cup {NoTree} /\ u.right \in M \cup {NoTree}
      /\ \A u \in M : Good(u.right) /\ u.key \in Avl!KeysOf(avl_root)
  BY GoodTree
<1>3. n = IF t.left # NoTree /\ t.right # NoTree THEN Avl!MinValueNode(t.right) ELSE t
  BY DEF Avl!Unlinked, NoTree
<1>4. Avl!HandedOver(k) = c.key /\ (Avl!IsLeaf(n) <=> n.left = NoTree /\ n.right = NoTree)
  BY DEF Avl!HandedOver, Avl!IsLeaf, NoTree
<1> HIDE DEF M, t, n
<1>5. n \in M
  <2>1. CASE t.left # NoTree /\ t.right # NoTree
    <3>1. t.right \in M /\ Good(t.right)
      BY <1>1, <1>2, <2>1
    <3>2. n \in Avl!Nodes(t.right)
      BY <1>3, <2>1, <3>1, MinIsLeast
    <3>3. Avl!Nodes(t.right) \subseteq M
      BY <1>2, <3>1, EvenNodes
    <3> QED BY <3>2, <3>3
  <2> QED BY <1>1, <1>3, <2>1
<1>6. ASSUME ~ Avl!IsLeaf(n) PROVE c \in M
  BY <1>2, <1>4, <1>5, <1>6
<1> QED BY <1>2, <1>4, <1>6 DEF n

(* avl_delete where the node unlinked has a child.                         *)
LEMMA AvlDelete ==
    ASSUME AvlInv, NEW k \in AvlKey, Avl!Delete(k)
    PROVE  AvlInv' /\ Avl!O!Delete(k, 0)
<1>1. /\ alive /\ Avl!Sub(avl_root, k) # NoTree /\ ~ Avl!IsLeaf(Avl!Unlinked(k))
      /\ avl_root' = Avl!Deleted(avl_root, k)
      /\ avl_num_el' = avl_num_el - 1
      /\ avl_reply' = Avl!Answer("delete", k, 0, <<Avl!HandedOver(k)>>)
      /\ leaked' = leaked /\ alive' = alive
  BY DEF Avl!Delete, Avl!Holds, NoTree
<1>2. Good(avl_root) /\ avl_num_el \in Nat /\ leaked \in 0 .. MaxLeaked /\ alive \in BOOLEAN
      /\ avl_num_el = Cardinality(Avl!KeysOf(avl_root)) + leaked
  BY <1>1 DEF AvlInv
<1>3. k \in Avl!KeysOf(avl_root)
  BY <1>1, <1>2, SearchFinds
<1>4. Good(avl_root') /\ Avl!KeysOf(avl_root') = Avl!KeysOf(avl_root) \ {k}
  BY <1>1, <1>2, DeletedShrinks DEF Shrunk
<1>5. /\ Cardinality(Avl!KeysOf(avl_root')) = Cardinality(Avl!KeysOf(avl_root)) - 1
      /\ Cardinality(Avl!KeysOf(avl_root')) \in Nat
  BY <1>2, <1>3, <1>4, KeysCounted
<1>6. Avl!HandedOver(k) \in Avl!KeysOf(avl_root) /\ Avl!HandedOver(k) \in AvlKey
  BY <1>1, <1>2, <1>3, UnlinkedInside, GoodTree
<1>7. IsReply(avl_reply')
  <2>1. <<Avl!HandedOver(k)>> \in Seq(AvlKey)
    BY <1>6
  <2> QED BY <1>1, <2>1, RepliesAre
<1>8. Cardinality(Avl!KeysOf(avl_root)) \in Nat
  BY <1>2, KeysCounted
<1>9. avl_num_el' \in Nat /\ avl_num_el' = Cardinality(Avl!KeysOf(avl_root')) + leaked
  BY <1>1, <1>2, <1>5, <1>8, KeysAreNumbers
<1>10. AvlInv'
  BY <1>1, <1>2, <1>4, <1>7, <1>9 DEF AvlInv
<1>11. Avl!O!Delete(k, 0)
  BY <1>1, <1>3, <1>4, <1>6 DEF Avl!O!Delete, Avl!O!Answer, Avl!Answer
<1> QED BY <1>10, <1>11

(* avl_delete where it is a leaf: the key goes, the block is lost.         *)
LEMMA AvlDeleteLeaf ==
    ASSUME AvlInv, NEW k \in AvlKey, Avl!DeleteLeaf(k)
    PROVE  AvlInv' /\ Avl!O!Delete(k, 1)
<1>1. /\ alive /\ Avl!Sub(avl_root, k) # NoTree /\ leaked < MaxLeaked
      /\ avl_root' = Avl!Deleted(avl_root, k)
      /\ avl_num_el' = avl_num_el
      /\ avl_reply' = Avl!Answer("delete", k, 1, <<>>)
      /\ leaked' = leaked + 1 /\ alive' = alive
  BY DEF Avl!DeleteLeaf, Avl!Holds, NoTree
<1>2. Good(avl_root) /\ avl_num_el \in Nat /\ leaked \in 0 .. MaxLeaked /\ alive \in BOOLEAN
      /\ avl_num_el = Cardinality(Avl!KeysOf(avl_root)) + leaked
  BY <1>1 DEF AvlInv
<1>3. k \in Avl!KeysOf(avl_root)
  BY <1>1, <1>2, SearchFinds
<1>4. Good(avl_root') /\ Avl!KeysOf(avl_root') = Avl!KeysOf(avl_root) \ {k}
  BY <1>1, <1>2, DeletedShrinks DEF Shrunk
<1>5. Cardinality(Avl!KeysOf(avl_root')) = Cardinality(Avl!KeysOf(avl_root)) - 1
  BY <1>2, <1>3, <1>4, KeysCounted
<1>6. IsReply(avl_reply')
  <2>1. <<>> \in Seq(AvlKey)
    OBVIOUS
  <2> QED BY <1>1, <2>1, RepliesAre
<1>7. Cardinality(Avl!KeysOf(avl_root)) \in Nat
  BY <1>2, KeysCounted
<1>8. /\ leaked' \in 0 .. MaxLeaked
      /\ avl_num_el' = Cardinality(Avl!KeysOf(avl_root')) + leaked'
  BY <1>1, <1>2, <1>5, <1>7, KeysAreNumbers
<1>9. AvlInv'
  BY <1>1, <1>2, <1>4, <1>6, <1>8 DEF AvlInv
<1>10. Avl!O!Delete(k, 1)
  BY <1>1, <1>3, <1>4 DEF Avl!O!Delete, Avl!O!Answer, Avl!Answer
<1> QED BY <1>9, <1>10

(* avl_delete of a key that is not there.                                  *)
LEMMA AvlDeleteMissing ==
    ASSUME AvlInv, NEW k \in AvlKey, Avl!DeleteMissing(k)
    PROVE  AvlInv' /\ Avl!O!Delete(k, 1)
<1>1. /\ alive /\ Avl!Sub(avl_root, k) = NoTree
      /\ avl_root' = Avl!Deleted(avl_root, k)
      /\ avl_num_el' = avl_num_el
      /\ avl_reply' = Avl!Answer("delete", k, 1, <<>>)
      /\ leaked' = leaked /\ alive' = alive
  BY DEF Avl!DeleteMissing, Avl!Holds, NoTree
<1>2. Good(avl_root)
  BY DEF AvlInv
<1>3. k \notin Avl!KeysOf(avl_root)
  <2>1. \A u \in Avl!Nodes(avl_root) : u # NoTree
    BY <1>2, GoodTree
  <2> QED BY <1>1, <1>2, <2>1, SearchFinds
<1>4. Good(avl_root') /\ Avl!KeysOf(avl_root') = Avl!KeysOf(avl_root) \ {k}
  BY <1>1, <1>2, DeletedShrinks DEF Shrunk
<1>5. Avl!KeysOf(avl_root') = Avl!KeysOf(avl_root)
  BY <1>3, <1>4
<1>6. IsReply(avl_reply')
  <2>1. <<>> \in Seq(AvlKey)
    OBVIOUS
  <2> QED BY <1>1, <2>1, RepliesAre
<1>7. AvlInv'
  BY <1>1, <1>4, <1>5, <1>6 DEF AvlInv
<1>8. Avl!O!Delete(k, 1)
  BY <1>1, <1>4 DEF Avl!O!Delete, Avl!O!Answer, Avl!Answer
<1> QED BY <1>7, <1>8

(* A walk with memory for all that it meets.                               *)
LEMMA AvlTraverse ==
    ASSUME AvlInv, NEW order \in {"pre_order", "in_order", "post_order"}, Avl!Traverse(order)
    PROVE  AvlInv' /\ Avl!O!Walk(order)
<1> DEFINE w == Avl!Walk(avl_root, order)
<1>1. /\ alive /\ avl_reply' = Avl!Answer(order, Null, 0, w)
      /\ avl_root' = avl_root /\ avl_num_el' = avl_num_el /\ leaked' = leaked /\ alive' = alive
  BY DEF Avl!Traverse
<1>2. Good(avl_root)
  BY DEF AvlInv
<1>3. ListsOnce(w, Avl!KeysOf(avl_root)) /\ (order = "in_order" => Rising(w))
  BY <1>2, WalkMeets
<1> HIDE DEF w
<1>4. w \in Seq(AvlKey) /\ Len(w) \in Nat /\ w \in [1 .. Len(w) -> AvlKey] /\ DOMAIN w = 1 .. Len(w)
  <2>1. Avl!KeysOf(avl_root) \subseteq AvlKey
    BY <1>2, GoodTree
  <2>2. w \in Seq(Avl!KeysOf(avl_root))
    BY <1>3 DEF ListsOnce
  <2>3. w \in [1 .. Len(w) -> AvlKey] /\ Len(w) \in Nat
    BY <2>1, <2>2, LenProperties
  <2> QED BY <2>3, IntervalIsSeq
<1>5. IsReply(avl_reply')
  BY <1>1, <1>4, RepliesAre
<1>6. AvlInv'
  BY <1>1, <1>5 DEF AvlInv
<1>7. Avl!O!ToSet(w) = Avl!KeysOf(avl_root)
  BY <1>3, ListedOnce DEF Avl!O!ToSet, ToSet
<1>8. Avl!O!IsInjective(w)
  BY <1>3, <1>4 DEF Avl!O!IsInjective, ListsOnce
<1>9. order = "in_order" => Avl!O!Ascending(w)
  <2>1. \A i \in 1 .. Len(w) - 1 : i \in 1 .. Len(w) /\ i + 1 \in 1 .. Len(w) /\ i < i + 1
    BY <1>4
  <2> QED BY <1>3, <2>1 DEF Rising, Avl!O!Ascending
<1>10. /\ avl_reply'.op = order /\ avl_reply'.key = Null /\ avl_reply'.code = 0
       /\ avl_reply'.out = w
  BY <1>1 DEF Avl!Answer
<1>11. Avl!O!Walk(order)
  BY <1>1, <1>7, <1>8, <1>9, <1>10 DEF Avl!O!Walk
<1> QED BY <1>6, <1>11

(* A walk without.                                                         *)
LEMMA AvlTraverseFails ==
    ASSUME AvlInv, NEW order \in {"pre_order", "in_order", "post_order"}, Avl!TraverseFails(order)
    PROVE  AvlInv' /\ Avl!O!WalkFails(order)
<1>1. /\ avl_reply' = Avl!Answer(order, Null, 1, <<>>)
      /\ avl_root' = avl_root /\ avl_num_el' = avl_num_el /\ leaked' = leaked /\ alive' = alive
  BY DEF Avl!TraverseFails
<1>2. IsReply(avl_reply')
  <2>1. <<>> \in Seq(AvlKey)
    OBVIOUS
  <2> QED BY <1>1, <2>1, RepliesAre
<1>3. AvlInv'
  BY <1>1, <1>2 DEF AvlInv
<1>4. Avl!O!WalkFails(order)
  BY <1>1 DEF Avl!O!WalkFails, Avl!O!Answer, Avl!Answer
<1> QED BY <1>3, <1>4

(* avl_tree_free.                                                          *)
LEMMA AvlFree ==
    ASSUME AvlInv, Avl!Free
    PROVE  AvlInv' /\ Avl!O!Clear("free")
<1>1. /\ avl_reply' = Avl!Answer("free", Null, 0, <<>>)
      /\ avl_root' = avl_root /\ avl_num_el' = 0 /\ leaked' = leaked /\ alive' = FALSE
  BY DEF Avl!Free
<1>2. IsReply(avl_reply')
  <2>1. <<>> \in Seq(AvlKey)
    OBVIOUS
  <2> QED BY <1>1, <2>1, RepliesAre
<1>3. AvlInv'
  BY <1>1, <1>2 DEF AvlInv
<1>4. Avl!O!Clear("free")
  BY <1>1 DEF Avl!O!Clear, Avl!O!Answer, Avl!Answer
<1> QED BY <1>3, <1>4

(* A new tree is empty.                                                    *)
LEMMA NewAvl ==
    ASSUME avl_root = NoTree, avl_num_el = 0, leaked = 0, alive = TRUE,
           avl_reply = Avl!Answer("new", Null, 0, <<>>)
    PROVE  AvlInv
<1>1. IsReply(avl_reply)
  <2>1. <<>> \in Seq(AvlKey)
    OBVIOUS
  <2> QED BY <2>1, RepliesAre
<1>2. Cardinality(Avl!KeysOf(avl_root)) = 0
  BY NoTreeIsGood, FS_EmptySet
<1> QED BY <1>1, <1>2, NoTreeIsGood, KeysAreNumbers DEF AvlInv

(* avl_tree_new after it.                                                  *)
LEMMA AvlRenew ==
    ASSUME AvlInv, Avl!Renew
    PROVE  AvlInv' /\ Avl!O!Clear("new")
<1>1. /\ avl_reply' = Avl!Answer("new", Null, 0, <<>>)
      /\ avl_root' = NoTree /\ avl_num_el' = 0 /\ leaked' = 0 /\ alive' = TRUE
  BY DEF Avl!Renew, NoTree
<1>2. IsReply(avl_reply')
  <2>1. <<>> \in Seq(AvlKey)
    OBVIOUS
  <2> QED BY <1>1, <2>1, RepliesAre
<1>3. Avl!KeysOf(avl_root') = {} /\ Cardinality(Avl!KeysOf(avl_root')) = 0
  BY <1>1, NoTreeIsGood, FS_EmptySet
<1>4. AvlInv'
  BY <1>1, <1>2, <1>3, NoTreeIsGood, KeysAreNumbers DEF AvlInv
<1>5. Avl!O!Clear("new")
  BY <1>1, <1>3 DEF Avl!O!Clear, Avl!O!Answer, Avl!Answer
<1> QED BY <1>4, <1>5

(* Every step of the AVL tree is a call on the ordered set, and keeps the  *)
(* invariant.                                                              *)
LEMMA AvlSteps ==
    ASSUME AvlInv, Avl!Next
    PROVE  AvlInv' /\ Avl!O!Next
<1>1. ASSUME NEW k \in AvlKey, Avl!Insert(k) PROVE AvlInv' /\ Avl!O!Next
  BY <1>1, AvlInsert DEF Avl!O!Next
<1>2. ASSUME NEW k \in AvlKey, Avl!InsertFails(k) PROVE AvlInv' /\ Avl!O!Next
  BY <1>2, AvlInsertFails DEF Avl!O!Next
<1>3. ASSUME NEW k \in AvlKey, Avl!Delete(k) PROVE AvlInv' /\ Avl!O!Next
  BY <1>3, AvlDelete DEF Avl!O!Next
<1>4. ASSUME NEW k \in AvlKey, Avl!DeleteLeaf(k) PROVE AvlInv' /\ Avl!O!Next
  BY <1>4, AvlDeleteLeaf DEF Avl!O!Next
<1>5. ASSUME NEW k \in AvlKey, Avl!DeleteMissing(k) PROVE AvlInv' /\ Avl!O!Next
  BY <1>5, AvlDeleteMissing DEF Avl!O!Next
<1>6. ASSUME NEW order \in {"pre_order", "in_order", "post_order"}, Avl!Traverse(order)
      PROVE  AvlInv' /\ Avl!O!Next
  BY <1>6, AvlTraverse DEF Avl!O!Next, Avl!O!Orders
<1>7. ASSUME NEW order \in {"pre_order", "in_order", "post_order"}, Avl!TraverseFails(order)
      PROVE  AvlInv' /\ Avl!O!Next
  BY <1>7, AvlTraverseFails DEF Avl!O!Next, Avl!O!Orders
<1>8. ASSUME Avl!Free PROVE AvlInv' /\ Avl!O!Next
  BY <1>8, AvlFree DEF Avl!O!Next
<1>9. ASSUME Avl!Renew PROVE AvlInv' /\ Avl!O!Next
  BY <1>9, AvlRenew DEF Avl!O!Next
<1> QED BY <1>1, <1>2, <1>3, <1>4, <1>5, <1>6, <1>7, <1>8, <1>9 DEF Avl!Next

(* The first tree is empty.                                                *)
LEMMA AvlBegins ==
    ASSUME TreesInit
    PROVE  AvlInv /\ Avl!O!Init
<1>1. /\ avl_root = NoTree /\ avl_num_el = 0 /\ leaked = 0 /\ alive = TRUE
      /\ avl_reply = Avl!Answer("new", Null, 0, <<>>)
  BY DEF TreesInit, Avl!Init, NoTree
<1>2. Avl!KeysOf(avl_root) = {}
  BY <1>1, NoTreeIsGood
<1> QED BY <1>1, <1>2, NewAvl DEF Avl!O!Init, Avl!O!Answer, Avl!Answer

(* The same of the steps of both trees.                                    *)
LEMMA TreesStep ==
    ASSUME AvlInv, [TreesNext]_<<part, vars, avl>>
    PROVE  AvlInv' /\ [Avl!O!Next]_(Avl!O!vars)
<1>1. Avl!Next \/ UNCHANGED avl
  BY DEF TreesNext
<1>2. CASE Avl!Next
  BY <1>2, AvlSteps
<1>3. CASE UNCHANGED avl
  <2>1. /\ avl_root' = avl_root /\ avl_num_el' = avl_num_el /\ leaked' = leaked
        /\ alive' = alive /\ avl_reply' = avl_reply
    BY <1>3 DEF avl
  <2> QED BY <2>1 DEF AvlInv, Avl!O!vars
<1> QED BY <1>1, <1>2, <1>3

(* What the invariant says of every state.                                 *)
LEMMA AvlInvImplies == AvlInv => Balanced /\ NumElCounts
<1> SUFFICES ASSUME AvlInv PROVE Balanced /\ NumElCounts
  OBVIOUS
<1>1. Good(avl_root)
  BY DEF AvlInv
<1>2. ASSUME NEW n \in Avl!Nodes(avl_root)
      PROVE  /\ n.key \in AvlKey /\ n.height \in Nat
             /\ n.height = Avl!Larger(Avl!Height(n.left), Avl!Height(n.right)) + 1
             /\ Avl!Balance(n) \in -1 .. 1
             /\ \A k \in Avl!KeysOf(n.left) : k < n.key
             /\ \A k \in Avl!KeysOf(n.right) : k > n.key
  <2>1. Good(n) /\ n # NoTree
    BY <1>1, GoodTree
  <2>2. /\ n.key \in AvlKey /\ n.height = Avl!Larger(n.left.height, n.right.height) + 1
        /\ n.left.height - n.right.height \in -1 .. 1 /\ Ordered(n)
    BY <2>1, GoodRoot
  <2>3. n.height \in Nat
    BY <2>1, GoodTree
  <2> QED BY <2>1, <2>2, <2>3 DEF Ordered, Avl!Height, Avl!Balance, NoTree
<1>3. Avl!Balanced
  BY <1>2 DEF Avl!Balanced
<1>4. Avl!TypeOK
  BY <1>2 DEF AvlInv, IsReply, Avl!TypeOK
<1>5. Avl!NumElCounts
  <2>1. alive => avl_num_el = Cardinality(Avl!KeysOf(avl_root)) + leaked
    BY DEF AvlInv
  <2>2. Avl!Cardinality(Avl!KeysOf(avl_root)) = Cardinality(Avl!KeysOf(avl_root))
    BY DEF Cardinality, Avl!Cardinality
  <2> QED BY <2>1, <2>2, Zenon DEF Avl!NumElCounts
<1> QED BY <1>3, <1>4, <1>5 DEF Balanced, NumElCounts

(* The invariant of every AVL tree, on which the others rest.              *)
THEOREM AvlInvHolds == TreesSpec => []AvlInv
<1>1. TreesInit => AvlInv
  BY AvlBegins
<1>2. AvlInv /\ [TreesNext]_<<part, vars, avl>> => AvlInv'
  BY TreesStep
<1> QED BY <1>1, <1>2, PTL DEF TreesSpec

(* One rotation per node, chosen as insert and delete_node choose it,      *)
(* keeps an AVL tree of any size balanced, its recorded heights true and   *)
(* its keys in search order, whatever calls succeed or fail.               *)
THEOREM BalancedHolds == TreesSpec => []Balanced
<1>1. AvlInv => Balanced
  BY AvlInvImplies
<1> QED BY <1>1, AvlInvHolds, PTL

(* num_el exceeds the number of keys by the leaves deleted and lost.       *)
THEOREM NumElCountsHolds == TreesSpec => []NumElCounts
<1>1. AvlInv => NumElCounts
  BY AvlInvImplies
<1> QED BY <1>1, AvlInvHolds, PTL

(* The AVL tree is an ordered set: insertions add and deletions remove     *)
(* their key and no other, whatever they answer, and the walks meet every  *)
(* key once, the one in order in ascending order.                          *)
THEOREM OrderedSetImplemented == TreesSpec => ImplementsOrderedSet
<1>1. TreesInit => Avl!O!Init
  BY AvlBegins
<1>2. AvlInv /\ [TreesNext]_<<part, vars, avl>> => [Avl!O!Next]_(Avl!O!vars)
  BY TreesStep
<1> QED BY <1>1, <1>2, AvlInvHolds, PTL
        DEF TreesSpec, ImplementsOrderedSet, Avl!ImplementsOrderedSet, Avl!O!Spec
=============================================================================
