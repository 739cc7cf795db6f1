----------------------------- MODULE BinaryTree -----------------------------
(***************************************************************************)
(* The binary tree the client links by hand, and what src/bt_*.c and       *)
(* src/binary_tree.c do with it.  A node is named by the turns that lead   *)
(* to it, 0 for left and 1 for right; a tree is a function from its nodes  *)
(* to the data in them.  bt_bfs goes step by step through its queue, the   *)
(* other calls are recursive and atomic.                                   *)
(***************************************************************************)
EXTENDS Integers, FiniteSets, SequencesExt

CONSTANTS
    Data, Null,
    MaxNodes,       \* bound on the nodes of the tree
    MaxCompared     \* bound on the nodes of the trees it is compared with

TreeAssumption == Null \notin Data /\ MaxNodes \in Nat /\ MaxCompared \in Nat

VARIABLES
    tree,
    freed,      \* binary_tree_free was called: num_el is 0, root left as it was
    queue,      \* bt_bfs: the nodes in line
    needle,     \* what bt_bfs looks for, or Null
    visited,    \* history: the nodes bt_bfs compared and went past
    lost,       \* history: whether the call was refused memory
    fault,      \* what the call does that it may not, or "none"
    reply

vars == <<tree, freed, queue, needle, visited, lost, fault, reply>>
search == <<queue, needle, visited>>
---------------------------------------------------------------------------
Paths == UNION {[1 .. n -> {0, 1}] : n \in 0 .. MaxNodes}
LeftOf(p) == Append(p, 0)
RightOf(p) == Append(p, 1)
Root == <<>>
Grown(P) == IF P = {} THEN {{Root}}
            ELSE {P \cup {p} : p \in UNION {{LeftOf(q), RightOf(q)} : q \in P} \ P}
TreesUpTo(max) ==
    LET shapes[n \in 0 .. max] == IF n = 0 THEN {{}}
                                  ELSE shapes[n - 1] \cup UNION {Grown(P) : P \in shapes[n - 1]}
    IN  UNION {[P -> Data] : P \in shapes[max]}

NumEl == IF freed THEN 0 ELSE Cardinality(DOMAIN tree)
Answer(op, out, found, other) == [op |-> op, out |-> out, found |-> found, other |-> other]
Idle == needle = Null /\ fault = "none"

Init ==
    /\ tree \in TreesUpTo(MaxNodes) /\ freed = FALSE
    /\ queue = <<>> /\ needle = Null /\ visited = {} /\ lost = FALSE
    /\ fault = "none" /\ reply = Answer("none", Null, FALSE, Null)

PreOrder == LET w[p \in Paths] == IF p \notin DOMAIN tree THEN <<>>
                                  ELSE <<p>> \o w[LeftOf(p)] \o w[RightOf(p)]
            IN  w[Root]
InOrder == LET w[p \in Paths] == IF p \notin DOMAIN tree THEN <<>>
                                 ELSE w[LeftOf(p)] \o <<p>> \o w[RightOf(p)]
           IN  w[Root]

PostOrder == LET w[p \in Paths] == IF p \notin DOMAIN tree THEN <<>>
                                   ELSE w[LeftOf(p)] \o w[RightOf(p)] \o <<p>>
             IN  w[Root]

(* The vector for the result is asked for room for num_el elements: less   *)
(* than two, or no memory, and the walk does not take place.               *)
Walk(op, order) ==
    /\ Idle
    /\ lost' \in BOOLEAN
    /\ reply' = Answer(op, IF NumEl < 2 \/ lost' THEN Null ELSE order, FALSE, Null)
    /\ UNCHANGED <<tree, freed, search, fault>>

SameNodes(t, u) ==
    LET eq[p \in Paths] == IF p \notin DOMAIN t /\ p \notin DOMAIN u THEN TRUE
                           ELSE /\ p \in DOMAIN t /\ p \in DOMAIN u /\ t[p] = u[p]
                                /\ eq[LeftOf(p)] /\ eq[RightOf(p)]
    IN  eq[Root]

(* bt_compare with a tree that was not freed.  A freed one counts no node, *)
(* but its root is what it was: equal to the NULL of an empty tree only if *)
(* there never was a node.                                                 *)
Compare(other) ==
    /\ Idle
    /\ reply' = Answer("compare", Null,
                       NumEl = Cardinality(DOMAIN other) /\ SameNodes(tree, other),
                       other)
    /\ lost' = FALSE
    /\ UNCHANGED <<tree, freed, search, fault>>

(* The root goes in line, unless there is no memory for the queue's node;  *)
(* the root of an empty tree is NULL, and its data is read all the same.   *)
Bfs(v) ==
    /\ Idle /\ ~freed
    /\ needle' = v /\ visited' = {} /\ reply' = Answer("none", Null, FALSE, Null)
    /\ \/ queue' = <<Root>> /\ lost' = FALSE
       \/ queue' = <<>> /\ lost' = TRUE
    /\ UNCHANGED <<tree, freed, fault>>

VisitNull ==
    /\ needle # Null /\ fault = "none" /\ queue # <<>> /\ Head(queue) \notin DOMAIN tree
    /\ fault' = "null_node"
    /\ UNCHANGED <<tree, freed, search, lost, reply>>

Looking == needle # Null /\ fault = "none" /\ queue # <<>> /\ Head(queue) \in DOMAIN tree

Hit == /\ Looking /\ tree[Head(queue)] = needle
       /\ queue' = <<>> /\ needle' = Null
       /\ reply' = Answer("bfs", needle, TRUE, Null)
       /\ UNCHANGED <<tree, freed, visited, lost, fault>>

(* Mutant: the right child goes in line only when there is no left one. *)
ChildrenElse(p) == IF LeftOf(p) \in DOMAIN tree THEN {LeftOf(p)}
                   ELSE {RightOf(p)} \cap DOMAIN tree

Children(p) == {LeftOf(p), RightOf(p)} \cap DOMAIN tree

InLine(p, K) == (IF LeftOf(p) \in K THEN <<LeftOf(p)>> ELSE <<>>)
                \o (IF RightOf(p) \in K THEN <<RightOf(p)>> ELSE <<>>)

(* Nobody looks at what queue_enque returns: a child there is no memory    *)
(* for is passed over.                                                     *)
Pass ==
    /\ Looking /\ tree[Head(queue)] # needle
    /\ \E K \in SUBSET Children(Head(queue)) :
           /\ queue' = Tail(queue) \o InLine(Head(queue), K)
           /\ lost' = (lost \/ K # Children(Head(queue)))
    /\ visited' = visited \cup {Head(queue)}
    /\ UNCHANGED <<tree, freed, needle, fault, reply>>

Miss == /\ needle # Null /\ fault = "none" /\ queue = <<>>
        /\ needle' = Null
        /\ reply' = Answer("bfs", needle, FALSE, Null)
        /\ UNCHANGED <<tree, freed, queue, visited, lost, fault>>

(* Every node is handed to the callback and freed, in post order; the root *)
(* pointer stays.                                                          *)
Free == /\ Idle /\ ~freed
        /\ freed' = TRUE
        /\ reply' = Answer("free", PostOrder, FALSE, Null)
        /\ lost' = FALSE
        /\ UNCHANGED <<tree, search, fault>>

(* A second search or release starts from the root that was freed. *)
UseFreed == /\ Idle /\ freed /\ tree # <<>>
            /\ fault' = "freed_root"
            /\ UNCHANGED <<tree, freed, search, lost, reply>>

SearchStep == Hit \/ Pass \/ Miss \/ VisitNull

Call == \/ Walk("pre_order", PreOrder) \/ Walk("in_order", InOrder) \/ Walk("post_order", PostOrder)
        \/ \E other \in TreesUpTo(MaxCompared) : Compare(other)
        \/ \E v \in Data : Bfs(v)
        \/ Free \/ UseFreed

Next == Call \/ SearchStep

(* A search under way goes on: nothing else runs in between. *)
Spec == Init /\ [][Next]_vars /\ WF_vars(SearchStep)
---------------------------------------------------------------------------
IsAbove(p, q) == IsStrictPrefix(p, q)
Fork(p, q) == CHOOSE n \in DOMAIN p : p[n] # q[n] /\ \A m \in 1 .. n - 1 : p[m] = q[m]
IsLeftOf(p, q) == ~IsPrefix(p, q) /\ ~IsPrefix(q, p) /\ p[Fork(p, q)] = 0

(* Which of two nodes each order puts first *)
GoesFirst(op, p, q) ==
    \/ IsLeftOf(p, q)
    \/ op = "pre_order" /\ IsAbove(p, q)
    \/ op \in {"post_order", "free"} /\ IsAbove(q, p)
    \/ op = "in_order" /\ \/ IsAbove(p, q) /\ q[Len(p) + 1] = 1
                          \/ IsAbove(q, p) /\ p[Len(q) + 1] = 0

(* A walk gives every node once and in its order, so a release hands over  *)
(* every element once and no node before its children; and a released tree *)
(* gives nothing.                                                          *)
WalksInOrder ==
    reply.op \in {"pre_order", "in_order", "post_order", "free"} /\ reply.out # Null =>
        /\ freed => reply.op = "free"
        /\ Len(reply.out) = Cardinality(DOMAIN tree) /\ ToSet(reply.out) = DOMAIN tree
        /\ \A i, j \in DOMAIN reply.out : i < j => GoesFirst(reply.op, reply.out[i], reply.out[j])

(* Trees compare equal when they have the same nodes with the same data.   *)
CompareDecides == reply.op = "compare" /\ ~freed => (reply.found <=> reply.other = tree)

(* The number of a node, counted from level to level *)
Level(p) == LET level[n \in 0 .. Len(p)] == IF n = 0 THEN 1 ELSE 2 * level[n - 1] + p[n]
            IN  level[Len(p)]

(* The search goes from level to level and from left to right, with and    *)
(* without failures, and never meets a node twice.                         *)
LevelOrder ==
    /\ \A i, j \in DOMAIN queue : i < j => Level(queue[i]) < Level(queue[j])
    /\ \A p \in visited : \A i \in DOMAIN queue : Level(p) < Level(queue[i])

(* A search no queue_enque failed in has every child of what it went past  *)
(* in line or behind it, and answers whether the needle is in the tree;    *)
(* one that lost a node finds nothing that is not there.                   *)
BfsDecides ==
    /\ needle # Null /\ ~lost =>
           \A p \in visited : Children(p) \subseteq visited \cup ToSet(queue)
    /\ reply.op = "bfs" /\ reply.found => \E p \in DOMAIN tree : tree[p] = reply.out
    /\ reply.op = "bfs" /\ ~reply.found /\ needle = Null /\ ~lost =>
           \A p \in DOMAIN tree : tree[p] # reply.out
=============================================================================
