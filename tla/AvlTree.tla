------------------------------ MODULE AvlTree ------------------------------
(***************************************************************************)
(* The AVL tree of src/avl_tree.c.  A tree is its root node with its two   *)
(* subtrees, or NoTree; the two recursive procedures that rebuild the path *)
(* to a key return the tree they leave behind.                             *)
(*                                                                         *)
(* delete_node reports success and frees a block only when the node it     *)
(* unlinks has a child.  A leaf is unlinked as well, but its block is      *)
(* lost, num_el still counts it and the call answers failure.              *)
(***************************************************************************)
EXTENDS Integers, Sequences, FiniteSets

CONSTANTS
    Key,        \* the keys a client inserts, ordered by its CmpFn
    Null,
    MaxLeaked   \* bound on the leaves deleted from one tree, as num_el only grows with them

AvlAssumption == Key \subseteq Int /\ Null \notin Key /\ MaxLeaked \in Nat

VARIABLES
    root,     \* tree->root
    num_el,   \* tree->num_el
    leaked,   \* history: blocks unlinked from this tree and never freed
    alive,    \* between avl_tree_new and avl_tree_free
    reply

vars == <<root, num_el, leaked, alive, reply>>
---------------------------------------------------------------------------
Answer(op, k, code, out) == [op |-> op, key |-> k, code |-> code, out |-> out]

(* NULL for a node, and avl_node_new *)
NoTree == [height |-> 0]
Leaf(k) == [key |-> k, height |-> 1, left |-> NoTree, right |-> NoTree]

Height(t) == t.height
Balance(t) == IF t = NoTree THEN 0 ELSE Height(t.left) - Height(t.right)

(* A node whose height is computed from its children's *)
Larger(a, b) == IF a > b THEN a ELSE b
Measured(t) == [t EXCEPT !.height = Larger(Height(t.left), Height(t.right)) + 1]

RightRotate(y) == Measured([y.left EXCEPT !.right = Measured([y EXCEPT !.left = y.left.right])])

(* Mutant: what lies between the two keys is not hung up again. *)
LeftRotateDrops(x) == Measured([x.right EXCEPT !.left = Measured([x EXCEPT !.right = NoTree])])

LeftRotate(x) == Measured([x.right EXCEPT !.left = Measured([x EXCEPT !.right = x.right.left])])

(* The end of insert: which rotation depends on where the key went *)
BalancedForInsert(t, k) ==
    CASE Balance(t) > 1 /\ k < t.left.key -> RightRotate(t)
      [] Balance(t) < -1 /\ k > t.right.key -> LeftRotate(t)
      [] Balance(t) > 1 /\ k > t.left.key -> RightRotate([t EXCEPT !.left = LeftRotate(@)])
      [] Balance(t) < -1 /\ k < t.right.key -> LeftRotate([t EXCEPT !.right = RightRotate(@)])
      [] OTHER -> t

(* Mutant: an even left subtree is taken for one that leans to the right. *)
EvenRotatedTwice(t) ==
    CASE Balance(t) > 1 /\ Balance(t.left) > 0 -> RightRotate(t)
      [] Balance(t) > 1 /\ Balance(t.left) <= 0 -> RightRotate([t EXCEPT !.left = LeftRotate(@)])
      [] Balance(t) < -1 /\ Balance(t.right) <= 0 -> LeftRotate(t)
      [] Balance(t) < -1 /\ Balance(t.right) > 0 -> LeftRotate([t EXCEPT !.right = RightRotate(@)])
      [] OTHER -> t

(* The end of delete_node: it depends on the taller subtree's balance *)
BalancedForDelete(t) ==
    CASE Balance(t) > 1 /\ Balance(t.left) >= 0 -> RightRotate(t)
      [] Balance(t) > 1 /\ Balance(t.left) < 0 -> RightRotate([t EXCEPT !.left = LeftRotate(@)])
      [] Balance(t) < -1 /\ Balance(t.right) <= 0 -> LeftRotate(t)
      [] Balance(t) < -1 /\ Balance(t.right) > 0 -> LeftRotate([t EXCEPT !.right = RightRotate(@)])
      [] OTHER -> t

(* The nodes of a tree: its root and, as many times as there are levels    *)
(* below, the children of what is there.  Height is the recorded one: if   *)
(* it is too small for a node, then it is not one more than its children's *)
Children(T) == ({t.left : t \in T} \cup {t.right : t \in T}) \ {NoTree}
NodesTo(t, n) == LET to[i \in 0 .. n] == IF i = 0 THEN {t} \ {NoTree}
                                         ELSE LET T == to[i - 1] IN T \cup Children(T)
                 IN  to[n]
Nodes(t) == NodesTo(t, Height(t))
Subtrees(t) == Nodes(t) \cup {NoTree}
KeysOf(t) == {n.key : n \in Nodes(t)}

(* insert: leaf is what avl_node_new returns, NoTree without memory *)
Inserted(t, k, leaf) ==
    LET ins[u \in Subtrees(t)] ==
            IF u = NoTree THEN leaf
            ELSE IF k = u.key THEN u
            ELSE BalancedForInsert(Measured(IF k < u.key THEN [u EXCEPT !.left = ins[u.left]]
                                            ELSE [u EXCEPT !.right = ins[u.right]]), k)
    IN  ins[t]

(* The subtree at the node of a key *)
Sub(t, k) ==
    LET sub[u \in Subtrees(t)] == IF u = NoTree THEN NoTree
                                  ELSE IF k = u.key THEN u
                                  ELSE IF k < u.key THEN sub[u.left] ELSE sub[u.right]
    IN  sub[t]

(* min_value_node *)
MinValueNode(t) == LET min[u \in Subtrees(t)] ==
                           IF u = NoTree \/ u.left = NoTree THEN u ELSE min[u.left]
                   IN  min[t]

(* delete_node: a node with two children takes the key of its successor    *)
Without(u, x, left, right) ==
    IF x < u.key THEN [u EXCEPT !.left = left[x]]
    ELSE IF x > u.key THEN [u EXCEPT !.right = right[x]]
    ELSE IF u.left = NoTree THEN u.right
    ELSE IF u.right = NoTree THEN u.left
    ELSE LET next == MinValueNode(u.right).key
         IN  [u EXCEPT !.key = next, !.right = right[next]]

Deleted(t, k) ==
    LET del[u \in Subtrees(t)] == [x \in Key |->
            IF u = NoTree THEN NoTree
            ELSE LET w == Without(u, x, del[u.left], del[u.right])
                 IN  IF w = NoTree THEN NoTree ELSE BalancedForDelete(Measured(w))]
    IN  del[t][k]

(* The node that delete_node unlinks, with its children *)
Unlinked(k) == LET t == Sub(root, k)
               IN  IF t.left # NoTree /\ t.right # NoTree THEN MinValueNode(t.right) ELSE t
IsLeaf(t) == t.left = NoTree /\ t.right = NoTree

(* Its only child is copied over it and freed: free_fn gets that one's key *)
HandedOver(k) == LET t == Unlinked(k) IN (IF t.left # NoTree THEN t.left ELSE t.right).key

(* avl_pre_walk, avl_in_walk, avl_post_walk *)
Met(key, l, r, order) == CASE order = "pre_order" -> <<key>> \o l \o r
                           [] order = "in_order" -> l \o <<key>> \o r
                           [] order = "post_order" -> l \o r \o <<key>>
Walk(t, order) ==
    LET walk[u \in Subtrees(t)] == IF u = NoTree THEN <<>>
                                   ELSE Met(u.key, walk[u.left], walk[u.right], order)
    IN  walk[t]

Holds(k) == Sub(root, k) # NoTree
---------------------------------------------------------------------------
Init == /\ root = NoTree /\ num_el = 0 /\ leaked = 0 /\ alive = TRUE
        /\ reply = Answer("new", Null, 0, <<>>)

Renew == /\ ~alive
         /\ root' = NoTree /\ num_el' = 0 /\ leaked' = 0 /\ alive' = TRUE
         /\ reply' = Answer("new", Null, 0, <<>>)

Insert(k) ==
    /\ alive /\ ~Holds(k)
    /\ root' = Inserted(root, k, Leaf(k))
    /\ num_el' = num_el + 1
    /\ reply' = Answer("insert", k, 0, <<>>)
    /\ UNCHANGED <<leaked, alive>>

(* The key is there, or there is no memory for a node.  The path has been  *)
(* rebuilt all the same, but avl_insert does not assign tree->root: it     *)
(* still points to the node that was the root.                             *)
InsertFails(k) ==
    /\ alive
    /\ root' = IF root = NoTree THEN NoTree ELSE Sub(Inserted(root, k, NoTree), root.key)
    /\ reply' = Answer("insert", k, 1, <<>>)
    /\ UNCHANGED <<num_el, leaked, alive>>

Delete(k) ==
    /\ alive /\ Holds(k) /\ ~IsLeaf(Unlinked(k))
    /\ root' = Deleted(root, k)
    /\ num_el' = num_el - 1
    /\ reply' = Answer("delete", k, 0, <<HandedOver(k)>>)
    /\ UNCHANGED <<leaked, alive>>

(* Mutant: the count is kept though the call fails. *)
DeleteLeafCounted(k) ==
    /\ alive /\ Holds(k) /\ IsLeaf(Unlinked(k)) /\ leaked < MaxLeaked
    /\ root' = Deleted(root, k)
    /\ num_el' = num_el - 1
    /\ leaked' = leaked + 1
    /\ reply' = Answer("delete", k, 1, <<>>)
    /\ UNCHANGED alive

DeleteLeaf(k) ==
    /\ alive /\ Holds(k) /\ IsLeaf(Unlinked(k)) /\ leaked < MaxLeaked
    /\ root' = Deleted(root, k)
    /\ leaked' = leaked + 1
    /\ reply' = Answer("delete", k, 1, <<>>)
    /\ UNCHANGED <<num_el, alive>>

DeleteMissing(k) ==
    /\ alive /\ ~Holds(k)
    /\ root' = Deleted(root, k)
    /\ reply' = Answer("delete", k, 1, <<>>)
    /\ UNCHANGED <<num_el, leaked, alive>>

(* The walks fill a vector with room for num_el keys; there is none when   *)
(* num_el < 2 (vec.c:24) or memory is short                                *)
Traverse(order) ==
    /\ alive /\ num_el >= 2
    /\ reply' = Answer(order, Null, 0, Walk(root, order))
    /\ UNCHANGED <<root, num_el, leaked, alive>>

TraverseFails(order) ==
    /\ alive
    /\ reply' = Answer(order, Null, 1, <<>>)
    /\ UNCHANGED <<root, num_el, leaked, alive>>

(* avl_tree_free leaves tree->root dangling *)
Free ==
    /\ alive
    /\ num_el' = 0 /\ alive' = FALSE
    /\ reply' = Answer("free", Null, 0, <<>>)
    /\ UNCHANGED <<root, leaked>>

Next ==
    \/ \E k \in Key : Insert(k) \/ InsertFails(k) \/ Delete(k) \/ DeleteLeaf(k) \/ DeleteMissing(k)
    \/ \E order \in {"pre_order", "in_order", "post_order"} : Traverse(order) \/ TraverseFails(order)
    \/ Free \/ Renew

Spec == Init /\ [][Next]_vars
---------------------------------------------------------------------------
TypeOK ==
    /\ \A n \in Nodes(root) : n.key \in Key /\ n.height \in Nat
    /\ num_el \in Nat /\ leaked \in 0 .. MaxLeaked /\ alive \in BOOLEAN
    /\ reply.op \in {"new", "free", "insert", "delete", "pre_order", "in_order", "post_order"}
    /\ reply.key \in Key \cup {Null} /\ reply.code \in {0, 1} /\ reply.out \in Seq(Key)

(* After any sequence of insertions, deletions and failed calls every      *)
(* recorded height is the true one, no node leans by more than one, and    *)
(* the keys are in search order: the conditions under which one rotation   *)
(* per node restores the balance, and under which a failed insertion       *)
(* rotates nothing, which avl_insert relies on when it leaves tree->root.  *)
Balanced ==
    alive => \A n \in Nodes(root) :
        /\ n.height = Larger(Height(n.left), Height(n.right)) + 1
        /\ Balance(n) \in -1 .. 1
        /\ \A k \in KeysOf(n.left) : k < n.key
        /\ \A k \in KeysOf(n.right) : k > n.key

(* num_el exceeds the number of keys by exactly the leaves deleted and     *)
(* lost, so it never falls short of it: the vector a walk fills has room   *)
(* for every key, and the walk may ignore what vec_push returns.           *)
NumElCounts == alive => num_el = Cardinality(KeysOf(root)) + leaked

(* Whatever it answers, a deletion removes its key and no other; an        *)
(* insertion adds a key exactly when it answers success; and the walks     *)
(* meet every key once, in ascending order for the one in order.           *)
O == INSTANCE OrderedSet WITH members <- IF alive THEN KeysOf(root) ELSE {}
ImplementsOrderedSet == O!Spec

(* vlib.h:695-696: the callback is for the key in the deleted node.        *)
FreesDeleted == reply.op = "delete" /\ reply.code = 0 => reply.out = <<reply.key>>
=============================================================================
