---------------------------- MODULE GenericTree ----------------------------
(***************************************************************************)
(* The generic tree of src/tree.c.  A node is one heap block: its key, the *)
(* pointers to its children and one to its parent.  A child beyond the     *)
(* block's capacity reallocates the block, which may move the node; the    *)
(* pointer to it in its parent follows, the parent pointers in its         *)
(* children do not.                                                        *)
(***************************************************************************)
EXTENDS Integers, FiniteSetsExt, SequencesExt

CONSTANTS
    Key, Null,
    Addr,      \* the blocks malloc and realloc can return: bounds the nodes
    MaxNumEl   \* bound on tree->num_el, which deletions of whole subtrees leave too high

Node == [key : Key, cap : Nat, kids : Seq(Addr), parent : Addr \cup {Null}]
ASSUME TreeAssumption == /\ Null \notin Addr /\ Null \notin Key /\ Null \notin Node
                         /\ IsFiniteSet(Addr) /\ MaxNumEl \in Nat

VARIABLES
    root,      \* tree->root
    heap,      \* the nodes by address
    num_el,    \* tree->num_el
    fault,     \* the first call the code does not serve, or "none"
    reply

vars == <<root, heap, num_el, fault, reply>>
tree == <<root, heap, num_el>>
---------------------------------------------------------------------------
Answer(op, how, code, freed) == [op |-> op, how |-> how, code |-> code, freed |-> freed]
Say(op, how, code, freed) == reply' = Answer(op, how, code, freed)
Alive == reply.op # "free"
Running == Alive /\ fault = "none"
Unused == {a \in Addr : heap[a] = Null}
Kids(a) == IF heap[a] = Null THEN <<>> ELSE heap[a].kids
Leaf(k, par) == [key |-> k, cap |-> 0, kids |-> <<>>, parent |-> par]

(* What is left to visit once a node's children are taken up: they go      *)
(* before what was left, as the recursion has it, or behind it in a queue. *)
Then(order, kids, rest) == CASE order = "depth" -> kids \o rest
                             [] order = "turned" -> Reverse(kids) \o rest
                             [] order = "breadth" -> rest \o kids

(* A search or a release from top, node by node: the nodes it visits.  One *)
(* that could not be queued is passed over.  As no node is met twice, it   *)
(* ends after as many steps as there are blocks.                           *)
Visits(top, dropped, order) ==
    LET after[t \in 0 .. Cardinality(Addr)] ==
            IF t = 0 THEN [seen |-> <<>>, left |-> <<top>>]
            ELSE LET was == after[t - 1]
                     a == Head(was.left)
                 IN  IF was.left = <<>> THEN was
                     ELSE IF a \in dropped THEN [was EXCEPT !.left = Tail(@)]
                     ELSE [seen |-> Append(was.seen, a),
                           left |-> Then(order, Kids(a), Tail(was.left))]
    IN  after[Cardinality(Addr)].seen

(* The nodes of a subtree in the order depth_first_find_node compares them *)
DepthFirst(top) == Visits(top, {}, "depth")

(* ... and in the order tree_node_free frees them, the one that takes the  *)
(* later children first turned round                                       *)
ChildrenFirst(top) == Reverse(Visits(top, {}, "turned"))

(* The nodes breadth_first_find_node takes from its queue, when memory to  *)
(* queue those in dropped is lacking, which it does not notice             *)
BreadthFirst(dropped) == Visits(root, dropped, "breadth")

Nodes == IF root = Null \/ ~Alive THEN {} ELSE ToSet(DepthFirst(root))
Visited(how, dropped) == IF root = Null THEN <<>>
                         ELSE IF how = "depth" THEN DepthFirst(root) ELSE BreadthFirst(dropped)
Searches == {"depth", "breadth", "short"}
Dropped(how) == IF how = "short" THEN SUBSET Nodes ELSE {{}}

(* Mutant: the search goes on after a match. *)
FoundLast(how, k) ==
    {LET met == Visited(how, d)
         i == SelectLastInSeq(met, LAMBDA a : heap[a].key = k)
     IN  IF i = 0 THEN Null ELSE met[i] : d \in Dropped(how)}

(* What a search for k may find: the first node visited with the key, Null *)
(* if there is none; more than one only when short of memory               *)
Found(how, k) ==
    {LET met == Visited(how, d)
         i == SelectInSeq(met, LAMBDA a : heap[a].key = k)
     IN  IF i = 0 THEN Null ELSE met[i] : d \in Dropped(how)}

(* The node with a among its children: *(parent) in the search is its slot *)
Holder(a) == CHOOSE p \in Nodes : a \in ToSet(Kids(p))
---------------------------------------------------------------------------
Init == /\ root = Null /\ heap = [a \in Addr |-> Null] /\ num_el = 0
        /\ fault = "none" /\ reply = Answer("new", "no", 0, <<>>)

(* A key without a parent key: num_el stays what it was. *)
Plant(k) == /\ Running /\ root = Null
            /\ \E n \in Unused : root' = n /\ heap' = [heap EXCEPT ![n] = Leaf(k, Null)]
            /\ Say("insert", "no", 0, <<>>)
            /\ UNCHANGED <<num_el, fault>>

(* No memory for the node or for the parent's growth, a root inserted into *)
(* a tree that has one, or no such parent found                            *)
InsertFails == Running /\ Say("insert", "no", 1, <<>>) /\ UNCHANGED <<tree, fault>>

(* tree_node_insert into a parent with room *)
Hang(n, p, k) ==
    /\ Len(Kids(p)) < heap[p].cap
    /\ heap' = [heap EXCEPT ![n] = Leaf(k, p), ![p].kids = Append(@, n)]
    /\ UNCHANGED root

(* Mutant: the new child's parent is set before the parent is moved. *)
GrowAndHangOldParent(n, p, k) ==
    /\ Len(Kids(p)) = heap[p].cap
    /\ \E q \in {p} \cup (Unused \ {n}) :
           LET grown == [heap[p] EXCEPT !.cap = IF @ = 0 THEN 2 ELSE 2 * @, !.kids = Append(@, n)]
               Follow(a) == IF heap[a] = Null THEN Null
                            ELSE [heap[a] EXCEPT !.kids = [i \in DOMAIN @ |-> IF @[i] = p THEN q ELSE @[i]]]
           IN  /\ heap' = [a \in Addr |-> IF a = q THEN grown ELSE IF a = n THEN Leaf(k, p)
                                          ELSE IF a = p THEN Null ELSE Follow(a)]
               /\ root' = IF root = p THEN q ELSE root

(* tree_node_insert after tree_node_realloc: the node at p moves to q, and *)
(* only the pointer to it in its parent, or tree->root, follows            *)
GrowAndHang(n, p, k) ==
    /\ Len(Kids(p)) = heap[p].cap
    /\ \E q \in {p} \cup (Unused \ {n}) :
           LET grown == [heap[p] EXCEPT !.cap = IF @ = 0 THEN 2 ELSE 2 * @, !.kids = Append(@, n)]
               Follow(a) == IF heap[a] = Null THEN Null
                            ELSE [heap[a] EXCEPT !.kids = [i \in DOMAIN @ |-> IF @[i] = p THEN q ELSE @[i]]]
           IN  /\ heap' = [a \in Addr |-> IF a = q THEN grown ELSE IF a = n THEN Leaf(k, q)
                                          ELSE IF a = p THEN Null ELSE Follow(a)]
               /\ root' = IF root = p THEN q ELSE root

(* Mutant: num_el is not incremented. *)
InsertUncounted(how, k, par) ==
    /\ Running /\ num_el < MaxNumEl
    /\ \E p \in Found(how, par) \ {Null}, n \in Unused : Hang(n, p, k) \/ GrowAndHang(n, p, k)
    /\ Say("insert", how, 0, <<>>)
    /\ UNCHANGED <<num_el, fault>>

Insert(how, k, par) ==
    /\ Running /\ num_el < MaxNumEl
    /\ \E p \in Found(how, par) \ {Null}, n \in Unused : Hang(n, p, k) \/ GrowAndHang(n, p, k)
    /\ num_el' = num_el + 1
    /\ Say("insert", how, 0, <<>>)
    /\ UNCHANGED fault

Find(how, k) == /\ Running
                /\ \E a \in Found(how, k) : Say("find", how, IF a = Null THEN 1 ELSE 0, <<>>)
                /\ UNCHANGED <<tree, fault>>

KeysOf(s) == [i \in DOMAIN s |-> heap[s[i]].key]
Without(a) == [b \in Addr |-> IF b \in ToSet(ChildrenFirst(a)) THEN Null ELSE heap[b]]

(* Mutant: only the node itself is freed. *)
DeleteNodeOnly(how, k) ==
    /\ Running
    /\ \E a \in Found(how, k) \ {Null, root} :
           LET p == Holder(a)
           IN  /\ heap[a].parent = p
               /\ heap' = [heap EXCEPT ![a] = Null, ![p].kids = RemoveFirst(@, a)]
               /\ Say("delete", how, 0, KeysOf(ChildrenFirst(a)))
    /\ num_el' = num_el - 1
    /\ UNCHANGED <<root, fault>>

(* Mutant: num_el drops by the size of the subtree, and by one more. *)
DeleteCountsTwice(how, k) ==
    /\ Running
    /\ \E a \in Found(how, k) \ {Null, root} :
           LET p == Holder(a)
           IN  /\ heap[a].parent = p
               /\ heap' = [Without(a) EXCEPT ![p].kids = RemoveFirst(@, a)]
               /\ num_el' = num_el - Len(ChildrenFirst(a)) - 1
               /\ Say("delete", how, 0, KeysOf(ChildrenFirst(a)))
    /\ UNCHANGED <<root, fault>>

(* tree_node_delete reaches the parent through the parent pointer.         *)
(* Whatever the size of the subtree, num_el drops by one.                  *)
Delete(how, k) ==
    /\ Running
    /\ \E a \in Found(how, k) \ {Null, root} :
           LET p == Holder(a)
           IN  /\ heap[a].parent = p
               /\ heap' = [Without(a) EXCEPT ![p].kids = RemoveFirst(@, a)]
               /\ Say("delete", how, 0, KeysOf(ChildrenFirst(a)))
    /\ num_el' = num_el - 1
    /\ UNCHANGED <<root, fault>>

DeleteMissing(how, k) == /\ Running /\ Null \in Found(how, k)
                         /\ Say("delete", how, 1, <<>>)
                         /\ UNCHANGED <<tree, fault>>

(* tree_free: the root pointer is left as it was. *)
Free == /\ Running /\ root # Null
        /\ heap' = Without(root)
        /\ Say("free", "no", 0, KeysOf(ChildrenFirst(root)))
        /\ UNCHANGED <<root, num_el, fault>>

Renew == /\ fault = "none" /\ reply.op = "free"
         /\ root' = Null /\ num_el' = 0
         /\ Say("new", "no", 0, <<>>)
         /\ UNCHANGED <<heap, fault>>

(* The calls after which nothing is promised: the parent pointer leads to  *)
(* a block its parent has left (tree.c:168), is NULL at the root           *)
(* (tree.c:263), or there is no root to search or to free.                 *)
Stops ==
    /\ Running
    /\ \/ /\ \E how \in Searches, k \in Key : \E a \in Found(how, k) \ {Null, root} :
                 heap[a].parent # Holder(a)
          /\ fault' = "old_parent"
       \/ (\E how \in Searches, k \in Key : root \in Found(how, k) \ {Null}) /\ fault' = "root_deleted"
       \/ root = Null /\ fault' = "empty"
    /\ UNCHANGED <<tree, reply>>

Next == \/ \E k \in Key : Plant(k)
        \/ \E how \in Searches, k \in Key :
               \/ \E par \in Key : Insert(how, k, par)
               \/ Find(how, k) \/ Delete(how, k) \/ DeleteMissing(how, k)
        \/ InsertFails \/ Free \/ Renew \/ Stops

Spec == Init /\ [][Next]_vars
---------------------------------------------------------------------------
TypeOK ==
    /\ root \in Addr \cup {Null}
    /\ \A a \in Addr : heap[a] # Null => /\ heap[a].key \in Key /\ heap[a].cap \in Nat
                                         /\ heap[a].kids \in Seq(Addr)
                                         /\ heap[a].parent \in Addr \cup {Null}
    /\ num_el \in Nat
    /\ fault \in {"none", "old_parent", "root_deleted", "empty"}

(* The blocks allocated are the nodes of a live tree, each reached once:   *)
(* no deletion, failed insertion or move loses or shares one.              *)
IsTree == /\ {a \in Addr : heap[a] # Null} = Nodes
          /\ Nodes # {} => Len(DepthFirst(root)) = Cardinality(Nodes)

(* A parent pointer is wrong only where the parent had to grow beyond its  *)
(* first two slots, and only in children hung before it last grew.         *)
OldParents ==
    \A p \in Nodes : \A i \in DOMAIN Kids(p) :
        \/ heap[Kids(p)[i]].parent = p
        \/ heap[p].cap > 2 /\ 2 * i <= heap[p].cap

(* num_el counts every node that is left, the root apart: a deletion       *)
(* takes at least as many nodes as it subtracts.                           *)
NumElCovers == Nodes # {} => num_el >= Cardinality(Nodes) - 1

(* The generic tree is an ordered tree, searched in the orders of paths:   *)
(* every node with its path, a level farther in each row.                  *)
Further(row) ==
    LET next == UNION {{<<Append(x[1], i), Kids(x[2])[i]>> : i \in DOMAIN Kids(x[2])} : x \in row.last}
    IN  [last |-> next, all |-> row.all \cup next]
AtPaths(pairs) == [p \in {x[1] : x \in pairs} |-> (CHOOSE x \in pairs : x[1] = p)[2]]
(* The one element of a set, which TLC computes once however often it is read. *)
Only(S) == CHOOSE x \in S : TRUE
NodeByPath ==
    LET top == {<<<<>>, root>>}
        row[n \in 0 .. Cardinality(Addr)] ==
            IF n = 0 THEN [last |-> top, all |-> top] ELSE Only({Further(r) : r \in {row[n - 1]}})
    IN  Only({AtPaths(r.all) : r \in {row[Cardinality(Addr)]}})
KeysByPath == IF root = Null \/ ~Alive THEN <<>>
              ELSE Only({[p \in DOMAIN at |-> heap[at[p]].key] : at \in {NodeByPath}})
T == INSTANCE OrderedTree WITH tree <- KeysByPath
ImplementsTree == T!Spec

(* vlib.h:788, 799: delete a key from the tree; the parent of its node is  *)
(* then a node of the tree.                                                *)
DeletesInTree == fault # "old_parent"
=============================================================================
