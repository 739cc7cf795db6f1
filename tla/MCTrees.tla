------------------------------ MODULE MCTrees ------------------------------
(***************************************************************************)
(* One run over the two trees, which share nothing: the first state        *)
(* chooses which one is used, and the other stays empty.                   *)
(*                                                                         *)
(* Of the generic tree two keys, so that some occur twice, and five        *)
(* blocks: a node can move while it has three children.  Of the AVL tree   *)
(* eight keys: four levels.                                                *)
(***************************************************************************)
EXTENDS GenericTree, TLC
CONSTANTS a1, a2, a3, a4, a5, AvlKey, MaxLeaked
MCAddr == {a1, a2, a3, a4, a5}
Symmetry == Permutations(MCAddr)

VARIABLES part, avl_root, avl_num_el, leaked, alive, avl_reply
avl == <<avl_root, avl_num_el, leaked, alive, avl_reply>>

Avl == INSTANCE AvlTree
           WITH Key <- AvlKey, root <- avl_root, num_el <- avl_num_el, reply <- avl_reply
ASSUME KeysAssumption == Avl!AvlAssumption

TreesInit == part \in {"tree", "avl"} /\ Init /\ Avl!Init
TreesNext == /\ UNCHANGED part
             /\ \/ part = "tree" /\ Next /\ UNCHANGED avl
                \/ part = "avl" /\ Avl!Next /\ UNCHANGED vars
TreesSpec == TreesInit /\ [][TreesNext]_<<part, vars, avl>>
---------------------------------------------------------------------------
(* After any sequence of insertions, deletions and failed calls the AVL    *)
(* tree is a search tree whose recorded heights are the true ones and in   *)
(* which no node leans by more than one.  Its fields keep their types.     *)
Balanced == part = "avl" => Avl!TypeOK /\ Avl!Balanced

(* Its num_el exceeds the number of its keys by exactly the leaves deleted *)
(* and lost, so the vector a walk fills has room for every key.            *)
NumElCounts == part = "avl" => Avl!NumElCounts

(* The AVL tree is an ordered set.                                         *)
ImplementsOrderedSet == Avl!ImplementsOrderedSet
=============================================================================
