---------------------------- MODULE MCContainers ----------------------------
(***************************************************************************)
(* One run over the containers that share nothing: the linked list, the    *)
(* queue, the priority queue, the two vectors and the string.  The first   *)
(* state chooses which one is used, and the variables the others have are  *)
(* Null.                                                                   *)
(*                                                                         *)
(* In the run, list and queue have up to four nodes.  The heap has six     *)
(* elements of five values: three levels, equal elements, two doublings.   *)
(* The vector has three elements, grows from capacity 2 at two addresses,  *)
(* and is iterated past its end.  The fixed-size vector has four slots.    *)
(* The string's inline buffer holds three characters, its heap buffer six, *)
(* and strings of up to four are passed to it.                             *)
(***************************************************************************)
EXTENDS Integers

CONSTANTS Null,
          Node, Item,                         \* of the list and the queue
          Ranked, PqInitialCap, PqMaxLen,     \* of the priority queue
          Number, Block, Word,                \* of the vectors
          VecInitialCap, Capacities, VecMaxLen, MaxSteps, FixedCap,
          Char, Small, Large, MaxGiven        \* of the string

VARIABLES part, reply, len, fault, data, cap, alive,
          node, head, tail,
          grown,
          block, iter, born, steps, intact,
          is_large, small_avail

nodes == <<node, head, tail>>
vector == <<block, iter, born, steps, intact>>
buffer == <<is_large, small_avail>>
vars == <<part, reply, len, fault, data, cap, alive, nodes, grown, vector, buffer>>

List == INSTANCE LinkedList WITH Value <- Item
Line == INSTANCE Queue WITH Value <- Item
Heap == INSTANCE PriorityQueue WITH Value <- Ranked, MaxLen <- PqMaxLen
Growing == INSTANCE Vec WITH Value <- Number, MaxLen <- VecMaxLen
Fixed == INSTANCE SmallVec WITH Value <- Number, Cap <- FixedCap
String == INSTANCE Vstr

ASSUME ContainerAssumption ==
    /\ List!ListAssumption /\ Line!QueueAssumption /\ Heap!PqAssumption
    /\ Growing!VecAssumption /\ Fixed!SmallVecAssumption /\ String!SizeAssumption
---------------------------------------------------------------------------
NoNodes == node = Null /\ head = Null /\ tail = Null
NoVector == block = Null /\ iter = Null /\ born = Null /\ steps = Null /\ intact = Null
NoBuffer == is_large = Null /\ small_avail = Null

Init ==
    \/ /\ part = "list" /\ List!Init
       /\ data = Null /\ cap = Null /\ grown = Null /\ NoVector /\ NoBuffer
    \/ /\ part = "queue" /\ Line!Init
       /\ fault = Null /\ data = Null /\ cap = Null /\ grown = Null
       /\ NoVector /\ NoBuffer
    \/ /\ part = "pq" /\ Heap!Init
       /\ fault = Null /\ alive = Null /\ NoNodes /\ NoVector /\ NoBuffer
    \/ /\ part = "vec" /\ Growing!Init
       /\ grown = Null /\ alive = Null /\ NoNodes /\ NoBuffer
    \/ /\ part = "small_vec" /\ Fixed!Init
       /\ fault = Null /\ cap = Null /\ grown = Null /\ alive = Null
       /\ NoNodes /\ NoVector /\ NoBuffer
    \/ /\ part = "vstr" /\ String!Init
       /\ cap = Null /\ grown = Null /\ alive = Null /\ NoNodes /\ NoVector

Next ==
    /\ UNCHANGED part
    /\ \/ part = "list" /\ List!Next /\ UNCHANGED <<data, cap, grown, vector, buffer>>
       \/ part = "queue" /\ Line!Next /\ UNCHANGED <<fault, data, cap, grown, vector, buffer>>
       \/ part = "pq" /\ Heap!Next /\ UNCHANGED <<fault, alive, nodes, vector, buffer>>
       \/ part = "vec" /\ Growing!Next /\ UNCHANGED <<grown, alive, nodes, buffer>>
       \/ part = "small_vec" /\ Fixed!Next
          /\ UNCHANGED <<fault, cap, grown, alive, nodes, vector, buffer>>
       \/ part = "vstr" /\ String!Next /\ UNCHANGED <<cap, grown, alive, nodes, vector>>

Spec == Init /\ [][Next]_vars
---------------------------------------------------------------------------
TypeOK == CASE part = "list" -> List!TypeOK
            [] part = "queue" -> Line!TypeOK
            [] part = "pq" -> Heap!TypeOK
            [] part = "vec" -> Growing!TypeOK
            [] part = "vstr" -> String!TypeOK
            [] OTHER -> len \in Nat

(* After any sequence of calls the list is linked both ways and the queue  *)
(* from head to tail; a priority queue that has only grown is a heap; no   *)
(* vector has a cleared slot among its elements, or in the fixed one an    *)
(* uncleared one behind them; no iterator leaves the block and the         *)
(* positions it was created over, and over an unchanged vector that held   *)
(* an element it yields each once, in order, and NULL from then on; and    *)
(* the string ends in a zero.                                              *)
WellFormed == CASE part = "list" -> List!WellLinked
                [] part = "queue" -> Line!Chained
                [] part = "pq" -> Heap!GrownIsHeap
                [] part = "vec" -> /\ Growing!NoClearedElement
                                   /\ Growing!IterInBounds /\ Growing!IterYieldsAll
                [] part = "small_vec" -> Fixed!CutAtLen
                [] part = "vstr" -> String!ZeroTerminated
                [] OTHER -> TRUE

(* vstr_cmp is a total order, whose zero is equality.                      *)
CmpIsOrder == part = "vstr" => String!CmpIsOrder

(* pq_insert puts a minimum at the root even of an array that deletions    *)
(* have left unordered.                                                    *)
InsertSurfacesMin == [][part = "pq" => Heap!InsertSurfacesMin]_vars

(* pq_delete from a heap of distinct values down to an odd number of them  *)
(* leaves a heap.                                                          *)
OddDeleteKeepsHeap == [][part = "pq" => Heap!OddDeleteKeepsHeap]_vars

(* Every container is what its documentation promises: the list and the    *)
(* vectors a sequence, the queue first in, first out, the priority queue a *)
(* bag, the string the text pushed to it.                                  *)
(* Each part's abstract specification is taken apart into its first state  *)
(* and its steps.                                                          *)
ImplementsAbstractions ==
    /\ CASE part = "list" -> List!L!Init
         [] part = "queue" -> Line!F!Init
         [] part = "pq" -> Heap!B!Init
         [] part = "vec" -> Growing!V!Init
         [] part = "small_vec" -> Fixed!V!Init
         [] part = "vstr" -> String!T!Init
    /\ [][CASE part = "list" -> List!L!Next \/ UNCHANGED List!L!vars
            [] part = "queue" -> Line!F!Next \/ UNCHANGED Line!F!vars
            [] part = "pq" -> Heap!B!Next \/ UNCHANGED Heap!B!vars
            [] part = "vec" -> Growing!V!Next \/ UNCHANGED Growing!V!vars
            [] part = "small_vec" -> Fixed!V!Next \/ UNCHANGED Fixed!V!vars
            [] part = "vstr" -> String!T!Next \/ UNCHANGED String!T!vars]_vars

(* vlib.h:528-534 and README.md say list_insert_at inserts at an index:    *)
(* a walk from the head meets every node of the list.                      *)
ForwardMeetsAll == part = "list" => List!ForwardMeetsAll

(* README.md:335 calls the priority queue a min-heap, and                  *)
(* tests/pq_test.c:29-53 polls the values in increasing order: what        *)
(* pq_delete returns, the root, is always a least element.                 *)
RootIsMin == part = "pq" => Heap!RootIsMin

(* vlib.h:386-387: if iter.cur is null, iteration is complete.  So after   *)
(* as many steps as there are elements it is null.                         *)
IterCompletes == part = "vec" => Growing!IterCompletes
=============================================================================
