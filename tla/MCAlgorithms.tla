---------------------------- MODULE MCAlgorithms ----------------------------
(***************************************************************************)
(* One run over the procedures that keep nothing between calls but what    *)
(* the client hands them: the four sorts, the binary search, the binary    *)
(* tree and the random bytes.  The first state chooses which one is        *)
(* called, and the variables the others have are Null.                     *)
(*                                                                         *)
(* The sorts get every array of up to six elements of three ranks: equal   *)
(* elements, and halves of different length at two levels.  The search     *)
(* gets every sorted array of up to seven of five values.  The binary tree *)
(* has up to four nodes with two values and is compared with every one of  *)
(* up to three.  A block of random bytes has two, and none, a part of one, *)
(* one, and two with a part are asked for.                                 *)
(***************************************************************************)
EXTENDS Arrays

CONSTANTS Null, Needles, MaxSearched,    \* what binary_search is given: values and length
          Data, MaxNodes, MaxCompared,   \* of the binary tree and those it is compared with
          Entropy, Clock, BlockSize, Word, Lengths, MaxBlocks    \* of get_random_bytes

VARIABLES part, rank, len, arr, i, j, fault, needle,
          key, inner,
          tmp, todo, k, merging,
          calls, idx, partitioning,
          lo, hi, tried, result,
          tree, freed, queue, visited, lost, reply,
          seed_initialized, seed, counter, asked, out, pc, used

sorted == <<rank, len, arr, i, j>>
inserting == <<key, inner>>
joining == <<tmp, todo, k, merging>>
dividing == <<calls, idx, partitioning>>
searching == <<lo, hi, tried, result>>
walking == <<tree, freed, queue, visited, lost, reply>>
filling == <<seed_initialized, seed, counter, asked, out, pc, used>>
vars == <<part, sorted, fault, needle, inserting, joining, dividing, searching, walking, filling>>

Bubble == INSTANCE BubbleSort
Insertion == INSTANCE InsertionSort
Halving == INSTANCE MergeSort
Quick == INSTANCE QuickSort
Search == INSTANCE BinarySearch WITH Rank <- Needles, MaxLen <- MaxSearched
Binary == INSTANCE BinaryTree
Random == INSTANCE RandomBytes WITH Zero <- Null

ASSUME CallAssumption ==
    Search!ArrayAssumption /\ Binary!TreeAssumption /\ Random!RandomAssumption
---------------------------------------------------------------------------
NoArray == rank = Null /\ i = Null /\ j = Null
NoInserting == key = Null /\ inner = Null
NoJoining == tmp = Null /\ todo = Null /\ k = Null /\ merging = Null
NoDividing == calls = Null /\ idx = Null /\ partitioning = Null
NoSearching == lo = Null /\ hi = Null /\ tried = Null /\ result = Null
NoWalking == /\ tree = Null /\ freed = Null /\ queue = Null /\ visited = Null
             /\ lost = Null /\ reply = Null
NoFilling == /\ seed_initialized = Null /\ seed = Null /\ counter = Null
             /\ asked = Null /\ out = Null /\ pc = Null /\ used = Null

Init ==
    \/ /\ part = "bubble_sort" /\ Bubble!Init
       /\ fault = Null /\ needle = Null
       /\ NoInserting /\ NoJoining /\ NoDividing /\ NoSearching /\ NoWalking /\ NoFilling
    \/ /\ part = "insertion_sort" /\ Insertion!Init
       /\ needle = Null
       /\ NoJoining /\ NoDividing /\ NoSearching /\ NoWalking /\ NoFilling
    \/ /\ part = "merge_sort" /\ Halving!Init
       /\ needle = Null
       /\ NoInserting /\ NoDividing /\ NoSearching /\ NoWalking /\ NoFilling
    \/ /\ part = "quick_sort" /\ Quick!Init
       /\ j = Null /\ fault = Null /\ needle = Null
       /\ NoInserting /\ NoJoining /\ NoSearching /\ NoWalking /\ NoFilling
    \/ /\ part = "binary_search" /\ Search!Init
       /\ NoArray /\ fault = Null
       /\ NoInserting /\ NoJoining /\ NoDividing /\ NoWalking /\ NoFilling
    \/ /\ part = "binary_tree" /\ Binary!Init
       /\ NoArray /\ len = Null /\ arr = Null
       /\ NoInserting /\ NoJoining /\ NoDividing /\ NoSearching /\ NoFilling
    \/ /\ part = "random" /\ Random!Init
       /\ NoArray /\ arr = Null /\ fault = Null /\ needle = Null
       /\ NoInserting /\ NoJoining /\ NoDividing /\ NoSearching /\ NoWalking

BinaryStays == UNCHANGED <<sorted, inserting, joining, dividing, searching, filling>>
RandomStays == UNCHANGED <<rank, arr, i, j, fault, needle,
                           inserting, joining, dividing, searching, walking>>

(* The steps of a call under way *)
Goes ==
    /\ UNCHANGED part
    /\ \/ /\ part = "bubble_sort" /\ Bubble!Next
          /\ UNCHANGED <<fault, needle, inserting, joining, dividing, searching, walking, filling>>
       \/ /\ part = "insertion_sort" /\ Insertion!Next
          /\ UNCHANGED <<needle, joining, dividing, searching, walking, filling>>
       \/ /\ part = "merge_sort" /\ Halving!Next
          /\ UNCHANGED <<needle, inserting, dividing, searching, walking, filling>>
       \/ /\ part = "quick_sort" /\ Quick!Next
          /\ UNCHANGED <<j, fault, needle, inserting, joining, searching, walking, filling>>
       \/ /\ part = "binary_search" /\ Search!Halve
          /\ UNCHANGED <<rank, i, j, fault, inserting, joining, dividing, walking, filling>>
       \/ part = "binary_tree" /\ Binary!SearchStep /\ BinaryStays
       \/ part = "random" /\ Random!Step /\ RandomStays

(* The client's next call *)
Calls ==
    /\ UNCHANGED part
    /\ \/ part = "binary_tree" /\ Binary!Call /\ BinaryStays
       \/ part = "random" /\ Random!Calls /\ RandomStays

Next == Goes \/ Calls

(* A call goes on until it returns: nothing else runs in between. *)
Spec == Init /\ [][Next]_vars /\ WF_vars(Goes)
---------------------------------------------------------------------------
(* Between steps an array to be sorted, with what is held outside it, has  *)
(* its elements, each once; and reads and writes stay inside it.           *)
TypeOK == CASE part = "bubble_sort" -> Bubble!TypeOK
            [] part = "insertion_sort" -> Insertion!TypeOK
            [] part = "merge_sort" -> Halving!TypeOK
            [] part = "quick_sort" -> Quick!TypeOK
            [] OTHER -> TRUE

(* What each loop has achieved so far: the sorts' settled places, sorted   *)
(* prefix, sorted halves and divided ranges; the search's shrinking range, *)
(* which still has the needle; and the bytes that get_random_bytes has     *)
(* filled and left.                                                        *)
LoopInvariants == CASE part = "bubble_sort" -> Bubble!Settled
                    [] part = "insertion_sort" -> Insertion!PrefixSorted
                    [] part = "merge_sort" -> Halving!HalvesSorted
                    [] part = "quick_sort" -> Quick!Partitioned
                    [] part = "binary_search" -> Search!Halved /\ Search!StillAhead
                    [] part = "random" -> Random!FillsWhatWasAsked
                    [] OTHER -> TRUE

(* A sort that returns has sorted, and all but quick_sort stably.          *)
Sorts == CASE part = "bubble_sort" -> Bubble!SortsStably
           [] part = "insertion_sort" -> Insertion!SortsStably
           [] part = "merge_sort" -> Halving!SortsStably
           [] part = "quick_sort" -> Quick!Sorts
           [] OTHER -> TRUE

(* A search answers whether the needle is there, a comparison whether the  *)
(* trees are equal, and a walk gives every node once, in its order; a      *)
(* search of the tree goes from level to level.                            *)
Answers == CASE part = "binary_search" -> Search!Decides
             [] part = "binary_tree" -> /\ Binary!LevelOrder
                                        /\ Binary!BfsDecides /\ Binary!CompareDecides
                                        /\ Binary!WalksInOrder
             [] OTHER -> TRUE

(* quick_sort nests no deeper than its length has binary digits.           *)
ShallowStack == part = "quick_sort" => Quick!ShallowStack

(* No block of random bytes is made twice, and a seed once read is kept.   *)
NoBlockTwice == [][part = "random" => Random!NoBlockTwice /\ Random!SeedStays]_vars

(* Every call returns, or stops where the code serves it no further.       *)
Returned == CASE part = "bubble_sort" -> Bubble!Done
              [] part = "insertion_sort" -> Insertion!Done \/ fault # "none"
              [] part = "merge_sort" -> Halving!Done \/ fault # "none"
              [] part = "quick_sort" -> Quick!Done
              [] part = "binary_search" -> result # 1
              [] part = "binary_tree" -> needle = Null \/ fault # "none"
              [] part = "random" -> pc = "idle"
Terminates == ~Returned ~> Returned
=============================================================================
