# A verification development for vlib

vlib is a C library of data structures and algorithms (`src/src/*.c`, one public
header `src/src/vlib.h`). This directory holds TLA+ modules translated from its
source, TLC configurations that check them on small instances, and machine-checked
proofs about all of these components, for every instance.
`PROJECT.json` says which lines each definition models.

The library is sequential and persists nothing: no threads, no locks, no messages, no
timers. What is hard about it is elsewhere:

- **partial failure**: nearly every call allocates, several allocate twice or three
  times, and a failure half-way must leave the structure usable;
- **long sequences of legal calls** that reach a state one call alone never shows
  (evictions, growth after deletion, heaps after deletions, rotations);
- **pointers that outlive a call**: the lru keeps pointers into its tables, an iterator
  keeps pointers into a vector that may move, freed blocks come back at the same address;
- **boundaries of `size_t`**, capacities 0 and 1, the only element, the last index;
- **loops and recursions** whose ranges must shrink, stay inside the array and end;
- **uninitialised memory** (`qnode_new` leaves `next` unset).

## 1. Inventory

| component | state | operations | interacts with | what makes it correct |
|---|---|---|---|---|
| hash table, `ht.c` | array of buckets, each a growing array of pointers to separately allocated entries; `len`, `cap`, seed | new, insert, try_insert, get, has, delete, len, free | siphash, `get_random_bytes`; client `cmp_key` and free callbacks; used by lru | it is a dictionary; no leak, no dangling pointer, every entry in the slot its key hashes to; failed calls change no association; entries never move |
| set, `set.c` | as the table, entries are keys | new, insert, has, delete, len, free | as the table | it is a set; failed inserts change no membership |
| lru, `lru.c` | doubly linked list, `lookup` and `reverse_lookup` tables, `len`, `cap` | new, update, get, free | two hash tables, nodes of `list.c`, `vstr` (copy of a key) | evicts the least recently used; the two tables stay inverse and cover the list |
| linked list, `list.c` | nodes with `prev` and `next`, `head`, `tail`, `len` | append, prepend, insert_at, get, remove, remove_at, free | client callbacks | linked both ways; a sequence |
| queue, `queue.c` | nodes with `next`, `head`, `tail`, `len` | enque, deque, peek, free | used by the breadth first walks | first in, first out; garbage `next` never followed |
| priority queue, `pq.c` | array, `len`, `cap` | insert, delete, free | client comparison | returns a least element; loses nothing |
| vector, `vec.c` | one block with `len`, `cap` and the data | new, push, pop, get_at, remove_at, find, iterate, sort, search, free | sorts and search; filled by the walks | a sequence; iterators within bounds |
| AVL tree, `avl_tree.c` | nodes with heights, `num_el` | insert, delete, three walks, free | vector for the walks; client comparison and free callbacks | balanced search tree; a set |
| generic tree, `tree.c` | nodes that are reallocated as children are added | insert under a parent, find, delete, free (depth or breadth first) | queue | children reachable, parent links right, nothing leaked |
| string, `vstr.c` | small inline buffer or heap buffer | new, from, format, push char/string, len, data, cmp, free | lru | content and length through the change of representation |
| fixed-size vector, `small_vec.h` | array of fixed capacity and `len` | macros: push, pop, get_at, remove_at | | a bounded sequence |
| sorts, binary search | none between calls; indices, a copy, a recursion | bubble, insertion, merge, quick sort; search | client comparison; used by the vector | a sorted permutation, stable but for quick sort; whether the needle is there; ends, inside the array |
| binary trees, `bt_*.c`, `binary_*.c` | nodes the client links, `num_el` | three walks, breadth first search, comparison, free | queue, vector | every node once in the order named; the search answers membership |
| random bytes, `util.c` | seed, whether it was read, a counter over all calls | get_random_bytes | sha256; seeds the hash table and the set | fills what was asked for; no block made twice |
| `siphash.c`, `sha256.c`, macros of `util.h` | none | hashes, padding | hash table, set, tree | functions of seed and bytes |

The interactions modelled: the lru over its two tables (each the dictionary that
`HashTable` is shown to implement); the walks of the AVL tree and of the binary tree over a
vector that refuses less than two slots and must have room for every node (`NumElCounts`);
the breadth first searches over a queue whose `queue_enque` may fail unnoticed; the tables'
need of a seed nobody else has (`NoBlockTwice`).

## 2. The modules

Every component module has the same shape: the fields of the C struct as variables, heap
blocks as a function from addresses to contents (`Null` when not allocated), one action
per outcome of a public call including each allocation that may fail, and `reply`, what
the last call answered and handed to a free callback. `reply` makes the refinements
meaningful: the abstract specification constrains answers, not only contents. Result code
0 is success, 1 stands for every failure value (-1, NULL, false).

After `free` a component may be made anew over the same heap (`Renew`), so blocks are
reused and a leak accumulates.

| module | models | implements | run |
|---|---|---|---|
| `HashTable` | `ht.c` | `Map` | `ht` |
| `HashSet` | `set.c` | `AbstractSet` | `set` |
| `Lru` | `lru.c` | `RecencyCache` | `lru` |
| `LinkedList` | `list.c` | `AbstractList` | `containers` |
| `Queue` | `queue.c` | `Fifo` | `containers` |
| `PriorityQueue` | `pq.c` | `Multiset` | `containers` |
| `Vec` | `vec.c` and its iterator | `AbstractVec` | `containers` |
| `SmallVec` | `small_vec.h` | `AbstractVec` | `containers` |
| `Vstr` | `vstr.c` | `Text` | `containers` |
| `AvlTree` | `avl_tree.c` | `OrderedSet` | `trees` |
| `GenericTree` | `tree.c` | `OrderedTree` | `trees` |
| `BubbleSort`, `InsertionSort`, `MergeSort`, `QuickSort` over `Arrays` | the four sorts | | `algorithms` |
| `BinarySearch` | `binary_search.c` | | `algorithms` |
| `BinaryTree` | `binary_node.c`, `binary_tree.c`, `bt_*.c` | | `algorithms` |
| `RandomBytes` | `util.c` | | `algorithms` |

Theorems are in modules of their own, each extending what it is about:

| module | theorems about |
|---|---|
| `DataLemmas` | lemmas: least naturals, induction up to a number, sequences after removal or insertion, powers of two |
| `HashTableProofs` | `HashTable`, and that it is the dictionary `Map` |
| `HashSetProofs` | `HashSet`, and that it is the abstract set |
| `LruProofs` | `Lru`, and that it is `RecencyCache` |
| `ListProofs` | lemmas: the queue and the linked list, and that they are `Fifo` and `AbstractList` |
| `ContainerProofs` | the priority queue, the vectors and the string, and the theorems about the run `containers` |
| `TreeProofs` | the two trees of the run `trees`: `GenericTree` and that it is `OrderedTree`, `AvlTree` and that it is `OrderedSet` |
| `AlgorithmProofs` | the sorts, the binary search, the random bytes, the binary tree, and the theorems about the run `algorithms` |

The `MC*` modules give the constants their values. `MCContainers` and `MCAlgorithms` hold
several components that share nothing: the first state chooses one of them (`part`), the
variables of the others are `Null` and stay so, and each property says for each part what is
required of it. One exploration is then the sum, not the product, of the parts. Their
parameters are constants, given values in the .cfg, and the components' assumptions on them
are definitions, which the composing module assumes (`ContainerAssumption`). A component's
abstract specification is taken apart into its first state and its step, since a refinement
holds of one part only. `MCTrees` does the same for the two trees: it extends `GenericTree`,
whose variables are its own, and takes `AvlTree` as an instance.

Definitions whose comment begins with
"Mutant" are plausible bugs: replacing the definition that follows by one of them makes
the property `PROJECT.json` names fail, which shows that the property can fail.

How state and actions correspond to the code, where it is not obvious:

- **`HashTable`, `HashSet`.** `buckets` holds the `Cap` slots that are ever indexed.
  `ht_resize` never assigns `ht->cap` (vlib.h:906 calls it "the number of slots available
  in the table"), so `ht_hash` keeps its first modulus, the added slots stay empty, and
  every insert at `len >= cap` reallocates and rescans again; `slots` is the number
  allocated, `Cap` or `2 * Cap`. The same holds of `set.c`, which asks only at
  `len == cap`. `Placed` is why no entry is ever lost by this. The hash is any
  function of a family `Seeded`; `Canon` picks a representative among keys the client's
  `cmp_key` calls equal. The library hashes bytes, so a client must see to it that equal
  keys hash alike (`SeedAssumption`).
- **`Lru`.** `Detach`, `Prepend` are the C procedures on one record `chain`; an update
  that evicts is one action, because `lru_update` ends in `lru_trim_cache`. `reverse` maps
  nodes to the copy of the key. Events after which the code makes no promise set `fault`
  and stop the model: a `node_new` without memory (written through before it is tested,
  list.c:166), a key copy that failed, an insertion into `reverse_lookup` that failed
  (lru.c:40: `lookup` keeps a freed node), the walk of `lru_free`.
- **`LinkedList`.** `list_insert_at` strictly inside is such an event too (see findings),
  and so is `idx == len` in `list_get` and `list_remove_at`, which read through NULL.
- **`Queue`.** A new node's `next` is any pointer whatever: the nondeterministic choice
  for memory `malloc` did not initialise.
- **`PriorityQueue`.** Both sift procedures as the code writes them, including the scan of
  every index by `heapify_up` and the early returns of `heapify_down`.
- **`Vec`.** `block` is the address; a growing push may move it. Iterators carry the block
  of their creation; stepping one whose block is gone ends the model, and so does a push of
  one of the vector's own elements while it grows. `end_idx` wraps at `Word`, which stands
  for 2^64. `Halves` iterates one comparison of the search, `Halved`. The vector's sorts are
  taken at their result, which the modules of the algorithms establish; `vec_insertion_sort`
  and `vec_merge_sort` may also stop (`SortStops`), for the reasons found there.
- **`Vstr`.** A character is one of a small set and 0 the terminator; `Small` stands for
  `VSTR_MAX_SMALL_SIZE`, `Large` for `VSTR_MAX_LARGE_SIZE`. A push that finds no memory to
  move to the heap (vstr.c:149) has overwritten the union by then: it fails and the text is
  lost, which `Text` allows of a small string only. A failed assertion of `vstr.c` (`Aborts`)
  sets `fault` and ends the model.
- **`GenericTree`.** A node is a block with a capacity for children; a child beyond it may
  move the block, and then the pointer in its parent, or `tree->root`, follows, the parent
  pointers in its children do not. A search or a release is `Visits`: a step takes one node of
  what is left and puts its children before or behind the rest. `Found` is a set: a breadth first search short of memory
  passes over any of the nodes it could not queue. `OrderedTree` knows no addresses: nodes
  are paths, and the orders of search are orders of paths.
- **`MergeSort`, `QuickSort`.** The recursion is a stack of what is left to do, one step per
  comparison or block copied. An element is named by its first place, which makes "the same
  elements" and "stable" one-line statements. `InsertionSort` has j = -1 for the `size_t`
  after 0, where the memory before the array decides whether the loop stops or leaves.
- **`BinarySearch`.** Over no element the first comparison reads whatever is there.
- **`BinaryTree`.** Nodes are named by the turns from the root. Walks, comparison and release
  are one step; `bt_bfs` takes a step per node, and any `queue_enque` may fail.
- **`RandomBytes`.** A block is named by the seed and the counter it is the digest of. The
  seed is read once or, as long as that fails, made up by each call.
- **`AvlTree`.** A tree is its root node with its subtrees, or `NoTree`, since no other pointers
  into it exist between calls; recursion returns the tree left behind. Each recursive procedure
  is a function on the subtrees of the tree it is called for (`Subtrees`). `InsertFails` keeps the
  node that was the root, as `avl_insert` does not assign `tree->root` then. In the
  two-child deletion the code passes the successor's key by a pointer into a node; it is
  not read after that node has been found, so the model passes its value.

## 3. Runs

| run | bounds | states | what it shows |
|---|---|---|---|
| `ht` | 4 keys (two equal under `cmp_key`), 3 entries, 2 values, 2 slots, bucket capacity 1, every hash into 2 slots | 11 374 | dictionary; `NoDangling`, `Placed`, `Unique`, `NoLeak`, `LenCounts`, `WithinRoom`; entries do not move while their key stays |
| `set` | 5 keys (two equal), 2 slots, bucket capacity 1 | 10 170 | abstract set; `WellFormed`; `GrowthAsked`: the test `len == cap` never lets the length slip past |
| `lru` | capacities 0..3, 4 keys, 5 nodes, 2 values, at most 6 new keys | 726 (up to symmetry) | least-recently-used eviction; list and both tables agree; `min(len, cap)` nodes though `len` is never decremented, and none after `lru_free` |
| `containers` | list and queue: 4 nodes, 2 values. Priority queue: 6 elements of 5 values, initial capacity 2. Vector: 3 elements of 2 values, capacities 2 and 3, 2 addresses, 4 iterator steps, `Word` = 16. Fixed vector: 4 slots. String: inline 3, heap 6, given strings up to 4, 2 characters | 405 251 | each part well formed and its abstraction; iterators complete and stay in bounds; `vstr_cmp` is an order; what does hold of the heap |
| `trees` | generic tree: 5 blocks, 2 keys, `num_el` up to 4. AVL tree: 8 keys, at most 1 lost leaf | 66 527 (up to symmetry) | generic: a tree without leaks, the ordered tree in both orders of search; which parent pointers may be old; `num_el` covers the nodes. AVL: an ordered set; balanced, with exact heights; `num_el` its keys plus the lost leaves |
| `algorithms` | sorts: every array of up to 6 elements of 3 ranks. Search: every sorted array of up to 7 of 5 values. Binary tree: up to 4 nodes with 2 values, compared with all of up to 3. Random bytes: blocks of 2, lengths 0, 1, 2, 5, 5 blocks in all | 242 138 | the loop invariants, results and termination of each; `quick_sort` nests logarithmically; no block of random bytes twice |

Why the bounds are enough. The tables have more entries than slots and buckets that grow
twice; with two slots every pattern of collision among four keys occurs, and equal keys
that differ are among them. The lru has one key more than fits and one node more than is
ever linked, so eviction, reuse of a freed address, and head = tail occur, and capacity 0
is the case where the new node itself is evicted. List and queue take out of a list of four
the first, last, inner and only node. The priority queue has three levels, equal elements
and two doublings. The vector doubles, with iterators created before and after, and
is full at 3 without doubling. The string is exactly full, one short of it and one past it in
either buffer. Eight keys give AVL trees of four levels, where every rotation occurs on
insertion and deletion, at the root and below. Five blocks are what a tree node with two
children needs to move when the third is hung; it is the first growth that leaves parent
pointers behind. Six elements give merges of halves of different length on two levels and
partitions with both sides empty, one empty, none empty; equal ranks are in most arrays.
`MaxLen` of the lru, `MaxSteps`, `MaxLeaked`, `MaxNumEl`, `MaxBlocks` bound counters that
otherwise only grow and appear only in guards.

Deadlock is checked except where the behaviour really ends: at a `fault`, at the lru's
bound, and when a sort or a search has returned.

Fairness. In the runs of the containers each call is one step; the library acts only when
called, so no progress is promised and none claimed. In `algorithms` a call is many steps,
and the library is sequential: once called, a procedure runs until it returns. Hence weak
fairness of the steps of the call under way (`Goes`), none of the client's calls, and
`Terminates`: every call returns or stops where the code serves it no further.

### Findings, each shown by a run that must fail

- `lru_free`: with a free callback `lru_free` walks `l->len` nodes, but `len` also counts the
  evicted ones (lru.c:76): it leaves the list through NULL.
- `list_insert`: `list_insert_at` inside the list makes the new node its own successor
  (list.c:38); the head's end of the list is then shorter than `len`.
- `pq_order`: `heapify_down` ignores an only child and equal children (pq.c:55-75), so
  `pq_delete` may return an element that is not a least one.
- `vec_iter`: over an empty vector `end_idx` wraps (vec.c:159), and the iterator yields
  pointers.
- `avl_callback`: deleting a node with one child gives the free callback the child's key,
  which stays in the tree (avl_tree.c:159).
- `tree_parent`: after a node has moved, deleting one of its older children goes through the
  block it left (tree.c:319, 168).

Seen while modelling, without a run of their own; each is in the models as a `fault`, an
answer, or a choice of outcomes:

- `ht_resize` and `set_resize` never assign `cap` (see above).
- avl_tree.c:153-155: a deleted leaf is unlinked, not freed, not counted, and the call answers
  -1; `DeleteLeaf` models it and `NumElCounts` states the count exactly.
- lru.c:40-46: when the insertion into `reverse_lookup` fails, `lookup` keeps a freed node;
  lru.c:27: a key copy that failed is not noticed, and its eviction later leaves one too.
- list.c:66, 108: `idx == len` passes the test of `list_remove_at` and `list_get`, which read
  through NULL; list.c:166: `node_new` writes through what `malloc` returned.
- tree.c:69-80, 173: `num_el` does not count the root, and a subtree deleted counts as one;
  tree.c:264: deleting the root reads through its NULL parent.
- vstr.c:44: `vstr_from` without memory answers a string of zeros of the inline length;
  tests/vstr_test.c:57 expects a long string to be small.
- insertion_sort.c:12: `j >= 0` of a `size_t` always holds, and the comparison leaves the
  array; merge_sort.c:13: `len - 1` wraps for no elements.
- bt_bfs.c:14, 27, 30: `queue_enque` unchecked, so a search short of memory answers false; the
  NULL root of an empty tree is compared.
- vec.c:24: walks of a tree with fewer than two counted nodes answer NULL, since
  `vec_new_with_capacity` refuses less than 2.
- binary_search.c:9: a search of no element compares the first slot; in an emptied vector that
  is the element popped last.
- vlib.h:349 says that the needle is passed first to the comparison, binary_search.c:12
  passes it second.

## 4. Proofs

Every theorem holds for every value of the constants that the named ASSUMEs of its module
allow. Those are: addresses and nodes are finite, `Null` is none of the things it stands in
for, capacities and block sizes are positive where the code makes them so, ranks and needles
are integers; for the tables `SeedAssumption`, the client's duty that equal keys hash alike;
for the random bytes that fewer blocks are made than the counter has values
(`MaxBlocks < Word`, 2^64 in the code); for the vector that lengths and the steps of an
iterator stay below `Word`; for the string that the heap buffer is larger than the inline one.

| theorem | property | of |
|---|---|---|
| `TypeCorrect`, `NoDanglingHolds`, `PlacedHolds`, `UniqueHolds`, `NoLeakHolds`, `LenCountsHolds`, `WithinRoomHolds`, `StablePointersHolds`, `MapImplemented` | all of the run `ht` | hash table |
| `TypeCorrect`, `WellFormedHolds`, `GrowthAskedHolds`, `SetImplemented` | all of the run `set` | set |
| `TypeCorrect`, `WellLinkedHolds`, `TablesAgreeHolds`, `FullButNeverOverHolds`, `StableNodesHolds`, `CacheImplemented` | all of the run `lru` | lru |
| `TypeCorrect`, `WellFormedHolds`, `CmpIsOrderHolds`, `InsertSurfacesMinHolds`, `OddDeleteKeepsHeapHolds`, `ContainersImplement` | all of the run `containers` | list, queue, priority queue, vectors, string |
| `TypeCorrect`, `LoopInvariantsHold`, `SortsHold`, `ShallowStackHolds`, `AnswersHold`, `NoBlockTwiceHolds` | the run `algorithms` but for `Terminates` | sorts, search, binary tree, random bytes |
| `TypeCorrect`, `IsTreeHolds`, `OldParentsHolds`, `NumElCoversHolds`, `OrderedTreeImplemented` | the generic tree of the run `trees` | generic tree |
| `BalancedHolds`, `NumElCountsHolds`, `OrderedSetImplemented` | the AVL tree of the run `trees` | AVL tree |
| `SearchDecides` | the part of `Answers` about the search | binary search |

**Hash table and set.** `IInv` is the conjunction of the run's invariants, which TLC checks.
None of the parts that matter is inductive alone: `len' = len - 1` stays natural because
`LenCounts` says `len` counts stored entries and one was found; `NoDangling` survives a
deletion because `Unique` says the pointer removed was the only one to the freed block;
`Unique` survives an insertion because `Placed` says that the slot searched is the only one a
key equal to the new one can be in; `LenCounts` needs `NoLeak` and `NoDangling` to know that
the address of a new entry was not stored. One lemma per action (`AddPreserves`,
`DeletePreserves`, ...) and `NextPreserves` combines them. `StablePointersHolds` adds that
whatever is stored after a step of a live table was stored before it under the same key, or
has a key that was not present (`StepKeeps`). For `MapImplemented` and `SetImplemented` the
abstract state is read off the stored entries: a found key has exactly one
(`FoundHolds`), so every step changes one association, or none.

**Lru.** The run's invariants speak of walks from `l->head` and `l->tail`. The inductive
invariant says instead that there is a sequence `s` of nodes with these links (`Chained`),
to which both tables are inverse (`Agree`), of the smaller of `len` and `cap` nodes. Each
procedure of `lru.c` is then followed on `s`: `lru_detach` is `Minus(s, i)` (`DetachChained`),
`lru_prepend` is `Plus(n, s)`, moving to the front is both, an eviction takes the last node
out. `ListFactsHold` leads back to the walks: by induction along the list, the walk is `s`.
`CacheImplemented` maps `s` to the order of associations that `RecencyCache` keeps; since
`OrderOf` takes `Plus` to `Plus` and `Minus` to `Minus`, the abstract step is the image of the
concrete one.

**Queue and linked list.** As for the lru there is a sequence `s` of nodes (`InLine`,
`BothWays`), and what the runs state with walks follows from it (`AtIsLine`,
`ForwardIsList`, `BackIsList`). Of the queue nothing is said of the last node's `next`, which
is whatever memory held; the invariant is that no walk of `len` nodes reads it. Of the list
the invariant distinguishes: after `list_insert_at` strictly inside, only the links from the
tail make a list (`FromBack`), and the model stops; before, both do. `list_free` and
`queue_free` are the reason for its last part, that every node allocated is in `s`: none is
left. The items of `s` are the abstract sequence (`ItemsAreLine`, `ItemsAreList`).

**Priority queue.** `PqInv` alone says little, since deletions need not leave a heap; the
work is in the two loops, followed pass by pass.
- `heapify_up` scans all indices from the last. After the pass over `i` a least element is
  among the slots up to `i` (`MinUpTo`), so at the end it is the root, whatever the array
  was (`InsertSurfacesMin`). If the array was a heap but for its last slot, it is one in all
  but the slot the new element has reached (`Lifted`), so growing alone keeps the heap.
- `heapify_down` stops at an only child. From a heap of distinct values with an odd number
  left no place has an only child, and equal children do not occur: the array is a heap but
  at the place where the moved element now is (`Sinking`), and where the loop stops it is one.
- Both loops permute the slots in use (`Permutes`), so each value occurs as often as before
  (`Times`), which makes the array a bag.

**Vectors.** The block has `cap` slots, values below `len` (`VecData`). Of an iterator the
invariant says at which step it is (`AtStep`) while its vector has not changed, and that it
stays below `born` otherwise (`VecIteration`); `IterYieldsAll` and `IterInBounds` follow. A
search halves the range (`Ranges`); a needle it reports is in the vector. A sort is given by
the order the elements come in, an injection of the places, hence a permutation: no element
occurs more often than before.

**String.** What a client sees is the buffer up to its length; a zero follows it
(`Buffered`), and the rest of either buffer is zero as well, which `vstr_push_char` relies
on, since it writes no terminator. `PushResult` says what a push can leave, in the same buffer, in
the larger one, or nothing when the move fails; pushing a string is a fold of it. `vstr_cmp`
decides at the first difference (`CmpDecides`), so it is the order of sequences (`Before`).

The recursive functions of these modules (walks, passes, pushes) are shown to exist and to
satisfy their equations for every bound (`RecursionExists`).

**Generic tree.** No depth and no path occurs in the invariant (`TreeInv`). `Linked` says that
every node but the root is a child of exactly one node, once, and that every set with the root
and the children of its members has all blocks. The last part replaces reachability: it is
used by choosing the set. Nodes in a circle would be outside the complement's reach (`NoLoop`),
so a walk never meets a node twice, ends after as many steps as there are blocks, and its
result is closed, hence the whole tree or subtree (`StepBetween`, `WalkIsSubtree`). A growth
that moves a block is a renaming of nodes with one new child (`GraftHangs`), a deletion takes out
a set closed under children with one pointer into it (`PruneHangs`). `IsTree`
follows: what is allocated is what a walk visits. For `OldParents` the growth of a block doubles
its capacity, so what was hung before lies in the first half. A deletion needs the holder found
to be outside what is freed, or the freed nodes were a circle.

`OrderedTreeImplemented` maps a node to its path from the root.
- A chart (`IsChart`) gives the node at the end of each path. A tree that hangs together has one,
  each node is on it once (`ChartNodes`), and no path has more steps than there are blocks
  (`ChartDepth`), so the rows of `NodeByPath` end where the chart does (`NodesByPath`).
- Every walk keeps two relations: of nodes already visited to those after them, and of nodes that
  wait to those behind them. What these say of two nodes they say of their children
  (`Directs`), so a walk goes in the order of its paths (`WalkInOrder`, `VisitDirects`), and passes
  over no node on the way to one it visits. The node a search finds is then the first of a set
  the ordered tree may meet (`FoundIsFirst`), and since a set of paths has one listing with children
  before parents (`OneListing`), the keys freed are in the order given (`FreedKeys`).
- An insertion adds the path of the last child to the chart, and if the block moved the node
  at its holder's path is another (`GraftChart`). A deletion takes out the paths that lead through
  the node and moves those through its later siblings one place down (`PruneChart`).

**AVL tree.** The assumption is that the keys are integers compared as such (`AvlAssumption`);
nothing bounds their number, so the tree has any size. `AvlInv` says that the root is `Good`, also
after `avl_tree_free`, and what `num_el` counts.
- `Good` names a set of nodes with the root, closed under children, each of which has the true
  height, leans by at most one and is in search order (`Even`, `Ordered`). The heights are true
  for all members together, so they fall on every way down, and the members below
  a node are those its height lets `Nodes` reach (`NodesStop`). It is built up and taken apart at
  the root (`GoodMade`, `GoodRoot`), and what holds of the empty tree and of a node when it holds
  of the two subtrees holds of all (`GoodInduction`, by the recorded height).
- The procedures are folds of one kind (`StepAt`); that each exists and answers at a node what the
  code does with the answers for its children follows once for all (`ProcedureExists`).
- A node of which one subtree is too high by one becomes `Good` by one rotation or two
  (`RotatedRight`, `RotatedLeftRight` and their mirror images), with the keys it had, and it is as
  high as before or lower by one. `insert` chooses among them by comparing keys, `delete_node` by a
  balance; that both choose right is part of the two inductive hypotheses. `Grown`: an insertion
  makes a tree higher by one at most, and then it leans to where the key went. `Shrunk`: a
  deletion makes it lower by one at most.
- A failed insertion measures and rotates on its way as well, but leaves every node as it was
  (`FailedInsertKeeps`). This is why `avl_insert` may leave `tree->root` alone then.
- Since the tree at a walk is `Good`, each key is met once, in order when each key goes between
  those of its two subtrees (`WalkMeets`). `OrderedSetImplemented` maps the tree to its keys.

**Sorts.** An array is the elements named by their first places, for any length.
- `bubble_sort`: `TypeOK` and `Settled` are inductive as the run checks them.
- `insertion_sort`: besides the sorted prefix, that the element held outside the array, put
  in the gap, makes it whole again, that it is smaller than what has been moved past it, and
  that what lies behind it has not moved, so that a tie leaves equals in their order.
- `quick_sort`: `Divided` (places that no range on the stack has both of are in order), the
  ranges `Apart`, and `Within`, where `(hi - lo + 2) * 2 ^ height <= len + 1` bounds the stack:
  the call is made for the smaller side, so a range is at most half of the one below. As a
  range that is divided has two places or more, `2 ^ height <= len` as well (`Shallow`).
- `merge_sort`: the stack of what is left to sort and to join is most of the invariant
  (`MergeInv`). Its entries are ranges (`Spans`) which lie beside one another or in the halves of a
  join (`Nested`); when it is an entry's turn its halves are sorted, because they are so now or an
  entry above has just them to sort (`Due` in `Ready`); the longer the range, the lower the entry
  (`Low`), which bounds the stack by twice the length. While a merge runs, all this is said of
  the array with the rest of `tmp` put back in it (`Back`), which a step of the merge only
  rotates (`Rotation`); what is placed is sorted and comes before all that waits (`Placed`).
  Stability is part of it: `Before` compares ranks first, then names.

**Binary search.** `(hi - lo) * 2 ^ tried <= len` while it runs, and the needle, if it is
anywhere, is at a place in question.

**Random bytes.** What is left to fill takes `Blocks(len)` blocks, and the counter plus that
never exceeds `MaxBlocks`; the counters used are below the present one; all blocks of a call
but the last are whole.

**Binary tree.** Every tree of `TreesUpTo` has, with a node, those above it, and its paths are
shorter than its bound (`TreesAreRooted`); nothing else of its shape is used.
- The walks and the comparison are recursions of one kind (`StepTo`): such a recursion exists and
  satisfies its equations (`FoldExists`, `WalksAnswer`), and what holds where there is no node, and
  of a node when it holds of its two children, holds of the root (`UpToRoot`, by the depth left).
- A walk lists what is under a node: the node and the two lists under its children, in the order
  of the walk. Those lists have no node in common, and whatever is under the left child goes before
  whatever is under the right one (`SidesGo`), so the whole has each node once and in order
  (`WalkLists`). The comparison answers whether the trees agree from a node on (`SameDecides`).
- `BinaryInv` of the search. The children of node number n have the numbers 2 n and 2 n + 1
  (`LevelTurned`), and no node in line has a number as high as twice the first one's (`Lined`),
  which is why children put behind all others keep the line in order (`LineMoves`). As long as no
  memory was refused, the root and every child of what the search went past is in line or was
  passed (`Reaches`); when the line is empty, a shortest path left out would be the child of one
  that was not, so nothing is left out (`ReachesAll`).

Only model-checked, and why:
- `Terminates`: liveness under fairness, as ENABLED, is out of the prover's reach.
- The runs that end in a violation, which show what the code does and not what it keeps.

Induction is used in one form throughout, up to a number with a set for the hypothesis
(`InductionTo` of `DataLemmas`), because the library's theorems take the hypothesis as a
parameter, which no installed prover instantiates. Powers of two are cardinalities of sets of
subsets (`PowerOfTwo`).

## 5. Not modelled

`siphash.c` and `sha256.c` are stateless third-party mixing functions, of which the tables
need only that they are functions; the padding macros of `util.h` and `vlib.h` place fields
at aligned offsets, and the models have fields instead. Of the modelled components: an
`enque` after `queue_free`, which writes through a dangling tail; entries inserted with
NULL data beside others with data (ht.c:417: the block then has no room for a value);
a string pushed onto itself (vstr.c:275); clients that break `SeedAssumption` or give a
comparison that is no order; a second, different tree operation while a callback runs; sizes
that overflow `size_t` in an allocation.

## 6. Plan

Done: every component but those of section 5 is modelled and checked, and of each the
properties of its run are proved, all refinements included, but for `Terminates`.
