-------------------------------- MODULE Lru --------------------------------
(***************************************************************************)
(* The lru of src/lru.c: a doubly linked list of nodes, most recently used *)
(* first, a table `lookup` from keys to nodes and a table `reverse` from   *)
(* nodes to copies of their keys.  The two tables are dictionaries (Map,   *)
(* which HashTable implements), written here as total functions with Null  *)
(* where a key is absent.                                                  *)
(*                                                                         *)
(* Some allocation failures leave the struct in a state the code does not  *)
(* survive.  `fault` records the first one; nothing is claimed after it    *)
(* and the model stops there.                                              *)
(***************************************************************************)
EXTENDS Naturals, Sequences, FiniteSets

CONSTANTS
    Key, Value, Null,
    Node,        \* the heap blocks node_new can return
    Caps,        \* the capacities lru_new is given
    FreeCalls,   \* whether lru_free is called with a free_val: a set of Booleans
    MaxLen       \* bound on l->len, which only grows

ASSUME LruAssumption ==
    /\ IsFiniteSet(Node)
    /\ Caps \subseteq Nat /\ MaxLen \in Nat
    /\ FreeCalls \subseteq BOOLEAN
    /\ Null \notin Key /\ Null \notin Value /\ Null \notin Node
    /\ Null \notin [val : Value, prev : Node \cup {Null}, next : Node \cup {Null}]

VARIABLES
    chain,     \* the nodes (Null: not allocated), l->head and l->tail
    len,       \* l->len
    cap,       \* l->cap
    lookup,    \* l->lookup: key -> node
    reverse,   \* l->reverse_lookup: node -> key
    alive,     \* between lru_new and lru_free
    fault,     \* the first event the code does not survive, or "none"
    reply

vars == <<chain, len, cap, lookup, reverse, alive, fault, reply>>
fields == <<len, cap, lookup, reverse, alive, fault>>
---------------------------------------------------------------------------
Faults == {"none", "node_new", "key_copy", "reverse_insert", "free_walk"}
Pointer == Node \cup {Null}
Contents == [val : Value, prev : Pointer, next : Pointer]
Chain == [node : [Node -> Contents \cup {Null}], head : Pointer, tail : Pointer]
Reply == [op : {"new", "free", "update", "get"}, key : Key \cup {Null},
          code : {0, 1}, out : Value \cup {Null}]
Answer(op, k, code, out) == [op |-> op, key |-> k, code |-> code, out |-> out]

Unused == {n \in Node : chain.node[n] = Null}
NoNodes == [node |-> [n \in Node |-> Null], head |-> Null, tail |-> Null]
Cached(k) == lookup[k] # Null
ValueOf(k) == chain.node[lookup[k]].val
Running == alive /\ fault = "none"

(* node_new *)
Allocate(c, n, v) == [c EXCEPT !.node[n] = [val |-> v, prev |-> Null, next |-> Null]]
Release(c, n) == [c EXCEPT !.node[n] = Null]
Store(c, n, v) == [c EXCEPT !.node[n].val = v]

(* Mutant: taking out the last node leaves l->tail where it is. *)
DetachKeepsTail(c, n) ==
    LET p == c.node[n].prev
        x == c.node[n].next
    IN  [node |-> [m \in Node |->
                      IF m = n THEN [c.node[n] EXCEPT !.prev = Null, !.next = Null]
                      ELSE IF m = p THEN [c.node[m] EXCEPT !.next = x]
                      ELSE IF m = x THEN [c.node[m] EXCEPT !.prev = p]
                      ELSE c.node[m]],
         head |-> IF n = c.head THEN x ELSE c.head,
         tail |-> c.tail]

(* lru_detach: unlink a node and clear its links *)
Detach(c, n) ==
    LET p == c.node[n].prev
        x == c.node[n].next
    IN  [node |-> [m \in Node |->
                      IF m = n THEN [c.node[n] EXCEPT !.prev = Null, !.next = Null]
                      ELSE IF m = p THEN [c.node[m] EXCEPT !.next = x]
                      ELSE IF m = x THEN [c.node[m] EXCEPT !.prev = p]
                      ELSE c.node[m]],
         head |-> IF n = c.head THEN x ELSE c.head,
         tail |-> IF n = c.tail THEN p ELSE c.tail]

(* lru_prepend *)
Prepend(c, n) ==
    IF c.head = Null
    THEN [c EXCEPT !.head = n, !.tail = n]
    ELSE [c EXCEPT !.node[n].next = c.head, !.node[c.head].prev = n, !.head = n]

ToFront(c, n) == Prepend(Detach(c, n), n)
---------------------------------------------------------------------------
Init ==
    /\ chain = NoNodes /\ len = 0 /\ cap \in Caps
    /\ lookup = [k \in Key |-> Null] /\ reverse = [n \in Node |-> Null]
    /\ alive = TRUE /\ fault = "none"
    /\ reply = Answer("new", Null, 0, Null)

Renew ==
    /\ ~alive /\ fault = "none"
    /\ chain' = [chain EXCEPT !.head = Null, !.tail = Null]
    /\ len' = 0 /\ cap' \in Caps
    /\ lookup' = [k \in Key |-> Null] /\ reverse' = [n \in Node |-> Null]
    /\ alive' = TRUE
    /\ reply' = Answer("new", Null, 0, Null)
    /\ UNCHANGED fault

(* Mutant: a cached key gets a new node. *)
ReplaceByNewNode(k, v) ==
    /\ Running /\ Cached(k)
    /\ \E n \in Unused :
          /\ chain' = Release(Detach(Prepend(Allocate(chain, n, v), n), lookup[k]), lookup[k])
          /\ lookup' = [lookup EXCEPT ![k] = n]
          /\ reverse' = [reverse EXCEPT ![n] = k, ![lookup[k]] = Null]
    /\ reply' = Answer("update", k, 0, ValueOf(k))
    /\ UNCHANGED <<len, cap, alive, fault>>

(* lru_update of a cached key *)
Replace(k, v) ==
    /\ Running /\ Cached(k)
    /\ chain' = ToFront(Store(chain, lookup[k], v), lookup[k])
    /\ reply' = Answer("update", k, 0, ValueOf(k))
    /\ UNCHANGED fields

(* node_new does not look at what malloc returned (list.c:166-167) *)
NodeFails(k) ==
    /\ Running /\ ~Cached(k)
    /\ fault' = "node_new"
    /\ UNCHANGED <<chain, len, cap, lookup, reverse, alive, reply>>

(* ht_insert into lookup fails: the node and the key copy are freed *)
LookupFails(k) ==
    /\ Running /\ ~Cached(k) /\ Unused # {}
    /\ reply' = Answer("update", k, 1, Null)
    /\ UNCHANGED <<chain, fields>>

(* ht_insert into reverse_lookup fails: the node is freed, lookup keeps it *)
ReverseFails(k) ==
    /\ Running /\ ~Cached(k)
    /\ \E n \in Unused : lookup' = [lookup EXCEPT ![k] = n]
    /\ fault' = "reverse_insert"
    /\ reply' = Answer("update", k, 1, Null)
    /\ UNCHANGED <<chain, len, cap, reverse, alive>>

(* Mutant: evicts one association too early. *)
TrimEarly == len + 1 >= cap

(* lru_trim_cache's test, once len has been incremented *)
MustTrim == len + 1 > cap

(* lru_update of a new key that needs no eviction; copy is what            *)
(* vstr_from_len made of the key, Null when its allocation failed          *)
Enter(k, v, copy) ==
    /\ Running /\ ~Cached(k) /\ ~MustTrim /\ len < MaxLen
    /\ \E n \in Unused :
          /\ chain' = Prepend(Allocate(chain, n, v), n)
          /\ lookup' = [lookup EXCEPT ![k] = n]
          /\ reverse' = [reverse EXCEPT ![n] = copy]
    /\ len' = len + 1
    /\ fault' = IF copy = k THEN "none" ELSE "key_copy"
    /\ reply' = Answer("update", k, 0, Null)
    /\ UNCHANGED <<cap, alive>>

(* Mutants: the evicted key stays in lookup; the eviction decrements       *)
(* l->len and the insertion no longer increments it.                       *)
EvictFromListOnly(k, v, copy) ==
    /\ Running /\ ~Cached(k) /\ MustTrim /\ len < MaxLen
    /\ \E n \in Unused :
          LET c == Prepend(Allocate(chain, n, v), n)
          IN  /\ chain' = Release(Detach(c, c.tail), c.tail)
              /\ lookup' = [lookup EXCEPT ![k] = n]
              /\ reverse' = [reverse EXCEPT ![n] = copy, ![c.tail] = Null]
              /\ reply' = Answer("update", k, 0, c.node[c.tail].val)
    /\ len' = len + 1
    /\ fault' = IF copy = k THEN "none" ELSE "key_copy"
    /\ UNCHANGED <<cap, alive>>

EvictMiscounted(k, v, copy) ==
    /\ Running /\ ~Cached(k) /\ MustTrim
    /\ \E n \in Unused :
          LET c == Prepend(Allocate(chain, n, v), n)
          IN  /\ chain' = Release(Detach(c, c.tail), c.tail)
              /\ reply' = Answer("update", k, 0, c.node[c.tail].val)
    /\ len' = len - 1
    /\ UNCHANGED <<cap, lookup, reverse, alive, fault>>

(* ... and of one that evicts the tail: the key to delete from lookup is   *)
(* the copy found in reverse, and l->len stays incremented                 *)
EnterAndEvict(k, v, copy) ==
    /\ Running /\ ~Cached(k) /\ MustTrim /\ len < MaxLen
    /\ \E n \in Unused :
          LET c == Prepend(Allocate(chain, n, v), n)
              rev == [reverse EXCEPT ![n] = copy]
              key == rev[c.tail]
          IN  /\ chain' = Release(Detach(c, c.tail), c.tail)
              /\ lookup' = [l \in Key |-> IF l = key THEN Null
                                          ELSE IF l = k THEN n ELSE lookup[l]]
              /\ reverse' = [rev EXCEPT ![c.tail] = Null]
              /\ reply' = Answer("update", k, 0, c.node[c.tail].val)
    /\ len' = len + 1
    /\ fault' = IF copy = k THEN "none" ELSE "key_copy"
    /\ UNCHANGED <<cap, alive>>

(* Mutant: lru_get does not count as a use. *)
HitInPlace(k) ==
    /\ Running /\ Cached(k)
    /\ reply' = Answer("get", k, 0, ValueOf(k))
    /\ UNCHANGED <<chain, fields>>

(* lru_get *)
Hit(k) ==
    /\ Running /\ Cached(k)
    /\ chain' = ToFront(chain, lookup[k])
    /\ reply' = Answer("get", k, 0, ValueOf(k))
    /\ UNCHANGED fields

Miss(k) ==
    /\ Running /\ ~Cached(k)
    /\ reply' = Answer("get", k, 1, Null)
    /\ UNCHANGED <<chain, fields>>

(* The nodes met from the head on, Null past the end *)
Forward[i \in 0 .. Cardinality(Node)] ==
    IF i = 0 THEN chain.head
    ELSE IF Forward[i - 1] = Null THEN Null ELSE chain.node[Forward[i - 1]].next
Count == Cardinality({i \in 0 .. Cardinality(Node) : Forward[i] # Null})

(* lru_free: with a free_val it first visits l->len nodes from the head,   *)
(* then ht_free(lookup) frees the nodes                                    *)
Free(withFreeVal) ==
    /\ Running
    /\ ~(withFreeVal /\ len > Count)
    /\ chain' = [chain EXCEPT !.node = [n \in Node |->
                    IF \E k \in Key : lookup[k] = n THEN Null ELSE chain.node[n]]]
    /\ alive' = FALSE
    /\ reply' = Answer("free", Null, 0, Null)
    /\ UNCHANGED <<len, cap, lookup, reverse, fault>>

FreeWalksOff(withFreeVal) ==
    /\ Running
    /\ withFreeVal /\ len > Count
    /\ fault' = "free_walk"
    /\ UNCHANGED <<chain, len, cap, lookup, reverse, alive, reply>>

Next ==
    \/ \E k \in Key : \/ \E v \in Value, copy \in {k, Null} :
                            Replace(k, v) \/ Enter(k, v, copy) \/ EnterAndEvict(k, v, copy)
                      \/ NodeFails(k) \/ LookupFails(k) \/ ReverseFails(k)
                      \/ Hit(k) \/ Miss(k)
    \/ \E cb \in FreeCalls : Free(cb) \/ FreeWalksOff(cb)
    \/ Renew

Spec == Init /\ [][Next]_vars
---------------------------------------------------------------------------
TypeOK ==
    /\ chain \in Chain
    /\ len \in 0 .. MaxLen
    /\ cap \in Caps
    /\ lookup \in [Key -> Pointer]
    /\ reverse \in [Node -> Key \cup {Null}]
    /\ alive \in BOOLEAN
    /\ fault \in Faults
    /\ reply \in Reply

Linked == {Forward[i] : i \in 0 .. Cardinality(Node)} \ {Null}

(* After any sequence of detaches, prepends and evictions the list is      *)
(* doubly linked: it ends at the tail, each prev undoes the next before    *)
(* it, and no node is met twice.                                           *)
WellLinked ==
    Running =>
        /\ Cardinality(Linked) = Count
        /\ chain.tail = IF Count = 0 THEN Null ELSE Forward[Count - 1]
        /\ \A i \in 0 .. Count - 1 :
              chain.node[Forward[i]].prev = IF i = 0 THEN Null ELSE Forward[i - 1]

(* The two tables are inverse and cover exactly the listed nodes, which    *)
(* are exactly the allocated ones: the evicted node is found in reverse    *)
(* (the assertion of lru.c:126), lookup never keeps a freed node, and no   *)
(* node is lost.                                                           *)
TablesAgree ==
    Running =>
        /\ \A k \in Key : Cached(k) => reverse[lookup[k]] = k
        /\ \A n \in Node : reverse[n] # Null => lookup[reverse[n]] = n
        /\ {lookup[k] : k \in Key} \ {Null} = Linked
        /\ {n \in Node : chain.node[n] # Null} = Linked

(* Although no eviction decrements l->len, the list holds min(len, cap)    *)
(* nodes at every return: nothing is evicted early and nothing overstays.  *)
(* And no node is left when lru_free has returned.                         *)
FullButNeverOver == /\ Running => Count = IF len < cap THEN len ELSE cap
                    /\ ~alive => \A n \in Node : chain.node[n] = Null

(* The pointer lru_get returned stays good as long as the key is cached:   *)
(* replacing its value and moving its node never reallocate it.            *)
StableNodes ==
    [][\A k \in Key : alive /\ alive' /\ Cached(k) /\ Cached(k)' => lookup'[k] = lookup[k]]_vars

(* The lru is the abstract cache: what is evicted is what was used least   *)
(* recently by either call, a failed update changes nothing, and the       *)
(* replaced or evicted value, and no other, is freed.                      *)
KeyOf(n) == CHOOSE k \in Key : lookup[k] = n
Order == IF alive THEN [i \in 1 .. Count |-> [key |-> KeyOf(Forward[i - 1]),
                                              val |-> chain.node[Forward[i - 1]].val]]
         ELSE <<>>
C == INSTANCE RecencyCache WITH order <- Order
ImplementsCache == C!Spec

(* vlib.h:1097-1101: lru_free frees the lru, calling free_val on the       *)
(* values; its walk must not leave the list.                               *)
FreeStaysInList == fault # "free_walk"
=============================================================================
