----------------------------- MODULE HashTable -----------------------------
(***************************************************************************)
(* The hash table of src/ht.c: an array of buckets, each a growing array   *)
(* of pointers to separately allocated entries.  One action per outcome of *)
(* a call of the public interface; every allocation a call makes may fail. *)
(*                                                                         *)
(* Only the first Cap slots are ever indexed: nothing assigns ht->cap      *)
(* after ht_new, so ht_resize reallocates the array, zeroes its upper half *)
(* and finds every entry already in the slot it hashes to (Placed): its    *)
(* branch that moves an entry (ht.c:321-348) is never taken.               *)
(***************************************************************************)
EXTENDS Naturals, Sequences, FiniteSets

CONSTANTS
    Key, Value, Canon, Null,   \* as in Map
    Addr,        \* the heap blocks malloc can return for an entry
    Cap,         \* HT_INITIAL_CAP, the number of slots hashed into
    BucketCap,   \* HT_BUCKET_INITIAL_CAP
    Seeded       \* the hash functions a random seed may select

ASSUME CanonAssumption == Canon \in [Key -> Key] /\ \A k \in Key : Canon[Canon[k]] = Canon[k]
ASSUME AddrAssumption == IsFiniteSet(Addr)
ASSUME CapAssumption == Cap \in Nat \ {0} /\ BucketCap \in Nat \ {0}
ASSUME NullAssumption ==
    Null \notin Key /\ Null \notin Value /\ Null \notin Addr /\ Null \notin [key : Key, val : Value]

(* What a client that supplies cmp_key must see to: keys it calls equal    *)
(* hash alike.  The library hashes their bytes.                            *)
ASSUME SeedAssumption ==
    /\ Seeded \subseteq [Key -> Nat]
    /\ \A h \in Seeded : \A k, l \in Key : Canon[k] = Canon[l] => h[k] = h[l]

VARIABLES
    buckets,   \* ht->buckets[0 .. Cap-1]: capacity and entry pointers
    slots,     \* slots allocated for ht->buckets
    len,       \* ht->len
    hash,      \* siphash under ht->seed
    heap,      \* the allocated entries, Null where there is none
    alive,     \* between ht_new and ht_free
    reply      \* what the last call answered

vars == <<buckets, slots, len, hash, heap, alive, reply>>

---------------------------------------------------------------------------
Slot == 0 .. Cap - 1
Entry == [key : Key, val : Value]
Bucket == [cap : Nat, entries : Seq(Addr)]
Ops == {"new", "free", "insert", "try_insert", "get", "has", "delete"}
Reply == [op : Ops, key : Key \cup {Null}, code : {0, 1}, out : Value \cup {Null}]

Answer(op, k, code, out) == [op |-> op, key |-> k, code |-> code, out |-> out]
Fail(op, k) == reply' = Answer(op, k, 1, Null)

NoBuckets == [i \in Slot |-> [cap |-> 0, entries |-> <<>>]]
NoEntries == [a \in Addr |-> Null]
Unused == {a \in Addr : heap[a] = Null}

(* Mutant: the high bits of the hash pick the slot once the table has      *)
(* grown, though no entry is moved.                                        *)
IndexOfGrownTable(k) == (hash[k] \div (slots \div Cap)) % Cap

(* ht_hash *)
Index(k) == hash[k] % Cap
Home(k) == buckets[Index(k)]

(* Mutants: the search stops before the last entry; it compares bytes      *)
(* although the client gave a cmp_key.                                     *)
HitsButLast(b, k) ==
    {i \in DOMAIN b.entries : i < Len(b.entries) /\ Canon[heap[b.entries[i]].key] = Canon[k]}
HitsByBytes(b, k) == {i \in DOMAIN b.entries : heap[b.entries[i]].key = k}

(* The positions of a bucket whose entry has key k, by memcmp or cmp_key.  *)
Hits(b, k) == {i \in DOMAIN b.entries : Canon[heap[b.entries[i]].key] = Canon[k]}
Present(k) == Hits(Home(k), k) # {}
Position(k) == CHOOSE i \in Hits(Home(k), k) : \A j \in Hits(Home(k), k) : i <= j
AddrOf(k) == Home(k).entries[Position(k)]

Lookup(k) == IF Present(k) THEN heap[AddrOf(k)].val ELSE Null

(* ht_init_bucket and ht_realloc_bucket: the bucket with room for one more *)
IsFull(b) == Len(b.entries) = b.cap

(* Mutant: only the first allocation of a bucket is made. *)
RoomOnce(b) == [b EXCEPT !.cap = IF b.cap = 0 THEN BucketCap ELSE b.cap]

Roomy(b) == [b EXCEPT !.cap = IF ~IsFull(b) THEN b.cap
                              ELSE IF b.cap = 0 THEN BucketCap ELSE 2 * b.cap]
Pushed(b, a) == [cap |-> Roomy(b).cap, entries |-> Append(b.entries, a)]

(* ht_resize: the slots allocated once an insert has passed it             *)
NeedsResize == len >= Cap
ResizedSlots == IF NeedsResize THEN 2 * Cap ELSE slots

(* Mutant: the length shrinks but nothing is moved down. *)
WithoutLast(s, i) == SubSeq(s, 1, Len(s) - 1)

(* ht_bucket_remove: the later pointers move one place to the left         *)
Without(s, i) == [j \in 1 .. Len(s) - 1 |-> IF j < i THEN s[j] ELSE s[j + 1]]
Pulled(b, i) == [cap |-> b.cap, entries |-> Without(b.entries, i)]

Stored == UNION {{buckets[i].entries[j] : j \in DOMAIN buckets[i].entries} : i \in Slot}
---------------------------------------------------------------------------
New == /\ buckets = NoBuckets /\ slots = Cap /\ len = 0
       /\ hash \in Seeded /\ alive = TRUE
       /\ reply = Answer("new", Null, 0, Null)

Init == New /\ heap = NoEntries

(* ht_new for a table that was freed, with a fresh seed *)
Renew == /\ ~alive
         /\ buckets' = NoBuckets /\ slots' = Cap /\ len' = 0
         /\ hash' \in Seeded /\ alive' = TRUE
         /\ reply' = Answer("new", Null, 0, Null)
         /\ UNCHANGED heap

(* ht_resize cannot extend the slots: the insert fails, whether or not it  *)
(* would have needed room                                                  *)
ResizeFails(op, k) ==
    /\ alive /\ NeedsResize
    /\ Fail(op, k)
    /\ UNCHANGED <<buckets, slots, len, hash, heap, alive>>

(* The key is new and its bucket cannot be given room *)
BucketFails(op, k) ==
    /\ alive /\ ~Present(k) /\ IsFull(Home(k))
    /\ slots' = ResizedSlots
    /\ Fail(op, k)
    /\ UNCHANGED <<buckets, len, hash, heap, alive>>

(* Mutant: ht->len is incremented before the entry is allocated. *)
EntryFailsCounted(op, k) ==
    /\ alive /\ ~Present(k)
    /\ slots' = ResizedSlots
    /\ buckets' = [buckets EXCEPT ![Index(k)] = Roomy(@)]
    /\ len' = len + 1
    /\ Fail(op, k)
    /\ UNCHANGED <<hash, heap, alive>>

(* The key is new, its bucket has room, and ht_entry_new returns NULL *)
EntryFails(op, k) ==
    /\ alive /\ ~Present(k)
    /\ slots' = ResizedSlots
    /\ buckets' = [buckets EXCEPT ![Index(k)] = Roomy(@)]
    /\ Fail(op, k)
    /\ UNCHANGED <<len, hash, heap, alive>>

(* The key is new: its entry goes to the end of its bucket *)
Add(op, k, v) ==
    /\ alive /\ ~Present(k)
    /\ slots' = ResizedSlots
    /\ \E a \in Unused :
          /\ heap' = [heap EXCEPT ![a] = [key |-> k, val |-> v]]
          /\ buckets' = [buckets EXCEPT ![Index(k)] = Pushed(@, a)]
    /\ len' = len + 1
    /\ reply' = Answer(op, k, 0, Null)
    /\ UNCHANGED <<hash, alive>>

(* Mutant: the entry is replaced by a new one, at another address. *)
OverwriteElsewhere(k, v) ==
    /\ alive /\ Present(k)
    /\ slots' = ResizedSlots
    /\ \E a \in Unused :
          /\ heap' = [heap EXCEPT ![a] = [key |-> k, val |-> v], ![AddrOf(k)] = Null]
          /\ buckets' = [buckets EXCEPT ![Index(k)].entries[Position(k)] = a]
    /\ reply' = Answer("insert", k, 0, heap[AddrOf(k)].val)
    /\ UNCHANGED <<len, hash, alive>>

(* ht_insert of a key that is there: the value is overwritten in place,    *)
(* the old one freed, the stored key kept                                  *)
Overwrite(k, v) ==
    /\ alive /\ Present(k)
    /\ slots' = ResizedSlots
    /\ heap' = [heap EXCEPT ![AddrOf(k)].val = v]
    /\ reply' = Answer("insert", k, 0, heap[AddrOf(k)].val)
    /\ UNCHANGED <<buckets, len, hash, alive>>

(* ht_try_insert of a key that is there *)
Refuse(k) ==
    /\ alive /\ Present(k)
    /\ slots' = ResizedSlots
    /\ Fail("try_insert", k)
    /\ UNCHANGED <<buckets, len, hash, heap, alive>>

Get(k) ==
    /\ alive
    /\ reply' = Answer("get", k, IF Present(k) THEN 0 ELSE 1, Lookup(k))
    /\ UNCHANGED <<buckets, slots, len, hash, heap, alive>>

Has(k) ==
    /\ alive
    /\ reply' = Answer("has", k, IF Present(k) THEN 0 ELSE 1, Null)
    /\ UNCHANGED <<buckets, slots, len, hash, heap, alive>>

(* ht_delete and ht_bucket_remove *)
Delete(k) ==
    /\ alive /\ Present(k)
    /\ heap' = [heap EXCEPT ![AddrOf(k)] = Null]
    /\ buckets' = [buckets EXCEPT ![Index(k)] = Pulled(@, Position(k))]
    /\ len' = len - 1
    /\ reply' = Answer("delete", k, 0, heap[AddrOf(k)].val)
    /\ UNCHANGED <<slots, hash, alive>>

(* Mutant: ht->len is decremented before the key is looked for. *)
DeleteMissingCounted(k) ==
    /\ alive /\ ~Present(k)
    /\ len' = len - 1
    /\ Fail("delete", k)
    /\ UNCHANGED <<buckets, slots, hash, heap, alive>>

DeleteMissing(k) ==
    /\ alive /\ ~Present(k)
    /\ Fail("delete", k)
    /\ UNCHANGED <<buckets, slots, len, hash, heap, alive>>

(* Mutant: ht_free walks as many slots as there are entries. *)
FreeByLength ==
    /\ alive
    /\ heap' = [a \in Addr |->
                  IF \E i \in Slot : i < len /\ \E j \in DOMAIN buckets[i].entries :
                        buckets[i].entries[j] = a
                  THEN Null ELSE heap[a]]
    /\ alive' = FALSE
    /\ reply' = Answer("free", Null, 0, Null)
    /\ UNCHANGED <<buckets, slots, len, hash>>

(* ht_free: every entry some bucket points to, the buckets, the slots; the *)
(* fields of the struct stay as they were                                  *)
Free ==
    /\ alive
    /\ heap' = [a \in Addr |-> IF a \in Stored THEN Null ELSE heap[a]]
    /\ alive' = FALSE
    /\ reply' = Answer("free", Null, 0, Null)
    /\ UNCHANGED <<buckets, slots, len, hash>>

Inserting(k) ==
    \/ \E op \in {"insert", "try_insert"} :
          \/ ResizeFails(op, k)
          \/ BucketFails(op, k)
          \/ EntryFails(op, k)
          \/ \E v \in Value : Add(op, k, v)
    \/ \E v \in Value : Overwrite(k, v)
    \/ Refuse(k)

Next ==
    \/ \E k \in Key : Inserting(k) \/ Get(k) \/ Has(k) \/ Delete(k) \/ DeleteMissing(k)
    \/ Free
    \/ Renew

Spec == Init /\ [][Next]_vars
---------------------------------------------------------------------------
TypeOK ==
    /\ buckets \in [Slot -> Bucket]
    /\ slots \in {Cap, 2 * Cap}
    /\ len \in Nat
    /\ hash \in Seeded
    /\ heap \in [Addr -> Entry \cup {Null}]
    /\ alive \in BOOLEAN
    /\ reply \in Reply

(* Every pointer of a bucket of a live table leads to an allocated entry   *)
(* (ht.c:42, 100, 186, 229, 259 and 306 read through it unchecked).        *)
NoDangling ==
    alive => \A i \in Slot : \A j \in DOMAIN buckets[i].entries :
                heap[buckets[i].entries[j]] # Null

(* An entry sits in the slot its key hashes to, the one slot ht_get, ht_has *)
(* and ht_delete search, and the reason ht_resize moves nothing.            *)
Placed ==
    alive => \A i \in Slot : \A j \in DOMAIN buckets[i].entries :
                heap[buckets[i].entries[j]] # Null => Index(heap[buckets[i].entries[j]].key) = i

(* The pointers of slots i and m: no two places have one entry or one key. *)
Apart(i, m) ==
    \A j \in DOMAIN buckets[i].entries, n \in DOMAIN buckets[m].entries :
        LET a == buckets[i].entries[j]
            b == buckets[m].entries[n]
        IN  (a = b \/ Canon[heap[a].key] = Canon[heap[b].key]) => i = m /\ j = n

(* Two pointers never share an entry, nor do two entries share a key:      *)
(* ht_delete would leave the other one behind.                             *)
Unique == alive => \A i, m \in Slot : Apart(i, m)

(* No leak: an allocated entry is reachable from some bucket of the table  *)
(* while it lives, and none is left when ht_free has returned.             *)
NoLeak == \A a \in Addr : heap[a] # Null => alive /\ a \in Stored

(* ht_len counts the stored entries; ht_resize's trigger depends on it.    *)
LenCounts == alive => len = Cardinality(Stored)

(* No bucket holds more pointers than it has room for.                     *)
WithinRoom == \A i \in Slot : Len(buckets[i].entries) <= buckets[i].cap

(* An entry never moves while its key stays in the table: the pointer      *)
(* ht_get returned stays good over other calls, growth and overwriting     *)
(* included (lru.c:22-68 keeps using one).                                 *)
StablePointers ==
    [][\A k \in Key : alive /\ alive' /\ Present(k) /\ Present(k)' => AddrOf(k)' = AddrOf(k)]_vars

(* The table is the dictionary Map: no call loses, resurrects or corrupts  *)
(* an association, a failed call changes none, and each overwritten or     *)
(* deleted value is handed to its free callback exactly once.              *)
Contents == [k \in Key |-> IF alive /\ Canon[k] = k THEN Lookup(k) ELSE Null]
M == INSTANCE Map WITH map <- Contents
ImplementsMap == M!Spec
=============================================================================
