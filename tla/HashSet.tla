------------------------------ MODULE HashSet ------------------------------
(***************************************************************************)
(* The hash set of src/set.c.  No call hands out a pointer to an entry, so *)
(* an entry is the key it stores.  As in HashTable only the first Cap      *)
(* slots are ever indexed, since nothing assigns set->cap after set_new.   *)
(***************************************************************************)
EXTENDS Naturals, Sequences, FiniteSets

CONSTANTS
    Key, Canon, Null,   \* as in AbstractSet
    Cap,                \* HT_INITIAL_CAP
    BucketCap,          \* HT_BUCKET_INITIAL_CAP
    Seeded              \* the hash functions a random seed may select

ASSUME CanonAssumption == Canon \in [Key -> Key] /\ \A k \in Key : Canon[Canon[k]] = Canon[k]
ASSUME CapAssumption == Cap \in Nat \ {0} /\ BucketCap \in Nat \ {0}
ASSUME NullAssumption == Null \notin Key

(* The obligation of a client that supplies cmp_key, as in HashTable. *)
ASSUME SeedAssumption ==
    /\ Seeded \subseteq [Key -> Nat]
    /\ \A h \in Seeded : \A k, l \in Key : Canon[k] = Canon[l] => h[k] = h[l]

VARIABLES
    buckets,   \* set->buckets[0 .. Cap-1]: capacity and stored keys
    slots,     \* slots allocated for set->buckets
    len,       \* set->len
    hash,      \* siphash under set->seed
    alive,     \* between set_new and set_free
    reply

vars == <<buckets, slots, len, hash, alive, reply>>
---------------------------------------------------------------------------
Slot == 0 .. Cap - 1
Bucket == [cap : Nat, entries : Seq(Key)]
Reply == [op : {"new", "free", "insert", "has", "delete"}, key : Key \cup {Null},
          code : {0, 1}, out : Key \cup {Null}]
Answer(op, k, code, out) == [op |-> op, key |-> k, code |-> code, out |-> out]
NoBuckets == [i \in Slot |-> [cap |-> 0, entries |-> <<>>]]

(* set_hash *)
Index(k) == hash[k] % Cap
Home(k) == buckets[Index(k)]

(* Mutant: the search stops before the last entry. *)
HitsButLast(b, k) == {i \in DOMAIN b.entries : i < Len(b.entries) /\ Canon[b.entries[i]] = Canon[k]}

Hits(b, k) == {i \in DOMAIN b.entries : Canon[b.entries[i]] = Canon[k]}
Present(k) == Hits(Home(k), k) # {}
Position(k) == CHOOSE i \in Hits(Home(k), k) : \A j \in Hits(Home(k), k) : i <= j
Held(k) == IF Present(k) THEN Home(k).entries[Position(k)] ELSE Null

(* set_init_bucket and set_realloc_bucket *)
IsFull(b) == Len(b.entries) = b.cap
Roomy(b) == [b EXCEPT !.cap = IF ~IsFull(b) THEN b.cap
                              ELSE IF b.cap = 0 THEN BucketCap ELSE 2 * b.cap]
Pushed(b, k) == [cap |-> Roomy(b).cap, entries |-> Append(b.entries, k)]

(* Mutant: the length is compared after the insertion it belongs to. *)
ResizeLate == len = Cap + 1

(* set_resize, called at len = cap only (set.c:55), where ht.c:64 has >=   *)
NeedsResize == len = Cap
ResizedSlots == IF NeedsResize THEN 2 * Cap ELSE slots

(* Mutant: the length shrinks but nothing is moved down. *)
WithoutLast(s, i) == SubSeq(s, 1, Len(s) - 1)

(* set_bucket_remove *)
Without(s, i) == [j \in 1 .. Len(s) - 1 |-> IF j < i THEN s[j] ELSE s[j + 1]]
Pulled(b, i) == [cap |-> b.cap, entries |-> Without(b.entries, i)]
---------------------------------------------------------------------------
Init == /\ buckets = NoBuckets /\ slots = Cap /\ len = 0
        /\ hash \in Seeded /\ alive = TRUE
        /\ reply = Answer("new", Null, 0, Null)

Renew == /\ ~alive
         /\ buckets' = NoBuckets /\ slots' = Cap /\ len' = 0
         /\ hash' \in Seeded /\ alive' = TRUE
         /\ reply' = Answer("new", Null, 0, Null)

Fail(k) == reply' = Answer("insert", k, 1, Null)

ResizeFails(k) ==
    /\ alive /\ NeedsResize
    /\ Fail(k)
    /\ UNCHANGED <<buckets, slots, len, hash, alive>>

BucketFails(k) ==
    /\ alive /\ ~Present(k) /\ IsFull(Home(k))
    /\ slots' = ResizedSlots
    /\ Fail(k)
    /\ UNCHANGED <<buckets, len, hash, alive>>

EntryFails(k) ==
    /\ alive /\ ~Present(k)
    /\ slots' = ResizedSlots
    /\ buckets' = [buckets EXCEPT ![Index(k)] = Roomy(@)]
    /\ Fail(k)
    /\ UNCHANGED <<len, hash, alive>>

Add(k) ==
    /\ alive /\ ~Present(k)
    /\ slots' = ResizedSlots
    /\ buckets' = [buckets EXCEPT ![Index(k)] = Pushed(@, k)]
    /\ len' = len + 1
    /\ reply' = Answer("insert", k, 0, Null)
    /\ UNCHANGED <<hash, alive>>

Refuse(k) ==
    /\ alive /\ Present(k)
    /\ slots' = ResizedSlots
    /\ Fail(k)
    /\ UNCHANGED <<buckets, len, hash, alive>>

Has(k) ==
    /\ alive
    /\ reply' = Answer("has", k, IF Present(k) THEN 0 ELSE 1, Null)
    /\ UNCHANGED <<buckets, slots, len, hash, alive>>

Delete(k) ==
    /\ alive /\ Present(k)
    /\ buckets' = [buckets EXCEPT ![Index(k)] = Pulled(@, Position(k))]
    /\ len' = len - 1
    /\ reply' = Answer("delete", k, 0, Held(k))
    /\ UNCHANGED <<slots, hash, alive>>

(* Mutant: set->len is decremented before the key is looked for. *)
DeleteMissingCounted(k) ==
    /\ alive /\ ~Present(k)
    /\ len' = len - 1
    /\ reply' = Answer("delete", k, 1, Null)
    /\ UNCHANGED <<buckets, slots, hash, alive>>

DeleteMissing(k) ==
    /\ alive /\ ~Present(k)
    /\ reply' = Answer("delete", k, 1, Null)
    /\ UNCHANGED <<buckets, slots, len, hash, alive>>

(* set_free leaves the fields of the struct as they were *)
Free ==
    /\ alive
    /\ alive' = FALSE
    /\ reply' = Answer("free", Null, 0, Null)
    /\ UNCHANGED <<buckets, slots, len, hash>>

Inserting(k) == ResizeFails(k) \/ BucketFails(k) \/ EntryFails(k) \/ Add(k) \/ Refuse(k)

Next ==
    \/ \E k \in Key : Inserting(k) \/ Has(k) \/ Delete(k) \/ DeleteMissing(k)
    \/ Free
    \/ Renew

Spec == Init /\ [][Next]_vars
---------------------------------------------------------------------------
Places == UNION {{i} \X DOMAIN buckets[i].entries : i \in Slot}
KeyAt(p) == buckets[p[1]].entries[p[2]]

TypeOK ==
    /\ buckets \in [Slot -> Bucket]
    /\ slots \in {Cap, 2 * Cap}
    /\ len \in Nat
    /\ hash \in Seeded
    /\ alive \in BOOLEAN
    /\ reply \in Reply

WithinRoom == \A i \in Slot : Len(buckets[i].entries) <= buckets[i].cap
Placed == \A p \in Places : Index(KeyAt(p)) = p[1]
Unique == \A p, q \in Places : Canon[KeyAt(p)] = Canon[KeyAt(q)] => p = q
LenCounts == len = Cardinality(Places)

(* Over any mix of failed and successful calls a stored key sits in the    *)
(* slot it hashes to, no class of equal keys is stored twice, no bucket    *)
(* exceeds its room and set_len counts what is stored: what set_has and    *)
(* set_delete rely on when they stop at the first match of one slot.       *)
WellFormed == WithinRoom /\ Placed /\ Unique /\ LenCounts

(* The set never keeps more entries than slots without having asked for    *)
(* more slots: growth is requested at len = cap only, so an insert that    *)
(* slipped past that length would never trigger it again.                  *)
GrowthAsked == alive /\ len > Cap => slots > Cap

(* The hash set is the abstract one: an insert answers success exactly     *)
(* when no equal key was a member, a failed call changes no membership,    *)
(* and the stored key itself is what a delete frees.                       *)
Members == [k \in Key |-> IF alive /\ Canon[k] = k THEN Held(k) ELSE Null]
A == INSTANCE AbstractSet WITH member <- Members
ImplementsSet == A!Spec
=============================================================================
