-------------------------- MODULE HashTableProofs --------------------------
(***************************************************************************)
(* Theorems about HashTable for every set of keys, values and addresses,   *)
(* every number of slots, every initial bucket capacity and every family   *)
(* of hash functions: the invariants of the run, that no call moves an     *)
(* entry, and that the hash table is the abstract dictionary.              *)
(***************************************************************************)
EXTENDS HashTable, DataLemmas

USE CanonAssumption, AddrAssumption, CapAssumption, NullAssumption, SeedAssumption

(* The inductive invariant.  A deletion keeps len natural because len      *)
(* counts the stored entries, it keeps them distinct because it removes    *)
(* the only pointer to the block it frees, and an insertion keeps keys     *)
(* distinct because the slot it searched is the only one the key can be in.*)
IInv == TypeOK /\ NoDangling /\ Placed /\ Unique /\ NoLeak /\ LenCounts /\ WithinRoom
---------------------------------------------------------------------------
(* What memmove leaves of a bucket (ht_bucket_remove).                     *)
LEMMA WithoutProperties ==
    ASSUME NEW S, NEW s \in Seq(S), NEW i \in 1 .. Len(s)
    PROVE  /\ Without(s, i) \in Seq(S)
           /\ Len(Without(s, i)) = Len(s) - 1
           /\ \A j \in 1 .. Len(s) - 1 : Without(s, i)[j] = IF j < i THEN s[j] ELSE s[j + 1]
BY RemovalProperties DEF Without

(* ht_hash never leaves the slots.                                         *)
LEMMA IndexInSlot ==
    ASSUME TypeOK, NEW k \in Key
    PROVE  Index(k) \in Slot /\ Home(k) \in Bucket /\ Home(k) = buckets[Index(k)]
<1>1. hash[k] \in Nat
  BY DEF TypeOK
<1>2. Index(k) \in Slot
  BY <1>1 DEF Index, Slot
<1> QED BY <1>2 DEF Home, TypeOK

(* The entries of every slot, with their domain spelled out.               *)
LEMMA BucketType ==
    ASSUME TypeOK, NEW i \in Slot
    PROVE  /\ buckets[i] \in Bucket
           /\ buckets[i].cap \in Nat
           /\ buckets[i].entries \in Seq(Addr)
           /\ Len(buckets[i].entries) \in Nat
           /\ DOMAIN buckets[i].entries = 1 .. Len(buckets[i].entries)
           /\ \A j \in DOMAIN buckets[i].entries : buckets[i].entries[j] \in Addr
<1>1. buckets[i] \in Bucket
  BY DEF TypeOK
<1>2. buckets[i].cap \in Nat /\ buckets[i].entries \in Seq(Addr)
  BY <1>1 DEF Bucket
<1>3. Len(buckets[i].entries) \in Nat /\ DOMAIN buckets[i].entries = 1 .. Len(buckets[i].entries)
  BY <1>2, LenProperties
<1>4. \A j \in DOMAIN buckets[i].entries : buckets[i].entries[j] \in Addr
  BY <1>2, <1>3, ElementOfSeq
<1> QED BY <1>1, <1>2, <1>3, <1>4

(* The search loops find an allocated entry of the key when there is one.  *)
LEMMA FoundEntry ==
    ASSUME IInv, alive, NEW k \in Key, Present(k)
    PROVE  /\ Index(k) \in Slot
           /\ Position(k) \in DOMAIN buckets[Index(k)].entries
           /\ AddrOf(k) = buckets[Index(k)].entries[Position(k)]
           /\ AddrOf(k) \in Addr
           /\ heap[AddrOf(k)] \in Entry
           /\ Canon[heap[AddrOf(k)].key] = Canon[k]
<1>0. TypeOK /\ NoDangling /\ Placed /\ Unique /\ NoLeak /\ LenCounts /\ WithinRoom
  BY DEF IInv
<1>1. Index(k) \in Slot /\ Home(k) = buckets[Index(k)]
  BY <1>0, IndexInSlot
<1>2. DOMAIN Home(k).entries = 1 .. Len(Home(k).entries) /\ Len(Home(k).entries) \in Nat
  BY <1>0, <1>1, BucketType
<1>3. PICK i \in Hits(Home(k), k) : TRUE
  BY DEF Present
<1>4. ASSUME NEW j \in Hits(Home(k), k) PROVE j = i
  <2>1. /\ i \in DOMAIN buckets[Index(k)].entries /\ j \in DOMAIN buckets[Index(k)].entries
        /\ Canon[heap[buckets[Index(k)].entries[i]].key] = Canon[k]
        /\ Canon[heap[buckets[Index(k)].entries[j]].key] = Canon[k]
    BY <1>1, <1>3 DEF Hits
  <2>2. Apart(Index(k), Index(k))
    BY <1>0, <1>1 DEF Unique
  <2> QED BY <2>1, <2>2 DEF Apart
<1>5. \A j \in Hits(Home(k), k) : i <= j
  BY <1>2, <1>3, <1>4 DEF Hits
<1>6. Position(k) \in Hits(Home(k), k)
  BY <1>3, <1>5 DEF Position
<1>7. /\ Position(k) \in DOMAIN buckets[Index(k)].entries
      /\ AddrOf(k) = buckets[Index(k)].entries[Position(k)]
      /\ Canon[heap[AddrOf(k)].key] = Canon[k]
  BY <1>1, <1>6 DEF AddrOf, Hits
<1>8. AddrOf(k) \in Addr
  BY <1>0, <1>1, <1>7, BucketType
<1>9. heap[AddrOf(k)] # Null
  BY <1>0, <1>1, <1>7 DEF NoDangling
<1>10. heap[AddrOf(k)] \in Entry
  BY <1>0, <1>8, <1>9 DEF TypeOK
<1> QED BY <1>1, <1>7, <1>8, <1>10

(* The stored addresses are addresses, finitely many.                      *)
LEMMA StoredFinite ==
    ASSUME TypeOK
    PROVE  Stored \subseteq Addr /\ IsFiniteSet(Stored) /\ Cardinality(Stored) \in Nat
<1>1. Stored \subseteq Addr
  BY BucketType DEF Stored
<1> QED BY <1>1, FS_Subset, FS_CardinalityType
(* The slot searched is the only one an entry with the key can be in.      *)
LEMMA AbsentEverywhere ==
    ASSUME IInv, alive, NEW k \in Key, NEW a \in Stored, Canon[heap[a].key] = Canon[k]
    PROVE  Present(k)
<1>0. TypeOK /\ NoDangling /\ Placed
  BY DEF IInv
<1>1. PICK i \in Slot : \E j \in DOMAIN buckets[i].entries : a = buckets[i].entries[j]
  BY DEF Stored
<1>2. PICK j \in DOMAIN buckets[i].entries : a = buckets[i].entries[j]
  BY <1>1
<1>3. a \in Addr /\ heap[a] # Null
  BY <1>0, <1>2, BucketType DEF NoDangling
<1>4. heap[a].key \in Key
  BY <1>0, <1>3 DEF TypeOK, Entry
<1>5. hash[heap[a].key] = hash[k]
  BY <1>0, <1>4 DEF TypeOK
<1>6. i = Index(k)
  <2>1. Index(heap[a].key) = i
    BY <1>0, <1>2, <1>3 DEF Placed
  <2> QED BY Zenon, <1>5, <2>1 DEF Index
<1>7. j \in Hits(Home(k), k)
  BY <1>2, <1>6 DEF Hits, Home
<1> QED BY <1>7 DEF Present

---------------------------------------------------------------------------
(* A step that leaves the pointers, the allocation of the entries and      *)
(* their keys alone, such as a failed insert, which may have enlarged a    *)
(* bucket, or an overwrite, keeps the invariant.                           *)
LEMMA FramePreserves ==
    ASSUME IInv, TypeOK',
           hash' = hash, alive' = alive, len' = len,
           \A i \in Slot : /\ buckets'[i].entries = buckets[i].entries
                           /\ buckets'[i].cap >= buckets[i].cap,
           \A a \in Addr : /\ (heap'[a] = Null) <=> (heap[a] = Null)
                           /\ heap[a] # Null => heap'[a].key = heap[a].key
    PROVE  IInv' /\ Stored' = Stored
<1>0. TypeOK /\ NoDangling /\ Placed /\ Unique /\ NoLeak /\ LenCounts /\ WithinRoom
  BY DEF IInv
<1>1. \A i \in Slot : \A j \in DOMAIN buckets[i].entries : buckets[i].entries[j] \in Addr
  BY <1>0, BucketType
<1>2. \A i \in Slot : DOMAIN buckets'[i].entries = DOMAIN buckets[i].entries
  OBVIOUS
<1>3. \A k : Index(k)' = Index(k)
  BY DEF Index
<1>4. Stored' = Stored
  BY DEF Stored
<1>5. NoDangling'
  BY <1>0, <1>1, <1>2 DEF NoDangling
<1>6. Placed'
  BY <1>0, <1>1, <1>2, <1>3 DEF Placed
<1>7. Unique'
  <2> SUFFICES ASSUME alive', NEW i \in Slot, NEW m \in Slot,
                      NEW j \in DOMAIN buckets'[i].entries, NEW n \in DOMAIN buckets'[m].entries,
                      \/ buckets'[i].entries[j] = buckets'[m].entries[n]
                      \/ Canon[heap'[buckets'[i].entries[j]].key]
                            = Canon[heap'[buckets'[m].entries[n]].key]
               PROVE  i = m /\ j = n
    BY DEF Unique, Apart
  <2> DEFINE a == buckets[i].entries[j]
             b == buckets[m].entries[n]
  <2>0. /\ alive /\ j \in DOMAIN buckets[i].entries /\ n \in DOMAIN buckets[m].entries
        /\ a = buckets'[i].entries[j] /\ b = buckets'[m].entries[n]
    BY Zenon
  <2>1. a \in Addr /\ b \in Addr /\ heap[a] # Null /\ heap[b] # Null
    BY <1>0, <1>1, <2>0 DEF NoDangling
  <2>2. heap'[a].key = heap[a].key /\ heap'[b].key = heap[b].key
    BY Zenon, <2>1
  <2>3. a = b \/ Canon[heap[a].key] = Canon[heap[b].key]
    BY Zenon, <2>0, <2>2
  <2>4. Apart(i, m)
    BY <1>0, <2>0 DEF Unique
  <2> QED BY <2>0, <2>3, <2>4 DEF Apart
<1>8. NoLeak' /\ LenCounts'
  BY <1>0, <1>4 DEF NoLeak, LenCounts
<1>9. WithinRoom'
  <2> SUFFICES ASSUME NEW i \in Slot
               PROVE  Len(buckets'[i].entries) <= buckets'[i].cap
    BY DEF WithinRoom
  <2>1. buckets'[i].cap \in Nat
    BY <1>0 DEF TypeOK, Bucket
  <2>2. /\ Len(buckets[i].entries) \in Nat /\ buckets[i].cap \in Nat
        /\ Len(buckets[i].entries) <= buckets[i].cap
    BY <1>0, BucketType DEF WithinRoom
  <2> QED BY <2>1, <2>2
<1> QED BY <1>4, <1>5, <1>6, <1>7, <1>8, <1>9 DEF IInv

(* Making room never shrinks a bucket and leaves room for one pointer.     *)
LEMMA RoomyProperties ==
    ASSUME NEW b \in Bucket, Len(b.entries) <= b.cap
    PROVE  /\ Roomy(b) \in Bucket
           /\ Roomy(b).entries = b.entries
           /\ Roomy(b).cap \in Nat
           /\ Roomy(b).cap >= b.cap
           /\ Len(b.entries) + 1 <= Roomy(b).cap
<1>1. b.cap \in Nat /\ b.entries \in Seq(Addr) /\ Len(b.entries) \in Nat
  BY LenProperties DEF Bucket
<1>2. /\ Roomy(b).entries = b.entries
      /\ Roomy(b).cap = IF ~IsFull(b) THEN b.cap
                        ELSE IF b.cap = 0 THEN BucketCap ELSE 2 * b.cap
  BY DEF Roomy, Bucket
<1>3. Roomy(b).cap \in Nat
  BY <1>1, <1>2
<1>4. Roomy(b) \in Bucket
  BY <1>1, <1>2, <1>3 DEF Roomy, Bucket
<1> QED BY <1>1, <1>2, <1>3, <1>4 DEF IsFull
---------------------------------------------------------------------------
(* An empty table satisfies the invariant.                                 *)
LEMMA InitInvariant == Init => IInv
<1> SUFFICES ASSUME Init PROVE IInv
  OBVIOUS
<1> USE DEF Init, New
<1>1. \A i \in Slot : buckets[i] = [cap |-> 0, entries |-> <<>>]
  BY DEF NoBuckets
<1>2. \A i \in Slot : /\ buckets[i].entries = <<>> /\ buckets[i].cap = 0
                      /\ DOMAIN buckets[i].entries = {}
  BY <1>1
<1>3. Stored = {}
  BY <1>2 DEF Stored
<1>4. TypeOK
  BY DEF TypeOK, NoBuckets, Bucket, NoEntries, Answer, Reply, Ops
<1>5. NoDangling /\ Placed /\ Unique
  BY <1>2 DEF NoDangling, Placed, Unique, Apart
<1>6. NoLeak
  BY DEF NoLeak, NoEntries
<1>7. LenCounts
  BY <1>3, FS_EmptySet DEF LenCounts
<1>8. WithinRoom
  BY <1>2 DEF WithinRoom
<1> QED BY <1>4, <1>5, <1>6, <1>7, <1>8 DEF IInv

(* A new association: the block was unused, so no pointer led to it, and   *)
(* the key was in no slot, since it was not in its own.                    *)
LEMMA AddPreserves ==
    ASSUME IInv, NEW op \in {"insert", "try_insert"}, NEW k \in Key, NEW v \in Value,
           Add(op, k, v)
    PROVE  /\ IInv'
           /\ \E a \in Unused : /\ Stored' = Stored \cup {a}
                                /\ heap' = [heap EXCEPT ![a] = [key |-> k, val |-> v]]
<1>0. TypeOK /\ NoDangling /\ Placed /\ Unique /\ NoLeak /\ LenCounts /\ WithinRoom
  BY DEF IInv
<1>1. PICK a \in Unused :
          /\ heap' = [heap EXCEPT ![a] = [key |-> k, val |-> v]]
          /\ buckets' = [buckets EXCEPT ![Index(k)] = Pushed(@, a)]
  BY DEF Add
<1>2. alive /\ alive' /\ hash' = hash /\ len' = len + 1
  BY DEF Add
<1> DEFINE h == Index(k)
           b == buckets[h]
           c == Roomy(b)
<1>3. h \in Slot /\ b \in Bucket /\ Home(k) = b
  BY <1>0, IndexInSlot
<1>4. Len(b.entries) <= b.cap
  BY <1>0, <1>3 DEF WithinRoom
<1>5. /\ c \in Bucket /\ c.entries = b.entries /\ c.cap \in Nat
      /\ c.cap >= b.cap /\ Len(b.entries) + 1 <= c.cap
  BY <1>3, <1>4, RoomyProperties
<1>6. a \in Addr /\ heap[a] = Null
  BY DEF Unused
<1>7. heap'[a] = [key |-> k, val |-> v] /\ \A d \in Addr : d # a => heap'[d] = heap[d]
  BY <1>0, <1>1, <1>6 DEF TypeOK
<1>8. buckets'[h] = Pushed(b, a)
  BY <1>0, <1>1, <1>3 DEF TypeOK
<1>9. \A i \in Slot : i # h => buckets'[i] = buckets[i]
  BY <1>0, <1>1, <1>3 DEF TypeOK
<1>10. /\ b.entries \in Seq(Addr) /\ Len(b.entries) \in Nat
       /\ DOMAIN b.entries = 1 .. Len(b.entries)
  BY <1>0, <1>3, BucketType
<1>11. /\ Append(b.entries, a) \in Seq(Addr)
       /\ Len(Append(b.entries, a)) = Len(b.entries) + 1
       /\ \A j \in 1 .. Len(b.entries) : Append(b.entries, a)[j] = b.entries[j]
       /\ Append(b.entries, a)[Len(b.entries) + 1] = a
  BY <1>6, <1>10, AppendProperties
<1>12. /\ buckets'[h].entries = Append(b.entries, a)
       /\ buckets'[h].cap = c.cap
       /\ buckets'[h] \in Bucket
  BY <1>5, <1>8, <1>11 DEF Bucket, Pushed
<1>13. DOMAIN buckets'[h].entries = 1 .. Len(b.entries) + 1
  BY <1>11, <1>12, LenProperties
<1> DEFINE n == Len(b.entries) + 1
<1>14. /\ n \in DOMAIN buckets'[h].entries /\ buckets'[h].entries[n] = a
       /\ \A j \in DOMAIN b.entries : /\ j \in DOMAIN buckets'[h].entries
                                     /\ buckets'[h].entries[j] = b.entries[j]
       /\ \A j \in DOMAIN buckets'[h].entries : j # n => j \in DOMAIN b.entries
  BY <1>10, <1>11, <1>12, <1>13
<1> HIDE DEF h, b, c, n
(* Every pointer but the new one was there before, in the same place.      *)
<1>15. \A i \in Slot : \A j \in DOMAIN buckets'[i].entries :
          \/ i = h /\ j = n /\ buckets'[i].entries[j] = a
          \/ /\ j \in DOMAIN buckets[i].entries
             /\ buckets'[i].entries[j] = buckets[i].entries[j]
             /\ buckets[i].entries[j] \in Addr /\ buckets[i].entries[j] # a
             /\ heap[buckets[i].entries[j]] # Null
             /\ heap'[buckets[i].entries[j]] = heap[buckets[i].entries[j]]
  <2> SUFFICES ASSUME NEW i \in Slot, NEW j \in DOMAIN buckets'[i].entries, ~(i = h /\ j = n)
               PROVE  /\ j \in DOMAIN buckets[i].entries
                      /\ buckets'[i].entries[j] = buckets[i].entries[j]
                      /\ buckets[i].entries[j] \in Addr /\ buckets[i].entries[j] # a
                      /\ heap[buckets[i].entries[j]] # Null
                      /\ heap'[buckets[i].entries[j]] = heap[buckets[i].entries[j]]
    BY <1>14
  <2>1. j \in DOMAIN buckets[i].entries /\ buckets'[i].entries[j] = buckets[i].entries[j]
    BY <1>9, <1>14 DEF b
  <2>2. buckets[i].entries[j] \in Addr /\ heap[buckets[i].entries[j]] # Null
    BY <1>0, <1>2, <2>1, BucketType DEF NoDangling
  <2> QED BY <1>6, <1>7, <2>1, <2>2
<1>16. \A l : Index(l)' = Index(l)
  BY <1>2 DEF Index
<1>17. Stored' = Stored \cup {a}
  <2>1. Stored' \subseteq Stored \cup {a}
    BY <1>15 DEF Stored
  <2>2. Stored \subseteq Stored'
    <3> SUFFICES ASSUME NEW i \in Slot, NEW j \in DOMAIN buckets[i].entries
                 PROVE  \E m \in DOMAIN buckets'[i].entries :
                            buckets'[i].entries[m] = buckets[i].entries[j]
      BY DEF Stored
    <3> QED BY <1>9, <1>14 DEF b
  <2>3. a \in Stored'
    BY <1>3, <1>14 DEF Stored, h
  <2> QED BY <2>1, <2>2, <2>3
<1>18. a \notin Stored
  BY <1>0, <1>2, <1>6 DEF Stored, NoDangling
<1>19. TypeOK'
  <2>1. buckets' \in [Slot -> Bucket]
    <3>1. buckets' = [buckets EXCEPT ![h] = buckets'[h]]
      BY <1>0, <1>1, <1>3 DEF h, TypeOK
    <3> QED BY <1>0, <1>12, <3>1 DEF TypeOK
  <2>2. heap' \in [Addr -> Entry \cup {Null}]
    BY <1>0, <1>1, <1>6 DEF TypeOK, Entry
  <2>3. slots' \in {Cap, 2 * Cap} /\ len' \in Nat /\ hash' \in Seeded /\ alive' \in BOOLEAN
    BY <1>0, <1>2 DEF Add, TypeOK, ResizedSlots
  <2>4. reply' \in Reply
    BY DEF Add, Answer, Reply, Ops
  <2> QED BY <1>0, <2>1, <2>2, <2>3, <2>4 DEF TypeOK
<1>20. NoDangling'
  <2>1. heap'[a] # Null
    BY <1>7 DEF Entry
  <2> QED BY <1>0, <1>15, <2>1 DEF NoDangling
<1>21. Placed'
  BY <1>0, <1>2, <1>7, <1>15, <1>16 DEF Placed, h
<1>22. Unique'
  <2>1. \A i \in Slot : \A j \in DOMAIN buckets[i].entries :
            Canon[heap[buckets[i].entries[j]].key] # Canon[k]
    BY <1>2, AbsentEverywhere DEF Add, Stored
  <2> DEFINE Kept(i, j) ==
                 LET x == buckets'[i].entries[j]
                 IN  /\ x # a /\ j \in DOMAIN buckets[i].entries /\ x = buckets[i].entries[j]
                     /\ heap'[x] = heap[x] /\ Canon[heap[x].key] # Canon[k]
             Fresh(i, j) ==
                 LET x == buckets'[i].entries[j]
                 IN  x = a /\ Canon[heap'[x].key] = Canon[k]
  <2>2. \A i \in Slot : \A j \in DOMAIN buckets'[i].entries : (i = h /\ j = n) \/ Kept(i, j)
    <3> SUFFICES ASSUME NEW i \in Slot, NEW j \in DOMAIN buckets'[i].entries, ~(i = h /\ j = n)
                 PROVE  Kept(i, j)
      OBVIOUS
    <3>1. /\ j \in DOMAIN buckets[i].entries
          /\ buckets'[i].entries[j] = buckets[i].entries[j]
          /\ buckets[i].entries[j] # a
          /\ heap'[buckets[i].entries[j]] = heap[buckets[i].entries[j]]
      BY <1>15
    <3>2. Canon[heap[buckets[i].entries[j]].key] # Canon[k]
      BY <2>1, <3>1
    <3> QED BY Zenon, <3>1, <3>2
  <2>3. heap'[a].key = k
    BY <1>7
  <2>4. Fresh(h, n)
    BY Zenon, <1>14, <2>3
  <2>5. SUFFICES ASSUME NEW i \in Slot, NEW m \in Slot,
                        NEW j \in DOMAIN buckets'[i].entries, NEW p \in DOMAIN buckets'[m].entries,
                        \/ buckets'[i].entries[j] = buckets'[m].entries[p]
                        \/ Canon[heap'[buckets'[i].entries[j]].key]
                              = Canon[heap'[buckets'[m].entries[p]].key]
                 PROVE  i = m /\ j = p
    BY DEF Unique, Apart
  <2> HIDE DEF Kept, Fresh
  <2>6. (i = h /\ j = n) \/ Kept(i, j)
    BY Zenon, <2>2
  <2>7. (m = h /\ p = n) \/ Kept(m, p)
    BY Zenon, <2>2
  <2>8. CASE i = h /\ j = n
    <3>1. Fresh(i, j)
      BY Zenon, <2>4, <2>8
    <3>2. CASE Kept(m, p)
      BY Zenon, <2>5, <3>1, <3>2 DEF Fresh, Kept
    <3> QED BY Zenon, <2>7, <2>8, <3>2
  <2>9. CASE m = h /\ p = n
    <3>1. Fresh(m, p)
      BY Zenon, <2>4, <2>9
    <3>2. CASE Kept(i, j)
      BY Zenon, <2>5, <3>1, <3>2 DEF Fresh, Kept
    <3> QED BY Zenon, <2>6, <2>9, <3>2
  <2>10. CASE Kept(i, j) /\ Kept(m, p)
    <3>1. /\ j \in DOMAIN buckets[i].entries /\ p \in DOMAIN buckets[m].entries
          /\ \/ buckets[i].entries[j] = buckets[m].entries[p]
             \/ Canon[heap[buckets[i].entries[j]].key] = Canon[heap[buckets[m].entries[p]].key]
      BY Zenon, <2>5, <2>10 DEF Kept
    <3>2. Apart(i, m)
      BY <1>0, <1>2 DEF Unique
    <3> QED BY <3>1, <3>2 DEF Apart
  <2> QED BY Zenon, <2>6, <2>7, <2>8, <2>9, <2>10
<1>23. NoLeak'
  BY <1>0, <1>2, <1>7, <1>17 DEF NoLeak
<1>24. LenCounts'
  BY <1>0, <1>2, <1>17, <1>18, StoredFinite, FS_AddElement DEF LenCounts
<1>25. WithinRoom'
  <2> SUFFICES ASSUME NEW i \in Slot
               PROVE  Len(buckets'[i].entries) <= buckets'[i].cap
    BY DEF WithinRoom
  <2>1. CASE i = h
    BY <1>5, <1>11, <1>12, <2>1
  <2>2. CASE i # h
    BY <1>0, <1>9, <2>2 DEF WithinRoom
  <2> QED BY <2>1, <2>2
<1> QED BY <1>1, <1>17, <1>19, <1>20, <1>21, <1>22, <1>23, <1>24, <1>25 DEF IInv

(* A removal: the later pointers of one bucket move one place to the left, *)
(* the block freed was pointed to from the removed place only.             *)
LEMMA DeletePreserves ==
    ASSUME IInv, NEW k \in Key, Delete(k)
    PROVE  IInv' /\ Stored' = Stored \ {AddrOf(k)} /\ AddrOf(k) \in Stored
<1>0. TypeOK /\ NoDangling /\ Placed /\ Unique /\ NoLeak /\ LenCounts /\ WithinRoom
  BY DEF IInv
<1> DEFINE h == Index(k)
           b == buckets[h]
           q == Position(k)
           a == AddrOf(k)
           n == Len(b.entries)
           s == Without(b.entries, q)
<1>1. alive /\ alive' /\ hash' = hash /\ len' = len - 1 /\ Present(k)
  BY DEF Delete
<1>2. /\ h \in Slot /\ q \in DOMAIN b.entries /\ a = b.entries[q]
      /\ a \in Addr /\ heap[a] \in Entry
  BY <1>1, FoundEntry
<1>3. /\ b \in Bucket /\ b.cap \in Nat /\ b.entries \in Seq(Addr)
      /\ n \in Nat /\ DOMAIN b.entries = 1 .. n
  BY <1>0, <1>2, BucketType
<1>4. /\ s \in Seq(Addr) /\ Len(s) = n - 1
      /\ \A j \in 1 .. n - 1 : s[j] = IF j < q THEN b.entries[j] ELSE b.entries[j + 1]
  <2>1. q \in 1 .. Len(b.entries)
    BY <1>2, <1>3
  <2> HIDE DEF h, b, q, a
  <2> QED BY <1>3, <2>1, WithoutProperties
<1>5. DOMAIN s = 1 .. n - 1
  BY <1>4, LenProperties
<1>6. buckets'[h] = Pulled(b, q)
  BY <1>0, <1>2 DEF Delete, TypeOK
<1>7. buckets'[h].entries = s /\ buckets'[h].cap = b.cap /\ buckets'[h] \in Bucket
  BY <1>3, <1>4, <1>6 DEF Pulled, Bucket
<1>8. \A i \in Slot : i # h => buckets'[i] = buckets[i]
  BY <1>0, <1>2 DEF Delete, TypeOK
<1>9. heap'[a] = Null /\ \A d \in Addr : d # a => heap'[d] = heap[d]
  BY <1>0, <1>2 DEF Delete, TypeOK
(* Where the pointer now at place j of slot i used to be.                  *)
<1> DEFINE old(i, j) == IF i = h /\ j >= q THEN j + 1 ELSE j
<1>10. \A i \in Slot : \A j \in DOMAIN buckets'[i].entries :
          /\ j \in Nat /\ old(i, j) \in DOMAIN buckets[i].entries
          /\ buckets'[i].entries[j] = buckets[i].entries[old(i, j)]
          /\ ~(i = h /\ old(i, j) = q)
  <2> SUFFICES ASSUME NEW i \in Slot, NEW j \in DOMAIN buckets'[i].entries
               PROVE  /\ j \in Nat /\ old(i, j) \in DOMAIN buckets[i].entries
                      /\ buckets'[i].entries[j] = buckets[i].entries[old(i, j)]
                      /\ ~(i = h /\ old(i, j) = q)
    OBVIOUS
  <2> HIDE DEF h, b, q, a, n, s
  <2>1. CASE i = h
    <3>1. buckets[i] = b /\ buckets'[i].entries = s
      BY <1>7, <2>1 DEF b
    <3>2. j \in 1 .. n - 1 /\ q \in 1 .. n
      BY <1>2, <1>3, <1>5, <3>1
    <3> QED BY <1>3, <1>4, <2>1, <3>1, <3>2
  <2>2. CASE i # h
    <3>1. DOMAIN buckets[i].entries = 1 .. Len(buckets[i].entries) /\ Len(buckets[i].entries) \in Nat
      BY <1>0, BucketType
    <3> QED BY <1>8, <2>2, <3>1
  <2> QED BY <2>1, <2>2
<1>11. \A i \in Slot : \A j \in DOMAIN buckets[i].entries :
          ~(i = h /\ j = q) => \E m \in DOMAIN buckets'[i].entries :
                                   buckets'[i].entries[m] = buckets[i].entries[j]
  <2> SUFFICES ASSUME NEW i \in Slot, NEW j \in DOMAIN buckets[i].entries, ~(i = h /\ j = q)
               PROVE  \E m \in DOMAIN buckets'[i].entries :
                         buckets'[i].entries[m] = buckets[i].entries[j]
    OBVIOUS
  <2> HIDE DEF h, b, q, a, n, s
  <2>1. CASE i # h
    BY <1>8, <2>1
  <2>2. CASE i = h /\ j < q
    <3>1. j \in 1 .. n - 1 /\ s[j] = b.entries[j]
      BY <1>2, <1>3, <1>4, <2>2 DEF b
    <3> QED BY <1>5, <1>7, <2>2, <3>1 DEF b
  <2>3. CASE i = h /\ j > q
    <3>1. j - 1 \in 1 .. n - 1 /\ s[j - 1] = b.entries[j]
      BY <1>2, <1>3, <1>4, <2>3 DEF b
    <3> QED BY <1>5, <1>7, <2>3, <3>1 DEF b
  <2>4. j \in Nat /\ (i = h => q \in Nat)
    BY <1>0, <1>2, <1>3, BucketType
  <2> QED BY <2>1, <2>2, <2>3, <2>4
(* The freed block was pointed to from the removed place only.             *)
<1>12. \A i \in Slot : \A j \in DOMAIN buckets'[i].entries :
          LET p == buckets[i].entries[old(i, j)]
          IN  p \in Addr /\ p # a /\ heap'[p] = heap[p] /\ heap[p] # Null
  <2> SUFFICES ASSUME NEW i \in Slot, NEW j \in DOMAIN buckets'[i].entries
               PROVE  LET p == buckets[i].entries[old(i, j)]
                      IN  p \in Addr /\ p # a /\ heap'[p] = heap[p] /\ heap[p] # Null
    OBVIOUS
  <2> DEFINE p == buckets[i].entries[old(i, j)]
  <2> HIDE DEF h, b, q, a, n, s
  <2>1. old(i, j) \in DOMAIN buckets[i].entries /\ ~(i = h /\ old(i, j) = q)
    BY <1>10
  <2> HIDE DEF old
  <2>2. p \in Addr /\ heap[p] # Null
    BY <1>0, <1>1, <2>1, BucketType DEF NoDangling
  <2>3. p # a
    <3>1. Apart(i, h)
      BY <1>0, <1>1, <1>2 DEF Unique
    <3>2. p = a => i = h /\ old(i, j) = q
      BY <1>2, <2>1, <3>1 DEF Apart, b
    <3> QED BY <2>1, <3>2
  <2> QED BY <1>9, <2>2, <2>3
<1>13. Stored' = Stored \ {a} /\ a \in Stored
  <2> HIDE DEF h, b, q, a, n, s
  <2>1. Stored' \subseteq Stored \ {a}
    <3> SUFFICES ASSUME NEW i \in Slot, NEW j \in DOMAIN buckets'[i].entries
                 PROVE  /\ buckets'[i].entries[j] \in Stored
                        /\ buckets'[i].entries[j] # a
      BY DEF Stored
    <3> QED BY <1>10, <1>12 DEF Stored
  <2>2. Stored \ {a} \subseteq Stored'
    <3> SUFFICES ASSUME NEW i \in Slot, NEW j \in DOMAIN buckets[i].entries,
                        buckets[i].entries[j] # a
                 PROVE  \E m \in DOMAIN buckets'[i].entries :
                           buckets'[i].entries[m] = buckets[i].entries[j]
      BY DEF Stored
    <3> QED BY <1>2, <1>11 DEF b
  <2>3. a \in Stored
    BY <1>2 DEF Stored, b
  <2> QED BY <2>1, <2>2, <2>3
<1>14. hash' = hash
  BY <1>1
<1>15. TypeOK'
  <2>1. buckets' \in [Slot -> Bucket]
    <3>1. DOMAIN buckets' = Slot /\ buckets' = [i \in Slot |-> buckets'[i]]
      BY <1>0 DEF Delete, TypeOK
    <3>2. \A i \in Slot : buckets'[i] \in Bucket
      BY <1>0, <1>7, <1>8 DEF TypeOK
    <3> QED BY <3>1, <3>2
  <2>2. heap' \in [Addr -> Entry \cup {Null}]
    BY <1>0, <1>2 DEF Delete, TypeOK
  <2>3. len' \in Nat
    <3>1. len = Cardinality(Stored) /\ len \in Nat
      BY <1>0, <1>1, StoredFinite DEF LenCounts
    <3>2. len # 0
      BY <1>0, <1>13, <3>1, StoredFinite, FS_EmptySet
    <3> QED BY <1>1, <3>1, <3>2
  <2>4. slots' \in {Cap, 2 * Cap} /\ hash' \in Seeded /\ alive' \in BOOLEAN
    BY <1>0 DEF Delete, TypeOK
  <2>5. reply' \in Reply
    <3>1. heap[a].val \in Value
      BY <1>2 DEF Entry
    <3> HIDE DEF h, b, q, n, s
    <3> QED BY <3>1 DEF Delete, Answer, Reply, Ops
  <2> QED BY <1>0, <2>1, <2>2, <2>3, <2>4, <2>5 DEF TypeOK
<1>22. Stored' = Stored \ {AddrOf(k)} /\ AddrOf(k) \in Stored
  BY <1>13
<1> HIDE DEF h, b, q, a, n, s, old
<1>16. NoDangling'
  BY <1>0, <1>10, <1>12 DEF NoDangling
<1>17. Placed'
  <2> SUFFICES ASSUME NEW i \in Slot, NEW j \in DOMAIN buckets'[i].entries
               PROVE  hash'[heap'[buckets'[i].entries[j]].key] % Cap = i
    BY DEF Placed, Index
  <2>1. Index(heap[buckets[i].entries[old(i, j)]].key) = i
    BY <1>0, <1>1, <1>10, <1>12 DEF Placed
  <2>2. buckets'[i].entries[j] = buckets[i].entries[old(i, j)]
    BY <1>10
  <2>3. heap'[buckets[i].entries[old(i, j)]] = heap[buckets[i].entries[old(i, j)]]
    BY <1>12
  <2> QED BY <1>1, <2>1, <2>2, <2>3 DEF Index
<1>18. Unique'
  <2> SUFFICES ASSUME NEW i \in Slot, NEW m \in Slot,
                      NEW j \in DOMAIN buckets'[i].entries, NEW p \in DOMAIN buckets'[m].entries,
                      \/ buckets'[i].entries[j] = buckets'[m].entries[p]
                      \/ Canon[heap'[buckets'[i].entries[j]].key]
                            = Canon[heap'[buckets'[m].entries[p]].key]
               PROVE  i = m /\ j = p
    BY DEF Unique, Apart
  <2>1. i = m /\ old(i, j) = old(m, p)
    <3> DEFINE x == buckets[i].entries[old(i, j)]
               y == buckets[m].entries[old(m, p)]
    <3>1. x = buckets'[i].entries[j] /\ y = buckets'[m].entries[p]
      BY Zenon, <1>10
    <3>2. heap'[x] = heap[x] /\ heap'[y] = heap[y]
      BY Zenon, <1>12
    <3>3. x = y \/ Canon[heap[x].key] = Canon[heap[y].key]
      BY Zenon, <3>1, <3>2
    <3>4. old(i, j) \in DOMAIN buckets[i].entries /\ old(m, p) \in DOMAIN buckets[m].entries
      BY Zenon, <1>10
    <3>5. Apart(i, m)
      BY <1>0, <1>1 DEF Unique
    <3> QED BY <3>3, <3>4, <3>5 DEF Apart
  <2>2. j \in Nat /\ p \in Nat
    BY Zenon, <1>10
  <2>3. i = h => q \in Nat
    BY <1>2, <1>3
  <2> QED BY <2>1, <2>2, <2>3 DEF old
<1>19. NoLeak'
  BY <1>0, <1>1, <1>9, <1>13 DEF NoLeak
<1>20. LenCounts'
  <2>1. len = Cardinality(Stored)
    BY <1>0, <1>1 DEF LenCounts
  <2>2. Cardinality(Stored \ {a}) = Cardinality(Stored) - 1
    BY <1>0, <1>13, StoredFinite, FS_RemoveElement
  <2> QED BY <1>1, <1>13, <2>1, <2>2 DEF LenCounts
<1>21. WithinRoom'
  <2> SUFFICES ASSUME NEW i \in Slot
               PROVE  Len(buckets'[i].entries) <= buckets'[i].cap
    BY DEF WithinRoom
  <2>1. CASE i = h
    BY <1>0, <1>2, <1>3, <1>4, <1>7, <2>1 DEF WithinRoom, b, n
  <2>2. CASE i # h
    BY <1>0, <1>8, <2>2 DEF WithinRoom
  <2> QED BY <2>1, <2>2
<1> QED BY <1>22, <1>15, <1>16, <1>17, <1>18, <1>19, <1>20, <1>21 DEF IInv

(* What a lookup answers has the type of an answer.                        *)
LEMMA LookupType ==
    ASSUME IInv, alive, NEW k \in Key
    PROVE  Lookup(k) \in Value \cup {Null}
<1>1. CASE Present(k)
  <2>1. heap[AddrOf(k)] \in Entry
    BY <1>1, FoundEntry
  <2> QED BY <1>1, <2>1 DEF Lookup, Entry
<1>2. CASE ~Present(k)
  BY <1>2 DEF Lookup
<1> QED BY <1>1, <1>2

(* A value overwritten in place: no pointer and no stored key changes.     *)
LEMMA OverwritePreserves ==
    ASSUME IInv, NEW k \in Key, NEW v \in Value, Overwrite(k, v)
    PROVE  IInv' /\ Stored' = Stored
<1>0. TypeOK /\ NoDangling /\ Placed /\ Unique /\ NoLeak /\ LenCounts /\ WithinRoom
  BY DEF IInv
<1> DEFINE a == AddrOf(k)
<1>1. alive /\ Present(k)
  BY DEF Overwrite
<1>2. a \in Addr /\ heap[a] \in Entry
  BY <1>1, FoundEntry
<1>3. heap' = [heap EXCEPT ![a].val = v]
  BY DEF Overwrite
<1>4. reply' = Answer("insert", k, 0, heap[a].val)
  BY DEF Overwrite
<1> HIDE DEF a
<1>5. heap'[a] = [heap[a] EXCEPT !.val = v] /\ \A d \in Addr : d # a => heap'[d] = heap[d]
  BY <1>0, <1>2, <1>3 DEF TypeOK
<1>6. heap'[a] \in Entry /\ heap'[a].key = heap[a].key
  BY <1>2, <1>5 DEF Entry
<1>7. TypeOK'
  <2>1. heap' \in [Addr -> Entry \cup {Null}]
    BY <1>0, <1>2, <1>3, <1>5, <1>6 DEF TypeOK
  <2>2. reply' \in Reply
    BY <1>2, <1>4 DEF Answer, Reply, Ops, Entry
  <2>3. /\ buckets' \in [Slot -> Bucket] /\ len' \in Nat /\ hash' \in Seeded
        /\ alive' \in BOOLEAN /\ slots' \in {Cap, 2 * Cap}
    BY <1>0 DEF Overwrite, TypeOK, ResizedSlots
  <2> QED BY <1>0, <2>1, <2>2, <2>3 DEF TypeOK
<1>8. hash' = hash /\ alive' = alive /\ len' = len /\ buckets' = buckets
  BY DEF Overwrite
<1>9. \A d \in Addr : /\ (heap'[d] = Null) <=> (heap[d] = Null)
                      /\ heap[d] # Null => heap'[d].key = heap[d].key
  BY <1>2, <1>5, <1>6 DEF Entry
<1>10. \A i \in Slot : /\ buckets'[i].entries = buckets[i].entries
                       /\ buckets'[i].cap >= buckets[i].cap
  BY <1>0, <1>8, BucketType
<1> QED BY <1>7, <1>8, <1>9, <1>10, FramePreserves DEF IInv

(* An insert whose entry cannot be allocated may leave its bucket larger.  *)
LEMMA EntryFailsPreserves ==
    ASSUME IInv, NEW op \in {"insert", "try_insert"}, NEW k \in Key, EntryFails(op, k)
    PROVE  IInv' /\ Stored' = Stored
<1>0. TypeOK /\ NoDangling /\ Placed /\ Unique /\ NoLeak /\ LenCounts /\ WithinRoom
  BY DEF IInv
<1> DEFINE h == Index(k)
<1>1. h \in Slot /\ buckets[h] \in Bucket /\ Len(buckets[h].entries) <= buckets[h].cap
  BY <1>0, IndexInSlot DEF WithinRoom
<1>2. buckets' = [buckets EXCEPT ![h] = Roomy(@)]
  BY DEF EntryFails
<1>3. /\ Roomy(buckets[h]) \in Bucket
      /\ Roomy(buckets[h]).entries = buckets[h].entries
      /\ Roomy(buckets[h]).cap >= buckets[h].cap
  BY <1>1, RoomyProperties
<1> HIDE DEF h
<1>4. \A i \in Slot : buckets'[i] = IF i = h THEN Roomy(buckets[h]) ELSE buckets[i]
  BY <1>0, <1>1, <1>2 DEF TypeOK
<1>5. buckets' \in [Slot -> Bucket]
  BY <1>0, <1>1, <1>2, <1>3 DEF TypeOK
<1>6. \A i \in Slot : /\ buckets'[i].entries = buckets[i].entries
                      /\ buckets'[i].cap >= buckets[i].cap
  <2> SUFFICES ASSUME NEW i \in Slot
               PROVE  /\ buckets'[i].entries = buckets[i].entries
                      /\ buckets'[i].cap >= buckets[i].cap
    OBVIOUS
  <2>1. buckets[i].cap \in Nat
    BY <1>0, BucketType
  <2> QED BY <1>3, <1>4, <2>1
<1>7. TypeOK'
  BY <1>0, <1>5 DEF EntryFails, Fail, Answer, Reply, Ops, TypeOK, ResizedSlots
<1>8. hash' = hash /\ alive' = alive /\ len' = len /\ heap' = heap
  BY DEF EntryFails
<1> QED BY <1>6, <1>7, <1>8, FramePreserves DEF IInv

(* The calls that change no more than the slots and the answer.            *)
LEMMA QuietPreserves ==
    ASSUME IInv, NEW k \in Key,
           \/ \E op \in {"insert", "try_insert"} : ResizeFails(op, k) \/ BucketFails(op, k)
           \/ Refuse(k) \/ Get(k) \/ Has(k) \/ DeleteMissing(k)
    PROVE  IInv' /\ Stored' = Stored
<1>0. TypeOK /\ NoDangling /\ Placed /\ Unique /\ NoLeak /\ LenCounts /\ WithinRoom
  BY DEF IInv
<1>1. /\ buckets' = buckets /\ hash' = hash /\ alive' = alive /\ len' = len /\ heap' = heap
      /\ slots' \in {slots, 2 * Cap}
  BY DEF ResizeFails, BucketFails, Refuse, Get, Has, DeleteMissing, ResizedSlots
<1>2. reply' \in Reply
  <2>1. Lookup(k) \in Value \cup {Null}
    BY LookupType DEF ResizeFails, BucketFails, Refuse, Get, Has, DeleteMissing
  <2> QED BY <2>1 DEF ResizeFails, BucketFails, Refuse, Get, Has, DeleteMissing,
                      Fail, Answer, Reply, Ops
<1>3. TypeOK'
  BY <1>0, <1>1, <1>2 DEF TypeOK
<1>4. \A i \in Slot : buckets'[i].cap >= buckets[i].cap
  BY <1>0, <1>1, BucketType
<1> QED BY <1>1, <1>3, <1>4, FramePreserves DEF IInv

(* ht_free reaches every allocated entry.                                  *)
LEMMA FreePreserves ==
    ASSUME IInv, Free
    PROVE  IInv'
<1>0. TypeOK /\ NoDangling /\ Placed /\ Unique /\ NoLeak /\ LenCounts /\ WithinRoom
  BY DEF IInv
<1>1. \A a \in Addr : heap'[a] = Null
  BY <1>0 DEF Free, NoLeak
<1>2. heap' \in [Addr -> Entry \cup {Null}]
  BY <1>0 DEF Free, TypeOK
<1>3. reply' \in Reply
  BY DEF Free, Answer, Reply, Ops
<1>4. TypeOK'
  BY <1>0, <1>2, <1>3 DEF Free, TypeOK
<1>5. ~alive' /\ buckets' = buckets
  BY DEF Free
<1> QED BY <1>0, <1>1, <1>4, <1>5 DEF NoDangling, Placed, Unique, NoLeak, LenCounts, WithinRoom, IInv

(* A table made anew finds no block of the old one allocated.              *)
LEMMA RenewPreserves ==
    ASSUME IInv, Renew
    PROVE  IInv' /\ Stored' = {}
<1>0. TypeOK /\ NoDangling /\ Placed /\ Unique /\ NoLeak /\ LenCounts /\ WithinRoom
  BY DEF IInv
<1>1. \A i \in Slot : buckets'[i] = [cap |-> 0, entries |-> <<>>]
  BY DEF Renew, NoBuckets
<1>2. \A i \in Slot : /\ buckets'[i].entries = <<>> /\ buckets'[i].cap = 0
                      /\ DOMAIN buckets'[i].entries = {}
  BY <1>1
<1>3. Stored' = {}
  BY <1>2 DEF Stored
<1>4. buckets' \in [Slot -> Bucket]
  BY DEF Renew, NoBuckets, Bucket
<1>5. TypeOK'
  BY <1>0, <1>4 DEF Renew, TypeOK, Answer, Reply, Ops
<1>6. NoDangling' /\ Placed' /\ Unique'
  BY <1>2 DEF NoDangling, Placed, Unique, Apart
<1>7. WithinRoom'
  BY <1>2, LenProperties DEF WithinRoom
<1>8. NoLeak'
  BY <1>0 DEF Renew, NoLeak
<1>9. LenCounts'
  BY <1>3, FS_EmptySet DEF Renew, LenCounts
<1> QED BY <1>3, <1>5, <1>6, <1>7, <1>8, <1>9 DEF IInv

(* A step that changes no variable preserves the invariant.                *)
LEMMA StutterPreserves ==
    ASSUME IInv, UNCHANGED vars
    PROVE  IInv' /\ Stored' = Stored
<1>1. /\ buckets' = buckets /\ slots' = slots /\ len' = len /\ hash' = hash
      /\ heap' = heap /\ alive' = alive /\ reply' = reply
  BY DEF vars
<1>2. TypeOK'
  BY <1>1 DEF IInv, TypeOK
<1>3. \A i \in Slot : buckets'[i].cap >= buckets[i].cap
  BY <1>1, BucketType DEF IInv
<1> QED BY <1>1, <1>2, <1>3, FramePreserves
---------------------------------------------------------------------------
(* Every call keeps the inductive invariant.                               *)
LEMMA NextPreserves == IInv /\ [Next]_vars => IInv'
<1> SUFFICES ASSUME IInv, [Next]_vars PROVE IInv'
  OBVIOUS
<1>1. ASSUME NEW k \in Key, Inserting(k) PROVE IInv'
  <2>1. ASSUME NEW op \in {"insert", "try_insert"}, ResizeFails(op, k) \/ BucketFails(op, k)
        PROVE IInv'
    BY <2>1, QuietPreserves
  <2>2. ASSUME NEW op \in {"insert", "try_insert"}, EntryFails(op, k) PROVE IInv'
    BY <2>2, EntryFailsPreserves
  <2>3. ASSUME NEW op \in {"insert", "try_insert"}, NEW v \in Value, Add(op, k, v) PROVE IInv'
    BY <2>3, AddPreserves
  <2>4. ASSUME NEW v \in Value, Overwrite(k, v) PROVE IInv'
    BY <2>4, OverwritePreserves
  <2>5. CASE Refuse(k)
    BY <2>5, QuietPreserves
  <2> QED BY <1>1, <2>1, <2>2, <2>3, <2>4, <2>5 DEF Inserting
<1>2. ASSUME NEW k \in Key, Get(k) \/ Has(k) \/ DeleteMissing(k) PROVE IInv'
  BY <1>2, QuietPreserves
<1>3. ASSUME NEW k \in Key, Delete(k) PROVE IInv'
  BY <1>3, DeletePreserves
<1>4. CASE Free
  BY <1>4, FreePreserves
<1>5. CASE Renew
  BY <1>5, RenewPreserves
<1>6. CASE UNCHANGED vars
  BY <1>6, StutterPreserves
<1> QED BY <1>1, <1>2, <1>3, <1>4, <1>5, <1>6 DEF Next

(* The inductive invariant holds in every reachable state of the table.    *)
THEOREM InvariantHolds == Spec => []IInv
  BY InitInvariant, NextPreserves, PTL DEF Spec

(* The fields of the struct, the heap and every answer have their types.   *)
THEOREM TypeCorrect == Spec => []TypeOK
<1>1. IInv => TypeOK
  BY DEF IInv
<1> QED BY <1>1, InvariantHolds, PTL

(* ht.c never follows a bucket's pointer to a freed entry.                 *)
THEOREM NoDanglingHolds == Spec => []NoDangling
<1>1. IInv => NoDangling
  BY DEF IInv
<1> QED BY <1>1, InvariantHolds, PTL

(* Every entry is in the slot that ht_get and ht_delete search for its key *)
(* and ht_resize is right to move none.                                    *)
THEOREM PlacedHolds == Spec => []Placed
<1>1. IInv => Placed
  BY DEF IInv
<1> QED BY <1>1, InvariantHolds, PTL

(* One entry per key and one pointer per entry.                            *)
THEOREM UniqueHolds == Spec => []Unique
<1>1. IInv => Unique
  BY DEF IInv
<1> QED BY <1>1, InvariantHolds, PTL

(* No call loses an entry it allocated, not even one that fails, and       *)
(* ht_free leaves none.                                                    *)
THEOREM NoLeakHolds == Spec => []NoLeak
<1>1. IInv => NoLeak
  BY DEF IInv
<1> QED BY <1>1, InvariantHolds, PTL

(* ht_len is the number of stored associations.                            *)
THEOREM LenCountsHolds == Spec => []LenCounts
<1>1. IInv => LenCounts
  BY DEF IInv
<1> QED BY <1>1, InvariantHolds, PTL

(* ht_insert never writes past the end of a bucket.                        *)
THEOREM WithinRoomHolds == Spec => []WithinRoom
<1>1. IInv => WithinRoom
  BY DEF IInv
<1> QED BY <1>1, InvariantHolds, PTL
---------------------------------------------------------------------------
(* Whether a key is found does not depend on which of the keys the client  *)
(* calls equal is asked for.                                               *)
LEMMA PresentOfEqual ==
    ASSUME TypeOK, NEW k \in Key, NEW l \in Key, Canon[k] = Canon[l]
    PROVE  Present(k) = Present(l)
<1>1. hash[k] = hash[l]
  BY DEF TypeOK
<1>2. Home(k) = Home(l)
  BY <1>1 DEF Home, Index
<1>3. Hits(Home(k), k) = Hits(Home(l), l)
  BY <1>2 DEF Hits
<1> QED BY <1>3 DEF Present

(* A key that is found has one entry, the only stored one with that key.   *)
Found ==
    \A k \in Key : alive /\ Present(k) =>
        /\ AddrOf(k) \in Stored /\ Canon[heap[AddrOf(k)].key] = Canon[k]
        /\ \A a \in Stored : Canon[heap[a].key] = Canon[k] => a = AddrOf(k)

(* Any stored entry of the key is the one the search finds.                *)
LEMMA FoundHolds == IInv => Found
<1> SUFFICES ASSUME IInv, alive, NEW k \in Key, Present(k)
             PROVE  /\ AddrOf(k) \in Stored /\ Canon[heap[AddrOf(k)].key] = Canon[k]
                    /\ \A a \in Stored : Canon[heap[a].key] = Canon[k] => a = AddrOf(k)
  BY DEF Found
<1> DEFINE h == Index(k)
           q == Position(k)
<1>1. /\ h \in Slot /\ q \in DOMAIN buckets[h].entries /\ AddrOf(k) = buckets[h].entries[q]
      /\ AddrOf(k) \in Addr
      /\ heap[AddrOf(k)] \in Entry /\ Canon[heap[AddrOf(k)].key] = Canon[k]
  BY FoundEntry
<1> HIDE DEF h, q
<1>3. AddrOf(k) \in Stored
  BY <1>1 DEF Stored
<1>4. ASSUME NEW a \in Stored, Canon[heap[a].key] = Canon[k]
      PROVE  a = AddrOf(k)
  <2>0. PICK i \in Slot : \E j \in DOMAIN buckets[i].entries : a = buckets[i].entries[j]
    BY DEF Stored
  <2>1. PICK j \in DOMAIN buckets[i].entries : a = buckets[i].entries[j]
    BY <2>0
  <2>2. Canon[heap[buckets[i].entries[j]].key] = Canon[heap[buckets[h].entries[q]].key]
    BY <1>1, <1>4, <2>1
  <2>3. Apart(i, h)
    BY <1>1 DEF IInv, Unique
  <2>4. i = h /\ j = q
    BY <1>1, <2>2, <2>3 DEF Apart
  <2> QED BY <1>1, <2>1, <2>4
<1> QED BY <1>1, <1>3, <1>4

(* What a call that leaves the table alive can have stored: what was       *)
(* stored, under the key it had, or a key that was not present.            *)
Kept(a) == a \in Stored /\ heap'[a].key = heap[a].key

(* A key that no entry had.                                                *)
Added(a) == \E l \in Key : ~Present(l) /\ heap'[a].key = l

(* Every step but ht_free and ht_new keeps what was stored, or adds a key. *)
LEMMA StepKeeps ==
    ASSUME IInv, [Next]_vars, alive, alive'
    PROVE  \A a \in Stored' : Kept(a) \/ Added(a)
<1>0. \A a \in Stored : a \in Addr /\ heap[a] # Null
  BY BucketType DEF IInv, NoDangling, Stored
<1>1. ASSUME Stored' = Stored, heap' = heap PROVE \A a \in Stored' : Kept(a)
  BY <1>1 DEF Kept
<1>2. ASSUME NEW k \in Key, NEW op \in {"insert", "try_insert"},
             ResizeFails(op, k) \/ BucketFails(op, k) \/ EntryFails(op, k)
      PROVE  Stored' = Stored /\ heap' = heap
  BY <1>2, QuietPreserves, EntryFailsPreserves DEF ResizeFails, BucketFails, EntryFails
<1>3. ASSUME NEW k \in Key, NEW op \in {"insert", "try_insert"}, NEW v \in Value,
             Add(op, k, v)
      PROVE  \A a \in Stored' : Kept(a) \/ Added(a)
  <2>1. PICK n \in Unused : /\ Stored' = Stored \cup {n}
                            /\ heap' = [heap EXCEPT ![n] = [key |-> k, val |-> v]]
    BY <1>3, AddPreserves
  <2>2. heap'[n].key = k /\ \A d \in Addr : d # n => heap'[d] = heap[d]
    BY <2>1 DEF Unused, IInv, TypeOK
  <2>3. ~Present(k)
    BY <1>3 DEF Add
  <2> QED BY <1>0, <2>1, <2>2, <2>3 DEF Kept, Added, Unused
<1>4. ASSUME NEW k \in Key, NEW v \in Value, Overwrite(k, v)
      PROVE  \A a \in Stored' : Kept(a)
  <2>1. Stored' = Stored
    BY <1>4, OverwritePreserves
  <2>2. heap' = [heap EXCEPT ![AddrOf(k)].val = v] /\ Present(k)
    BY <1>4 DEF Overwrite
  <2>3. AddrOf(k) \in Addr /\ heap[AddrOf(k)] \in Entry
    BY <2>2, FoundEntry
  <2>4. \A a \in Addr : heap[a] # Null => heap'[a].key = heap[a].key
    BY <2>2, <2>3 DEF IInv, TypeOK, Entry
  <2> QED BY <1>0, <2>1, <2>4 DEF Kept
<1>5. ASSUME NEW k \in Key, Refuse(k) \/ Get(k) \/ Has(k) \/ DeleteMissing(k)
      PROVE  Stored' = Stored /\ heap' = heap
  BY <1>5, QuietPreserves DEF Refuse, Get, Has, DeleteMissing
<1>6. ASSUME NEW k \in Key, Delete(k) PROVE \A a \in Stored' : Kept(a)
  <2>1. Stored' = Stored \ {AddrOf(k)}
    BY <1>6, DeletePreserves
  <2>2. \A a \in Addr : a # AddrOf(k) => heap'[a] = heap[a]
    BY <1>6 DEF Delete, IInv, TypeOK
  <2> QED BY <1>0, <2>1, <2>2 DEF Kept
<1>7. CASE Free \/ Renew
  BY <1>7 DEF Free, Renew
<1>8. CASE UNCHANGED vars
  BY <1>1, <1>8, StutterPreserves DEF vars
<1> QED BY <1>1, <1>2, <1>3, <1>4, <1>5, <1>6, <1>7, <1>8 DEF Next, Inserting

(* A pointer ht_get returned stays good as long as its key is present: no  *)
(* call moves the entry, whatever it adds, removes, overwrites or grows.   *)
THEOREM StablePointersHolds == Spec => StablePointers
<1>1. ASSUME IInv, IInv', [Next]_vars
      PROVE  \A k \in Key : alive /\ alive' /\ Present(k) /\ Present(k)' => AddrOf(k)' = AddrOf(k)
  <2> SUFFICES ASSUME NEW k \in Key, alive, alive', Present(k), Present(k)'
               PROVE  AddrOf(k)' = AddrOf(k)
    OBVIOUS
  <2> DEFINE a == AddrOf(k)'
  <2>1. Found /\ Found'
    <3>1. IInv' => Found'
      BY FoundHolds, PTL
    <3> QED BY <1>1, <3>1, FoundHolds
  <2>2. a \in Stored' /\ Canon[heap'[a].key] = Canon[k]
    BY <2>1 DEF Found
  <2>3. CASE Kept(a)
    BY <2>1, <2>2, <2>3 DEF Found, Kept
  <2>4. CASE Added(a)
    <3>1. PICK l \in Key : ~Present(l) /\ heap'[a].key = l
      BY <2>4 DEF Added
    <3>2. Canon[l] = Canon[k]
      BY <2>2, <3>1
    <3> QED BY <1>1, <3>1, <3>2, PresentOfEqual DEF IInv
  <2> QED BY <1>1, <2>2, <2>3, <2>4, StepKeeps
<1> QED BY <1>1, InvariantHolds, PTL DEF Spec, StablePointers
---------------------------------------------------------------------------
(* What is stored decides what is found, in every slot.                    *)
StoredFound ==
    alive => \A l \in Key :
        /\ \A a \in Stored : Canon[heap[a].key] = Canon[l] =>
              Present(l) /\ AddrOf(l) = a /\ Lookup(l) = heap[a].val
        /\ (\A a \in Stored : Canon[heap[a].key] # Canon[l]) => ~Present(l) /\ Lookup(l) = Null

(* ht_get and its like find the stored entry of the key, if there is one.  *)
LEMMA StoredFoundHolds == IInv => StoredFound
<1> SUFFICES ASSUME IInv, alive, NEW l \in Key
             PROVE  /\ \A a \in Stored : Canon[heap[a].key] = Canon[l] =>
                          Present(l) /\ AddrOf(l) = a /\ Lookup(l) = heap[a].val
                    /\ (\A a \in Stored : Canon[heap[a].key] # Canon[l]) =>
                          ~Present(l) /\ Lookup(l) = Null
  BY DEF StoredFound
<1>1. ASSUME NEW a \in Stored, Canon[heap[a].key] = Canon[l]
      PROVE  Present(l) /\ AddrOf(l) = a /\ Lookup(l) = heap[a].val
  BY <1>1, AbsentEverywhere, FoundHolds DEF Found, Lookup
<1>2. ASSUME \A a \in Stored : Canon[heap[a].key] # Canon[l]
      PROVE  ~Present(l) /\ Lookup(l) = Null
  BY <1>2, FoundHolds DEF Found, Lookup
<1> QED BY <1>1, <1>2

(* It does so before and after every step.                                 *)
LEMMA StoredFoundTwice ==
    ASSUME IInv, IInv'
    PROVE  StoredFound /\ StoredFound'
<1>1. IInv' => StoredFound'
  BY StoredFoundHolds, PTL
<1> QED BY <1>1, StoredFoundHolds

(* Stored blocks hold entries, and what a lookup answers is a value        *)
(* exactly when the key is present.                                        *)
LEMMA StoredEntries ==
    ASSUME IInv, alive
    PROVE  /\ \A a \in Stored : a \in Addr /\ heap[a] \in Entry
           /\ \A k \in Key : IF Present(k) THEN /\ AddrOf(k) \in Stored
                                                /\ Lookup(k) = heap[AddrOf(k)].val
                                                /\ Lookup(k) \in Value
                             ELSE Lookup(k) = Null
<1>1. \A a \in Stored : a \in Addr /\ heap[a] # Null
  BY BucketType DEF IInv, NoDangling, Stored
<1>2. \A a \in Stored : a \in Addr /\ heap[a] \in Entry
  BY <1>1 DEF IInv, TypeOK
<1>3. ASSUME NEW k \in Key, Present(k)
      PROVE  /\ AddrOf(k) \in Stored
             /\ Lookup(k) = heap[AddrOf(k)].val /\ Lookup(k) \in Value
  BY <1>2, <1>3, FoundHolds DEF Found, Lookup, Entry
<1> QED BY <1>2, <1>3 DEF Lookup

(* The value of the class of k is what the search for k finds.             *)
LEMMA ContentOfClass ==
    ASSUME IInv, alive, NEW k \in Key
    PROVE  Contents[Canon[k]] = Lookup(k)
<1>1. Canon[k] \in Key /\ Canon[Canon[k]] = Canon[k]
  OBVIOUS
<1>2. Contents[Canon[k]] = Lookup(Canon[k])
  BY <1>1 DEF Contents
<1>3. StoredFound
  BY StoredFoundHolds
<1>4. Lookup(Canon[k]) = Lookup(k)
  <2>1. CASE \E a \in Stored : Canon[heap[a].key] = Canon[k]
    BY <1>1, <1>3, <2>1 DEF StoredFound
  <2>2. CASE \A a \in Stored : Canon[heap[a].key] # Canon[k]
    BY <1>1, <1>3, <2>2 DEF StoredFound
  <2> QED BY <2>1, <2>2
<1> QED BY <1>2, <1>4

(* A call after which the same entries are stored changes no association.  *)
LEMMA SameContents ==
    ASSUME IInv, IInv', Stored' = Stored, heap' = heap, alive, alive'
    PROVE  Contents' = Contents
<1>1. StoredFound /\ StoredFound'
  BY StoredFoundTwice
<1>2. \A l \in Key : Lookup(l)' = Lookup(l)
  <2> SUFFICES ASSUME NEW l \in Key PROVE Lookup(l)' = Lookup(l)
    OBVIOUS
  <2>1. CASE \E a \in Stored : Canon[heap[a].key] = Canon[l]
    BY <1>1, <2>1 DEF StoredFound
  <2>2. CASE \A a \in Stored : Canon[heap[a].key] # Canon[l]
    BY <1>1, <2>2 DEF StoredFound
  <2> QED BY <2>1, <2>2
<1> QED BY <1>2 DEF Contents

(* What a step does to the lookups of one class it does to the contents.   *)
LEMMA ContentsAfter ==
    ASSUME alive, alive', NEW k \in Key, NEW x,
           \A l \in Key : Lookup(l)' = IF Canon[l] = Canon[k] THEN x ELSE Lookup(l)
    PROVE  Contents' = [Contents EXCEPT ![Canon[k]] = x]
<1>1. \A l \in Key : Canon[l] = l => Lookup(l)' = IF l = Canon[k] THEN x ELSE Lookup(l)
  OBVIOUS
<1> QED BY <1>1 DEF Contents

(* A new entry for k associates its class, and that class only.            *)
LEMMA ContentsAfterAdd ==
    ASSUME IInv, NEW op \in {"insert", "try_insert"}, NEW k \in Key, NEW v \in Value,
           Add(op, k, v)
    PROVE  Contents' = [Contents EXCEPT ![Canon[k]] = v] /\ Contents[Canon[k]] = Null
<1>1. PICK a \in Unused : /\ Stored' = Stored \cup {a}
                          /\ heap' = [heap EXCEPT ![a] = [key |-> k, val |-> v]]
  BY AddPreserves
<1>2. alive /\ alive' /\ ~Present(k) /\ IInv'
  BY AddPreserves DEF Add
<1>3. StoredFound /\ StoredFound'
  BY <1>2, StoredFoundTwice
<1>4. /\ heap'[a].key = k /\ heap'[a].val = v
      /\ \A d \in Stored : heap'[d] = heap[d]
  BY <1>1, <1>2, StoredEntries DEF Unused, IInv, TypeOK, Entry
<1>5. ASSUME NEW l \in Key PROVE Lookup(l)' = IF Canon[l] = Canon[k] THEN v ELSE Lookup(l)
  <2>1. CASE Canon[l] = Canon[k]
    BY <1>1, <1>2, <1>3, <1>4, <2>1 DEF StoredFound
  <2>2. CASE Canon[l] # Canon[k]
    <3>1. CASE \E d \in Stored : Canon[heap[d].key] = Canon[l]
      BY <1>1, <1>2, <1>3, <1>4, <2>2, <3>1 DEF StoredFound
    <3>2. CASE \A d \in Stored : Canon[heap[d].key] # Canon[l]
      BY <1>1, <1>2, <1>3, <1>4, <2>2, <3>2 DEF StoredFound
    <3> QED BY <3>1, <3>2
  <2> QED BY <2>1, <2>2
<1>6. Contents[Canon[k]] = Null
  BY <1>2, ContentOfClass DEF Lookup
<1> QED BY <1>2, <1>5, <1>6, ContentsAfter

(* Overwriting changes the value of the class of k only.                   *)
LEMMA ContentsAfterOverwrite ==
    ASSUME IInv, NEW k \in Key, NEW v \in Value, Overwrite(k, v)
    PROVE  Contents' = [Contents EXCEPT ![Canon[k]] = v]
<1>1. IInv' /\ Stored' = Stored
  BY OverwritePreserves
<1>2. alive /\ alive' /\ Present(k) /\ heap' = [heap EXCEPT ![AddrOf(k)].val = v]
  BY DEF Overwrite
<1>3. StoredFound /\ StoredFound'
  BY <1>1, StoredFoundTwice
<1>a. PICK a \in Stored : a = AddrOf(k) /\ Canon[heap[a].key] = Canon[k]
  BY <1>2, FoundHolds DEF Found
<1>4. /\ heap'[a].key = heap[a].key /\ heap'[a].val = v
      /\ \A d \in Stored : d # a => heap'[d] = heap[d]
  BY <1>2, <1>a, StoredEntries DEF IInv, TypeOK, Entry
<1>5. ASSUME NEW l \in Key PROVE Lookup(l)' = IF Canon[l] = Canon[k] THEN v ELSE Lookup(l)
  <2>1. CASE Canon[l] = Canon[k]
    BY <1>1, <1>2, <1>3, <1>4, <1>a, <2>1 DEF StoredFound
  <2>2. CASE Canon[l] # Canon[k]
    <3>1. CASE \E d \in Stored : Canon[heap[d].key] = Canon[l]
      BY <1>1, <1>2, <1>3, <1>4, <1>a, <2>2, <3>1 DEF StoredFound
    <3>2. CASE \A d \in Stored : Canon[heap[d].key] # Canon[l]
      BY <1>1, <1>2, <1>3, <1>4, <1>a, <2>2, <3>2 DEF StoredFound
    <3> QED BY <3>1, <3>2
  <2> QED BY <2>1, <2>2
<1> QED BY <1>2, <1>5, ContentsAfter

(* A deletion forgets the class of k only.                                 *)
LEMMA ContentsAfterDelete ==
    ASSUME IInv, NEW k \in Key, Delete(k)
    PROVE  Contents' = [Contents EXCEPT ![Canon[k]] = Null]
<1>1. IInv' /\ Stored' = Stored \ {AddrOf(k)}
  BY DeletePreserves
<1>2. alive /\ alive' /\ Present(k) /\ heap' = [heap EXCEPT ![AddrOf(k)] = Null]
  BY DEF Delete
<1>3. StoredFound /\ StoredFound'
  BY <1>1, StoredFoundTwice
<1>a. PICK a \in Stored : /\ a = AddrOf(k) /\ Canon[heap[a].key] = Canon[k]
                          /\ \A d \in Stored : Canon[heap[d].key] = Canon[k] => d = a
  BY <1>2, FoundHolds DEF Found
<1>4. \A d \in Stored : d # a => heap'[d] = heap[d]
  BY <1>2, <1>a, StoredEntries DEF IInv, TypeOK
<1>5. ASSUME NEW l \in Key PROVE Lookup(l)' = IF Canon[l] = Canon[k] THEN Null ELSE Lookup(l)
  <2>1. CASE Canon[l] = Canon[k]
    BY <1>1, <1>2, <1>3, <1>4, <1>a, <2>1 DEF StoredFound
  <2>2. CASE Canon[l] # Canon[k]
    <3>1. CASE \E d \in Stored : Canon[heap[d].key] = Canon[l]
      BY <1>1, <1>2, <1>3, <1>4, <1>a, <2>2, <3>1 DEF StoredFound
    <3>2. CASE \A d \in Stored : Canon[heap[d].key] # Canon[l]
      BY <1>1, <1>2, <1>3, <1>4, <1>a, <2>2, <3>2 DEF StoredFound
    <3> QED BY <3>1, <3>2
  <2> QED BY <2>1, <2>2
<1> QED BY <1>2, <1>5, ContentsAfter

(* The empty table associates nothing.                                     *)
LEMMA NoContents == IInv /\ Stored = {} => Contents = M!Empty
<1> SUFFICES ASSUME IInv, Stored = {} PROVE Contents = M!Empty
  OBVIOUS
<1>1. \A l \in Key : alive => Lookup(l) = Null
  BY StoredFoundHolds DEF StoredFound
<1> QED BY <1>1 DEF Contents, M!Empty

(* Every step of the table is a step of the dictionary, or none.           *)
LEMMA StepImplementsMap ==
    ASSUME IInv, IInv', [Next]_vars
    PROVE  [M!Next]_(M!vars)
<1>1. ASSUME NEW k \in Key, NEW op \in {"insert", "try_insert"},
             ResizeFails(op, k) \/ BucketFails(op, k) \/ EntryFails(op, k)
      PROVE  M!Refuse(op, k)
  <2>1. Stored' = Stored
    BY <1>1, QuietPreserves, EntryFailsPreserves
  <2>2. alive /\ alive' /\ heap' = heap /\ reply' = Answer(op, k, 1, Null)
    BY <1>1 DEF ResizeFails, BucketFails, EntryFails, Fail
  <2> QED BY <2>1, <2>2, SameContents DEF M!Refuse, M!Answer, Answer
<1>2. ASSUME NEW k \in Key, Refuse(k) PROVE M!Refuse("try_insert", k)
  <2>1. Stored' = Stored
    BY <1>2, QuietPreserves
  <2>2. alive /\ alive' /\ heap' = heap /\ reply' = Answer("try_insert", k, 1, Null)
    BY <1>2 DEF Refuse, Fail
  <2> QED BY <2>1, <2>2, SameContents DEF M!Refuse, M!Answer, Answer
<1>3. ASSUME NEW k \in Key, NEW v \in Value, NEW op \in {"insert", "try_insert"}, Add(op, k, v)
      PROVE  M!Insert(k, v) \/ M!TryInsert(k, v)
  BY <1>3, ContentsAfterAdd DEF Add, M!Insert, M!TryInsert, M!At, M!Answer, Answer
<1>4. ASSUME NEW k \in Key, NEW v \in Value, Overwrite(k, v) PROVE M!Insert(k, v)
  <2>1. alive /\ Present(k) /\ reply' = Answer("insert", k, 0, heap[AddrOf(k)].val)
    BY <1>4 DEF Overwrite
  <2>2. Contents[Canon[k]] = heap[AddrOf(k)].val
    BY <2>1, ContentOfClass DEF Lookup
  <2> QED BY <1>4, <2>1, <2>2, ContentsAfterOverwrite DEF M!Insert, M!At, M!Answer, Answer
<1>5. ASSUME NEW k \in Key, Get(k) \/ Has(k) PROVE M!Get(k) \/ M!Has(k)
  <2>1. Stored' = Stored /\ alive /\ alive' /\ heap' = heap
    BY <1>5, QuietPreserves DEF Get, Has
  <2>2. Contents[Canon[k]] = Lookup(k) /\ Contents' = Contents
    BY <2>1, ContentOfClass, SameContents
  <2>3. Lookup(k) = Null <=> ~Present(k)
    BY <2>1, StoredEntries
  <2> QED BY <1>5, <2>2, <2>3 DEF Get, Has, M!Get, M!Has, M!At, M!Answer, Answer
<1>6. ASSUME NEW k \in Key, Delete(k) PROVE M!Delete(k)
  <2>1. alive /\ Present(k) /\ reply' = Answer("delete", k, 0, heap[AddrOf(k)].val)
    BY <1>6 DEF Delete
  <2>2. Contents[Canon[k]] = heap[AddrOf(k)].val /\ heap[AddrOf(k)].val # Null
    BY <2>1, ContentOfClass, StoredEntries DEF Lookup
  <2> QED BY <1>6, <2>1, <2>2, ContentsAfterDelete DEF M!Delete, M!At, M!Answer, Answer
<1>7. ASSUME NEW k \in Key, DeleteMissing(k) PROVE M!Delete(k)
  <2>1. Stored' = Stored /\ alive /\ alive' /\ heap' = heap /\ ~Present(k)
    BY <1>7, QuietPreserves DEF DeleteMissing
  <2>2. Contents[Canon[k]] = Null /\ Contents' = Contents
    BY <2>1, ContentOfClass, SameContents DEF Lookup
  <2>3. [Contents EXCEPT ![Canon[k]] = Null] = Contents
    BY <2>2 DEF Contents
  <2> QED BY <1>7, <2>2, <2>3 DEF DeleteMissing, Fail, M!Delete, M!At, M!Answer, Answer
<1>8. CASE Free
  <2>1. Contents' = M!Empty
    BY <1>8 DEF Free, Contents, M!Empty
  <2> QED BY <1>8, <2>1 DEF Free, M!Next, M!Clear, M!Answer, Answer
<1>9. CASE Renew
  <2>1. Stored' = {}
    BY <1>9, RenewPreserves
  <2>2. (IInv /\ Stored = {})' => (Contents = M!Empty)'
    BY NoContents, PTL
  <2>3. Contents' = M!Empty
    BY <2>1, <2>2 DEF M!Empty
  <2> QED BY <1>9, <2>3 DEF Renew, M!Next, M!Clear, M!Answer, Answer
<1>10. CASE UNCHANGED vars
  BY <1>10 DEF vars, M!vars, Contents, Lookup, AddrOf, Present, Position, Hits, Home, Index
<1> QED BY <1>1, <1>2, <1>3, <1>4, <1>5, <1>6, <1>7, <1>8, <1>9, <1>10
        DEF Next, Inserting, M!Next

(* The table is the dictionary: no call loses, resurrects or corrupts an   *)
(* association, a failed one changes none, and each value overwritten or   *)
(* deleted is handed to its free callback once.                            *)
THEOREM MapImplemented == Spec => ImplementsMap
<1>1. Init => M!Init
  <2> SUFFICES ASSUME Init PROVE M!Init
    OBVIOUS
  <2>1. \A i \in Slot : DOMAIN buckets[i].entries = {}
    BY DEF Init, New, NoBuckets
  <2>2. Stored = {}
    BY <2>1 DEF Stored
  <2>3. Contents = M!Empty
    BY <2>2, InitInvariant, NoContents
  <2> QED BY <2>3 DEF Init, New, M!Init, M!Start, M!Answer, Answer
<1>2. IInv /\ IInv' /\ [Next]_vars => [M!Next]_(M!vars)
  BY StepImplementsMap
<1> QED BY <1>1, <1>2, InvariantHolds, PTL DEF Spec, ImplementsMap, M!Spec
=============================================================================
