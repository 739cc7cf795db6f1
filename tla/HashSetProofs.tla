---------------------------- MODULE HashSetProofs ----------------------------
(***************************************************************************)
(* Theorems about HashSet for every set of keys, every number of slots,    *)
(* every initial bucket capacity and every family of hash functions: the   *)
(* invariants of the run, and that the hash set is the abstract set.       *)
(***************************************************************************)
EXTENDS HashSet, DataLemmas

USE CanonAssumption, CapAssumption, NullAssumption, SeedAssumption

(* The inductive invariant.  WellFormed is not inductive without TypeOK    *)
(* nor TypeOK without WellFormed: a deletion keeps len natural because len *)
(* counts what is stored.                                                  *)
IInv == TypeOK /\ WellFormed /\ IsFiniteSet(Places) /\ GrowthAsked
---------------------------------------------------------------------------
(* set_hash never leaves the slots.                                        *)
LEMMA IndexInSlot ==
    ASSUME TypeOK, NEW k \in Key
    PROVE  Index(k) \in Slot /\ Home(k) = buckets[Index(k)]
<1>1. hash[k] \in Nat
  BY DEF TypeOK
<1>2. Index(k) \in Slot
  BY <1>1 DEF Index, Slot
<1> QED BY <1>2 DEF Home

(* The entries of every slot, with their domain spelled out.               *)
LEMMA BucketType ==
    ASSUME TypeOK, NEW i \in Slot
    PROVE  /\ buckets[i] \in Bucket
           /\ buckets[i].cap \in Nat
           /\ buckets[i].entries \in Seq(Key)
           /\ Len(buckets[i].entries) \in Nat
           /\ DOMAIN buckets[i].entries = 1 .. Len(buckets[i].entries)
           /\ \A j \in DOMAIN buckets[i].entries : buckets[i].entries[j] \in Key
<1>1. buckets[i] \in Bucket
  BY DEF TypeOK
<1>2. buckets[i].cap \in Nat /\ buckets[i].entries \in Seq(Key)
  BY <1>1 DEF Bucket
<1>3. Len(buckets[i].entries) \in Nat /\ DOMAIN buckets[i].entries = 1 .. Len(buckets[i].entries)
  BY <1>2, LenProperties
<1>4. \A j \in DOMAIN buckets[i].entries : buckets[i].entries[j] \in Key
  BY <1>2, <1>3, ElementOfSeq
<1> QED BY <1>1, <1>2, <1>3, <1>4

(* A place is a slot and a position in its bucket.                         *)
LEMMA PlaceIs ==
    /\ \A i \in Slot : \A j \in DOMAIN buckets[i].entries :
          <<i, j>> \in Places /\ KeyAt(<<i, j>>) = buckets[i].entries[j]
    /\ \A p \in Places : /\ p[1] \in Slot /\ p[2] \in DOMAIN buckets[p[1]].entries
                         /\ p = <<p[1], p[2]>>
BY DEF Places, KeyAt

(* Making room never shrinks a bucket and leaves room for one key.         *)
LEMMA RoomyProperties ==
    ASSUME NEW b \in Bucket, Len(b.entries) <= b.cap
    PROVE  /\ Roomy(b) \in Bucket
           /\ Roomy(b).entries = b.entries
           /\ Roomy(b).cap \in Nat
           /\ Len(b.entries) + 1 <= Roomy(b).cap
<1>1. b.cap \in Nat /\ b.entries \in Seq(Key) /\ Len(b.entries) \in Nat
  BY LenProperties DEF Bucket
<1>2. /\ Roomy(b).entries = b.entries
      /\ Roomy(b).cap = IF ~IsFull(b) THEN b.cap
                        ELSE IF b.cap = 0 THEN BucketCap ELSE 2 * b.cap
  BY DEF Roomy, Bucket
<1>3. Roomy(b).cap \in Nat
  BY <1>1, <1>2
<1>4. Roomy(b) \in Bucket
  BY <1>1, <1>2, <1>3 DEF Roomy, Bucket
<1> QED BY <1>1, <1>2, <1>3, <1>4 DEF IsFull

(* The search finds the key it is asked for where it is, and only there.   *)
LEMMA FoundAt ==
    ASSUME IInv, NEW k \in Key, Present(k)
    PROVE  /\ Index(k) \in Slot
           /\ Position(k) \in DOMAIN buckets[Index(k)].entries
           /\ Held(k) = buckets[Index(k)].entries[Position(k)]
           /\ Canon[Held(k)] = Canon[k]
<1>0. TypeOK /\ Unique
  BY DEF IInv, WellFormed
<1>1. Index(k) \in Slot /\ Home(k) = buckets[Index(k)]
  BY <1>0, IndexInSlot
<1>2. DOMAIN Home(k).entries = 1 .. Len(Home(k).entries) /\ Len(Home(k).entries) \in Nat
  BY <1>0, <1>1, BucketType
<1>3. PICK i \in Hits(Home(k), k) : TRUE
  BY DEF Present
<1>4. ASSUME NEW j \in Hits(Home(k), k) PROVE j = i
  <2>1. /\ i \in DOMAIN buckets[Index(k)].entries /\ j \in DOMAIN buckets[Index(k)].entries
        /\ Canon[buckets[Index(k)].entries[i]] = Canon[buckets[Index(k)].entries[j]]
    BY <1>1, <1>3 DEF Hits
  <2> DEFINE p == <<Index(k), i>>
             q == <<Index(k), j>>
  <2>2. p \in Places /\ q \in Places /\ Canon[KeyAt(p)] = Canon[KeyAt(q)]
    BY <1>1, <2>1, PlaceIs
  <2> HIDE DEF p, q
  <2>3. p = q
    BY <1>0, <2>2 DEF Unique
  <2> QED BY <2>3 DEF p, q
<1>5. \A j \in Hits(Home(k), k) : i <= j
  BY <1>2, <1>3, <1>4 DEF Hits
<1>6. Position(k) \in Hits(Home(k), k)
  BY <1>3, <1>5 DEF Position
<1> QED BY <1>1, <1>6 DEF Held, Hits

(* The keys stored, and what the search makes of them.                     *)
StoredKeys == {KeyAt(p) : p \in Places}

(* The key the search of set.c gives is the one stored key of its class.   *)
Found ==
    \A k \in Key : IF Present(k) THEN Held(k) \in StoredKeys /\ Canon[Held(k)] = Canon[k]
                                      /\ \A x \in StoredKeys : Canon[x] = Canon[k] => x = Held(k)
                   ELSE Held(k) = Null /\ \A x \in StoredKeys : Canon[x] # Canon[k]

(* The slot searched is the only one a key equal to k can be in.           *)
LEMMA AbsentEverywhere ==
    ASSUME IInv, NEW k \in Key, NEW p \in Places, Canon[KeyAt(p)] = Canon[k]
    PROVE  Present(k)
<1>0. TypeOK /\ Placed
  BY DEF IInv, WellFormed
<1>1. p[1] \in Slot /\ p[2] \in DOMAIN buckets[p[1]].entries /\ KeyAt(p) \in Key
  BY <1>0, PlaceIs, BucketType DEF KeyAt
<1>2. hash[KeyAt(p)] = hash[k]
  BY <1>0, <1>1 DEF TypeOK
<1>3. p[1] = Index(k)
  BY <1>0, <1>2 DEF Placed, Index
<1>4. p[2] \in Hits(Home(k), k)
  BY <1>0, <1>1, <1>3 DEF Hits, Home, KeyAt
<1> QED BY <1>4 DEF Present

(* set_has and set_delete find a stored key equal to the one they are      *)
(* asked for, exactly if there is one, and there is at most one.           *)
LEMMA FoundHolds == IInv => Found
<1> SUFFICES ASSUME IInv, NEW k \in Key
             PROVE  IF Present(k) THEN Held(k) \in StoredKeys /\ Canon[Held(k)] = Canon[k]
                                       /\ \A x \in StoredKeys : Canon[x] = Canon[k] => x = Held(k)
                    ELSE Held(k) = Null /\ \A x \in StoredKeys : Canon[x] # Canon[k]
  BY DEF Found
<1>1. CASE Present(k)
  <2> DEFINE q == <<Index(k), Position(k)>>
  <2>1. q \in Places /\ KeyAt(q) = Held(k) /\ Canon[Held(k)] = Canon[k]
    BY <1>1, FoundAt, PlaceIs
  <2> HIDE DEF q
  <2>2. \A p \in Places : Canon[KeyAt(p)] = Canon[k] => p = q
    BY <2>1 DEF IInv, WellFormed, Unique
  <2> QED BY <1>1, <2>1, <2>2 DEF StoredKeys
<1>2. CASE ~Present(k)
  BY <1>2, AbsentEverywhere DEF StoredKeys, Held
<1> QED BY <1>1, <1>2
---------------------------------------------------------------------------
(* The empty set satisfies the invariant.                                  *)
LEMMA EmptyHolds ==
    ASSUME \A i \in Slot : buckets[i] = [cap |-> 0, entries |-> <<>>],
           len = 0
    PROVE  WellFormed /\ IsFiniteSet(Places)
<1>1. \A i \in Slot : /\ buckets[i].entries = <<>> /\ buckets[i].cap = 0
                      /\ DOMAIN buckets[i].entries = {} /\ Len(buckets[i].entries) = 0
  OBVIOUS
<1>2. Places = {}
  BY <1>1 DEF Places
<1> QED BY <1>1, <1>2, FS_EmptySet DEF WellFormed, WithinRoom, Placed, Unique, LenCounts

(* The first state: nothing is stored.                                     *)
LEMMA InitInvariant == Init => IInv
<1> SUFFICES ASSUME Init PROVE IInv
  OBVIOUS
<1>1. \A i \in Slot : buckets[i] = [cap |-> 0, entries |-> <<>>]
  BY DEF Init, NoBuckets
<1>2. TypeOK
  BY DEF Init, TypeOK, NoBuckets, Bucket, Answer, Reply
<1>3. GrowthAsked
  BY DEF Init, GrowthAsked
<1> QED BY <1>1, <1>2, <1>3, EmptyHolds DEF Init, IInv

(* set_new makes an empty set again.                                       *)
LEMMA RenewPreserves ==
    ASSUME IInv, Renew
    PROVE  IInv' /\ StoredKeys' = {}
<1>1. \A i \in Slot : /\ buckets'[i].entries = <<>> /\ buckets'[i].cap = 0
                      /\ DOMAIN buckets'[i].entries = {} /\ Len(buckets'[i].entries) = 0
  BY DEF Renew, NoBuckets
<1>2. Places' = {}
  BY <1>1 DEF Places
<1>3. WellFormed' /\ IsFiniteSet(Places')
  BY <1>1, <1>2, FS_EmptySet DEF Renew, WellFormed, WithinRoom, Placed, Unique, LenCounts
<1>4. TypeOK'
  BY DEF Renew, TypeOK, NoBuckets, Bucket, Answer, Reply
<1>5. GrowthAsked'
  BY DEF Renew, GrowthAsked
<1> QED BY <1>2, <1>3, <1>4, <1>5 DEF IInv, StoredKeys

(* A call that stores and removes nothing; a failed insertion may have     *)
(* given a bucket room or asked for more slots.                            *)
LEMMA FramePreserves ==
    ASSUME IInv, TypeOK', hash' = hash, len' = len, alive' => alive,
           slots' = slots \/ slots' = ResizedSlots,
           \A i \in Slot : /\ buckets'[i].entries = buckets[i].entries
                           /\ Len(buckets[i].entries) <= buckets'[i].cap
    PROVE  IInv' /\ StoredKeys' = StoredKeys
<1>0. TypeOK /\ WithinRoom /\ Placed /\ Unique /\ LenCounts /\ IsFiniteSet(Places) /\ GrowthAsked
  BY DEF IInv, WellFormed
<1>1. Places' = Places
  BY DEF Places
<1>2. \A p \in Places : KeyAt(p)' = KeyAt(p)
  BY PlaceIs DEF KeyAt
<1>3. Placed' /\ Unique'
  BY <1>0, <1>1, <1>2 DEF Placed, Unique, Index
<1>4. WithinRoom' /\ LenCounts' /\ IsFiniteSet(Places')
  BY <1>0, <1>1 DEF WithinRoom, LenCounts
<1>5. GrowthAsked'
  BY <1>0 DEF GrowthAsked, TypeOK, ResizedSlots
<1>6. StoredKeys' = StoredKeys
  BY <1>1, <1>2 DEF StoredKeys
<1> QED BY <1>3, <1>4, <1>5, <1>6 DEF IInv, WellFormed

(* A successful insertion: the key is in no slot, since it was not in the  *)
(* only slot it can be in.                                                 *)
LEMMA AddPreserves ==
    ASSUME IInv, NEW k \in Key, Add(k)
    PROVE  IInv' /\ StoredKeys' = StoredKeys \cup {k}
<1>0. TypeOK /\ WithinRoom /\ Placed /\ Unique /\ LenCounts /\ IsFiniteSet(Places) /\ GrowthAsked
  BY DEF IInv, WellFormed
<1> DEFINE h == Index(k)
           b == buckets[h]
           n == Len(b.entries) + 1
<1>1. h \in Slot /\ b \in Bucket /\ Len(b.entries) <= b.cap
  BY <1>0, IndexInSlot, BucketType DEF WithinRoom
<1>2. /\ Roomy(b) \in Bucket /\ Roomy(b).entries = b.entries /\ Roomy(b).cap \in Nat
      /\ Len(b.entries) + 1 <= Roomy(b).cap
  BY <1>1, RoomyProperties
<1>3. /\ b.entries \in Seq(Key) /\ Len(b.entries) \in Nat
      /\ DOMAIN b.entries = 1 .. Len(b.entries)
  BY <1>0, <1>1, BucketType
<1>4. /\ Append(b.entries, k) \in Seq(Key)
      /\ Len(Append(b.entries, k)) = n
      /\ \A j \in 1 .. Len(b.entries) : Append(b.entries, k)[j] = b.entries[j]
      /\ Append(b.entries, k)[n] = k
  BY <1>3, AppendProperties
<1>5. DOMAIN Append(b.entries, k) = 1 .. n
  BY <1>4, LenProperties
<1>6. /\ buckets' = [buckets EXCEPT ![h] = Pushed(b, k)]
      /\ buckets'[h] = Pushed(b, k) /\ \A i \in Slot : i # h => buckets'[i] = buckets[i]
  BY <1>0, <1>1 DEF Add, TypeOK
<1>7. Pushed(b, k) \in Bucket /\ Pushed(b, k).entries = Append(b.entries, k)
      /\ Pushed(b, k).cap = Roomy(b).cap
  BY <1>2, <1>4 DEF Pushed, Bucket
<1>8. alive /\ alive' /\ hash' = hash /\ len' = len + 1 /\ slots' = ResizedSlots /\ ~Present(k)
  BY <1>0 DEF Add
<1>9. TypeOK'
  BY <1>0, <1>1, <1>6, <1>7, <1>8 DEF Add, TypeOK, ResizedSlots, Answer, Reply
<1>10. n \in Nat /\ b.entries = buckets[h].entries
  BY <1>3
<1> HIDE DEF h, b, n
<1>q. PICK q : q = <<h, n>> /\ q[1] = h /\ q[2] = n
  <2>1. <<h, n>> = <<h, n>> /\ <<h, n>>[1] = h /\ <<h, n>>[2] = n
    OBVIOUS
  <2> QED BY <2>1
<1>11. Places' = Places \cup {q}
  <2>1. DOMAIN buckets'[h].entries = DOMAIN buckets[h].entries \cup {n}
    BY <1>3, <1>5, <1>6, <1>7, <1>10 DEF n
  <2> QED BY <1>1, <1>6, <1>q, <2>1 DEF Places
<1>12. q \notin Places
  BY <1>3, <1>10, <1>q DEF Places, n
<1>13. KeyAt(q)' = k
  <2>1. buckets'[h].entries[n] = k
    BY <1>4, <1>6, <1>7
  <2> QED BY Zenon, <1>q, <2>1 DEF KeyAt
<1>14. \A p \in Places : KeyAt(p)' = KeyAt(p)
  <2> SUFFICES ASSUME NEW p \in Places PROVE KeyAt(p)' = KeyAt(p)
    OBVIOUS
  <2>1. p[1] \in Slot /\ p[2] \in DOMAIN buckets[p[1]].entries
    BY PlaceIs
  <2>2. CASE p[1] # h
    <3>1. buckets'[p[1]] = buckets[p[1]]
      BY <1>6, <2>1, <2>2
    <3> QED BY Zenon, <3>1 DEF KeyAt
  <2>3. CASE p[1] = h
    <3>1. p[2] \in 1 .. Len(b.entries)
      BY <1>3, <1>10, <2>1, <2>3
    <3>2. buckets'[h].entries[p[2]] = buckets[h].entries[p[2]]
      BY <1>4, <1>6, <1>7, <1>10, <3>1
    <3> QED BY Zenon, <2>3, <3>2 DEF KeyAt
  <2> QED BY <2>2, <2>3
<1>15. \A p \in Places : Canon[KeyAt(p)] # Canon[k]
  BY <1>8, AbsentEverywhere
<1>16. Placed'
  <2> SUFFICES ASSUME NEW p \in Places' PROVE Index(KeyAt(p))' = p[1]
    BY DEF Placed
  <2>1. CASE p = q
    <3>1. Index(k)' = h
      BY <1>8 DEF h, Index
    <3> QED BY Zenon, <1>13, <1>q, <2>1, <3>1 DEF Index
  <2>2. CASE p \in Places
    <3>1. Index(KeyAt(p)) = p[1] /\ KeyAt(p)' = KeyAt(p)
      BY <1>0, <1>14, <2>2 DEF Placed
    <3> QED BY Zenon, <1>8, <3>1 DEF Index
  <2> QED BY <1>11, <2>1, <2>2
<1>17. Unique'
  <2> SUFFICES ASSUME NEW p \in Places', NEW r \in Places',
                      Canon[KeyAt(p)'] = Canon[KeyAt(r)']
               PROVE  p = r
    BY DEF Unique
  <2>0. ASSUME NEW u \in Places PROVE Canon[KeyAt(u)'] # Canon[KeyAt(q)']
    <3>1. KeyAt(u)' = KeyAt(u) /\ Canon[KeyAt(u)] # Canon[k]
      BY Zenon, <1>14, <1>15, <2>0
    <3> QED BY Zenon, <1>13, <3>1
  <2>1. CASE p = q
    BY Zenon, <1>11, <2>0, <2>1
  <2>2. CASE r = q
    BY Zenon, <1>11, <2>0, <2>2
  <2>3. CASE p \in Places /\ r \in Places
    <3>1. Canon[KeyAt(p)] = Canon[KeyAt(r)]
      <4>1. KeyAt(p)' = KeyAt(p) /\ KeyAt(r)' = KeyAt(r)
        BY Zenon, <1>14, <2>3
      <4> QED BY Zenon, <4>1
    <3> QED BY Zenon, <1>0, <2>3, <3>1 DEF Unique
  <2> QED BY Zenon, <1>11, <2>1, <2>2, <2>3
<1>18. IsFiniteSet(Places') /\ LenCounts'
  BY <1>0, <1>8, <1>11, <1>12, FS_AddElement DEF LenCounts
<1>19. WithinRoom'
  BY <1>0, <1>2, <1>4, <1>6, <1>7 DEF WithinRoom, n
<1>20. GrowthAsked'
  BY <1>0, <1>8 DEF GrowthAsked, TypeOK, ResizedSlots, NeedsResize
<1>21. StoredKeys' = StoredKeys \cup {k}
  <2>1. \A x : x \in StoredKeys' <=> \E p \in Places' : x = KeyAt(p)'
    BY Zenon DEF StoredKeys
  <2>2. \A x : x \in StoredKeys <=> \E p \in Places : x = KeyAt(p)
    BY Zenon DEF StoredKeys
  <2> QED BY <1>11, <1>13, <1>14, <2>1, <2>2
<1> QED BY <1>9, <1>16, <1>17, <1>18, <1>19, <1>20, <1>21 DEF IInv, WellFormed

(* A deletion: the keys behind the one removed move down a place.          *)
Source(p, h, q) == IF p[1] = h /\ p[2] >= q THEN <<h, p[2] + 1>> ELSE p

(* set_delete takes the one place of the key out, and nothing else.        *)
LEMMA DeletePreserves ==
    ASSUME IInv, NEW k \in Key, Delete(k)
    PROVE  IInv' /\ StoredKeys' = StoredKeys \ {Held(k)}
<1>0. TypeOK /\ WithinRoom /\ Placed /\ Unique /\ LenCounts /\ IsFiniteSet(Places) /\ GrowthAsked
  BY DEF IInv, WellFormed
<1>1. alive /\ alive' /\ Present(k) /\ hash' = hash /\ len' = len - 1 /\ slots' = slots
  BY <1>0 DEF Delete
<1>h. PICK h \in Slot : h = Index(k)
  BY <1>0, IndexInSlot
<1>s. PICK s \in Seq(Key) : s = buckets[h].entries
  BY <1>0, BucketType
<1>2. Len(s) \in Nat /\ DOMAIN s = 1 .. Len(s)
  BY LenProperties
<1>q. PICK q \in 1 .. Len(s) : q = Position(k) /\ s[q] = Held(k)
  BY <1>1, <1>2, <1>h, <1>s, FoundAt
<1>x. PICK x : x = Held(k)
  OBVIOUS
<1>3. /\ Without(s, q) \in Seq(Key)
      /\ Len(Without(s, q)) = Len(s) - 1
      /\ \A j \in 1 .. Len(s) - 1 : Without(s, q)[j] = IF j < q THEN s[j] ELSE s[j + 1]
  BY RemovalProperties DEF Without
<1>4. DOMAIN Without(s, q) = 1 .. Len(s) - 1
  BY <1>3, LenProperties
<1>5. buckets' = [buckets EXCEPT ![h] = Pulled(@, q)]
  BY <1>h, <1>q DEF Delete
<1>6. /\ buckets'[h] = [cap |-> buckets[h].cap, entries |-> Without(s, q)]
      /\ \A i \in Slot : i # h => buckets'[i] = buckets[i]
  BY <1>0, <1>5, <1>s DEF TypeOK, Pulled
<1>7. buckets'[h] \in Bucket /\ buckets'[h].entries = Without(s, q)
      /\ buckets'[h].cap = buckets[h].cap
  BY <1>0, <1>3, <1>6, BucketType DEF Bucket
(* Positions: one less in slot h, each with the key it had or the next had *)
<1>8. PICK last : last = <<h, Len(s)>> /\ last[1] = h /\ last[2] = Len(s)
  <2>1. <<h, Len(s)>> = <<h, Len(s)>> /\ <<h, Len(s)>>[1] = h /\ <<h, Len(s)>>[2] = Len(s)
    OBVIOUS
  <2> QED BY <2>1
<1>9. last \in Places
  BY <1>2, <1>8, <1>s, PlaceIs
<1>10. \A i \in Slot : \A j : <<i, j>> \in Places' <=> <<i, j>> \in Places /\ <<i, j>> # last
  <2> SUFFICES ASSUME NEW i \in Slot, NEW j
               PROVE  j \in DOMAIN buckets'[i].entries
                        <=> j \in DOMAIN buckets[i].entries /\ <<i, j>> # last
    BY DEF Places
  <2>1. CASE i = h
    BY <1>2, <1>4, <1>7, <1>8, <1>s, <2>1
  <2>2. CASE i # h
    BY <1>6, <1>8, <2>2
  <2> QED BY <2>1, <2>2
<1>11. Places' = Places \ {last}
  <2>1. \A p \in Places' : p[1] \in Slot /\ p = <<p[1], p[2]>>
    BY DEF Places
  <2>2. \A p \in Places : p[1] \in Slot /\ p = <<p[1], p[2]>>
    BY PlaceIs
  <2>3. ASSUME NEW p \in Places' PROVE p \in Places /\ p # last
    <3>1. PICK i, j : i \in Slot /\ p = <<i, j>>
      BY <2>1
    <3> QED BY <1>10, <3>1
  <2>4. ASSUME NEW p \in Places, p # last PROVE p \in Places'
    <3>1. PICK i, j : i \in Slot /\ p = <<i, j>>
      BY <2>2, <2>4
    <3> QED BY <1>10, <2>4, <3>1
  <2> QED BY <2>3, <2>4
<1>12. ASSUME NEW p \in Places'
       PROVE  /\ Source(p, h, q) \in Places /\ Source(p, h, q)[1] = p[1]
              /\ Source(p, h, q) # <<h, q>>
              /\ KeyAt(p)' = KeyAt(Source(p, h, q))
  <2>1. p \in Places /\ p # last
    BY <1>11
  <2>2. /\ p[1] \in Slot /\ p[2] \in DOMAIN buckets[p[1]].entries /\ p = <<p[1], p[2]>>
    BY <2>1, PlaceIs
  <2>3. CASE p[1] # h
    <3>1. Source(p, h, q) = p /\ p # <<h, q>>
      BY <2>2, <2>3 DEF Source
    <3>2. KeyAt(p)' = KeyAt(p)
      BY <1>6, <2>2, <2>3 DEF KeyAt
    <3> QED BY <2>1, <3>1, <3>2
  <2>4. CASE p[1] = h /\ p[2] >= q
    <3>1. p[2] \in 1 .. Len(s) - 1
      BY <1>2, <1>8, <1>s, <2>1, <2>2, <2>4
    <3>2. Source(p, h, q) = <<h, p[2] + 1>> /\ Source(p, h, q)[1] = h
          /\ Source(p, h, q)[2] = p[2] + 1 /\ Source(p, h, q) # <<h, q>>
      BY <2>4, <3>1 DEF Source
    <3>3. Source(p, h, q) \in Places
      BY <1>2, <1>s, <3>1, <3>2, PlaceIs
    <3>4. KeyAt(p)' = s[p[2] + 1]
      BY <1>3, <1>7, <2>4, <3>1 DEF KeyAt
    <3> QED BY <1>s, <2>4, <3>2, <3>3, <3>4 DEF KeyAt
  <2>5. CASE p[1] = h /\ ~(p[2] >= q)
    <3>1. p[2] \in 1 .. Len(s) - 1 /\ p[2] < q
      BY <1>2, <1>8, <1>s, <2>1, <2>2, <2>5
    <3>2. Source(p, h, q) = p /\ p # <<h, q>>
      BY <2>2, <2>5, <3>1 DEF Source
    <3>3. KeyAt(p)' = s[p[2]]
      BY <1>3, <1>7, <2>5, <3>1 DEF KeyAt
    <3> QED BY <1>s, <2>1, <2>5, <3>2, <3>3 DEF KeyAt
  <2> QED BY <2>3, <2>4, <2>5
<1>13. ASSUME NEW p \in Places', NEW r \in Places', Source(p, h, q) = Source(r, h, q)
       PROVE  p = r
  <2>1. /\ p[1] \in Slot /\ p[2] \in DOMAIN buckets[p[1]].entries /\ p = <<p[1], p[2]>>
        /\ r[1] \in Slot /\ r[2] \in DOMAIN buckets[r[1]].entries /\ r = <<r[1], r[2]>>
    BY <1>11, PlaceIs
  <2>2. p[1] = r[1]
    BY <1>12, <1>13
  <2>3. CASE p[1] # h
    BY <1>13, <2>2, <2>3 DEF Source
  <2>4. CASE p[1] = h
    <3>1. p[2] \in Nat /\ r[2] \in Nat
      BY <1>2, <1>s, <2>1, <2>2, <2>4
    <3>2. p[2] = r[2]
      <4>1. Source(p, h, q)[2] = IF p[2] >= q THEN p[2] + 1 ELSE p[2]
        BY <2>1, <2>4 DEF Source
      <4>2. Source(r, h, q)[2] = IF r[2] >= q THEN r[2] + 1 ELSE r[2]
        BY <2>1, <2>2, <2>4 DEF Source
      <4> QED BY <1>13, <3>1, <4>1, <4>2
    <3> QED BY <2>1, <2>2, <3>2
  <2> QED BY <2>3, <2>4
<1>14. TypeOK'
  <2>1. len' \in Nat
    <3>1. len # 0
      BY <1>0, <1>9, FS_EmptySet DEF LenCounts
    <3> QED BY <1>0, <1>1, <3>1 DEF TypeOK
  <2>2. reply' \in Reply
    BY <1>0, <1>h, <1>s, <1>q, BucketType DEF Delete, Answer, Reply
  <2>3. buckets' \in [Slot -> Bucket]
    BY <1>0, <1>5, <1>6, <1>7 DEF TypeOK
  <2> QED BY <1>0, <1>1, <2>1, <2>2, <2>3 DEF TypeOK
<1>15. Placed'
  <2> SUFFICES ASSUME NEW p \in Places' PROVE Index(KeyAt(p))' = p[1]
    BY DEF Placed
  <2>1. Index(KeyAt(Source(p, h, q))) = p[1]
    BY <1>0, <1>12 DEF Placed
  <2> QED BY Zenon, <1>1, <1>12, <2>1 DEF Index
<1>16. Unique'
  <2> SUFFICES ASSUME NEW p \in Places', NEW r \in Places',
                      Canon[KeyAt(p)'] = Canon[KeyAt(r)']
               PROVE  p = r
    BY DEF Unique
  <2>1. Canon[KeyAt(Source(p, h, q))] = Canon[KeyAt(Source(r, h, q))]
    BY Zenon, <1>12
  <2>2. Source(p, h, q) = Source(r, h, q)
    BY Zenon, <1>0, <1>12, <2>1 DEF Unique
  <2> QED BY <1>13, <2>2
<1>17. IsFiniteSet(Places') /\ LenCounts'
  BY <1>0, <1>1, <1>9, <1>11, FS_RemoveElement DEF LenCounts
<1>18. WithinRoom'
  <2> SUFFICES ASSUME NEW i \in Slot PROVE Len(buckets'[i].entries) <= buckets'[i].cap
    BY DEF WithinRoom
  <2>1. Len(buckets[i].entries) <= buckets[i].cap /\ buckets[i].cap \in Nat
    BY <1>0, BucketType DEF WithinRoom
  <2> QED BY <1>2, <1>3, <1>6, <1>7, <1>s, <2>1
<1>19. GrowthAsked'
  BY <1>0, <1>1 DEF GrowthAsked, TypeOK
<1>20. StoredKeys' = StoredKeys \ {x}
  <2>1. \A y : y \in StoredKeys' <=> \E p \in Places' : y = KeyAt(p)'
    BY Zenon DEF StoredKeys
  <2>2. \A y : y \in StoredKeys <=> \E p \in Places : y = KeyAt(p)
    BY Zenon DEF StoredKeys
  <2>3. <<h, q>> \in Places /\ KeyAt(<<h, q>>) = x
    BY <1>2, <1>s, <1>q, <1>x, PlaceIs
  <2>4. ASSUME NEW p \in Places' PROVE KeyAt(p)' \in StoredKeys \ {x}
    <3>1. KeyAt(Source(p, h, q)) # x
      BY <1>0, <1>12, <2>3 DEF Unique
    <3> QED BY Zenon, <1>12, <2>2, <3>1
  <2>5. ASSUME NEW p \in Places, KeyAt(p) # x PROVE KeyAt(p) \in StoredKeys'
    <3>1. /\ p[1] \in Slot /\ p[2] \in DOMAIN buckets[p[1]].entries /\ p = <<p[1], p[2]>>
      BY PlaceIs
    <3>2. p # <<h, q>>
      BY <2>3, <2>5
    <3>3. CASE p[1] = h /\ p[2] > q
      <4>1. p[2] \in 1 .. Len(s)
        BY <1>2, <1>s, <3>1, <3>3
      <4>2. PICK r : r = <<h, p[2] - 1>> /\ r[1] = h /\ r[2] = p[2] - 1
        <5>1. <<h, p[2] - 1>>[1] = h /\ <<h, p[2] - 1>>[2] = p[2] - 1
          OBVIOUS
        <5> QED BY <5>1
      <4>3. r \in Places'
        BY <1>2, <1>8, <1>11, <1>s, <3>3, <4>1, <4>2, PlaceIs
      <4>4. Source(r, h, q) = p
        BY <3>1, <3>3, <4>1, <4>2 DEF Source
      <4> QED BY Zenon, <1>12, <2>1, <4>3, <4>4
    <3>4. CASE p[1] # h \/ ~(p[2] > q)
      <4>1. p # last
        BY <1>2, <1>8, <1>s, <3>1, <3>2, <3>4
      <4>2. p \in Places'
        BY <1>11, <4>1
      <4>3. Source(p, h, q) = p
        BY <1>2, <1>s, <3>1, <3>2, <3>4 DEF Source
      <4> QED BY Zenon, <1>12, <2>1, <4>2, <4>3
    <3> QED BY <3>3, <3>4
  <2> QED BY <2>1, <2>2, <2>4, <2>5
<1> QED BY <1>14, <1>15, <1>16, <1>17, <1>18, <1>19, <1>20, <1>x DEF IInv, WellFormed
---------------------------------------------------------------------------
(* The calls that only answer, or fail before they change a bucket.        *)
LEMMA QuietPreserves ==
    ASSUME IInv, NEW k \in Key,
           ResizeFails(k) \/ BucketFails(k) \/ Refuse(k) \/ Has(k) \/ DeleteMissing(k)
    PROVE  IInv' /\ StoredKeys' = StoredKeys
<1>0. TypeOK /\ WithinRoom
  BY DEF IInv, WellFormed
<1>1. /\ buckets' = buckets /\ len' = len /\ hash' = hash /\ alive' = alive
      /\ slots' = slots \/ slots' = ResizedSlots
      /\ reply' \in Reply
  BY <1>0 DEF ResizeFails, BucketFails, Refuse, Has, DeleteMissing, Fail, Answer, Reply, TypeOK
<1>2. TypeOK'
  BY <1>0, <1>1 DEF TypeOK, ResizedSlots
<1> QED BY <1>0, <1>1, <1>2, FramePreserves DEF WithinRoom

(* An insertion for which the copy of the key cannot be allocated.         *)
LEMMA EntryFailsPreserves ==
    ASSUME IInv, NEW k \in Key, EntryFails(k)
    PROVE  IInv' /\ StoredKeys' = StoredKeys
<1>0. TypeOK /\ WithinRoom
  BY DEF IInv, WellFormed
<1> DEFINE h == Index(k)
<1>1. h \in Slot /\ buckets[h] \in Bucket /\ Len(buckets[h].entries) <= buckets[h].cap
  BY <1>0, IndexInSlot, BucketType DEF WithinRoom
<1>2. /\ Roomy(buckets[h]) \in Bucket /\ Roomy(buckets[h]).entries = buckets[h].entries
      /\ Roomy(buckets[h]).cap \in Nat
      /\ Len(buckets[h].entries) + 1 <= Roomy(buckets[h]).cap
  BY <1>1, RoomyProperties
<1>3. Len(buckets[h].entries) \in Nat
  BY <1>0, <1>1, BucketType
<1>4. /\ buckets' = [buckets EXCEPT ![h] = Roomy(@)] /\ len' = len /\ hash' = hash
      /\ alive' = alive /\ slots' = ResizedSlots /\ reply' \in Reply
  BY DEF EntryFails, Fail, Answer, Reply
<1> HIDE DEF h
<1>5. \A i \in Slot : buckets'[i] = IF i = h THEN Roomy(buckets[h]) ELSE buckets[i]
  BY <1>0, <1>1, <1>4 DEF TypeOK
<1>6. \A i \in Slot : /\ buckets'[i].entries = buckets[i].entries
                      /\ Len(buckets[i].entries) <= buckets'[i].cap
  BY <1>0, <1>2, <1>3, <1>5 DEF WithinRoom
<1>7. TypeOK'
  BY <1>0, <1>1, <1>2, <1>4 DEF TypeOK, ResizedSlots
<1> QED BY <1>4, <1>6, <1>7, FramePreserves

(* set_free, and a step that changes nothing                               *)
LEMMA FreePreserves ==
    ASSUME IInv, Free \/ UNCHANGED vars
    PROVE  IInv'
<1>0. TypeOK /\ WithinRoom
  BY DEF IInv, WellFormed
<1>1. /\ buckets' = buckets /\ len' = len /\ hash' = hash /\ slots' = slots
      /\ alive' => alive
      /\ alive' \in BOOLEAN /\ reply' \in Reply
  <2>1. CASE Free
    BY <2>1 DEF Free, Answer, Reply
  <2>2. CASE UNCHANGED vars
    BY <1>0, <2>2 DEF vars, TypeOK
  <2> QED BY <2>1, <2>2
<1>2. TypeOK'
  BY <1>0, <1>1 DEF TypeOK
<1> QED BY <1>0, <1>1, <1>2, FramePreserves DEF WithinRoom

(* Every call keeps the inductive invariant.                               *)
LEMMA NextPreserves == IInv /\ [Next]_vars => IInv'
<1> SUFFICES ASSUME IInv, [Next]_vars PROVE IInv'
  OBVIOUS
<1>1. ASSUME NEW k \in Key, Inserting(k) PROVE IInv'
  BY <1>1, QuietPreserves, EntryFailsPreserves, AddPreserves DEF Inserting
<1>2. ASSUME NEW k \in Key, Has(k) \/ DeleteMissing(k) PROVE IInv'
  BY <1>2, QuietPreserves
<1>3. ASSUME NEW k \in Key, Delete(k) PROVE IInv'
  BY <1>3, DeletePreserves
<1>4. CASE Free
  BY <1>4, FreePreserves
<1>5. CASE Renew
  BY <1>5, RenewPreserves
<1>6. CASE UNCHANGED vars
  BY <1>6, FreePreserves
<1> QED BY <1>1, <1>2, <1>3, <1>4, <1>5, <1>6 DEF Next

(* The inductive invariant holds in every reachable state of the set.      *)
THEOREM InvariantHolds == Spec => []IInv
  BY InitInvariant, NextPreserves, PTL DEF Spec

(* The fields of the struct and every answer have their types; set_len     *)
(* never wraps below 0.                                                    *)
THEOREM TypeCorrect == Spec => []TypeOK
<1>1. IInv => TypeOK
  BY DEF IInv
<1> QED BY <1>1, InvariantHolds, PTL

(* One key per class, in the slot it hashes to, within the bucket's room,  *)
(* and counted by set_len.                                                 *)
THEOREM WellFormedHolds == Spec => []WellFormed
<1>1. IInv => WellFormed
  BY DEF IInv
<1> QED BY <1>1, InvariantHolds, PTL

(* Growth is asked for at len = cap only (set.c:55), and that is enough:   *)
(* no insertion passes that length without it.                             *)
THEOREM GrowthAskedHolds == Spec => []GrowthAsked
<1>1. IInv => GrowthAsked
  BY DEF IInv
<1> QED BY <1>1, InvariantHolds, PTL
---------------------------------------------------------------------------
(* The member of the class of k is what the search for k finds.            *)
LEMMA MemberOfClass ==
    ASSUME IInv, alive, NEW k \in Key
    PROVE  Members[Canon[k]] = Held(k)
<1>0. TypeOK
  BY DEF IInv
<1>1. Canon[k] \in Key /\ Canon[Canon[k]] = Canon[k]
  OBVIOUS
<1>2. Members[Canon[k]] = Held(Canon[k])
  BY <1>1 DEF Members
<1>3. Found
  BY FoundHolds
<1>4. Present(Canon[k]) <=> Present(k)
  <2>1. hash[Canon[k]] = hash[k]
    BY <1>0, <1>1 DEF TypeOK
  <2>2. Index(Canon[k]) = Index(k)
    BY <2>1 DEF Index
  <2> QED BY <1>1, <2>2 DEF Present, Hits, Home
<1>5. Held(Canon[k]) = Held(k)
  BY <1>1, <1>3, <1>4 DEF Found
<1> QED BY <1>2, <1>5

(* What is stored decides what is found, in every slot.                    *)
StoredFound ==
    \A l \in Key : /\ \A x \in StoredKeys : Canon[x] = Canon[l] => Held(l) = x
                   /\ (\A x \in StoredKeys : Canon[x] # Canon[l]) => Held(l) = Null
                   /\ \A x \in StoredKeys : x \in Key

(* The invariant makes the search say what is stored.                      *)
LEMMA StoredFoundHolds == IInv => StoredFound
<1> SUFFICES ASSUME IInv PROVE StoredFound
  OBVIOUS
<1>1. Found
  BY FoundHolds
<1>2. \A x \in StoredKeys : x \in Key
  BY PlaceIs, BucketType DEF IInv, StoredKeys, KeyAt
<1> QED BY <1>1, <1>2 DEF Found, StoredFound

(* Before a step and after it.                                             *)
LEMMA StoredFoundTwice ==
    ASSUME IInv, IInv'
    PROVE  StoredFound /\ StoredFound'
<1>1. IInv' => StoredFound'
  BY StoredFoundHolds, PTL
<1> QED BY <1>1, StoredFoundHolds

(* A call after which the same keys are stored changes no membership.      *)
LEMMA SameMembers ==
    ASSUME IInv, IInv', StoredKeys' = StoredKeys, alive, alive'
    PROVE  Members' = Members
<1>1. StoredFound /\ StoredFound'
  BY StoredFoundTwice
<1>2. \A l \in Key : Held(l)' = Held(l)
  <2> SUFFICES ASSUME NEW l \in Key PROVE Held(l)' = Held(l)
    OBVIOUS
  <2>1. CASE \E x \in StoredKeys : Canon[x] = Canon[l]
    BY Zenon, <1>1, <2>1 DEF StoredFound
  <2>2. CASE \A x \in StoredKeys : Canon[x] # Canon[l]
    BY Zenon, <1>1, <2>2 DEF StoredFound
  <2> QED BY <2>1, <2>2
<1> QED BY <1>2 DEF Members

(* Storing k changes the membership of its class only.                     *)
LEMMA MembersAfterAdd ==
    ASSUME IInv, NEW k \in Key, Add(k)
    PROVE  Members' = [Members EXCEPT ![Canon[k]] = k] /\ Members[Canon[k]] = Null
<1>0. IInv' /\ StoredKeys' = StoredKeys \cup {k}
  BY AddPreserves
<1>1. StoredFound /\ StoredFound'
  BY <1>0, StoredFoundTwice
<1>2. alive /\ alive' /\ ~Present(k)
  BY DEF Add
<1>3. ASSUME NEW l \in Key PROVE Held(l)' = IF Canon[l] = Canon[k] THEN k ELSE Held(l)
  <2>1. CASE Canon[l] = Canon[k]
    BY <1>0, <1>1, <2>1 DEF StoredFound
  <2>2. CASE Canon[l] # Canon[k]
    <3>1. CASE \E x \in StoredKeys : Canon[x] = Canon[l]
      BY <1>0, <1>1, <2>2, <3>1 DEF StoredFound
    <3>2. CASE \A x \in StoredKeys : Canon[x] # Canon[l]
      BY <1>0, <1>1, <2>2, <3>2 DEF StoredFound
    <3> QED BY <3>1, <3>2
  <2> QED BY <2>1, <2>2
<1>4. Members[Canon[k]] = Null
  BY <1>2, MemberOfClass DEF Held
<1>5. \A l \in Key : (alive' /\ Canon[l] = l) => Held(l)' = IF l = Canon[k] THEN k ELSE Held(l)
  BY <1>3
<1> QED BY <1>2, <1>4, <1>5 DEF Members

(* Deleting k removes the member of its class only.                        *)
LEMMA MembersAfterDelete ==
    ASSUME IInv, NEW k \in Key, Delete(k)
    PROVE  Members' = [Members EXCEPT ![Canon[k]] = Null] /\ Held(k) # Null
<1>0. IInv' /\ StoredKeys' = StoredKeys \ {Held(k)}
  BY DeletePreserves
<1>1. StoredFound /\ StoredFound'
  BY <1>0, StoredFoundTwice
<1>2. alive /\ alive' /\ Present(k)
  BY DEF Delete, IInv, TypeOK
<1>f. Held(k) \in StoredKeys /\ Canon[Held(k)] = Canon[k]
      /\ \A x \in StoredKeys : Canon[x] = Canon[k] => x = Held(k)
  BY <1>2, FoundHolds DEF Found
<1>3. ASSUME NEW l \in Key PROVE Held(l)' = IF Canon[l] = Canon[k] THEN Null ELSE Held(l)
  <2>1. CASE Canon[l] = Canon[k]
    BY <1>0, <1>1, <1>f, <2>1 DEF StoredFound
  <2>2. CASE Canon[l] # Canon[k]
    <3>1. CASE \E x \in StoredKeys : Canon[x] = Canon[l]
      BY <1>0, <1>1, <1>f, <2>2, <3>1 DEF StoredFound
    <3>2. CASE \A x \in StoredKeys : Canon[x] # Canon[l]
      BY <1>0, <1>1, <2>2, <3>2 DEF StoredFound
    <3> QED BY <3>1, <3>2
  <2> QED BY <2>1, <2>2
<1>4. Held(k) # Null
  BY <1>1, <1>f DEF StoredFound
<1>5. \A l \in Key : (alive' /\ Canon[l] = l) => Held(l)' = IF l = Canon[k] THEN Null ELSE Held(l)
  BY <1>3
<1> QED BY <1>2, <1>4, <1>5 DEF Members

(* The empty set has no members.                                           *)
LEMMA NoMembers == IInv /\ StoredKeys = {} => Members = A!Empty
<1> SUFFICES ASSUME IInv, StoredKeys = {} PROVE Members = A!Empty
  OBVIOUS
<1>1. \A l \in Key : Held(l) = Null
  BY StoredFoundHolds DEF StoredFound
<1> QED BY <1>1 DEF Members, A!Empty

(* Every step of the hash set is a step of the abstract set, or none.      *)
LEMMA StepImplementsSet ==
    ASSUME IInv, IInv', [Next]_vars
    PROVE  [A!Next]_(A!vars)
<1>1. ASSUME NEW k \in Key,
             ResizeFails(k) \/ BucketFails(k) \/ EntryFails(k) \/ Refuse(k)
      PROVE  A!Refuse(k)
  <2>1. StoredKeys' = StoredKeys
    BY <1>1, QuietPreserves, EntryFailsPreserves
  <2>2. alive /\ alive' /\ reply' = Answer("insert", k, 1, Null)
    BY <1>1 DEF ResizeFails, BucketFails, EntryFails, Refuse, Fail
  <2> QED BY <2>1, <2>2, SameMembers DEF A!Refuse, A!Answer, Answer
<1>2. ASSUME NEW k \in Key, Add(k) PROVE A!Insert(k)
  BY <1>2, MembersAfterAdd DEF Add, A!Insert, A!At, A!Answer, Answer
<1>3. ASSUME NEW k \in Key, Has(k) PROVE A!Has(k)
  <2>1. StoredKeys' = StoredKeys /\ alive /\ alive'
    BY <1>3, QuietPreserves DEF Has
  <2>2. Members[Canon[k]] = Null <=> ~Present(k)
    BY <2>1, FoundHolds, MemberOfClass, StoredFoundHolds DEF Found, StoredFound
  <2> QED BY <1>3, <2>1, <2>2, SameMembers DEF Has, A!Has, A!At, A!Answer, Answer
<1>4. ASSUME NEW k \in Key, Delete(k) PROVE A!Delete(k)
  <2>1. alive
    BY <1>4 DEF Delete
  <2>2. Members[Canon[k]] = Held(k)
    BY <2>1, MemberOfClass
  <2> QED BY <1>4, <2>2, MembersAfterDelete DEF Delete, A!Delete, A!At, A!Answer, Answer
<1>5. ASSUME NEW k \in Key, DeleteMissing(k) PROVE A!Delete(k)
  <2>1. StoredKeys' = StoredKeys /\ alive /\ alive' /\ ~Present(k)
    BY <1>5, QuietPreserves DEF DeleteMissing
  <2>2. Members[Canon[k]] = Null /\ Members' = Members
    BY <2>1, MemberOfClass, SameMembers DEF Held
  <2>3. [Members EXCEPT ![Canon[k]] = Null] = Members
    BY <2>2 DEF Members
  <2> QED BY <1>5, <2>2, <2>3 DEF DeleteMissing, A!Delete, A!At, A!Answer, Answer
<1>6. CASE Free
  <2>1. Members' = A!Empty
    BY <1>6 DEF Free, Members, A!Empty
  <2> QED BY <1>6, <2>1 DEF Free, A!Next, A!Clear, A!Answer, Answer
<1>7. CASE Renew
  <2>1. StoredKeys' = {}
    BY <1>7, RenewPreserves
  <2>2. (IInv /\ StoredKeys = {})' => (Members = A!Empty)'
    BY NoMembers, PTL
  <2>3. Members' = A!Empty
    BY <2>1, <2>2 DEF A!Empty
  <2> QED BY <1>7, <2>3 DEF Renew, A!Next, A!Clear, A!Answer, Answer
<1>8. CASE UNCHANGED vars
  BY <1>8 DEF vars, A!vars, Members, Held, Present, Position, Hits, Home, Index
<1> QED BY <1>1, <1>2, <1>3, <1>4, <1>5, <1>6, <1>7, <1>8
        DEF Next, Inserting, A!Next

(* The hash set is the abstract set: an insertion succeeds exactly when no *)
(* equal key is a member and memory suffices, a failed one changes         *)
(* nothing, and a deletion hands the stored key to its callback.           *)
THEOREM SetImplemented == Spec => ImplementsSet
<1>1. Init => A!Init
  <2> SUFFICES ASSUME Init PROVE A!Init
    OBVIOUS
  <2>1. \A i \in Slot : DOMAIN buckets[i].entries = {}
    BY DEF Init, NoBuckets
  <2>2. StoredKeys = {}
    BY <2>1 DEF StoredKeys, Places
  <2>3. Members = A!Empty
    BY <2>2, InitInvariant, NoMembers
  <2> QED BY <2>3 DEF Init, A!Init, A!Answer, Answer
<1>2. IInv /\ IInv' /\ [Next]_vars => [A!Next]_(A!vars)
  BY StepImplementsSet
<1> QED BY <1>1, <1>2, InvariantHolds, PTL DEF Spec, ImplementsSet, A!Spec
=============================================================================
