-------------------------- MODULE ContainerProofs --------------------------
(***************************************************************************)
(* The priority queue, the vectors and the string for all values of the    *)
(* constants, and, with the list and the queue of ListProofs, the          *)
(* properties of MCContainers as theorems.                                 *)
(***************************************************************************)
EXTENDS ListProofs, FunctionTheorems

---------------------------------------------------------------------------
(* Arrays as sequences: both vectors show the slots below len.             *)
Elements(d, n) == [i \in 1 .. n |-> d[i - 1]]

(* The first n slots of an array are a sequence of n elements.             *)
LEMMA ElementsAre ==
    ASSUME NEW n \in Nat, NEW d, NEW S, \A i \in 0 .. n - 1 : d[i] \in S
    PROVE  /\ Elements(d, n) \in [1 .. n -> S] /\ Elements(d, n) \in Seq(S)
           /\ Len(Elements(d, n)) = n
           /\ DOMAIN Elements(d, n) = 1 .. n
           /\ \A i \in 0 .. n - 1 : Elements(d, n)[i + 1] = d[i]
<1>1. \A i \in 1 .. n : i - 1 \in 0 .. n - 1
  OBVIOUS
<1>2. \A i \in 0 .. n - 1 : i + 1 \in 1 .. n /\ (i + 1) - 1 = i
  OBVIOUS
<1>3. Elements(d, n) \in [1 .. n -> S]
  BY <1>1 DEF Elements
<1>4. \A i \in 0 .. n - 1 : Elements(d, n)[i + 1] = d[i]
  BY <1>2 DEF Elements
<1>5. DOMAIN Elements(d, n) = 1 .. n
  BY DEF Elements
<1> HIDE DEF Elements
<1> QED BY <1>3, <1>4, <1>5, IntervalIsSeq

(* Arrays that agree below n show the same sequence.                       *)
LEMMA ElementsKept ==
    ASSUME NEW n \in Nat, NEW d, NEW e, \A i \in 0 .. n - 1 : e[i] = d[i]
    PROVE  Elements(e, n) = Elements(d, n)
<1>1. \A i \in 1 .. n : e[i - 1] = d[i - 1]
  OBVIOUS
<1> QED BY <1>1 DEF Elements

(* A slot more is an element more.                                         *)
LEMMA ElementsPushed ==
    ASSUME NEW n \in Nat, NEW d, NEW e, NEW v,
           \A i \in 0 .. n - 1 : e[i] = d[i], e[n] = v
    PROVE  Elements(e, n + 1) = Append(Elements(d, n), v)
<1> DEFINE S == {d[i] : i \in 0 .. n - 1} \cup {v}
           f == Elements(d, n)
<1>1. f \in [1 .. n -> S] /\ v \in S
  BY ElementsAre
<1>2. \A i \in 1 .. n + 1 : e[i - 1] = IF i = n + 1 THEN v ELSE f[i]
  <2>1. \A i \in 1 .. n : f[i] = d[i - 1]
    BY DEF Elements
  <2>2. \A i \in 1 .. n + 1 : i # n + 1 => i \in 1 .. n /\ i - 1 \in 0 .. n - 1
    OBVIOUS
  <2> HIDE DEF f
  <2> QED BY <2>1, <2>2
<1> HIDE DEF f, S
<1>3. Append(f, v) = [i \in 1 .. n + 1 |-> IF i = n + 1 THEN v ELSE f[i]]
  BY <1>1, AppendIs
<1>4. Elements(e, n + 1) = [i \in 1 .. n + 1 |-> IF i = n + 1 THEN v ELSE f[i]]
  BY <1>2 DEF Elements
<1> QED BY <1>3, <1>4 DEF f

(* Without the element i the later ones are one place down.                *)
LEMMA ElementsRemoved ==
    ASSUME NEW n \in Nat, NEW d, NEW e, NEW i \in 0 .. n - 1,
           \A j \in 0 .. n - 2 : e[j] = IF j < i THEN d[j] ELSE d[j + 1]
    PROVE  SubSeq(Elements(d, n), 1, (i + 1) - 1) \o SubSeq(Elements(d, n), (i + 1) + 1, Len(Elements(d, n)))
             = Elements(e, n - 1)
<1> DEFINE S == {d[j] : j \in 0 .. n - 1}
           f == Elements(d, n)
           w == Elements(e, n - 1)
<1>s. \A j \in 0 .. n - 1 : d[j] \in S
  OBVIOUS
<1> HIDE DEF S
<1>1. f \in [1 .. n -> S]
  BY <1>s, ElementsAre
<1>i. i + 1 \in 1 .. n
  OBVIOUS
<1>2. \A j \in 1 .. n : f[j] = d[j - 1]
  BY DEF Elements
<1>3. w = [j \in 1 .. n - 1 |-> e[j - 1]]
  BY DEF Elements
<1> HIDE DEF f, w
<1>4. \A j \in 1 .. n - 1 : w[j] = IF j < i + 1 THEN f[j] ELSE f[j + 1]
  <2> SUFFICES ASSUME NEW j \in 1 .. n - 1
               PROVE  w[j] = IF j < i + 1 THEN f[j] ELSE f[j + 1]
    OBVIOUS
  <2>1. /\ j - 1 \in 0 .. n - 2 /\ (j < i + 1 <=> j - 1 < i) /\ j \in 1 .. n /\ j + 1 \in 1 .. n
        /\ (j - 1) + 1 = (j + 1) - 1
    OBVIOUS
  <2> QED BY <1>2, <1>3, <2>1
<1>5. IsRemoved(S, n, f, i + 1, w)
  BY <1>1, <1>3, <1>4, <1>i DEF IsRemoved
<1>6. SubSeq(f, 1, (i + 1) - 1) \o SubSeq(f, (i + 1) + 1, Len(f)) = w
  BY <1>5, RemovedIs
<1> QED BY <1>6 DEF f, w

(* Without the last element.                                               *)
LEMMA ElementsPopped ==
    ASSUME NEW n \in Nat, n > 0, NEW d, NEW e, \A j \in 0 .. n - 2 : e[j] = d[j]
    PROVE  /\ Elements(d, n) # <<>>
           /\ Elements(d, n)[Len(Elements(d, n))] = d[n - 1]
           /\ SubSeq(Elements(d, n), 1, Len(Elements(d, n)) - 1) = Elements(e, n - 1)
<1> DEFINE S == {d[j] : j \in 0 .. n - 1}
           f == Elements(d, n)
           w == Elements(e, n - 1)
<1>s. \A j \in 0 .. n - 1 : d[j] \in S
  OBVIOUS
<1> HIDE DEF S
<1>0. n - 1 \in 0 .. n - 1
  OBVIOUS
<1>1. f \in Seq(S) /\ Len(f) = n /\ f[(n - 1) + 1] = d[n - 1]
  <2>1. Elements(d, n) \in Seq(S) /\ Len(Elements(d, n)) = n
    BY <1>s, ElementsAre
  <2>2. \A i \in 0 .. n - 1 : Elements(d, n)[i + 1] = d[i]
    BY <1>s, ElementsAre
  <2>3. Elements(d, n)[(n - 1) + 1] = d[n - 1]
    BY <1>0, <2>2
  <2> QED BY <2>1, <2>3
<1>2. (n - 1) + 1 = n
  OBVIOUS
<1>3. \A j \in 1 .. n - 1 : w[j] = e[j - 1] /\ f[j] = d[j - 1] /\ j - 1 \in 0 .. n - 2 /\ j < n
  BY DEF Elements
<1>4. w = [j \in 1 .. n - 1 |-> w[j]]
  BY DEF Elements
<1> HIDE DEF f, w
<1>5. SubSeq(f, 1, Len(f) - 1) = [j \in 1 .. Len(f) - 1 |-> IF j < Len(f) THEN f[j] ELSE f[j + 1]]
  BY <1>1, LastTakenOff
<1>6. SubSeq(f, 1, Len(f) - 1) = [j \in 1 .. n - 1 |-> w[j]]
  BY <1>1, <1>3, <1>5
<1>7. f # <<>>
  BY <1>1, EmptySeq
<1> QED BY <1>1, <1>2, <1>4, <1>6, <1>7 DEF f, w
---------------------------------------------------------------------------
(* The vector in the struct: the slots below len hold elements, the others *)
(* are cleared.                                                            *)
FixedInv ==
    /\ len \in 0 .. FixedCap
    /\ data \in [0 .. FixedCap - 1 -> Number \cup {0}]
    /\ \A i \in 0 .. FixedCap - 1 : IF i < len THEN data[i] \in Number ELSE data[i] = 0

(* What is assumed of the vector in the struct.                            *)
LEMMA FixedAssumption == 0 \notin Number /\ Null \notin Number /\ FixedCap \in Nat \ {0}
BY ContainerAssumption DEF Fixed!SmallVecAssumption

(* The new vector.                                                         *)
LEMMA FixedInit == Fixed!Init => FixedInv
<1> SUFFICES ASSUME Fixed!Init PROVE FixedInv
  OBVIOUS
<1>1. data = [i \in 0 .. FixedCap - 1 |-> 0] /\ len = 0
  BY DEF Fixed!Init, Fixed!Slot
<1> QED BY <1>1, FixedAssumption DEF FixedInv

(* Every call keeps it.                                                    *)
LEMMA FixedKeeps ==
    ASSUME FixedInv, Fixed!Next
    PROVE  FixedInv'
<1>1. /\ len \in 0 .. FixedCap /\ FixedCap \in Nat /\ FixedCap > 0
      /\ data \in [0 .. FixedCap - 1 -> Number \cup {0}]
      /\ \A i \in 0 .. FixedCap - 1 : IF i < len THEN data[i] \in Number ELSE data[i] = 0
  BY FixedAssumption DEF FixedInv
<1>2. ASSUME NEW v \in Number, Fixed!Push(v) PROVE FixedInv'
  <2>1. len < FixedCap /\ data' = [data EXCEPT ![len] = v] /\ len' = len + 1
    BY <1>2 DEF Fixed!Push
  <2> QED BY <1>1, <2>1 DEF FixedInv
<1>3. CASE Fixed!Pop
  <2>1. len > 0 /\ data' = [data EXCEPT ![len - 1] = 0] /\ len' = len - 1
    BY <1>3 DEF Fixed!Pop
  <2> QED BY <1>1, <2>1 DEF FixedInv
<1>4. ASSUME NEW i \in 0 .. FixedCap - 1, Fixed!RemoveAt(i) PROVE FixedInv'
  <2>1. /\ i < len /\ len' = len - 1
        /\ data' = [j \in 0 .. FixedCap - 1 |-> IF j = len - 1 THEN 0
                      ELSE IF i <= j /\ j < len - 1 THEN data[j + 1] ELSE data[j]]
    BY <1>4 DEF Fixed!RemoveAt, Fixed!Slot
  <2>2. \A j \in 0 .. FixedCap - 1 :
            data'[j] = IF j = len - 1 THEN 0
                       ELSE IF i <= j /\ j < len - 1 THEN data[j + 1] ELSE data[j]
    BY <2>1
  <2>3. \A j \in 0 .. FixedCap - 1 : data'[j] \in Number \cup {0}
    <3> SUFFICES ASSUME NEW j \in 0 .. FixedCap - 1 PROVE data'[j] \in Number \cup {0}
      OBVIOUS
    <3>1. j < len - 1 => j + 1 \in 0 .. FixedCap - 1
      BY <1>1
    <3> QED BY <1>1, <2>2, <3>1
  <2>4. data' \in [0 .. FixedCap - 1 -> Number \cup {0}]
    BY <2>1, <2>3
  <2>5. ASSUME NEW j \in 0 .. FixedCap - 1
        PROVE  IF j < len' THEN data'[j] \in Number ELSE data'[j] = 0
    <3>1. j < len - 1 => j + 1 \in 0 .. FixedCap - 1 /\ j + 1 < len /\ j < len
      BY <1>1
    <3>2. j # len - 1 /\ ~(j < len - 1) => ~(j < len)
      BY <1>1
    <3>3. data'[j] = IF j = len - 1 THEN 0
                     ELSE IF i <= j /\ j < len - 1 THEN data[j + 1] ELSE data[j]
      BY <2>2
    <3>4. CASE j < len - 1
      <4>1. data[j] \in Number /\ data[j + 1] \in Number /\ j # len - 1
        BY <1>1, <3>1, <3>4
      <4> QED BY <2>1, <3>3, <3>4, <4>1
    <3>5. CASE ~(j < len - 1)
      BY <1>1, <2>1, <3>2, <3>3, <3>5
    <3> QED BY <3>4, <3>5
  <2> QED BY <1>1, <2>1, <2>4, <2>5 DEF FixedInv
<1>5. CASE Fixed!Refuse \/ \E i \in 0 .. FixedCap - 1 : Fixed!GetAt(i)
  <2>1. data' = data /\ len' = len
    BY <1>5 DEF Fixed!Refuse, Fixed!GetAt
  <2> QED BY <1>1, <2>1 DEF FixedInv
<1> QED BY <1>2, <1>3, <1>4, <1>5 DEF Fixed!Next, Fixed!Slot

(* A new vector is the empty sequence.                                     *)
LEMMA FixedAbstractInit == Fixed!Init => Fixed!V!Init
<1> SUFFICES ASSUME Fixed!Init PROVE Fixed!V!Init
  OBVIOUS
<1>1. len = 0 /\ reply = Fixed!Answer("new", 0, Null, 0)
  BY DEF Fixed!Init
<1>2. Fixed!Items = <<>>
  <2>1. Fixed!Items = [i \in 1 .. 0 |-> Fixed!Items[i]]
    BY <1>1 DEF Fixed!Items
  <2> QED BY <2>1, EmptyIs
<1> QED BY <1>1, <1>2 DEF Fixed!V!Init, Fixed!V!Answer, Fixed!Answer

(* Every call does to the sequence what it should.                         *)
LEMMA FixedAbstractStep ==
    ASSUME FixedInv, FixedInv', Fixed!Next
    PROVE  Fixed!V!Next \/ UNCHANGED Fixed!V!vars
<1>1. /\ len \in 0 .. FixedCap /\ FixedCap \in Nat /\ len \in Nat
      /\ data \in [0 .. FixedCap - 1 -> Number \cup {0}]
      /\ \A i \in 0 .. len - 1 : data[i] \in Number
  BY FixedAssumption DEF FixedInv
<1>2. Fixed!Items = Elements(data, len) /\ Fixed!Items' = Elements(data', len')
  BY DEF Fixed!Items, Elements
<1>3. /\ Len(Fixed!Items) = len
      /\ \A i \in 0 .. len - 1 : Fixed!Items[i + 1] = data[i]
  BY <1>1, <1>2, ElementsAre
<1>4. ASSUME NEW v \in Number, Fixed!Push(v) PROVE Fixed!V!Push(v)
  <2>1. /\ len < FixedCap /\ data' = [data EXCEPT ![len] = v] /\ len' = len + 1
        /\ reply' = Fixed!Answer("push", 0, Null, 0)
    BY <1>4 DEF Fixed!Push, Fixed!Say
  <2>2. \A i \in 0 .. len - 1 : data'[i] = data[i]
    BY <1>1, <2>1
  <2>3. data'[len] = v
    BY <1>1, <2>1
  <2>4. Elements(data', len + 1) = Append(Elements(data, len), v)
    BY <1>1, <2>2, <2>3, ElementsPushed
  <2> QED BY <1>2, <2>1, <2>4 DEF Fixed!V!Push, Fixed!V!Says, Fixed!V!Answer, Fixed!Answer
<1>5. CASE Fixed!Pop
  <2>1. /\ len > 0 /\ data' = [data EXCEPT ![len - 1] = 0] /\ len' = len - 1
        /\ reply' = Fixed!Answer("pop", 0, data[len - 1], 0)
    BY <1>5 DEF Fixed!Pop, Fixed!Say
  <2>2. \A i \in 0 .. len - 2 : data'[i] = data[i]
    BY <1>1, <2>1
  <2>3. /\ Elements(data, len) # <<>>
        /\ Elements(data, len)[Len(Elements(data, len))] = data[len - 1]
        /\ SubSeq(Elements(data, len), 1, Len(Elements(data, len)) - 1) = Elements(data', len - 1)
    <3>1. len \in Nat /\ len > 0
      BY <1>1, <2>1
    <3> QED BY <2>2, <3>1, ElementsPopped
  <2>4. Fixed!V!Pop
    BY <1>2, <2>1, <2>3
       DEF Fixed!V!Pop, Fixed!V!Says, Fixed!V!Answer, Fixed!Answer, Fixed!V!Last, Fixed!V!Front
  <2> QED BY <2>4 DEF Fixed!V!Next
<1>6. ASSUME NEW i \in 0 .. FixedCap - 1, Fixed!RemoveAt(i) PROVE Fixed!V!TakeOut(i) /\ i \in 0 .. len
  <2>1. /\ i < len /\ len' = len - 1
        /\ data' = [j \in 0 .. FixedCap - 1 |-> IF j = len - 1 THEN 0
                      ELSE IF i <= j /\ j < len - 1 THEN data[j + 1] ELSE data[j]]
    BY <1>6 DEF Fixed!RemoveAt, Fixed!Slot
  <2>r. reply' = Fixed!Answer("remove_at", 0, data[i], i)
    BY <1>6 DEF Fixed!RemoveAt, Fixed!Say
  <2>2. i \in 0 .. len - 1 /\ i \in 0 .. len
    BY <1>1, <2>1
  <2>3. \A j \in 0 .. len - 2 : data'[j] = IF j < i THEN data[j] ELSE data[j + 1]
    <3> SUFFICES ASSUME NEW j \in 0 .. len - 2
                 PROVE  data'[j] = IF j < i THEN data[j] ELSE data[j + 1]
      OBVIOUS
    <3>1. j \in 0 .. FixedCap - 1 /\ j # len - 1 /\ j < len - 1 /\ (i <= j <=> ~(j < i))
      BY <1>1, <2>2
    <3> QED BY <2>1, <3>1
  <2>4. SubSeq(Elements(data, len), 1, (i + 1) - 1)
          \o SubSeq(Elements(data, len), (i + 1) + 1, Len(Elements(data, len)))
           = Elements(data', len - 1)
    BY <1>1, <2>2, <2>3, ElementsRemoved
  <2> QED BY <1>2, <1>3, <2>1, <2>2, <2>4, <2>r
          DEF Fixed!V!TakeOut, Fixed!V!Says, Fixed!V!Answer, Fixed!Answer, Fixed!V!RemoveAt
<1>7. ASSUME NEW i \in 0 .. FixedCap - 1, Fixed!GetAt(i) PROVE Fixed!V!GetAt(i) /\ i \in 0 .. len
  <2>1. i < len /\ data' = data /\ len' = len /\ reply' = Fixed!Answer("get_at", 0, data[i], i)
    BY <1>7 DEF Fixed!GetAt, Fixed!Say
  <2>2. i \in 0 .. len - 1 /\ i \in 0 .. len
    BY <1>1, <2>1
  <2> QED BY <1>2, <1>3, <2>1, <2>2
          DEF Fixed!V!GetAt, Fixed!V!Says, Fixed!V!Answer, Fixed!Answer
<1>8. CASE Fixed!Refuse
  <2>1. data' = data /\ len' = len
    BY <1>8 DEF Fixed!Refuse
  <2>2. len = 0 => Fixed!Items = <<>>
    <3>1. len = 0 => Fixed!Items = [i \in 1 .. 0 |-> Fixed!Items[i]]
      BY DEF Fixed!Items
    <3> QED BY <3>1, EmptyIs
  <2>3. \/ reply' = Fixed!Answer("push", 1, Null, 0)
        \/ len = 0 /\ reply' = Fixed!Answer("pop", 1, Null, 0)
        \/ \E op \in {"remove_at", "get_at"} : reply' = Fixed!Answer(op, 1, Null, len)
    BY <1>8 DEF Fixed!Refuse, Fixed!Say
  <2>4. Fixed!V!Fails
    BY <1>2, <1>3, <2>1, <2>2, <2>3
       DEF Fixed!V!Fails, Fixed!V!Refuse, Fixed!V!Says, Fixed!V!Answer, Fixed!Answer
  <2> QED BY <2>4 DEF Fixed!V!Next
<1> QED BY <1>3, <1>4, <1>5, <1>6, <1>7, <1>8 DEF Fixed!Next, Fixed!Slot, Fixed!V!Next
---------------------------------------------------------------------------
(* The growing vector.                                                     *)

(* What is assumed of the growing vector.                                  *)
LEMMA VecFacts ==
    /\ Number \subseteq Nat \ {0} /\ Null \notin Nat /\ Null \notin Number
    /\ VecInitialCap \in Nat \ {0} /\ Capacities \subseteq Nat
    /\ Word \in Nat \ {0} /\ VecMaxLen \in Nat /\ MaxSteps \in Nat
    /\ VecMaxLen < Word /\ MaxSteps + 3 < Word
BY ContainerAssumption DEF Growing!VecAssumption

(* The iterator of a vector that held born elements, after n calls of      *)
(* vec_iter_next: it is at place n, one place before the one that the next *)
(* call prepares, as long as there are such.                               *)
AtStep(it, n, b) ==
    /\ it.next_idx = n + 2
    /\ b > 0 => /\ it.end_idx = b - 1
                /\ it.cur = IF n < b THEN [block |-> it.vec, idx |-> n] ELSE Null
                /\ it.next = IF n + 1 < b THEN [block |-> it.vec, idx |-> n + 1] ELSE Null

(* The block has room and the elements in use hold values.                 *)
VecData ==
    /\ cap \in Nat /\ cap >= 1 /\ len \in 0 .. cap /\ len <= VecMaxLen
    /\ data \in [0 .. cap - 1 -> Number \cup {0}]
    /\ \A i \in 0 .. len - 1 : data[i] \in Number
    /\ block \in Block \cup {Null}

(* The iterator is where its creation and its steps put it.                *)
VecIteration ==
    /\ iter \in Growing!Iterator \cup {Null}
    /\ born \in 0 .. VecMaxLen /\ steps \in 0 .. MaxSteps /\ intact \in BOOLEAN
    /\ iter # Null => /\ AtStep(iter, steps, born) /\ born <= cap
                      /\ intact => len = born /\ iter.vec = block

VecReplies ==
    /\ fault \in {"none", "push_own", "iter_freed", "sort"}
    /\ IF reply.op = "free" THEN reply \in Growing!FreeReply ELSE reply \in Growing!Reply

VecInv == VecData /\ VecIteration /\ VecReplies

(* Counting in size_t.                                                     *)
LEMMA SizeArithmetic ==
    /\ \A x \in 0 .. Word - 1 : x % Word = x
    /\ \A n \in 0 .. VecMaxLen :
          (n + Word - 1) % Word = IF n = 0 THEN Word - 1 ELSE n - 1
<1>1. Word \in Nat /\ Word > 0 /\ VecMaxLen \in Nat /\ VecMaxLen < Word
  BY VecFacts
<1>2. ASSUME NEW x \in 0 .. Word - 1 PROVE x % Word = x
  BY <1>1
<1>3. ASSUME NEW n \in 0 .. VecMaxLen, n # 0 PROVE (n + Word - 1) % Word = n - 1
  <2>1. n - 1 \in 0 .. Word - 1 /\ n + Word - 1 = (n - 1) + Word
    BY <1>1, <1>3
  <2>2. \A x \in 0 .. Word - 1 : (x + Word) % Word = x
    BY <1>1
  <2> QED BY <2>1, <2>2
<1>4. (0 + Word - 1) % Word = Word - 1
  BY <1>1, <1>2
<1> QED BY <1>2, <1>3, <1>4

(* vec_iter_next takes the iterator one step further.                      *)
LEMMA AdvanceFacts ==
    ASSUME NEW it \in Growing!Iterator
    PROVE  /\ Growing!Advance(it) \in Growing!Iterator
           /\ Growing!Advance(it).vec = it.vec
           /\ Growing!Advance(it).end_idx = it.end_idx
           /\ Growing!Advance(it).cur = it.next
           /\ Growing!Advance(it).next = IF it.next_idx > it.end_idx THEN Null
                                          ELSE [block |-> it.vec, idx |-> it.next_idx]
           /\ Growing!Advance(it).next_idx = (it.next_idx + 1) % Word
<1>1. /\ it.vec \in Block /\ it.cur \in Growing!Place \cup {Null}
      /\ it.next \in Growing!Place \cup {Null}
      /\ it.next_idx \in 0 .. Word - 1 /\ it.end_idx \in 0 .. Word - 1
  BY DEF Growing!Iterator
<1> DEFINE nx == IF it.next_idx > it.end_idx THEN Null ELSE [block |-> it.vec, idx |-> it.next_idx]
           ni == (it.next_idx + 1) % Word
<1>2. nx \in Growing!Place \cup {Null}
  <2>1. it.next_idx \in Nat
    BY <1>1, VecFacts
  <2> QED BY <1>1, <2>1 DEF Growing!Place
<1>3. ni \in 0 .. Word - 1
  BY <1>1, VecFacts
<1>4. Growing!Advance(it) = [it EXCEPT !.cur = it.next, !.next = nx, !.next_idx = ni]
  BY DEF Growing!Advance, Growing!AtEnd
<1> HIDE DEF nx, ni
<1>5. [it EXCEPT !.cur = it.next, !.next = nx, !.next_idx = ni] \in Growing!Iterator
  BY <1>1, <1>2, <1>3 DEF Growing!Iterator
<1>6. /\ [it EXCEPT !.cur = it.next, !.next = nx, !.next_idx = ni].vec = it.vec
      /\ [it EXCEPT !.cur = it.next, !.next = nx, !.next_idx = ni].end_idx = it.end_idx
      /\ [it EXCEPT !.cur = it.next, !.next = nx, !.next_idx = ni].cur = it.next
      /\ [it EXCEPT !.cur = it.next, !.next = nx, !.next_idx = ni].next = nx
      /\ [it EXCEPT !.cur = it.next, !.next = nx, !.next_idx = ni].next_idx = ni
  BY DEF Growing!Iterator
<1> QED BY <1>4, <1>5, <1>6 DEF nx, ni

(* vec_iter_new of a vector of n elements stands at the first.             *)
LEMMA NewIterator ==
    ASSUME NEW b \in Block, NEW n \in 0 .. VecMaxLen, NEW it0,
           it0 = [vec |-> b, cur |-> Null, next |-> Null, next_idx |-> 0,
                  end_idx |-> (n + Word - 1) % Word],
           NEW it, it = Growing!Advance(Growing!Advance(it0))
    PROVE  it \in Growing!Iterator /\ it.vec = b /\ AtStep(it, 0, n)
<1>1. /\ Word \in Nat /\ Word > 3 /\ 0 \in 0 .. Word - 1 /\ 1 \in 0 .. Word - 1
      /\ 2 \in 0 .. Word - 1 /\ n < Word /\ n \in Nat
  BY VecFacts
<1>e. PICK e \in 0 .. Word - 1 : e = (n + Word - 1) % Word /\ (n > 0 => e = n - 1)
  <2>1. (n + Word - 1) % Word = IF n = 0 THEN Word - 1 ELSE n - 1
    BY SizeArithmetic
  <2> QED BY <1>1, <2>1
<1>2. it0 = [vec |-> b, cur |-> Null, next |-> Null, next_idx |-> 0, end_idx |-> e]
  BY <1>e
<1>3. it0 \in Growing!Iterator
  BY <1>1, <1>2, <1>e DEF Growing!Iterator
<1>4. it0.vec = b /\ it0.end_idx = e /\ it0.next_idx = 0
  BY <1>2
<1> DEFINE it1 == Growing!Advance(it0)
<1>5. (0 + 1) % Word = 1 /\ (1 + 1) % Word = 2
  BY <1>1, SizeArithmetic
<1>6. /\ it1 \in Growing!Iterator /\ it1.vec = b /\ it1.end_idx = e
      /\ it1.next = [block |-> b, idx |-> 0] /\ it1.next_idx = 1
  BY <1>1, <1>e, <1>3, <1>4, <1>5, AdvanceFacts
<1> HIDE DEF it1
<1>7. /\ it \in Growing!Iterator /\ it.vec = b /\ it.end_idx = e
      /\ it.cur = [block |-> b, idx |-> 0] /\ it.next_idx = 2
      /\ it.next = IF 1 > e THEN Null ELSE [block |-> b, idx |-> 1]
  <2>1. it = Growing!Advance(it1)
    BY DEF it1
  <2> QED BY <1>5, <1>6, <2>1, AdvanceFacts
<1>8. n > 0 => e = n - 1 /\ (1 > e <=> ~(0 + 1 < n))
  BY <1>1, <1>e
<1> QED BY <1>7, <1>8 DEF AtStep

(* vec_iter_next, one step later.                                          *)
LEMMA NextIterator ==
    ASSUME NEW it \in Growing!Iterator, NEW n \in 0 .. MaxSteps - 1, NEW b \in 0 .. VecMaxLen,
           AtStep(it, n, b)
    PROVE  /\ Growing!Advance(it) \in Growing!Iterator
           /\ Growing!Advance(it).vec = it.vec
           /\ AtStep(Growing!Advance(it), n + 1, b)
<1>1. /\ n \in Nat /\ b \in Nat /\ n + 2 + 1 \in 0 .. Word - 1
  BY VecFacts
<1>2. (n + 2 + 1) % Word = n + 2 + 1
  BY <1>1, SizeArithmetic
<1>3. it.next_idx = n + 2
  BY DEF AtStep
<1>4. /\ Growing!Advance(it) \in Growing!Iterator
      /\ Growing!Advance(it).vec = it.vec /\ Growing!Advance(it).end_idx = it.end_idx
      /\ Growing!Advance(it).cur = it.next
      /\ Growing!Advance(it).next = IF n + 2 > it.end_idx THEN Null
                                     ELSE [block |-> it.vec, idx |-> n + 2]
      /\ Growing!Advance(it).next_idx = n + 2 + 1
  BY <1>2, <1>3, AdvanceFacts
<1>5. b > 0 => (n + 2 > b - 1 <=> ~((n + 1) + 1 < b)) /\ n + 2 = (n + 1) + 1
  BY <1>1
<1>6. n + 2 + 1 = (n + 1) + 2 /\ n + 2 = (n + 1) + 1
  BY <1>1
<1> QED BY <1>4, <1>5, <1>6 DEF AtStep

(* The first state of the vector.                                          *)
LEMMA VecInit == Growing!Init => VecInv
<1> SUFFICES ASSUME Growing!Init PROVE VecInv
  OBVIOUS
<1>1. /\ cap \in {VecInitialCap} \cup {c \in Capacities : c >= 2}
      /\ data = [i \in 0 .. cap - 1 |-> 0] /\ len = 0 /\ block \in Block
      /\ iter = Null /\ born = 0 /\ steps = 0 /\ intact = TRUE
      /\ fault = "none" /\ reply = Growing!Answer("new", 0, Null, 0)
  BY DEF Growing!Init
<1>2. cap \in Nat /\ cap >= 1 /\ 0 \in 0 .. cap /\ 0 \in 0 .. VecMaxLen /\ 0 \in 0 .. MaxSteps
  BY <1>1, VecFacts
<1>3. VecData
  BY <1>1, <1>2, VecFacts DEF VecData
<1>4. VecIteration
  BY <1>1, <1>2 DEF VecIteration
<1>5. VecReplies
  <2>1. reply.op = "new" /\ reply \in Growing!Reply
    BY <1>1 DEF Growing!Answer, Growing!Reply
  <2> QED BY <1>1, <2>1 DEF VecReplies
<1> QED BY <1>3, <1>4, <1>5 DEF VecInv

(* A change of the vector that keeps its capacity or enlarges it leaves    *)
(* the iterator as it is.                                                  *)
LEMMA TouchedKeeps ==
    ASSUME VecData, VecIteration, VecData', cap' >= cap, Growing!Touched
    PROVE  VecIteration'
<1>1. intact' = FALSE /\ iter' = iter /\ born' = born /\ steps' = steps
  BY DEF Growing!Touched
<1>2. /\ iter \in Growing!Iterator \cup {Null}
      /\ born \in 0 .. VecMaxLen /\ steps \in 0 .. MaxSteps
      /\ iter # Null => AtStep(iter, steps, born) /\ born <= cap
  BY DEF VecIteration
<1>3. iter # Null => born <= cap'
  <2>1. cap \in Nat /\ cap' \in Nat /\ born \in Int
    BY <1>2, VecFacts DEF VecData
  <2> QED BY <1>2, <2>1
<1>4. AtStep(iter, steps, born) => AtStep(iter, steps, born)'
  BY <1>1 DEF AtStep
<1> QED BY <1>1, <1>2, <1>3, <1>4 DEF VecIteration

(* vec_push writes behind the last element, in the block or in a larger    *)
(* one.                                                                    *)
LEMMA PushedData ==
    ASSUME VecData, NEW v \in Number, Growing!Push(v)
    PROVE  /\ VecData' /\ cap' >= cap /\ Growing!Touched
           /\ len' = len + 1
           /\ \A i \in 0 .. len - 1 : data'[i] = data[i]
           /\ data'[len] = v
<1>1. /\ cap \in Nat /\ cap >= 1 /\ len \in 0 .. cap /\ len <= VecMaxLen
      /\ data \in [0 .. cap - 1 -> Number \cup {0}]
      /\ \A i \in 0 .. len - 1 : data[i] \in Number
      /\ block \in Block \cup {Null}
  BY DEF VecData
<1>2. /\ len < VecMaxLen /\ len' = len + 1 /\ Growing!Touched
      /\ len = cap => data' = [Growing!Doubled EXCEPT ![len] = v] /\ cap' = 2 * cap /\ block' \in Block
      /\ len # cap => data' = [data EXCEPT ![len] = v] /\ cap' = cap /\ block' = block
  BY DEF Growing!Push
<1>3. VecMaxLen \in Nat
  BY VecFacts
<1>4. /\ cap' \in Nat /\ cap' >= 1 /\ len' \in 0 .. cap' /\ len' <= VecMaxLen /\ cap' >= cap
      /\ block' \in Block \cup {Null}
  BY <1>1, <1>2, <1>3
<1>5. /\ data' \in [0 .. cap' - 1 -> Number \cup {0}]
      /\ \A i \in 0 .. len - 1 : data'[i] = data[i]
      /\ data'[len] = v
  <2>1. CASE len = cap
    <3> DEFINE d == Growing!Doubled
    <3>1. d = [i \in 0 .. 2 * cap - 1 |-> IF i < len THEN data[i] ELSE 0]
      BY DEF Growing!Doubled
    <3>2. /\ \A i \in 0 .. 2 * cap - 1 : i < len => i \in 0 .. cap - 1
          /\ \A i \in 0 .. len - 1 : i \in 0 .. 2 * cap - 1 /\ i < len /\ i # len
          /\ len \in 0 .. 2 * cap - 1
      BY <1>1, <2>1
    <3>3. d \in [0 .. 2 * cap - 1 -> Number \cup {0}]
      BY <1>1, <3>1, <3>2
    <3>4. \A i \in 0 .. len - 1 : d[i] = data[i]
      BY <3>1, <3>2
    <3> HIDE DEF d
    <3>5. data' = [d EXCEPT ![len] = v] /\ cap' = 2 * cap
      BY <1>2, <2>1 DEF d
    <3> QED BY <3>2, <3>3, <3>4, <3>5
  <2>2. CASE len # cap
    <3>1. /\ \A i \in 0 .. len - 1 : i \in 0 .. cap - 1 /\ i # len
          /\ len \in 0 .. cap - 1
      BY <1>1, <2>2
    <3> QED BY <1>1, <1>2, <2>2, <3>1
  <2> QED BY <2>1, <2>2
<1>6. \A i \in 0 .. len' - 1 : data'[i] \in Number
  <2>1. \A i \in 0 .. len' - 1 : i \in 0 .. len - 1 \/ i = len
    BY <1>1, <1>2
  <2> QED BY <1>1, <1>5, <2>1
<1>7. VecData'
  BY <1>4, <1>5, <1>6 DEF VecData
<1> QED BY <1>2, <1>4, <1>5, <1>7

(* vec_remove_at moves the later elements down and clears the last slot.   *)
LEMMA TakenOutData ==
    ASSUME VecData, NEW i \in 0 .. len, Growing!TakeOut(i)
    PROVE  /\ VecData' /\ cap' = cap /\ Growing!Touched
           /\ i \in 0 .. len - 1 /\ len' = len - 1
           /\ \A j \in 0 .. len - 2 : data'[j] = IF j < i THEN data[j] ELSE data[j + 1]
<1>1. /\ cap \in Nat /\ cap >= 1 /\ len \in 0 .. cap /\ len <= VecMaxLen
      /\ data \in [0 .. cap - 1 -> Number \cup {0}]
      /\ \A j \in 0 .. len - 1 : data[j] \in Number
      /\ block \in Block \cup {Null}
  BY DEF VecData
<1>2. /\ i < len /\ len' = len - 1 /\ Growing!Touched /\ cap' = cap /\ block' = block
      /\ data' = [j \in 0 .. cap - 1 |-> IF j = len - 1 THEN 0
                                         ELSE IF i <= j /\ j < len - 1 THEN data[j + 1]
                                         ELSE data[j]]
  BY DEF Growing!TakeOut
<1>3. /\ i \in 0 .. len - 1 /\ len' \in 0 .. cap' /\ len' <= VecMaxLen
  BY <1>1, <1>2, VecFacts
<1>4. data' \in [0 .. cap' - 1 -> Number \cup {0}]
  <2>1. ASSUME NEW j \in 0 .. cap - 1
        PROVE  (IF j = len - 1 THEN 0
                ELSE IF i <= j /\ j < len - 1 THEN data[j + 1] ELSE data[j]) \in Number \cup {0}
    <3>1. j < len - 1 => j + 1 \in 0 .. cap - 1
      BY <1>1
    <3> QED BY <1>1, <3>1
  <2> QED BY <1>2, <2>1
<1>5. \A j \in 0 .. len - 2 : data'[j] = IF j < i THEN data[j] ELSE data[j + 1]
  <2> SUFFICES ASSUME NEW j \in 0 .. len - 2
               PROVE  data'[j] = IF j < i THEN data[j] ELSE data[j + 1]
    OBVIOUS
  <2>1. j \in 0 .. cap - 1 /\ j # len - 1 /\ j < len - 1 /\ (i <= j <=> ~(j < i))
    BY <1>1, <1>3
  <2> QED BY <1>2, <2>1
<1>6. \A j \in 0 .. len' - 1 : data'[j] \in Number
  <2>1. \A j \in 0 .. len' - 1 : j \in 0 .. len - 2 /\ j \in 0 .. len - 1 /\ j + 1 \in 0 .. len - 1
    BY <1>1, <1>2
  <2> QED BY <1>1, <1>5, <2>1
<1>7. VecData'
  BY <1>1, <1>2, <1>3, <1>4, <1>6 DEF VecData
<1> QED BY <1>2, <1>3, <1>5, <1>7

(* A sort leaves every element, at one of the places in use.               *)
LEMMA SortedData ==
    ASSUME VecData, Growing!Sort
    PROVE  /\ VecData' /\ cap' = cap /\ len' = len /\ Growing!Touched
           /\ \E order \in [0 .. len - 1 -> 0 .. len - 1] :
                 /\ \A i, j \in 0 .. len - 1 : order[i] = order[j] => i = j
                 /\ \A i, j \in 0 .. len - 1 : i < j => data'[i] <= data'[j]
                 /\ \A i \in 0 .. len - 1 : data'[i] = data[order[i]]
<1>1. /\ cap \in Nat /\ cap >= 1 /\ len \in 0 .. cap /\ len <= VecMaxLen
      /\ data \in [0 .. cap - 1 -> Number \cup {0}]
      /\ \A j \in 0 .. len - 1 : data[j] \in Number
      /\ block \in Block \cup {Null}
  BY DEF VecData
<1>2. PICK order \in [0 .. len - 1 -> 0 .. len - 1] :
         /\ \A i, j \in 0 .. len - 1 : order[i] = order[j] => i = j
         /\ \A i, j \in 0 .. len - 1 : i < j => data[order[i]] <= data[order[j]]
         /\ data' = [i \in 0 .. cap - 1 |-> IF i < len THEN data[order[i]] ELSE data[i]]
  BY DEF Growing!Sort
<1>3. Growing!Touched /\ cap' = cap /\ len' = len /\ block' = block
  BY DEF Growing!Sort
<1>4. /\ \A i \in 0 .. len - 1 : i \in 0 .. cap - 1 /\ i < len
      /\ \A i \in 0 .. cap - 1 : i < len => i \in 0 .. len - 1
  BY <1>1
<1>5. \A i \in 0 .. len - 1 : order[i] \in 0 .. len - 1
  BY <1>2
<1>6. \A i \in 0 .. cap - 1 : data'[i] = IF i < len THEN data[order[i]] ELSE data[i]
  BY <1>2
<1>7. \A i \in 0 .. len - 1 : data'[i] = data[order[i]]
  BY <1>4, <1>6
<1>8. \A i \in 0 .. len - 1 : data'[i] \in Number
  BY <1>1, <1>5, <1>7
<1>9. data' \in [0 .. cap - 1 -> Number \cup {0}]
  <2>1. \A i \in 0 .. cap - 1 : data'[i] \in Number \cup {0}
    BY <1>1, <1>4, <1>6, <1>8
  <2>2. data' = [i \in 0 .. cap - 1 |-> data'[i]]
    BY <1>2
  <2> QED BY <2>1, <2>2
<1>10. VecData'
  BY <1>1, <1>3, <1>8, <1>9 DEF VecData
<1>11. \A i, j \in 0 .. len - 1 : i < j => data'[i] <= data'[j]
  BY <1>2, <1>7
<1> QED BY <1>2, <1>3, <1>7, <1>10, <1>11

(* Answers of all calls but vec_free.                                      *)
LEMMA VecAnswer ==
    ASSUME NEW op \in {"new", "push", "pop", "get_at", "remove_at", "find", "search", "sort"},
           NEW code \in {0, 1}, NEW out \in Number \cup {Null}, NEW idx \in Nat,
           reply' = Growing!Answer(op, code, out, idx), fault' = fault, VecReplies
    PROVE  VecReplies'
<1>1. reply'.op = op /\ reply' \in Growing!Reply
  BY DEF Growing!Answer, Growing!Reply
<1> QED BY <1>1 DEF VecReplies

(* A call that changes neither the vector nor the iterator.                *)
LEMMA VecQuiet ==
    ASSUME VecInv, UNCHANGED <<data, cap, len, block, iter, born, steps, intact>>
    PROVE  VecData' /\ VecIteration'
<1>1. VecData'
  BY DEF VecInv, VecData
<1>2. VecIteration'
  BY DEF VecInv, VecIteration, AtStep
<1> QED BY <1>1, <1>2

(* Every call keeps the invariant of the vector.                           *)
LEMMA VecKeeps ==
    ASSUME VecInv, Growing!Next
    PROVE  VecInv'
<1> USE DEF Growing!Say
<1>1. VecData /\ VecIteration /\ VecReplies
  BY DEF VecInv
<1>2. /\ cap \in Nat /\ len \in Nat /\ block \in Block \cup {Null} /\ len \in 0 .. VecMaxLen
      /\ \A i \in 0 .. len - 1 : data[i] \in Number
      /\ 0 \in Nat /\ Null \in Number \cup {Null}
  BY <1>1, VecFacts DEF VecData
<1>3. ASSUME NEW v \in Number, Growing!Push(v) PROVE VecInv'
  <2>1. VecData' /\ cap' >= cap /\ Growing!Touched
    BY <1>1, <1>3, PushedData
  <2>2. VecIteration'
    BY <1>1, <2>1, TouchedKeeps
  <2>3. reply' = Growing!Answer("push", 0, Null, 0) /\ fault' = fault
    BY <1>3 DEF Growing!Push
  <2>4. VecReplies'
    BY <1>1, <1>2, <2>3, VecAnswer
  <2> QED BY <2>1, <2>2, <2>4 DEF VecInv
<1>4. ASSUME NEW i \in 0 .. len, Growing!PushOwn(i) PROVE VecInv'
  <2>1. CASE len = cap
    <3>1. /\ fault' = "push_own" /\ reply' = reply
          /\ UNCHANGED <<data, cap, len, block, iter, born, steps, intact>>
      BY <1>4, <2>1 DEF Growing!PushOwn, Growing!vector, Growing!iteration
    <3>2. VecReplies'
      BY <1>1, <3>1 DEF VecReplies
    <3> QED BY <3>1, <3>2, VecQuiet DEF VecInv
  <2>2. CASE len # cap
    <3>1. i < len /\ Growing!Push(data[i])
      BY <1>4, <2>2 DEF Growing!PushOwn
    <3>2. data[i] \in Number
      BY <1>2, <3>1
    <3> QED BY <1>3, <3>1, <3>2
  <2> QED BY <2>1, <2>2
<1>5. CASE Growing!Pop
  <2>1. /\ len > 0 /\ len' = len - 1 /\ Growing!Touched
        /\ UNCHANGED <<data, cap, block, fault>>
        /\ reply' = Growing!Answer("pop", 0, data[len - 1], 0)
    BY <1>5 DEF Growing!Pop
  <2>2. VecData' /\ cap' >= cap
    <3>1. len - 1 \in 0 .. cap /\ len - 1 <= VecMaxLen /\ \A i \in 0 .. (len - 1) - 1 : i \in 0 .. len - 1
      BY <1>1, <2>1, VecFacts DEF VecData
    <3> QED BY <1>1, <2>1, <3>1 DEF VecData
  <2>3. data[len - 1] \in Number \cup {Null}
    BY <1>2, <2>1
  <2>4. VecReplies'
    BY <1>1, <1>2, <2>1, <2>3, VecAnswer
  <2> QED BY <1>1, <2>1, <2>2, <2>4, TouchedKeeps DEF VecInv
<1>6. ASSUME NEW i \in 0 .. len, Growing!TakeOut(i) PROVE VecInv'
  <2>1. VecData' /\ cap' = cap /\ Growing!Touched /\ i \in 0 .. len - 1
    BY <1>1, <1>6, TakenOutData
  <2>2. VecIteration'
    <3>1. cap' >= cap
      BY <1>2, <2>1
    <3> QED BY <1>1, <2>1, <3>1, TouchedKeeps
  <2>3. reply' = Growing!Answer("remove_at", 0, data[i], i) /\ fault' = fault
    BY <1>6 DEF Growing!TakeOut
  <2>4. data[i] \in Number \cup {Null} /\ i \in Nat
    BY <1>2, <2>1
  <2>5. VecReplies'
    BY <1>1, <2>3, <2>4, VecAnswer
  <2> QED BY <2>1, <2>2, <2>5 DEF VecInv
<1>7. CASE Growing!Sort
  <2>1. VecData' /\ cap' = cap /\ Growing!Touched
    BY <1>1, <1>7, SortedData
  <2>2. VecIteration'
    <3>1. cap' >= cap
      BY <1>2, <2>1
    <3> QED BY <1>1, <2>1, <3>1, TouchedKeeps
  <2>3. reply' = Growing!Answer("sort", 0, Null, 0) /\ fault' = fault
    BY <1>7 DEF Growing!Sort
  <2>4. VecReplies'
    BY <1>1, <1>2, <2>3, VecAnswer
  <2> QED BY <2>1, <2>2, <2>4 DEF VecInv
<1>8. CASE Growing!Free
  <2>1. /\ block' = Null /\ Growing!Touched /\ UNCHANGED <<data, cap, len, fault>>
        /\ reply' = Growing!Answer("free", 0, Growing!Items, 0)
    BY <1>8 DEF Growing!Free
  <2>2. VecData' /\ cap' >= cap
    BY <1>1, <2>1 DEF VecData
  <2>3. VecReplies'
    <3>1. Growing!Items \in Seq(Number)
      <4>1. Growing!Items = Elements(data, len)
        BY DEF Growing!Items, Elements
      <4> QED BY <1>2, <4>1, ElementsAre
    <3>2. reply'.op = "free" /\ reply' \in Growing!FreeReply
      BY <2>1, <3>1 DEF Growing!Answer, Growing!FreeReply
    <3> QED BY <1>1, <2>1, <3>2 DEF VecReplies
  <2> QED BY <1>1, <2>1, <2>2, <2>3, TouchedKeeps DEF VecInv
<1>9. ASSUME NEW i \in 0 .. len, Growing!GetAt(i) \/ Growing!TakeOutBeyond(i) PROVE VecInv'
  <2>1. /\ fault' = fault /\ UNCHANGED <<data, cap, len, block, iter, born, steps, intact>>
        /\ \E op \in {"get_at", "remove_at"}, code \in {0, 1} :
              \E out \in {data[i], Null} :
                 (out = data[i] => i < len \/ out = Null) /\ reply' = Growing!Answer(op, code, out, i)
    BY <1>9 DEF Growing!GetAt, Growing!TakeOutBeyond, Growing!vector, Growing!iteration
  <2>2. PICK op \in {"get_at", "remove_at"}, code \in {0, 1}, out \in {data[i], Null} :
            (out = data[i] => i < len \/ out = Null) /\ reply' = Growing!Answer(op, code, out, i)
    BY <2>1
  <2>3. out \in Number \cup {Null} /\ i \in Nat
    BY <1>2, <2>2
  <2>4. VecReplies'
    BY <1>1, <2>1, <2>2, <2>3, VecAnswer
  <2> QED BY <2>1, <2>4, VecQuiet DEF VecInv
<1>10. ASSUME NEW v \in Number, Growing!Find(v) \/ Growing!BinarySearch(v) PROVE VecInv'
  <2>1. /\ fault' = fault /\ UNCHANGED <<data, cap, len, block, iter, born, steps, intact>>
    BY <1>10 DEF Growing!Find, Growing!BinarySearch, Growing!vector, Growing!iteration
  <2>2. PICK op \in {"find", "search"}, code \in {0, 1}, out \in {v, Null}, idx \in Nat :
            reply' = Growing!Answer(op, code, out, idx)
    <3>1. CASE Growing!BinarySearch(v)
      BY <1>2, <3>1 DEF Growing!BinarySearch
    <3>2. CASE Growing!Find(v)
      <4>1. \/ \E i \in 0 .. len - 1 : reply' = Growing!Answer("find", 0, v, i)
            \/ reply' = Growing!Answer("find", 1, Null, 0)
        BY <3>2 DEF Growing!Find
      <4>2. \A i \in 0 .. len - 1 : i \in Nat
        OBVIOUS
      <4> QED BY <1>2, <4>1, <4>2
    <3> QED BY <1>10, <3>1, <3>2
  <2>3. VecReplies'
    BY <1>1, <2>1, <2>2, VecAnswer
  <2> QED BY <2>1, <2>3, VecQuiet DEF VecInv
<1>11. CASE Growing!PushFails \/ Growing!PopEmpty
  <2>1. /\ fault' = fault /\ UNCHANGED <<data, cap, len, block, iter, born, steps, intact>>
        /\ \/ reply' = Growing!Answer("push", 1, Null, 0)
           \/ reply' = Growing!Answer("pop", 1, Null, 0)
    BY <1>11 DEF Growing!PushFails, Growing!PopEmpty, Growing!vector, Growing!iteration
  <2>2. VecReplies'
    BY <1>1, <1>2, <2>1, VecAnswer
  <2> QED BY <2>1, <2>2, VecQuiet DEF VecInv
<1>12. CASE Growing!SortStops \/ Growing!IterNextFreed
  <2>1. /\ fault' \in {"sort", "iter_freed"} /\ reply' = reply
        /\ UNCHANGED <<data, cap, len, block, iter, born, steps, intact>>
    BY <1>12 DEF Growing!SortStops, Growing!IterNextFreed, Growing!vector, Growing!iteration
  <2>2. VecReplies'
    BY <1>1, <2>1 DEF VecReplies
  <2> QED BY <2>1, <2>2, VecQuiet DEF VecInv
<1>13. CASE Growing!IterNew
  <2> DEFINE it0 == [vec |-> block, cur |-> Null, next |-> Null, next_idx |-> 0,
                     end_idx |-> (len + Word - 1) % Word]
  <2>1. /\ block # Null /\ born' = len /\ steps' = 0 /\ intact' = TRUE
        /\ iter' = Growing!Advance(Growing!Advance(it0))
    BY <1>13 DEF Growing!IterNew, Growing!Running
  <2>2. UNCHANGED <<data, cap, len, block, fault, reply>>
    BY <1>13 DEF Growing!IterNew, Growing!vector
  <2> HIDE DEF it0
  <2>3. block \in Block
    BY <1>2, <2>1
  <2>4. iter' \in Growing!Iterator /\ iter'.vec = block /\ AtStep(iter', 0, len)
    BY <1>2, <2>1, <2>3, NewIterator DEF it0
  <2>5. VecData' /\ VecReplies'
    BY <1>1, <2>2 DEF VecData, VecReplies
  <2>6. 0 \in 0 .. MaxSteps /\ len <= cap
    BY <1>1, VecFacts DEF VecData
  <2>7. VecIteration'
    BY <1>2, <2>1, <2>2, <2>4, <2>6 DEF VecIteration
  <2> QED BY <2>5, <2>7 DEF VecInv
<1>14. CASE Growing!IterNext
  <2>1. /\ iter # Null /\ steps < MaxSteps /\ iter' = Growing!Advance(iter) /\ steps' = steps + 1
        /\ UNCHANGED <<born, intact, fault, reply>>
    BY <1>14 DEF Growing!IterNext
  <2>2. UNCHANGED <<data, cap, len, block>>
    BY <1>14 DEF Growing!IterNext, Growing!vector
  <2>3. /\ iter \in Growing!Iterator /\ born \in 0 .. VecMaxLen /\ steps \in 0 .. MaxSteps
        /\ intact \in BOOLEAN
        /\ AtStep(iter, steps, born) /\ born <= cap /\ (intact => len = born /\ iter.vec = block)
    BY <1>1, <2>1 DEF VecIteration
  <2>4. steps \in 0 .. MaxSteps - 1 /\ steps + 1 \in 0 .. MaxSteps
    BY <2>1, <2>3, VecFacts
  <2>5. /\ iter' \in Growing!Iterator /\ iter'.vec = iter.vec
        /\ AtStep(iter', steps + 1, born)
    BY <2>1, <2>3, <2>4, NextIterator
  <2>6. VecData' /\ VecReplies'
    BY <1>1, <2>1, <2>2 DEF VecData, VecReplies
  <2>7. VecIteration'
    BY <2>1, <2>2, <2>3, <2>4, <2>5 DEF VecIteration
  <2> QED BY <2>6, <2>7 DEF VecInv
<1> QED BY <1>3, <1>4, <1>5, <1>6, <1>7, <1>8, <1>9, <1>10, <1>11, <1>12, <1>13, <1>14
        DEF Growing!Next

(* The invariant gives the properties of the run.                          *)
LEMMA VecImplies ==
    VecInv => /\ Growing!TypeOK /\ Growing!NoClearedElement
              /\ Growing!IterInBounds /\ Growing!IterYieldsAll
<1> SUFFICES ASSUME VecInv
             PROVE  /\ Growing!TypeOK /\ Growing!NoClearedElement
                    /\ Growing!IterInBounds /\ Growing!IterYieldsAll
  OBVIOUS
<1>1. VecData /\ VecIteration /\ VecReplies
  BY DEF VecInv
<1>2. Growing!TypeOK
  BY <1>1 DEF VecData, VecIteration, VecReplies, Growing!TypeOK
<1>3. Growing!NoClearedElement
  BY <1>1 DEF VecData, Growing!NoClearedElement
<1>4. ASSUME iter # Null
      PROVE  /\ AtStep(iter, steps, born) /\ born <= cap /\ (intact => len = born /\ iter.vec = block)
             /\ steps \in Nat /\ born \in Nat /\ cap \in Nat /\ len \in Nat
  BY <1>1, <1>4, VecFacts DEF VecIteration, VecData
<1>5. Growing!IterYieldsAll
  <2> SUFFICES ASSUME iter # Null, intact, len > 0
               PROVE  iter.cur = IF steps < len THEN [block |-> block, idx |-> steps] ELSE Null
    BY DEF Growing!IterYieldsAll
  <2> QED BY <1>4 DEF AtStep
<1>6. Growing!IterInBounds
  <2> SUFFICES ASSUME iter # Null, iter.vec = block, born > 0,
                      NEW p \in {iter.cur, iter.next} \ {Null}
               PROVE  p.block = block /\ p.idx < born /\ p.idx < cap
    BY DEF Growing!IterInBounds
  <2>1. \/ p = [block |-> block, idx |-> steps] /\ steps < born
        \/ p = [block |-> block, idx |-> steps + 1] /\ steps + 1 < born
    BY <1>4 DEF AtStep
  <2> QED BY <1>4, <2>1
<1> QED BY <1>2, <1>3, <1>5, <1>6
---------------------------------------------------------------------------
(* Counting values in arrays.                                              *)

(* A one-to-one correspondence keeps the number of elements.               *)
Pairs(f, A, B) ==
    /\ \A a \in A : f[a] \in B
    /\ \A a, b \in A : f[a] = f[b] => a = b
    /\ \A b \in B : \E a \in A : f[a] = b

(* Sets that correspond have the same number of elements.                  *)
LEMMA PairedCount ==
    ASSUME NEW A, NEW B, IsFiniteSet(A), NEW f, Pairs(f, A, B)
    PROVE  Cardinality(B) = Cardinality(A)
<1> DEFINE g == [a \in A |-> f[a]]
<1>1. g \in [A -> B] /\ \A a \in A : g[a] = f[a]
  BY DEF Pairs
<1>2. \A a, b \in A : g[a] = g[b] => a = b
  BY DEF Pairs
<1>3. \A b \in B : \E a \in A : g[a] = b
  BY DEF Pairs
<1> HIDE DEF g
<1>4. g \in Bijection(A, B)
  BY <1>1, <1>2, <1>3, Fun_IsBij
<1>5. ExistsBijection(A, B)
  BY <1>4 DEF ExistsBijection
<1> QED BY <1>5, FS_Bijection

(* The places of an array put in another order.                            *)
IsOrder(n, o) ==
    /\ n \in Nat /\ o \in [0 .. n - 1 -> 0 .. n - 1]
    /\ \A i, j \in 0 .. n - 1 : o[i] = o[j] => i = j

(* Every place is taken by an element.                                     *)
LEMMA OrderIsOnto ==
    ASSUME NEW n, NEW o, IsOrder(n, o)
    PROVE  \A j \in 0 .. n - 1 : \E i \in 0 .. n - 1 : o[i] = j
<1>1. n \in Nat /\ IsFiniteSet(0 .. n - 1)
  <2>1. 0 \in Int /\ n - 1 \in Int
    BY DEF IsOrder
  <2> QED BY <2>1, FS_Interval DEF IsOrder
<1>2. o \in Injection(0 .. n - 1, 0 .. n - 1)
  BY Fun_IsInj DEF IsOrder
<1>3. o \in Surjection(0 .. n - 1, 0 .. n - 1)
  BY <1>1, <1>2, FS_Injection
<1> QED BY <1>3 DEF Surjection

(* Where a value is among the first n of an array, and how often.          *)
Places(v, d, n) == {i \in 0 .. n - 1 : d[i] = v}
Times(v, d, n) == Cardinality(Places(v, d, n))

(* The places where a value is are finitely many.                          *)
LEMMA PlacesFinite ==
    ASSUME NEW n \in Nat, NEW d, NEW v
    PROVE  IsFiniteSet(Places(v, d, n)) /\ Times(v, d, n) \in Nat
<1>1. IsFiniteSet(0 .. n - 1)
  <2>1. 0 \in Int /\ n - 1 \in Int
    OBVIOUS
  <2> QED BY <2>1, FS_Interval
<1>2. Places(v, d, n) \in SUBSET (0 .. n - 1)
  BY DEF Places
<1>3. IsFiniteSet(Places(v, d, n))
  BY <1>1, <1>2, FS_Subset
<1> QED BY <1>3, FS_CardinalityType DEF Times

(* The elements of d in another order are those of e.                      *)
Reorders(n, o, d, e) == IsOrder(n, o) /\ \A i \in 0 .. n - 1 : e[i] = d[o[i]]

(* Another order of the elements leaves each value as often.               *)
LEMMA OrderKeepsTimes ==
    ASSUME NEW n, NEW o, NEW d, NEW e, Reorders(n, o, d, e), NEW v
    PROVE  Times(v, e, n) = Times(v, d, n)
<1> IsOrder(n, o) /\ \A i \in 0 .. n - 1 : e[i] = d[o[i]]
  BY DEF Reorders
<1>1. n \in Nat /\ \A i \in 0 .. n - 1 : o[i] \in 0 .. n - 1
  BY DEF IsOrder
<1>2. \A a \in Places(v, e, n) : o[a] \in Places(v, d, n)
  BY <1>1 DEF Places
<1>3. \A a, b \in Places(v, e, n) : o[a] = o[b] => a = b
  BY DEF IsOrder, Places
<1>4. \A b \in Places(v, d, n) : \E a \in Places(v, e, n) : o[a] = b
  BY OrderIsOnto DEF Places
<1>5. IsFiniteSet(Places(v, e, n))
  BY <1>1, PlacesFinite
<1>6. Pairs(o, Places(v, e, n), Places(v, d, n))
  BY <1>2, <1>3, <1>4 DEF Pairs
<1> QED BY <1>5, <1>6, PairedCount DEF Times

(* A sequence holds a value as often as the array it shows.                *)
LEMMA ElementsTimes ==
    ASSUME NEW n \in Nat, NEW d, NEW v
    PROVE  Cardinality({i \in DOMAIN Elements(d, n) : Elements(d, n)[i] = v}) = Times(v, d, n)
<1> DEFINE A == Places(v, d, n)
           B == {i \in DOMAIN Elements(d, n) : Elements(d, n)[i] = v}
           o == [i \in 0 .. n - 1 |-> i + 1]
<1>1. \A i \in 0 .. n - 1 : o[i] = i + 1 /\ i + 1 \in 1 .. n /\ (i + 1) - 1 = i
  OBVIOUS
<1>2. \A j \in 1 .. n : j - 1 \in 0 .. n - 1 /\ (j - 1) + 1 = j
  OBVIOUS
<1>3. B = {i \in 1 .. n : d[i - 1] = v}
  BY DEF Elements
<1> HIDE DEF o
<1>4. \A a \in A : o[a] \in B
  BY <1>1, <1>3 DEF Places
<1>5. \A a, b \in A : o[a] = o[b] => a = b
  BY <1>1 DEF Places
<1>6. \A b \in B : \E a \in A : o[a] = b
  <2> SUFFICES ASSUME NEW b \in B PROVE \E a \in A : o[a] = b
    OBVIOUS
  <2>1. b - 1 \in A /\ o[b - 1] = b
    BY <1>1, <1>2, <1>3 DEF Places
  <2> QED BY <2>1
<1>7. IsFiniteSet(A)
  BY PlacesFinite
<1> HIDE DEF A, B
<1>8. Pairs(o, A, B)
  BY <1>4, <1>5, <1>6 DEF Pairs
<1>9. Cardinality(B) = Cardinality(A)
  BY <1>7, <1>8, PairedCount
<1> QED BY <1>9 DEF A, B, Times
---------------------------------------------------------------------------
(* binary_search in the vector.                                            *)
Ranges == [lo : 0 .. len, hi : 0 .. len, found : BOOLEAN]

(* What one comparison leaves of a range.                                  *)
LEMMA HalvedFacts ==
    ASSUME VecData, \A i, j \in 0 .. len - 1 : i < j => data[i] <= data[j],
           NEW v \in Number, NEW r \in Ranges, r.lo < r.hi
    PROVE  /\ Growing!Halved(r, v) \in Ranges
           /\ Growing!Halved(r, v).found => r.found \/ \E i \in 0 .. len - 1 : data[i] = v
           /\ Growing!Halved(r, v).hi - Growing!Halved(r, v).lo < r.hi - r.lo
           /\ ~Growing!Halved(r, v).found =>
                 ~r.found /\ \A i \in 0 .. len - 1 : data[i] = v /\ r.lo <= i /\ i < r.hi =>
                     Growing!Halved(r, v).lo <= i /\ i < Growing!Halved(r, v).hi
<1> DEFINE m == r.lo + (r.hi - r.lo) \div 2
           q == Growing!Halved(r, v)
<1>1. /\ len \in Nat /\ r.lo \in 0 .. len /\ r.hi \in 0 .. len /\ r.found \in BOOLEAN
      /\ \A i \in 0 .. len - 1 : data[i] \in Nat
      /\ v \in Nat
  <2>1. len \in Nat /\ \A i \in 0 .. len - 1 : data[i] \in Number
    BY DEF VecData
  <2>2. r.lo \in 0 .. len /\ r.hi \in 0 .. len /\ r.found \in BOOLEAN
    BY DEF Ranges
  <2> QED BY <2>1, <2>2, VecFacts
<1>2. m \in 0 .. len - 1 /\ r.lo <= m /\ m < r.hi /\ m + 1 \in 0 .. len
  BY <1>1
<1>3. q = CASE data[m] = v -> [lo |-> m, hi |-> m, found |-> TRUE]
            [] data[m] > v -> [r EXCEPT !.hi = m]
            [] data[m] < v -> [r EXCEPT !.lo = m + 1]
  BY DEF Growing!Halved
<1>4. data[m] \in Nat
  BY <1>1, <1>2
<1> HIDE DEF m, q
<1>5. CASE data[m] = v
  <2>1. q = [lo |-> m, hi |-> m, found |-> TRUE]
    BY <1>1, <1>3, <1>4, <1>5
  <2>2. q.lo = m /\ q.hi = m /\ q.found = TRUE /\ q \in Ranges
    <3>1. m \in 0 .. len
      BY <1>1, <1>2
    <3> QED BY <2>1, <3>1 DEF Ranges
  <2>3. q.hi - q.lo < r.hi - r.lo
    BY <1>1, <1>2, <2>2
  <2> QED BY <1>2, <1>5, <2>2, <2>3 DEF q
<1>6. CASE data[m] > v
  <2>1. q = [r EXCEPT !.hi = m]
    BY <1>1, <1>3, <1>4, <1>6
  <2>2. q.lo = r.lo /\ q.hi = m /\ q.found = r.found /\ q \in Ranges
    <3>1. m \in 0 .. len
      BY <1>1, <1>2
    <3> QED BY <1>1, <2>1, <3>1 DEF Ranges
  <2>3. q.hi - q.lo < r.hi - r.lo
    BY <1>1, <1>2, <2>2
  <2>4. ASSUME NEW i \in 0 .. len - 1, data[i] = v PROVE i < m
    <3>1. m < i => data[m] <= data[i]
      BY <1>2
    <3> QED BY <1>1, <1>2, <1>4, <1>6, <2>4, <3>1
  <2> QED BY <2>2, <2>3, <2>4 DEF q
<1>7. CASE data[m] < v
  <2>1. q = [r EXCEPT !.lo = m + 1]
    BY <1>1, <1>3, <1>4, <1>7
  <2>2. q.lo = m + 1 /\ q.hi = r.hi /\ q.found = r.found /\ q \in Ranges
    BY <1>1, <1>2, <2>1 DEF Ranges
  <2>3. q.hi - q.lo < r.hi - r.lo
    BY <1>1, <1>2, <2>2
  <2>4. ASSUME NEW i \in 0 .. len - 1, data[i] = v PROVE m + 1 <= i
    <3>1. i < m => data[i] <= data[m]
      BY <1>2
    <3> QED BY <1>1, <1>2, <1>4, <1>7, <2>4, <3>1
  <2> QED BY <2>2, <2>3, <2>4 DEF q
<1> QED BY <1>1, <1>4, <1>5, <1>6, <1>7

(* The search of a sorted vector that is not empty finds what is there and *)
(* nothing else.                                                           *)
LEMMA HalvesDecides ==
    ASSUME VecData, \A i, j \in 0 .. len - 1 : i < j => data[i] <= data[j],
           NEW v \in Number, len > 0
    PROVE  Growing!Halves(v) <=> \E i \in 0 .. len - 1 : data[i] = v
<1>1. cap \in Nat /\ cap >= 1 /\ len \in 1 .. cap /\ len \in Nat /\ cap \in 0 .. cap
  BY DEF VecData
<1> DEFINE r0 == [lo |-> 0, hi |-> len, found |-> FALSE]
           G(f) == [t \in 0 .. cap |->
                      IF t = 0 THEN r0
                      ELSE IF t > 1 /\ f[t - 1].lo >= f[t - 1].hi THEN f[t - 1]
                      ELSE Growing!Halved(f[t - 1], v)]
           F == CHOOSE f : f = G(f)
           g == [p \in (1 .. cap) \X Ranges |->
                      IF p[2].lo >= p[2].hi THEN p[2] ELSE Growing!Halved(p[2], v)]
<1>2. r0 \in Ranges /\ r0.lo = 0 /\ r0.hi = len /\ r0.found = FALSE
  BY <1>1 DEF Ranges
<1>3. g \in [(1 .. cap) \X Ranges -> Ranges]
  <2>1. ASSUME NEW r \in Ranges, ~(r.lo >= r.hi) PROVE Growing!Halved(r, v) \in Ranges
    <3>1. r.lo < r.hi
      BY <1>1, <2>1 DEF Ranges
    <3> QED BY <3>1, HalvedFacts
  <2> QED BY <2>1
<1>4. \A t \in 1 .. cap, r \in Ranges :
          g[<<t, r>>] = IF r.lo >= r.hi THEN r ELSE Growing!Halved(r, v)
  OBVIOUS
<1> HIDE DEF g, r0
<1>5. \E f : f = G(f)
  <2>1. PICK f : IsRecursion(f, Ranges, cap, r0, g)
    BY <1>1, <1>2, <1>3, RecursionExists
  <2>2. f \in [0 .. cap -> Ranges] /\ \A t \in 0 .. cap : f[t] = IF t = 0 THEN r0 ELSE g[<<t, f[t - 1]>>]
    BY <2>1 DEF IsRecursion
  <2>3. ASSUME NEW t \in 0 .. cap, t # 0
        PROVE  f[t] = IF t > 1 /\ f[t - 1].lo >= f[t - 1].hi THEN f[t - 1]
                      ELSE Growing!Halved(f[t - 1], v)
    <3>1. t \in 1 .. cap /\ t - 1 \in 0 .. cap /\ (t > 1 \/ t - 1 = 0)
      BY <1>1, <2>3
    <3>2. f[t - 1] \in Ranges
      BY <2>2, <3>1
    <3>3. f[t] = IF f[t - 1].lo >= f[t - 1].hi THEN f[t - 1] ELSE Growing!Halved(f[t - 1], v)
      BY <1>4, <2>2, <2>3, <3>1, <3>2
    <3>4. t - 1 = 0 => ~(f[t - 1].lo >= f[t - 1].hi)
      <4>1. 0 \in 0 .. cap
        BY <1>1
      <4>2. f[0] = r0
        BY <2>2, <4>1
      <4> QED BY <1>1, <1>2, <4>2
    <3> QED BY <3>1, <3>3, <3>4
  <2>4. f = G(f)
    BY <2>2, <2>3
  <2> QED BY <2>4
<1>6. Growing!Halves(v) = F[cap].found
  BY DEF Growing!Halves, r0
<1> HIDE DEF G
<1>7. F = G(F)
  BY <1>5
<1> HIDE DEF F
<1>8. /\ F[0] = r0
      /\ \A t \in 1 .. cap :
            F[t] = IF t > 1 /\ F[t - 1].lo >= F[t - 1].hi THEN F[t - 1]
                   ELSE Growing!Halved(F[t - 1], v)
  <2>1. \A t \in 0 .. cap :
            F[t] = IF t = 0 THEN r0
                   ELSE IF t > 1 /\ F[t - 1].lo >= F[t - 1].hi THEN F[t - 1]
                   ELSE Growing!Halved(F[t - 1], v)
    BY <1>7 DEF G
  <2>2. 0 \in 0 .. cap /\ \A t \in 1 .. cap : t \in 0 .. cap /\ t # 0
    BY <1>1
  <2> QED BY <2>1, <2>2
<1> DEFINE There(i) == i \in 0 .. len - 1 /\ data[i] = v
           Left(r, t) == /\ r \in Ranges
                         /\ r.found => \E i \in 0 .. len - 1 : There(i)
                         /\ ~r.found => \A i \in 0 .. len - 1 : There(i) => r.lo <= i /\ i < r.hi
                         /\ r.lo >= r.hi \/ r.hi - r.lo <= len - t
           P == {t \in 0 .. cap : Left(F[t], t)}
<1>9. 0 \in P
  <2>1. \A i \in 0 .. len - 1 : 0 <= i /\ i < len
    BY <1>1
  <2>2. len - 0 <= len - 0
    BY <1>1
  <2> QED BY <1>1, <1>2, <1>8, <2>1, <2>2
<1>10. ASSUME NEW t \in 0 .. cap - 1, t \in P PROVE t + 1 \in P
  <2>1. t + 1 \in 1 .. cap /\ t + 1 \in 0 .. cap /\ (t + 1) - 1 = t /\ (t + 1 > 1 \/ t = 0)
    BY <1>1
  <2>2. Left(F[t], t)
    BY <1>10
  <2>3. F[t] \in Ranges /\ F[t].lo \in Int /\ F[t].hi \in Int
    BY <1>1, <2>2 DEF Ranges
  <2>4. F[t + 1] = IF t + 1 > 1 /\ F[t].lo >= F[t].hi THEN F[t] ELSE Growing!Halved(F[t], v)
    BY <1>8, <2>1
  <2>5. CASE F[t].lo >= F[t].hi
    <3>1. t # 0
      BY <1>1, <1>2, <1>8, <2>5
    <3>2. F[t + 1] = F[t]
      BY <2>1, <2>4, <2>5, <3>1
    <3> QED BY <2>1, <2>2, <2>5, <3>2
  <2>6. CASE ~(F[t].lo >= F[t].hi)
    <3>1. F[t].lo < F[t].hi /\ F[t + 1] = Growing!Halved(F[t], v)
      BY <2>3, <2>4, <2>6
    <3> DEFINE q == F[t + 1]
    <3>2. /\ q \in Ranges
          /\ q.found => F[t].found \/ \E i \in 0 .. len - 1 : data[i] = v
          /\ q.hi - q.lo < F[t].hi - F[t].lo
          /\ ~q.found => ~F[t].found /\
                 \A i \in 0 .. len - 1 : data[i] = v /\ F[t].lo <= i /\ i < F[t].hi =>
                     q.lo <= i /\ i < q.hi
      BY <2>3, <3>1, HalvedFacts
    <3>3. q.hi - q.lo <= len - (t + 1)
      <4>1. q.lo \in Int /\ q.hi \in Int
        BY <1>1, <3>2 DEF Ranges
      <4>2. F[t].hi - F[t].lo <= len - t
        BY <2>2, <2>6
      <4> QED BY <1>1, <2>3, <3>2, <4>1, <4>2
    <3> HIDE DEF q
    <3>4. Left(q, t + 1)
      BY <2>2, <3>2, <3>3
    <3> QED BY <2>1, <3>4 DEF q
  <2> QED BY <2>5, <2>6
<1>11. cap \in P
  <2> HIDE DEF P
  <2> QED BY <1>1, <1>9, <1>10, InductionTo
<1>12. Left(F[cap], cap)
  BY <1>11
<1>13. F[cap].lo \in Int /\ F[cap].hi \in Int
  BY <1>1, <1>12 DEF Ranges
<1>14. F[cap].lo >= F[cap].hi
  BY <1>1, <1>12, <1>13
<1>15. ~F[cap].found => \A i \in 0 .. len - 1 : data[i] # v
  <2>1. \A i \in 0 .. len - 1 : ~(F[cap].lo <= i /\ i < F[cap].hi)
    BY <1>13, <1>14
  <2> QED BY <1>12, <2>1
<1> QED BY <1>6, <1>12, <1>15
---------------------------------------------------------------------------
(* The growing vector as a sequence.                                       *)

(* What the sequence is.                                                   *)
LEMMA VecItems ==
    ASSUME VecData
    PROVE  /\ len \in Nat /\ Growing!Items = Elements(data, len)
           /\ Len(Growing!Items) = len /\ DOMAIN Growing!Items = 1 .. len
           /\ \A i \in 0 .. len - 1 : Growing!Items[i + 1] = data[i]
           /\ \A i \in 1 .. len : Growing!Items[i] = data[i - 1]
           /\ len = 0 <=> Growing!Items = <<>>
<1>1. len \in Nat /\ \A i \in 0 .. len - 1 : data[i] \in Number
  BY DEF VecData
<1>2. Growing!Items = Elements(data, len)
  BY DEF Growing!Items, Elements
<1>3. /\ Growing!Items \in Seq(Number)
      /\ Len(Growing!Items) = len /\ DOMAIN Growing!Items = 1 .. len
      /\ \A i \in 0 .. len - 1 : Growing!Items[i + 1] = data[i]
  BY <1>1, <1>2, ElementsAre
<1>4. \A i \in 1 .. len : Growing!Items[i] = data[i - 1]
  BY DEF Growing!Items
<1>5. len = 0 <=> Growing!Items = <<>>
  BY <1>3, EmptySeq
<1> QED BY <1>1, <1>2, <1>3, <1>4, <1>5

(* The first state.                                                        *)
LEMMA VecAbstractInit == Growing!Init => Growing!V!Init
<1> SUFFICES ASSUME Growing!Init PROVE Growing!V!Init
  OBVIOUS
<1>1. len = 0 /\ reply = Growing!Answer("new", 0, Null, 0) /\ VecData
  BY VecInit DEF Growing!Init, VecInv
<1>2. Growing!Items = <<>>
  BY <1>1, VecItems
<1> QED BY <1>1, <1>2 DEF Growing!V!Init, Growing!V!Answer, Growing!Answer

(* binary_search tells whether a sorted sequence holds the value.          *)
LEMMA VecSearch ==
    ASSUME VecInv, NEW v \in Number, Growing!BinarySearch(v)
    PROVE  Growing!V!Search(v)
<1>1. VecData
  BY DEF VecInv
<1>2. /\ UNCHANGED <<data, len>>
      /\ reply' = Growing!Answer("search", IF Growing!Halves(v) THEN 0 ELSE 1, v, 0)
  BY DEF Growing!BinarySearch, Growing!vector, Growing!Say
<1>3. PICK code \in {0, 1} : code = IF Growing!Halves(v) THEN 0 ELSE 1
  OBVIOUS
<1>4. reply' = Growing!V!Answer("search", code, v, 0) /\ reply'.op = "search" /\ reply'.code = code
  BY <1>2, <1>3 DEF Growing!V!Answer, Growing!Answer
<1>5. ASSUME Growing!Items # <<>>, Growing!V!IsInOrder(Growing!Items)
      PROVE  code = 0 <=> v \in Growing!V!ToSet(Growing!Items)
  <2>1. /\ len \in Nat /\ len > 0 /\ DOMAIN Growing!Items = 1 .. len
        /\ \A i \in 0 .. len - 1 : Growing!Items[i + 1] = data[i]
        /\ \A i \in 1 .. len : Growing!Items[i] = data[i - 1]
    BY <1>1, <1>5, VecItems
  <2>2. \A i, j \in 1 .. len : i < j => Growing!Items[i] <= Growing!Items[j]
    BY <1>5, <2>1 DEF Growing!V!IsInOrder
  <2>3. ASSUME NEW i \in 0 .. len - 1, NEW j \in 0 .. len - 1, i < j PROVE data[i] <= data[j]
    <3>1. i + 1 \in 1 .. len /\ j + 1 \in 1 .. len /\ i + 1 < j + 1
      BY <2>1, <2>3
    <3>2. Growing!Items[i + 1] <= Growing!Items[j + 1]
      BY <2>2, <3>1
    <3> QED BY <2>1, <3>2
  <2>4. Growing!Halves(v) <=> \E i \in 0 .. len - 1 : data[i] = v
    BY <1>1, <2>1, <2>3, HalvesDecides
  <2>5. (\E i \in 0 .. len - 1 : data[i] = v) <=> \E i \in 1 .. len : Growing!Items[i] = v
    <3>1. \A i \in 0 .. len - 1 : i + 1 \in 1 .. len
      BY <2>1
    <3>2. \A i \in 1 .. len : i - 1 \in 0 .. len - 1
      BY <2>1
    <3> QED BY <2>1, <3>1, <3>2
  <2>6. v \in Growing!V!ToSet(Growing!Items) <=> \E i \in 1 .. len : Growing!Items[i] = v
    BY <2>1 DEF Growing!V!ToSet
  <2> QED BY <1>3, <2>4, <2>5, <2>6
<1>6. Growing!Items' = Growing!Items
  BY <1>2 DEF Growing!Items
<1> QED BY <1>4, <1>5, <1>6 DEF Growing!V!Search, Growing!V!Says

(* A sort permutes the sequence into order.                                *)
LEMMA VecSort ==
    ASSUME VecInv, VecInv', Growing!Sort
    PROVE  Growing!V!Sort
<1>1. VecData /\ VecData'
  BY DEF VecInv
<1>2. PICK order \in [0 .. len - 1 -> 0 .. len - 1] :
         /\ \A i, j \in 0 .. len - 1 : order[i] = order[j] => i = j
         /\ \A i, j \in 0 .. len - 1 : i < j => data'[i] <= data'[j]
         /\ \A i \in 0 .. len - 1 : data'[i] = data[order[i]]
  BY <1>1, SortedData
<1>3. len' = len /\ len \in Nat
  BY <1>1 DEF VecData, Growing!Sort
<1>4. Growing!Items = Elements(data, len) /\ Growing!Items' = Elements(data', len)
  BY <1>3 DEF Growing!Items, Elements
<1>5. IsOrder(len, order)
  BY <1>2, <1>3 DEF IsOrder
<1>6. ASSUME NEW v \in Number
      PROVE  Growing!V!Cardinality({i \in DOMAIN Growing!Items : Growing!Items[i] = v})
               = Growing!V!Cardinality({i \in DOMAIN Growing!Items' : Growing!Items'[i] = v})
  <2>1. \A S : Growing!V!Cardinality(S) = Cardinality(S)
    BY DEF Growing!V!Cardinality, Cardinality
  <2>2. Times(v, data', len) = Times(v, data, len)
    <3>1. Reorders(len, order, data, data')
      BY <1>2, <1>5 DEF Reorders
    <3> QED BY <3>1, OrderKeepsTimes
  <2>3. Cardinality({i \in DOMAIN Elements(data, len) : Elements(data, len)[i] = v})
          = Times(v, data, len)
    BY <1>3, ElementsTimes
  <2>4. Cardinality({i \in DOMAIN Elements(data', len) : Elements(data', len)[i] = v})
          = Times(v, data', len)
    BY <1>3, ElementsTimes
  <2> QED BY <1>4, <2>1, <2>2, <2>3, <2>4
<1>7. /\ DOMAIN Growing!Items' = 1 .. len /\ Len(Growing!Items') = len /\ Len(Growing!Items) = len
      /\ \A i \in 1 .. len : Growing!Items'[i] = data'[i - 1]
  <2>1. \A i \in 0 .. len - 1 : data'[i] \in Number /\ data[i] \in Number
    BY <1>1, <1>3 DEF VecData
  <2>2. Len(Elements(data', len)) = len /\ DOMAIN Elements(data', len) = 1 .. len
    BY <1>3, <2>1, ElementsAre
  <2>3. Len(Elements(data, len)) = len
    BY <1>3, <2>1, ElementsAre
  <2>4. \A i \in 1 .. len : Elements(data', len)[i] = data'[i - 1]
    BY DEF Elements
  <2> QED BY <1>4, <2>2, <2>3, <2>4
<1>8. Growing!V!IsInOrder(Growing!Items')
  <2>1. ASSUME NEW i \in 1 .. len, NEW j \in 1 .. len, i < j
        PROVE  Growing!Items'[i] <= Growing!Items'[j]
    <3>1. i - 1 \in 0 .. len - 1 /\ j - 1 \in 0 .. len - 1 /\ i - 1 < j - 1
      BY <1>3, <2>1
    <3>2. data'[i - 1] <= data'[j - 1]
      BY <1>2, <3>1
    <3> QED BY <1>7, <3>2
  <2>2. \A i \in 1 .. len : Growing!Items'[i] <= Growing!Items'[i]
    <3>1. \A i \in 1 .. len : i - 1 \in 0 .. len' - 1
      BY <1>3
    <3>2. \A i \in 1 .. len : Growing!Items'[i] \in Nat
      BY <1>1, <1>7, <3>1, VecFacts DEF VecData
    <3> QED BY <3>2
  <2> QED BY <1>7, <2>1, <2>2 DEF Growing!V!IsInOrder
<1>9. reply' = Growing!Answer("sort", 0, Null, 0)
  BY DEF Growing!Sort, Growing!Say
<1> QED BY <1>6, <1>7, <1>8, <1>9
        DEF Growing!V!Sort, Growing!V!Says, Growing!V!Answer, Growing!Answer

(* Every call does to the sequence what it should.                         *)
LEMMA VecAbstractStep ==
    ASSUME VecInv, VecInv', Growing!Next
    PROVE  Growing!V!Next \/ UNCHANGED Growing!V!vars
<1> USE DEF Growing!Say
<1>1. VecData
  BY DEF VecInv
<1>2. /\ len \in Nat /\ Growing!Items = Elements(data, len)
      /\ Len(Growing!Items) = len /\ DOMAIN Growing!Items = 1 .. len
      /\ \A i \in 0 .. len - 1 : Growing!Items[i + 1] = data[i]
      /\ \A i \in 1 .. len : Growing!Items[i] = data[i - 1]
      /\ len = 0 <=> Growing!Items = <<>>
  BY <1>1, VecItems
<1>3. Growing!Items' = Elements(data', len')
  BY DEF Growing!Items, Elements
<1>4. ASSUME NEW v \in Number, Growing!Push(v) PROVE Growing!V!Push(v)
  <2>1. len' = len + 1 /\ (\A i \in 0 .. len - 1 : data'[i] = data[i]) /\ data'[len] = v
    BY <1>1, <1>4, PushedData
  <2>2. Elements(data', len + 1) = Append(Elements(data, len), v)
    <3>1. len \in Nat /\ (\A i \in 0 .. len - 1 : data'[i] = data[i]) /\ data'[len] = v
      BY <1>2, <2>1
    <3> QED BY <3>1, ElementsPushed
  <2>3. reply' = Growing!Answer("push", 0, Null, 0)
    BY <1>4 DEF Growing!Push
  <2> QED BY <1>2, <1>3, <2>1, <2>2, <2>3
          DEF Growing!V!Push, Growing!V!Says, Growing!V!Answer, Growing!Answer
<1>5. ASSUME NEW i \in 0 .. len, Growing!PushOwn(i)
      PROVE  Growing!V!Next \/ UNCHANGED Growing!V!vars
  <2>1. CASE len = cap
    <3>1. UNCHANGED <<data, len, reply>>
      BY <1>5, <2>1 DEF Growing!PushOwn, Growing!vector
    <3> QED BY <3>1 DEF Growing!V!vars, Growing!Items
  <2>2. CASE len # cap
    <3>1. i < len /\ Growing!Push(data[i])
      BY <1>5, <2>2 DEF Growing!PushOwn
    <3>2. data[i] \in Number
      BY <1>1, <3>1 DEF VecData
    <3> QED BY <1>4, <3>1, <3>2 DEF Growing!V!Next
  <2> QED BY <2>1, <2>2
<1>6. CASE Growing!Pop
  <2>1. len > 0 /\ len' = len - 1 /\ data' = data /\ reply' = Growing!Answer("pop", 0, data[len - 1], 0)
    BY <1>6 DEF Growing!Pop
  <2>2. \A j \in 0 .. len - 2 : data'[j] = data[j]
    BY <2>1
  <2>3. /\ Elements(data, len) # <<>>
        /\ Elements(data, len)[Len(Elements(data, len))] = data[len - 1]
        /\ SubSeq(Elements(data, len), 1, Len(Elements(data, len)) - 1) = Elements(data', len - 1)
    <3>1. len \in Nat /\ len > 0
      BY <1>2, <2>1
    <3> QED BY <2>2, <3>1, ElementsPopped
  <2>4. Growing!V!Pop
    BY <1>2, <1>3, <2>1, <2>3
       DEF Growing!V!Pop, Growing!V!Says, Growing!V!Answer, Growing!Answer, Growing!V!Last, Growing!V!Front
  <2> QED BY <2>4 DEF Growing!V!Next
<1>7. ASSUME NEW i \in 0 .. len, Growing!TakeOut(i) PROVE Growing!V!TakeOut(i)
  <2>1. /\ i \in 0 .. len - 1 /\ len' = len - 1
        /\ \A j \in 0 .. len - 2 : data'[j] = IF j < i THEN data[j] ELSE data[j + 1]
    BY <1>1, <1>7, TakenOutData
  <2>2. reply' = Growing!Answer("remove_at", 0, data[i], i) /\ i < len
    BY <1>7 DEF Growing!TakeOut
  <2>3. SubSeq(Elements(data, len), 1, (i + 1) - 1)
          \o SubSeq(Elements(data, len), (i + 1) + 1, Len(Elements(data, len)))
           = Elements(data', len - 1)
    BY <1>2, <2>1, ElementsRemoved
  <2> QED BY <1>2, <1>3, <2>1, <2>2, <2>3
          DEF Growing!V!TakeOut, Growing!V!Says, Growing!V!Answer, Growing!Answer, Growing!V!RemoveAt
<1>8. CASE Growing!Sort
  BY <1>8, VecSort DEF Growing!V!Next
<1>9. CASE Growing!Free
  <2>1. UNCHANGED <<data, len>> /\ reply' = Growing!Answer("free", 0, Growing!Items, 0)
    BY <1>9 DEF Growing!Free
  <2>2. Growing!V!Free
    BY <1>2, <1>3, <2>1 DEF Growing!V!Free, Growing!V!Says, Growing!V!Answer, Growing!Answer
  <2> QED BY <2>2 DEF Growing!V!Next
<1>10. ASSUME NEW i \in 0 .. len, Growing!GetAt(i) \/ Growing!TakeOutBeyond(i)
       PROVE  Growing!V!Next
  <2>1. UNCHANGED <<data, len>>
    BY <1>10 DEF Growing!GetAt, Growing!TakeOutBeyond, Growing!vector
  <2>2. CASE i < len /\ Growing!GetAt(i)
    <3>1. reply' = Growing!Answer("get_at", 0, data[i], i) /\ i \in 0 .. len - 1
      BY <1>2, <2>2 DEF Growing!GetAt
    <3>2. Growing!V!GetAt(i)
      BY <1>2, <1>3, <2>1, <2>2, <3>1
         DEF Growing!V!GetAt, Growing!V!Says, Growing!V!Answer, Growing!Answer
    <3> QED BY <1>2, <3>2 DEF Growing!V!Next
  <2>3. CASE ~(i < len) \/ Growing!TakeOutBeyond(i)
    <3>1. i = len
      BY <1>2, <2>3 DEF Growing!TakeOutBeyond
    <3>2. \E op \in {"remove_at", "get_at"} : reply' = Growing!Answer(op, 1, Null, len)
      BY <1>2, <1>10, <2>3, <3>1 DEF Growing!TakeOutBeyond, Growing!GetAt
    <3>3. Growing!V!Fails
      BY <1>2, <1>3, <2>1, <3>2
         DEF Growing!V!Fails, Growing!V!Refuse, Growing!V!Says, Growing!V!Answer, Growing!Answer
    <3> QED BY <3>3 DEF Growing!V!Next
  <2> QED BY <1>10, <2>2, <2>3
<1>11. ASSUME NEW v \in Number, Growing!Find(v) PROVE Growing!V!Next
  <2>1. UNCHANGED <<data, len>> /\ Growing!Items' = Growing!Items
    BY <1>11 DEF Growing!Find, Growing!vector, Growing!Items
  <2>2. CASE \E i \in 0 .. len - 1 : /\ data[i] = v /\ \A j \in 0 .. i - 1 : data[j] # v
                                     /\ reply' = Growing!Answer("find", 0, v, i)
    <3>1. PICK i \in 0 .. len - 1 : /\ data[i] = v /\ \A j \in 0 .. i - 1 : data[j] # v
                                    /\ reply' = Growing!Answer("find", 0, v, i)
      BY <2>2
    <3>2. i < len /\ i \in 0 .. len /\ \A j \in 1 .. i : j - 1 \in 0 .. i - 1 /\ j \in 1 .. len
      BY <1>2, <3>1
    <3>3. Growing!Items[i + 1] = v /\ \A j \in 1 .. i : Growing!Items[j] # v
      BY <1>2, <3>1, <3>2
    <3>4. Growing!V!Find(v, i)
      BY <1>2, <2>1, <3>1, <3>2, <3>3
         DEF Growing!V!Find, Growing!V!Says, Growing!V!Answer, Growing!Answer
    <3> QED BY <1>2, <3>2, <3>4 DEF Growing!V!Next
  <2>3. CASE (\A i \in 0 .. len - 1 : data[i] # v) /\ reply' = Growing!Answer("find", 1, Null, 0)
    <3>1. \A i \in 1 .. len : i - 1 \in 0 .. len - 1
      BY <1>2
    <3>2. \A i \in DOMAIN Growing!Items : Growing!Items[i] # v
      BY <1>2, <2>3, <3>1
    <3>3. Growing!V!NotFound(v)
      BY <2>3, <3>2 DEF Growing!V!NotFound, Growing!V!Says, Growing!V!Answer, Growing!Answer
    <3>4. Growing!V!Fails
      BY <2>1, <3>3 DEF Growing!V!Fails
    <3> QED BY <3>4 DEF Growing!V!Next
  <2> QED BY <1>11, <2>2, <2>3 DEF Growing!Find
<1>12. CASE Growing!PushFails \/ Growing!PopEmpty
  <2>1. /\ UNCHANGED <<data, len>>
        /\ \/ reply' = Growing!Answer("push", 1, Null, 0)
           \/ len = 0 /\ reply' = Growing!Answer("pop", 1, Null, 0)
    BY <1>12 DEF Growing!PushFails, Growing!PopEmpty, Growing!vector
  <2>2. Growing!V!Fails
    BY <1>2, <1>3, <2>1
       DEF Growing!V!Fails, Growing!V!Refuse, Growing!V!Says, Growing!V!Answer, Growing!Answer
  <2> QED BY <2>2 DEF Growing!V!Next
<1>13. CASE Growing!SortStops \/ Growing!IterNew \/ Growing!IterNext \/ Growing!IterNextFreed
  <2>1. UNCHANGED <<data, len, reply>>
    BY <1>13 DEF Growing!SortStops, Growing!IterNew, Growing!IterNext, Growing!IterNextFreed, Growing!vector
  <2> QED BY <2>1 DEF Growing!V!vars, Growing!Items
<1>14. ASSUME NEW v \in Number, Growing!BinarySearch(v) PROVE Growing!V!Next
  BY <1>14, VecSearch DEF Growing!V!Next
<1>15. 0 .. len = 0 .. Len(Growing!Items)
  BY <1>2
<1> QED BY <1>4, <1>5, <1>6, <1>7, <1>8, <1>9, <1>10, <1>11, <1>12, <1>13, <1>14, <1>15
        DEF Growing!Next, Growing!V!Next
---------------------------------------------------------------------------
(* The string.                                                             *)

(* What is assumed of the string.                                          *)
LEMMA StringFacts ==
    /\ Char \subseteq 1 .. Large /\ MaxGiven \in Nat /\ MaxGiven <= Large - 1
    /\ Small \in Nat /\ Small > 0 /\ Large \in Nat /\ Small + 2 < Large
BY ContainerAssumption DEF String!SizeAssumption

(* The bytes of a buffer.                                                  *)
Byte == Char \cup {0}

(* The strings that clients pass.                                          *)
LEMMA GivenString ==
    ASSUME NEW s \in String!Strings
    PROVE  s \in Seq(Byte) /\ s \in Seq(Char) /\ Len(s) \in Nat /\ Len(s) <= MaxGiven
<1>1. PICK m \in 0 .. MaxGiven : s \in [1 .. m -> Char]
  BY DEF String!Strings, String!BoundedSeq, String!SeqOf
<1>2. m \in Nat /\ m <= MaxGiven
  BY <1>1, StringFacts
<1>3. s \in Seq(Char) /\ Len(s) = m
  BY <1>1, <1>2, IntervalIsSeq
<1>4. s \in [1 .. m -> Byte]
  BY <1>1 DEF Byte
<1>5. s \in Seq(Byte)
  BY <1>2, <1>4, IntervalIsSeq
<1> QED BY <1>2, <1>3, <1>5

(* The first n elements of a sequence.                                     *)
LEMMA Beginning ==
    ASSUME NEW S, NEW d \in Seq(S), NEW n \in Nat, n <= Len(d)
    PROVE  /\ SubSeq(d, 1, n) \in Seq(S) /\ Len(SubSeq(d, 1, n)) = n
           /\ \A i \in 1 .. n : SubSeq(d, 1, n)[i] = d[i]
<1>1. \A i \in 1 .. n : d[i] \in S
  BY LenProperties, ElementOfSeq
<1>2. /\ SubSeq(d, 1, n) \in Seq(S)
      /\ Len(SubSeq(d, 1, n)) = IF 1 <= n THEN n - 1 + 1 ELSE 0
      /\ \A i \in 1 .. n - 1 + 1 : SubSeq(d, 1, n)[i] = d[1 + i - 1]
  <2>1. 1 \in Int /\ n \in Int
    OBVIOUS
  <2> QED BY <1>1, <2>1, SubSeqProperties
<1>3. /\ (IF 1 <= n THEN n - 1 + 1 ELSE 0) = n
      /\ n - 1 + 1 = n /\ \A i \in 1 .. n : 1 + i - 1 = i
  OBVIOUS
<1> QED BY <1>2, <1>3

(* What a sequence begins with.                                            *)
LEMMA BeginsWith ==
    ASSUME NEW S, NEW d \in Seq(S), NEW q \in Seq(S), Len(q) <= Len(d),
           \A i \in 1 .. Len(q) : d[i] = q[i]
    PROVE  SubSeq(d, 1, Len(q)) = q
<1>1. Len(q) \in Nat
  BY LenProperties
<1>2. /\ SubSeq(d, 1, Len(q)) \in Seq(S) /\ Len(SubSeq(d, 1, Len(q))) = Len(q)
      /\ \A i \in 1 .. Len(q) : SubSeq(d, 1, Len(q))[i] = d[i]
  BY <1>1, Beginning
<1> QED BY <1>2, SeqEqual

(* Cleared characters.                                                     *)
LEMMA ZerosAre ==
    ASSUME NEW n \in Nat
    PROVE  /\ String!Zeros(n) \in Seq(Byte) /\ Len(String!Zeros(n)) = n
           /\ \A i \in 1 .. n : String!Zeros(n)[i] = 0
<1>1. String!Zeros(n) \in [1 .. n -> Byte] /\ \A i \in 1 .. n : String!Zeros(n)[i] = 0
  BY DEF String!Zeros, Byte
<1> QED BY <1>1, IntervalIsSeq

(* Characters in a larger buffer.                                          *)
LEMMA PaddedText ==
    ASSUME NEW s \in Seq(Byte), NEW n \in Nat, Len(s) <= n
    PROVE  /\ String!Padded(s, n) \in Seq(Byte) /\ Len(String!Padded(s, n)) = n
           /\ \A i \in 1 .. Len(s) : String!Padded(s, n)[i] = s[i]
           /\ \A i \in 1 .. n : i > Len(s) => String!Padded(s, n)[i] = 0
           /\ SubSeq(String!Padded(s, n), 1, Len(s)) = s
<1>1. Len(s) \in Nat /\ n - Len(s) \in Nat
  BY LenProperties
<1> DEFINE z == String!Zeros(n - Len(s))
           p == String!Padded(s, n)
<1>2. z \in Seq(Byte) /\ Len(z) = n - Len(s) /\ \A i \in 1 .. n - Len(s) : z[i] = 0
  BY <1>1, ZerosAre
<1>3. p = s \o z
  BY DEF String!Padded
<1> HIDE DEF z, p
<1>4. /\ p \in Seq(Byte) /\ Len(p) = Len(s) + Len(z)
      /\ \A i \in 1 .. Len(s) + Len(z) : p[i] = IF i <= Len(s) THEN s[i] ELSE z[i - Len(s)]
  BY <1>2, <1>3, ConcatProperties
<1>5. Len(s) + Len(z) = n
  BY <1>1, <1>2
<1>6. \A i \in 1 .. Len(s) : p[i] = s[i]
  <2>1. \A i \in 1 .. Len(s) : i \in 1 .. n /\ i <= Len(s)
    BY <1>1
  <2> QED BY <1>4, <1>5, <2>1
<1>7. ASSUME NEW i \in 1 .. n, i > Len(s) PROVE p[i] = 0
  <2>1. ~(i <= Len(s)) /\ i - Len(s) \in 1 .. n - Len(s)
    BY <1>1, <1>7
  <2> QED BY <1>2, <1>4, <1>5, <2>1
<1>8. SubSeq(p, 1, Len(s)) = s
  BY <1>4, <1>5, <1>6, BeginsWith
<1> QED BY <1>4, <1>5, <1>6, <1>7, <1>8 DEF p

(* Characters written behind the first n of a buffer.                      *)
LEMMA WrittenText ==
    ASSUME NEW d \in Seq(Byte), NEW n \in Nat, NEW s \in Seq(Byte), n + Len(s) <= Len(d)
    PROVE  /\ String!Written(d, n, s) \in Seq(Byte)
           /\ Len(String!Written(d, n, s)) = Len(d)
           /\ SubSeq(String!Written(d, n, s), 1, n + Len(s)) = SubSeq(d, 1, n) \o s
           /\ \A i \in 1 .. Len(d) : i > n + Len(s) => String!Written(d, n, s)[i] = d[i]
<1> DEFINE w == String!Written(d, n, s)
           b == SubSeq(d, 1, n)
<1>1. Len(s) \in Nat /\ Len(d) \in Nat /\ DOMAIN d = 1 .. Len(d) /\ n <= Len(d)
  BY LenProperties
<1>2. (\A i \in 1 .. Len(s) : s[i] \in Byte) /\ (\A i \in 1 .. Len(d) : d[i] \in Byte)
  BY ElementOfSeq
<1>3. w = [i \in 1 .. Len(d) |-> IF n < i /\ i <= n + Len(s) THEN s[i - n] ELSE d[i]]
  BY <1>1 DEF String!Written
<1>4. b \in Seq(Byte) /\ Len(b) = n /\ \A i \in 1 .. n : b[i] = d[i]
  BY <1>1, Beginning
<1> HIDE DEF w, b
<1>5. \A i \in 1 .. Len(d) : w[i] = IF n < i /\ i <= n + Len(s) THEN s[i - n] ELSE d[i]
  BY <1>3
<1>6. \A i \in 1 .. Len(d) : n < i /\ i <= n + Len(s) => i - n \in 1 .. Len(s)
  BY <1>1
<1>7. w \in [1 .. Len(d) -> Byte]
  <2>1. \A i \in 1 .. Len(d) : w[i] \in Byte
    BY <1>2, <1>5, <1>6
  <2> QED BY <1>3, <2>1
<1>8. w \in Seq(Byte) /\ Len(w) = Len(d)
  BY <1>1, <1>7, IntervalIsSeq
<1>9. /\ b \o s \in Seq(Byte) /\ Len(b \o s) = n + Len(s)
      /\ \A i \in 1 .. n + Len(s) : (b \o s)[i] = IF i <= n THEN b[i] ELSE s[i - n]
  BY <1>4, ConcatProperties
<1>10. ASSUME NEW i \in 1 .. n + Len(s) PROVE w[i] = (b \o s)[i]
  <2>1. i \in 1 .. Len(d) /\ i <= n + Len(s) /\ (n < i <=> ~(i <= n)) /\ (i <= n => i \in 1 .. n)
    BY <1>1
  <2> QED BY <1>4, <1>5, <1>9, <2>1
<1>11. SubSeq(w, 1, n + Len(s)) = b \o s
  <2>1. Len(b \o s) <= Len(w) /\ \A i \in 1 .. Len(b \o s) : w[i] = (b \o s)[i]
    BY <1>8, <1>9, <1>10
  <2> HIDE DEF w
  <2>2. SubSeq(w, 1, Len(b \o s)) = b \o s
    BY <1>8, <1>9, <2>1, BeginsWith
  <2> QED BY <1>9, <2>2
<1>12. \A i \in 1 .. Len(d) : i > n + Len(s) => w[i] = d[i]
  <2>1. \A i \in 1 .. Len(d) : i > n + Len(s) => ~(i <= n + Len(s))
    BY <1>1
  <2> QED BY <1>5, <2>1
<1> QED BY <1>8, <1>11, <1>12 DEF w, b

(* A heap buffer with n characters and a terminator, or none at all.       *)
Buffered(d, n) ==
    /\ d \in Seq(Byte) /\ n \in Nat /\ n <= Large
    /\ n < Len(d) \/ (d = <<>> /\ n = 0)
    /\ \A i \in 1 .. Len(d) : i > n => d[i] = 0

(* What a push onto a heap buffer makes of it: the characters are appended *)
(* or the text stays.                                                      *)
PushResult(r, d, n, s) ==
    /\ Buffered(r.data, r.len)
    /\ \/ r.code = 0 /\ SubSeq(r.data, 1, r.len) = SubSeq(d, 1, n) \o s
       \/ r.code = 1 /\ SubSeq(r.data, 1, r.len) = SubSeq(d, 1, n)

(* Writing where there is room for the characters and a terminator.        *)
LEMMA PushedThere ==
    ASSUME NEW d, NEW n, NEW s \in Seq(Byte), Buffered(d, n),
           n + Len(s) < Len(d), n + Len(s) <= Large
    PROVE  PushResult(String!Pushed(d, n, s), d, n, s)
<1>1. /\ d \in Seq(Byte) /\ n \in Nat /\ Len(s) \in Nat /\ Len(d) \in Nat
      /\ \A i \in 1 .. Len(d) : i > n => d[i] = 0
  BY LenProperties DEF Buffered
<1>2. n + Len(s) <= Len(d)
  BY <1>1
<1> DEFINE w == String!Written(d, n, s)
<1>3. /\ w \in Seq(Byte) /\ Len(w) = Len(d)
      /\ SubSeq(w, 1, n + Len(s)) = SubSeq(d, 1, n) \o s
      /\ \A i \in 1 .. Len(d) : i > n + Len(s) => w[i] = d[i]
  BY <1>1, <1>2, WrittenText
<1>4. /\ String!Pushed(d, n, s).code = 0 /\ String!Pushed(d, n, s).data = w
      /\ String!Pushed(d, n, s).len = n + Len(s)
  BY DEF String!Pushed
<1> HIDE DEF w
<1>5. \A i \in 1 .. Len(w) : i > n + Len(s) => w[i] = 0
  <2>1. \A i \in 1 .. Len(d) : i > n + Len(s) => i > n
    BY <1>1
  <2> QED BY <1>1, <1>3, <2>1
<1>6. n + Len(s) \in Nat /\ n + Len(s) < Len(w)
  BY <1>1, <1>3
<1>7. Buffered(w, n + Len(s))
  BY <1>3, <1>5, <1>6 DEF Buffered
<1> QED BY <1>3, <1>4, <1>7 DEF PushResult

(* A larger buffer with the same text.                                     *)
LEMMA Enlarged ==
    ASSUME NEW d, NEW n, Buffered(d, n), NEW m \in Nat, n < m
    PROVE  /\ Buffered(String!Padded(SubSeq(d, 1, n), m), n)
           /\ Len(String!Padded(SubSeq(d, 1, n), m)) = m
           /\ SubSeq(String!Padded(SubSeq(d, 1, n), m), 1, n) = SubSeq(d, 1, n)
<1>1. d \in Seq(Byte) /\ n \in Nat /\ n <= Large /\ n <= Len(d)
  <2>1. d \in Seq(Byte) /\ Len(d) \in Nat
    BY LenProperties DEF Buffered
  <2>2. d = <<>> => Len(d) = 0
    BY <2>1, EmptySeq
  <2> QED BY <2>1, <2>2 DEF Buffered
<1> DEFINE b == SubSeq(d, 1, n)
           p == String!Padded(b, m)
<1>2. b \in Seq(Byte) /\ Len(b) = n
  BY <1>1, Beginning
<1> HIDE DEF b
<1>3. /\ p \in Seq(Byte) /\ Len(p) = m /\ SubSeq(p, 1, n) = b
      /\ \A i \in 1 .. m : i > n => p[i] = 0
  <2>1. Len(b) <= m
    BY <1>1, <1>2
  <2> QED BY <1>2, <2>1, PaddedText
<1> HIDE DEF p
<1>4. Buffered(p, n)
  BY <1>1, <1>3 DEF Buffered
<1> QED BY <1>3, <1>4 DEF p, b

(* A buffer that is left as it was.                                        *)
LEMMA KeptThere ==
    ASSUME NEW d, NEW n, NEW s, Buffered(d, n)
    PROVE  PushResult(String!Kept(d, n), d, n, s)
BY DEF PushResult, String!Kept

(* vstr_lg_push_string appends the string or changes nothing.              *)
LEMMA StringPushed ==
    ASSUME NEW d, NEW n, NEW s \in Seq(Byte), NEW mem \in BOOLEAN, Buffered(d, n)
    PROVE  PushResult(String!LargePushString(d, n, s, mem), d, n, s)
<1> DEFINE full == n + Len(s) > Len(d) - 1
           b == String!Padded(SubSeq(d, 1, n), Len(d) + Len(s))
           room == IF full THEN b ELSE d
           fails == d = <<>> \/ n + Len(s) > Large \/ (full /\ ~mem)
<1>1. String!LargePushString(d, n, s, mem)
        = IF fails THEN String!Kept(d, n) ELSE String!Pushed(room, n, s)
  BY DEF String!LargePushString
<1>2. /\ n \in Nat /\ Len(s) \in Nat /\ Len(d) \in Nat /\ d \in Seq(Byte)
      /\ n < Len(d) \/ d = <<>>
  BY LenProperties DEF Buffered
<1>3. CASE fails
  BY <1>1, <1>3, KeptThere
<1>4. CASE ~fails
  <2>1. n < Len(d) /\ n + Len(s) <= Large /\ n < Len(d) + Len(s) /\ Len(d) + Len(s) \in Nat
    BY <1>2, <1>4, StringFacts
  <2>2. Buffered(b, n) /\ Len(b) = Len(d) + Len(s) /\ SubSeq(b, 1, n) = SubSeq(d, 1, n)
    BY <2>1, Enlarged
  <2> HIDE DEF b
  <2>3. CASE full
    <3>1. n + Len(s) < Len(b)
      BY <1>2, <2>1, <2>2
    <3>2. PushResult(String!Pushed(b, n, s), b, n, s)
      BY <2>1, <2>2, <3>1, PushedThere
    <3>3. String!LargePushString(d, n, s, mem) = String!Pushed(b, n, s)
      BY <1>1, <1>4, <2>3
    <3> QED BY <2>2, <3>2, <3>3 DEF PushResult
  <2>4. CASE ~full
    <3>1. n + Len(s) < Len(d)
      BY <1>2, <2>4
    <3>2. PushResult(String!Pushed(d, n, s), d, n, s)
      BY <2>1, <3>1, PushedThere
    <3>3. String!LargePushString(d, n, s, mem) = String!Pushed(d, n, s)
      BY <1>1, <1>4, <2>4
    <3> QED BY <3>2, <3>3
  <2> QED BY <2>3, <2>4
<1> QED BY <1>3, <1>4

(* vstr_lg_push_char, the same for one character.                          *)
LEMMA CharPushed ==
    ASSUME NEW d, NEW n, NEW c \in Char, NEW mem \in BOOLEAN, Buffered(d, n)
    PROVE  PushResult(String!LargePushChar(d, n, c, mem), d, n, <<c>>)
<1> DEFINE full == n = Len(d) - 1
           b == String!Padded(SubSeq(d, 1, n), 2 * Len(d))
           room == IF full THEN b ELSE d
           fails == d = <<>> \/ (full /\ ~mem)
<1>1. String!LargePushChar(d, n, c, mem)
        = IF fails THEN String!Kept(d, n)
          ELSE IF n + 1 > Large THEN String!Kept(room, n) ELSE String!Pushed(room, n, <<c>>)
  BY DEF String!LargePushChar
<1>2. /\ n \in Nat /\ Len(d) \in Nat /\ d \in Seq(Byte)
      /\ n < Len(d) \/ d = <<>>
  BY LenProperties DEF Buffered
<1>3. <<c>> \in Seq(Byte) /\ Len(<<c>>) = 1
  BY DEF Byte
<1>4. CASE fails
  BY <1>1, <1>4, KeptThere
<1>5. CASE ~fails
  <2>1. n < Len(d) /\ n < 2 * Len(d) /\ 2 * Len(d) \in Nat
    BY <1>2, <1>5
  <2>2. Buffered(b, n) /\ Len(b) = 2 * Len(d) /\ SubSeq(b, 1, n) = SubSeq(d, 1, n)
    BY <2>1, Enlarged
  <2> HIDE DEF b
  <2>3. Buffered(room, n) /\ SubSeq(room, 1, n) = SubSeq(d, 1, n) /\ n + 1 < Len(room)
    <3>1. CASE full
      BY <1>2, <2>1, <2>2, <3>1
    <3>2. CASE ~full
      BY <1>2, <2>1, <3>2
    <3> QED BY <3>1, <3>2
  <2>4. String!LargePushChar(d, n, c, mem)
          = IF n + 1 > Large THEN String!Kept(room, n) ELSE String!Pushed(room, n, <<c>>)
    BY <1>1, <1>5
  <2> HIDE DEF room
  <2>5. CASE n + 1 > Large
    <3>1. PushResult(String!Kept(room, n), room, n, <<c>>)
      BY <2>3, KeptThere
    <3> QED BY <2>3, <2>4, <2>5, <3>1 DEF PushResult
  <2>6. CASE ~(n + 1 > Large)
    <3>1. n + Len(<<c>>) < Len(room) /\ n + Len(<<c>>) <= Large
      BY <1>2, <1>3, <2>3, <2>6, StringFacts
    <3>2. PushResult(String!Pushed(room, n, <<c>>), room, n, <<c>>)
      BY <1>3, <2>3, <3>1, PushedThere
    <3> QED BY <2>3, <2>4, <2>6, <3>2 DEF PushResult
  <2> QED BY <2>5, <2>6
<1> QED BY <1>4, <1>5

(* The inline buffer is cleared behind its text, the heap buffer has room  *)
(* for a terminator.                                                       *)
StringInv ==
    /\ is_large \in BOOLEAN /\ small_avail \in 0 .. Small /\ fault \in {"none", "assert"}
    /\ is_large => Buffered(data, len)
    /\ ~is_large => /\ data \in Seq(Byte) /\ Len(data) = Small /\ len = 0
                    /\ \A i \in 1 .. Small : i > Small - small_avail => data[i] = 0

(* The invariant gives the properties of the run.                          *)
LEMMA StringImplies == StringInv => String!TypeOK /\ String!ZeroTerminated
<1> SUFFICES ASSUME StringInv PROVE String!TypeOK /\ String!ZeroTerminated
  OBVIOUS
<1>1. data \in Seq(Byte) /\ DOMAIN data = 1 .. Len(data) /\ Len(data) \in Nat
  <2>1. data \in Seq(Byte)
    BY DEF StringInv, Buffered
  <2> QED BY <2>1, LenProperties
<1>2. len \in 0 .. Large /\ (~is_large => Len(data) = Small /\ len = 0)
  <2>1. CASE is_large
    BY <2>1, StringFacts DEF StringInv, Buffered
  <2>2. CASE ~is_large
    BY <2>2, StringFacts DEF StringInv
  <2> QED BY <2>1, <2>2
<1>4. data \in Seq(Char \cup {0})
  BY <1>1 DEF Byte
<1>5. is_large \in BOOLEAN /\ small_avail \in 0 .. Small /\ fault \in {"none", "assert"}
  BY DEF StringInv
<1>6. String!TypeOK
  BY <1>2, <1>4, <1>5 DEF String!TypeOK
<1>3. String!ZeroTerminated
  BY <1>1 DEF StringInv, Buffered, String!ZeroTerminated, String!Length
<1> QED BY <1>3, <1>6

(* The text of a string.                                                   *)
LEMMA StringText ==
    ASSUME StringInv
    PROVE  /\ String!Content \in Seq(Byte) /\ Len(String!Content) = String!Length
           /\ String!Length \in Nat /\ String!Length <= Large
           /\ ~is_large => String!Length <= Small /\ String!Length = Small - small_avail
           /\ data \in Seq(Byte)
<1>1. data \in Seq(Byte) /\ Len(data) \in Nat
  <2>1. data \in Seq(Byte)
    BY DEF StringInv, Buffered
  <2> QED BY <2>1, LenProperties
<1>2. String!Length \in Nat /\ String!Length <= Large /\ String!Length <= Len(data)
  <2>1. CASE is_large
    <3>1. Buffered(data, len) /\ String!Length = len
      BY <2>1 DEF StringInv, String!Length
    <3>2. data = <<>> => Len(data) = 0
      BY <1>1, EmptySeq
    <3> QED BY <1>1, <3>1, <3>2 DEF Buffered
  <2>2. CASE ~is_large
    BY <2>2, StringFacts DEF StringInv, String!Length
  <2> QED BY <2>1, <2>2
<1>3. ~is_large => String!Length <= Small /\ String!Length = Small - small_avail
  BY StringFacts DEF StringInv, String!Length
<1> QED BY <1>1, <1>2, <1>3, Beginning DEF String!Content

(* The first state: an empty text in the inline buffer.                    *)
LEMMA StringInit == String!Init => StringInv /\ String!T!Init
<1> SUFFICES ASSUME String!Init PROVE StringInv /\ String!T!Init
  OBVIOUS
<1>1. /\ is_large = FALSE /\ small_avail = Small /\ data = String!Zeros(Small) /\ len = 0
      /\ fault = "none" /\ reply = String!Answer("new", 0, <<>>)
  BY DEF String!Init
<1>2. StringInv
  <2>1. Small \in Nat /\ Small \in 0 .. Small
    BY StringFacts
  <2> QED BY <1>1, <2>1, ZerosAre DEF StringInv
<1>3. String!Content = <<>>
  <2>1. String!Content \in Seq(Byte) /\ Len(String!Content) = 0
    BY <1>1, <1>2, StringText, StringFacts DEF String!Length
  <2> QED BY <2>1, EmptySeq
<1> QED BY <1>1, <1>2, <1>3 DEF String!T!Init, String!T!Answer, String!Answer

(* A string made with the inline buffer.                                   *)
LEMMA MadeSmall ==
    ASSUME NEW s \in Seq(Byte), Len(s) <= Small, String!BecomesSmall(s, Small - Len(s)), fault' = "none"
    PROVE  StringInv' /\ String!Content' = s
<1>1. /\ is_large' = FALSE /\ small_avail' = Small - Len(s)
      /\ data' = String!Padded(s, Small) /\ len' = 0
  BY DEF String!BecomesSmall
<1>2. Len(s) \in Nat /\ Small \in Nat /\ Small - Len(s) \in 0 .. Small /\ Small - (Small - Len(s)) = Len(s)
  BY StringFacts, LenProperties
<1>3. /\ data' \in Seq(Byte) /\ Len(data') = Small /\ SubSeq(data', 1, Len(s)) = s
      /\ \A i \in 1 .. Small : i > Len(s) => data'[i] = 0
  BY <1>1, <1>2, PaddedText
<1>4. StringInv'
  BY <1>1, <1>2, <1>3 DEF StringInv
<1>5. String!Content' = s
  BY <1>1, <1>2, <1>3 DEF String!Content, String!Length
<1> QED BY <1>4, <1>5

(* A string made with a heap buffer.                                       *)
LEMMA MadeLarge ==
    ASSUME NEW s \in Seq(Byte), NEW m \in Nat, Len(s) < m, Len(s) <= Large, fault' = "none",
           String!BecomesLarge(String!Padded(s, m), Len(s), 0)
    PROVE  StringInv' /\ String!Content' = s
<1>1. /\ is_large' = TRUE /\ small_avail' = 0
      /\ data' = String!Padded(s, m) /\ len' = Len(s)
  BY DEF String!BecomesLarge
<1>2. Len(s) \in Nat /\ Len(s) <= m /\ 0 \in 0 .. Small
  BY StringFacts, LenProperties
<1>3. /\ data' \in Seq(Byte) /\ Len(data') = m /\ SubSeq(data', 1, Len(s)) = s
      /\ \A i \in 1 .. m : i > Len(s) => data'[i] = 0
  BY <1>1, <1>2, PaddedText
<1>4. Buffered(data', len')
  BY <1>1, <1>2, <1>3 DEF Buffered
<1>5. StringInv'
  BY <1>1, <1>2, <1>4 DEF StringInv
<1>6. String!Content' = s
  BY <1>1, <1>3 DEF String!Content, String!Length
<1> QED BY <1>5, <1>6

(* A string that a push has left with a heap buffer.                       *)
LEMMA PushedLarge ==
    ASSUME StringInv, NEW r, NEW d, NEW n, NEW s, PushResult(r, d, n, s),
           String!Enlarged(r, s), fault' = fault
    PROVE  /\ StringInv'
           /\ String!Content' = IF r.code = 0 THEN SubSeq(d, 1, n) \o s ELSE SubSeq(d, 1, n)
           /\ r.code \in {0, 1} /\ reply' = String!Answer("push", r.code, s)
<1>1. /\ is_large' = TRUE /\ small_avail' = small_avail /\ data' = r.data /\ len' = r.len
      /\ reply' = String!Answer("push", r.code, s)
  BY DEF String!Enlarged, String!BecomesLarge, String!Say
<1>2. StringInv'
  BY <1>1 DEF StringInv, PushResult
<1>3. String!Content' = SubSeq(r.data, 1, r.len)
  BY <1>1 DEF String!Content, String!Length
<1>4. \/ r.code = 0 /\ SubSeq(r.data, 1, r.len) = SubSeq(d, 1, n) \o s
      \/ r.code = 1 /\ SubSeq(r.data, 1, r.len) = SubSeq(d, 1, n)
  BY DEF PushResult
<1>5. CASE r.code = 0 /\ SubSeq(r.data, 1, r.len) = SubSeq(d, 1, n) \o s
  BY <1>1, <1>2, <1>3, <1>5
<1>6. CASE r.code = 1 /\ SubSeq(r.data, 1, r.len) = SubSeq(d, 1, n)
  <2>1. r.code # 0
    BY <1>6
  <2> QED BY <1>1, <1>2, <1>3, <1>6, <2>1
<1> QED BY <1>4, <1>5, <1>6

(* Answers about texts.                                                    *)
LEMMA TextAnswers ==
    ASSUME NEW op, NEW code, NEW given, reply' = String!Answer(op, code, given)
    PROVE  reply'.op = op /\ reply'.code = code /\ reply'.given = given
BY DEF String!Answer

(* Every call keeps the invariant and does to the text what it should.     *)
LEMMA StringStep ==
    ASSUME StringInv, String!Next
    PROVE  StringInv' /\ (String!T!Next \/ UNCHANGED String!T!vars)
<1> USE DEF String!Say
<1>0. /\ String!Content \in Seq(Byte) /\ Len(String!Content) = String!Length
      /\ String!Length \in Nat /\ String!Length <= Large
      /\ ~is_large => String!Length <= Small /\ String!Length = Small - small_avail
  BY StringText
<1>1. ASSUME NEW n \in 0 .. MaxGiven, String!NewLen(n)
      PROVE  StringInv' /\ String!T!Next
  <2>1. fault' = "none" /\ reply' = String!Answer("new", 0, <<>>)
    BY <1>1 DEF String!NewLen, String!Running
  <2>2. <<>> \in Seq(Byte) /\ Len(<<>>) = 0
    BY EmptySeq
  <2>3. n \in Nat /\ Small \in Nat /\ Small - 0 = Small /\ 0 <= Small /\ 0 <= Large
    BY StringFacts
  <2>4. StringInv' /\ String!Content' = <<>>
    <3>1. CASE n > Small
      <4>1. String!BecomesLarge(String!Zeros(n + 1), 0, 0)
        BY <1>1, <3>1 DEF String!NewLen
      <4>2. String!Padded(<<>>, n + 1) = String!Zeros(n + 1)
        <5> DEFINE z == String!Zeros(n + 1)
        <5>1. z \in Seq(Byte) /\ (n + 1) - 0 = n + 1
          BY <2>3, ZerosAre
        <5>2. String!Padded(<<>>, n + 1) = <<>> \o z
          BY <2>2, <5>1 DEF String!Padded
        <5> HIDE DEF z
        <5> QED BY <5>1, <5>2, ConcatEmptySeq DEF z
      <4>3. String!BecomesLarge(String!Padded(<<>>, n + 1), Len(<<>>), 0)
        BY <2>2, <4>1, <4>2
      <4>4. n + 1 \in Nat /\ Len(<<>>) < n + 1 /\ Len(<<>>) <= Large
        BY <2>2, <2>3
      <4> QED BY <2>1, <2>2, <4>3, <4>4, MadeLarge
    <3>2. CASE ~(n > Small)
      <4>1. String!BecomesSmall(<<>>, Small - Len(<<>>)) /\ Len(<<>>) <= Small
        BY <1>1, <2>2, <2>3, <3>2 DEF String!NewLen
      <4> QED BY <2>1, <2>2, <4>1, MadeSmall
    <3> QED BY <3>1, <3>2
  <2>5. String!T!Make
    BY <2>1, <2>4, TextAnswers DEF String!T!Make
  <2> QED BY <2>4, <2>5 DEF String!T!Next
<1>2. ASSUME NEW s \in String!Strings, String!From(s) PROVE StringInv' /\ String!T!Next
  <2>1. /\ fault' = "none" /\ reply' = String!Answer("from", 0, s) /\ Len(s) < Large
        /\ s \in Seq(Byte) /\ Len(s) \in Nat
    BY <1>2, GivenString DEF String!From, String!Running
  <2>2. StringInv' /\ String!Content' = s
    <3>1. CASE Len(s) > Small
      <4>1. String!BecomesLarge(String!Padded(s, Len(s) + 1), Len(s), 0)
        BY <1>2, <3>1 DEF String!From
      <4>2. Len(s) + 1 \in Nat /\ Len(s) < Len(s) + 1 /\ Len(s) <= Large
        BY <2>1, StringFacts
      <4> QED BY <2>1, <4>1, <4>2, MadeLarge
    <3>2. CASE ~(Len(s) > Small)
      <4>1. String!BecomesSmall(s, Small - Len(s)) /\ Len(s) <= Small
        BY <1>2, <2>1, <3>2, StringFacts DEF String!From
      <4> QED BY <2>1, <4>1, MadeSmall
    <3> QED BY <3>1, <3>2
  <2>3. String!T!Make
    BY <2>1, <2>2, TextAnswers DEF String!T!Make
  <2> QED BY <2>2, <2>3 DEF String!T!Next
<1>3. ASSUME NEW s \in String!Strings, String!FromFails(s) PROVE StringInv' /\ String!T!Next
  <2>1. /\ fault' = fault /\ fault = "none" /\ reply' = String!Answer("from", 0, s) /\ Len(s) > Small
        /\ is_large' = FALSE /\ small_avail' = 0 /\ data' = String!Padded(<<>>, Small) /\ len' = 0
    BY <1>3 DEF String!FromFails, String!Running, String!BecomesSmall
  <2>2. Small \in Nat /\ 0 \in 0 .. Small /\ <<>> \in Seq(Byte) /\ Len(<<>>) = 0 /\ Small - 0 = Small
    BY StringFacts, EmptySeq
  <2>3. /\ data' \in Seq(Byte) /\ Len(data') = Small
        /\ \A i \in 1 .. Small : data'[i] = 0
    <3> DEFINE z == String!Padded(<<>>, Small)
    <3>1. \A i \in 1 .. Small : i > 0
      BY <2>2
    <3>2. Len(<<>>) <= Small
      BY <2>2
    <3>3. /\ z \in Seq(Byte) /\ Len(z) = Small
          /\ \A i \in 1 .. Small : i > Len(<<>>) => z[i] = 0
      BY <2>2, <3>2, PaddedText
    <3>4. data' = z
      BY <2>1
    <3> HIDE DEF z
    <3> QED BY <2>2, <3>1, <3>3, <3>4
  <2>4. StringInv'
    BY <2>1, <2>2, <2>3 DEF StringInv
  <2>5. String!Content' = String!T!Cleared
    <3>1. String!Content' = SubSeq(data', 1, Small)
      BY <2>1, <2>2 DEF String!Content, String!Length
    <3>2. /\ String!T!Cleared \in Seq(Byte) /\ Len(String!T!Cleared) = Small
          /\ \A i \in 1 .. Small : String!T!Cleared[i] = 0
      BY <2>2, ZerosAre DEF String!T!Cleared, String!Zeros
    <3>3. SubSeq(data', 1, Len(String!T!Cleared)) = String!T!Cleared
      BY <2>2, <2>3, <3>2, BeginsWith
    <3> QED BY <3>1, <3>2, <3>3
  <2>6. String!T!Make
    BY <2>1, <2>5, TextAnswers DEF String!T!Make
  <2> QED BY <2>4, <2>6 DEF String!T!Next
<1>4. ASSUME NEW s \in String!Strings, String!Format(s) PROVE StringInv' /\ String!T!Next
  <2>1. /\ fault' = "none" /\ reply' = String!Answer("format", 0, s)
        /\ s \in Seq(Byte) /\ Len(s) \in Nat /\ Len(s) <= MaxGiven
    BY <1>4, GivenString DEF String!Format, String!Running
  <2>2. StringInv' /\ String!Content' = s
    <3>1. CASE Len(s) + 1 > Small
      <4>1. String!BecomesLarge(String!Padded(s, (Len(s) + 1) + 1), (Len(s) + 1) - 1, 0)
        BY <1>4, <3>1 DEF String!Format
      <4>2. /\ (Len(s) + 1) + 1 \in Nat /\ Len(s) < (Len(s) + 1) + 1 /\ Len(s) <= Large
            /\ (Len(s) + 1) - 1 = Len(s)
        BY <2>1, StringFacts
      <4> QED BY <2>1, <4>1, <4>2, MadeLarge
    <3>2. CASE ~(Len(s) + 1 > Small)
      <4>1. String!BecomesSmall(s, Small - (Len(s) + 1) + 1)
        BY <1>4, <3>2 DEF String!Format
      <4>2. Small - (Len(s) + 1) + 1 = Small - Len(s) /\ Len(s) <= Small
        BY <2>1, <3>2, StringFacts
      <4> QED BY <2>1, <4>1, <4>2, MadeSmall
    <3> QED BY <3>1, <3>2
  <2>3. String!T!Make
    BY <2>1, <2>2, TextAnswers DEF String!T!Make
  <2> QED BY <2>2, <2>3 DEF String!T!Next
<1>5. ASSUME NEW s \in String!Strings, String!PushSmall(s) PROVE StringInv' /\ String!T!Next
  <2>1. /\ ~is_large /\ Len(s) <= small_avail /\ data' = String!Written(data, String!Length, s)
        /\ small_avail' = small_avail - Len(s) /\ reply' = String!Answer("push", 0, s)
        /\ is_large' = is_large /\ len' = len /\ fault' = fault
    BY <1>5 DEF String!PushSmall
  <2>2. /\ is_large = FALSE /\ small_avail \in 0 .. Small /\ data \in Seq(Byte) /\ Len(data) = Small
        /\ len = 0 /\ fault \in {"none", "assert"}
        /\ \A i \in 1 .. Small : i > Small - small_avail => data[i] = 0
    BY <2>1 DEF StringInv
  <2>3. s \in Seq(Byte) /\ Len(s) \in Nat
    BY GivenString
  <2>4. /\ String!Length \in Nat /\ String!Length = Small - small_avail
        /\ String!Length + Len(s) = Small - (small_avail - Len(s))
        /\ small_avail - Len(s) \in 0 .. Small /\ String!Length + Len(s) <= Len(data)
    BY <1>0, <2>1, <2>2, <2>3, StringFacts
  <2>5. /\ data' \in Seq(Byte) /\ Len(data') = Small
        /\ SubSeq(data', 1, String!Length + Len(s)) = SubSeq(data, 1, String!Length) \o s
        /\ \A i \in 1 .. Len(data) : i > String!Length + Len(s) => data'[i] = data[i]
    BY <2>1, <2>2, <2>3, <2>4, WrittenText
  <2>6. \A i \in 1 .. Small : i > Small - (small_avail - Len(s)) => data'[i] = 0
    <3>1. \A i \in 1 .. Small : i > Small - (small_avail - Len(s)) => i > Small - small_avail
      BY <2>2, <2>3, StringFacts
    <3> QED BY <2>2, <2>4, <2>5, <3>1
  <2>7. StringInv'
    BY <2>1, <2>2, <2>4, <2>5, <2>6 DEF StringInv
  <2>8. String!Content' = String!Content \o s
    <3>1. String!Content' = SubSeq(data', 1, Small - (small_avail - Len(s)))
      BY <2>1, <2>2 DEF String!Content, String!Length
    <3> QED BY <2>4, <2>5, <3>1 DEF String!Content
  <2>9. String!T!Push
    BY <2>1, <2>8, TextAnswers DEF String!T!Push
  <2> QED BY <2>7, <2>9 DEF String!T!Next
<1>6. ASSUME NEW r, NEW d, NEW n, NEW s, PushResult(r, d, n, s), String!Enlarged(r, s),
             fault' = fault, SubSeq(d, 1, n) = String!Content
      PROVE  StringInv' /\ String!T!Next
  <2>1. /\ StringInv'
        /\ String!Content' = IF r.code = 0 THEN SubSeq(d, 1, n) \o s ELSE SubSeq(d, 1, n)
        /\ r.code \in {0, 1} /\ reply' = String!Answer("push", r.code, s)
    BY <1>6, PushedLarge
  <2>2. reply'.op = "push" /\ reply'.code = r.code /\ reply'.given = s
    BY <2>1, TextAnswers
  <2>3. String!T!Push \/ String!T!PushFails
    BY <1>6, <2>1, <2>2 DEF String!T!Push, String!T!PushFails
  <2> QED BY <2>1, <2>3 DEF String!T!Next
<1>7. CASE String!PushLarge
  <2>1. is_large /\ fault' = fault
    BY <1>7 DEF String!PushLarge
  <2>2. Buffered(data, len) /\ SubSeq(data, 1, len) = String!Content
    BY <2>1 DEF StringInv, String!Content, String!Length
  <2>3. PICK mem \in BOOLEAN :
           \/ \E c \in Char : String!Enlarged(String!LargePushChar(data, len, c, mem), <<c>>)
           \/ \E s \in String!Strings : String!Enlarged(String!LargePushString(data, len, s, mem), s)
    BY <1>7 DEF String!PushLarge
  <2>4. ASSUME NEW c \in Char, String!Enlarged(String!LargePushChar(data, len, c, mem), <<c>>)
        PROVE  StringInv' /\ String!T!Next
    <3>1. PushResult(String!LargePushChar(data, len, c, mem), data, len, <<c>>)
      BY <2>2, CharPushed
    <3> QED BY <1>6, <2>1, <2>2, <2>4, <3>1
  <2>5. ASSUME NEW s \in String!Strings,
               String!Enlarged(String!LargePushString(data, len, s, mem), s)
        PROVE  StringInv' /\ String!T!Next
    <3>1. s \in Seq(Byte)
      BY GivenString
    <3>2. PushResult(String!LargePushString(data, len, s, mem), data, len, s)
      BY <2>2, <3>1, StringPushed
    <3> QED BY <1>6, <2>1, <2>2, <2>5, <3>2
  <2> QED BY <2>3, <2>4, <2>5
<1>8. ASSUME NEW c \in Char, String!OutgrowByChar(c) PROVE StringInv' /\ String!T!Next
  <2> DEFINE d == String!Padded(data, Small + 2)
  <2>1. /\ ~is_large /\ small_avail = 0 /\ fault' = fault
        /\ String!Enlarged(String!LargePushChar(d, Small, c, TRUE), <<c>>)
    BY <1>8 DEF String!OutgrowByChar
  <2>2. data \in Seq(Byte) /\ Len(data) = Small /\ String!Content = SubSeq(data, 1, Small)
    <3>1. Small - 0 = Small
      BY StringFacts
    <3> QED BY <2>1, <3>1 DEF StringInv, String!Content, String!Length
  <2>3. /\ Small \in Nat /\ Small + 2 \in Nat /\ Small <= Small + 2 /\ Small < Small + 2
        /\ Small <= Large
    BY StringFacts
  <2>4. /\ d \in Seq(Byte) /\ Len(d) = Small + 2 /\ SubSeq(d, 1, Small) = data
        /\ \A i \in 1 .. Small + 2 : i > Small => d[i] = 0
    BY <2>2, <2>3, PaddedText
  <2> HIDE DEF d
  <2>5. Buffered(d, Small)
    BY <2>3, <2>4 DEF Buffered
  <2>6. SubSeq(d, 1, Small) = String!Content
    <3>1. SubSeq(data, 1, Len(data)) = data
      <4>1. Len(data) <= Len(data)
        BY <2>2, <2>3
      <4> QED BY <2>2, <4>1, BeginsWith
    <3> QED BY <2>2, <2>4, <3>1
  <2>7. PushResult(String!LargePushChar(d, Small, c, TRUE), d, Small, <<c>>)
    BY <2>5, CharPushed
  <2> QED BY <1>6, <2>1, <2>6, <2>7
<1>9. ASSUME NEW c \in Char, String!OutgrowByCharFails(c) PROVE StringInv' /\ String!T!Next
  <2>1. /\ ~is_large /\ small_avail = 0 /\ data' = String!Zeros(Small)
        /\ reply' = String!Answer("push", 1, <<c>>)
        /\ UNCHANGED <<is_large, small_avail, len, fault>>
    BY <1>9 DEF String!OutgrowByCharFails
  <2>2. Small \in Nat /\ Small - 0 = Small /\ Small <= Small
    BY StringFacts
  <2>3. data' \in Seq(Byte) /\ Len(data') = Small /\ \A i \in 1 .. Small : data'[i] = 0
    BY <2>1, <2>2, ZerosAre
  <2>4. StringInv'
    BY <2>1, <2>3 DEF StringInv
  <2>5. String!Content' = SubSeq(data', 1, Small)
    BY <2>1, <2>2 DEF String!Content, String!Length
  <2>6. SubSeq(data', 1, Len(data')) = data'
    <3>1. Len(data') <= Len(data')
      BY <2>2, <2>3
    <3> QED BY <2>3, <3>1, BeginsWith
  <2>7. String!Content' = String!T!Cleared
    BY <2>1, <2>3, <2>5, <2>6 DEF String!T!Cleared, String!Zeros
  <2>8. String!T!PushFails
    BY <1>0, <2>1, <2>7, TextAnswers DEF String!T!PushFails
  <2> QED BY <2>4, <2>8 DEF String!T!Next
<1>10. ASSUME NEW s \in String!Strings, String!OutgrowByString(s)
       PROVE  StringInv' /\ String!T!Next
  <2>1. ~is_large /\ fault' = fault /\ s \in Seq(Byte)
    BY <1>10, GivenString DEF String!OutgrowByString
  <2>2. CASE \E mem \in BOOLEAN :
                String!Enlarged(String!LargePushString(Append(String!Content, 0), String!Length, s, mem), s)
    <3> DEFINE d == Append(String!Content, 0)
               n == String!Length
    <3>1. PICK mem \in BOOLEAN : String!Enlarged(String!LargePushString(d, n, s, mem), s)
      BY <2>2
    <3>2. /\ d \in Seq(Byte) /\ Len(d) = n + 1 /\ d[n + 1] = 0
          /\ \A i \in 1 .. n : d[i] = String!Content[i]
      <4>1. 0 \in Byte
        BY DEF Byte
      <4> QED BY <1>0, <4>1, AppendProperties
    <3> HIDE DEF d
    <3>3. Buffered(d, n)
      BY <1>0, <3>2 DEF Buffered
    <3>4. SubSeq(d, 1, n) = String!Content
      <4>1. Len(String!Content) <= Len(d) /\ Len(String!Content) = n
        BY <1>0, <3>2
      <4>2. SubSeq(d, 1, Len(String!Content)) = String!Content
        BY <1>0, <3>2, <4>1, BeginsWith
      <4> QED BY <4>1, <4>2
    <3>5. PushResult(String!LargePushString(d, n, s, mem), d, n, s)
      BY <2>1, <3>3, StringPushed
    <3> QED BY <1>6, <2>1, <3>1, <3>4, <3>5
  <2>3. CASE String!Enlarged(String!LargePushString(<<>>, 0, s, TRUE), s)
    <3>1. String!LargePushString(<<>>, 0, s, TRUE) = String!Kept(<<>>, 0)
      BY DEF String!LargePushString
    <3>2. Buffered(<<>>, 0)
      <4>1. <<>> \in Seq(Byte) /\ Len(<<>>) = 0
        BY EmptySeq
      <4> QED BY <4>1, StringFacts DEF Buffered
    <3>3. PushResult(String!Kept(<<>>, 0), <<>>, 0, s) /\ String!Kept(<<>>, 0).code = 1
      BY <3>2, KeptThere DEF String!Kept
    <3>4. /\ StringInv' /\ String!Content' = SubSeq(<<>>, 1, 0)
          /\ reply' = String!Answer("push", 1, s)
      <4>1. String!Enlarged(String!Kept(<<>>, 0), s)
        BY <2>3, <3>1
      <4>2. /\ StringInv'
            /\ String!Content' = IF String!Kept(<<>>, 0).code = 0 THEN SubSeq(<<>>, 1, 0) \o s
                                 ELSE SubSeq(<<>>, 1, 0)
            /\ reply' = String!Answer("push", String!Kept(<<>>, 0).code, s)
        BY <2>1, <3>3, <4>1, PushedLarge
      <4> QED BY <3>3, <4>2
    <3>5. SubSeq(<<>>, 1, 0) = <<>>
      BY SubSeqEmpty
    <3>6. String!T!PushFails
      BY <1>0, <2>1, <3>4, <3>5, TextAnswers DEF String!T!PushFails
    <3> QED BY <3>4, <3>6 DEF String!T!Next
  <2> QED BY <1>10, <2>2, <2>3 DEF String!OutgrowByString
<1>11. CASE String!Aborts
  <2>1. fault' = "assert" /\ UNCHANGED <<is_large, small_avail, data, len, reply>>
    BY <1>11 DEF String!Aborts
  <2>2. StringInv'
    BY <2>1 DEF StringInv
  <2> QED BY <2>1, <2>2 DEF String!T!vars, String!Content, String!Length
<1> QED BY <1>1, <1>2, <1>3, <1>4, <1>5, <1>7, <1>8, <1>9, <1>10, <1>11 DEF String!Next
---------------------------------------------------------------------------
(* vstr_cmp.                                                               *)

(* Before in the dictionary in which x and y are words.                    *)
Before(x, y) == \E i \in DOMAIN x \cap DOMAIN y : x[i] < y[i] /\ \A j \in 1 .. i - 1 : x[j] = y[j]

(* Where two words differ first decides which one comes before the other.  *)
LEMMA FirstDifference ==
    ASSUME NEW m \in Nat, NEW n \in Nat, NEW x, NEW y, DOMAIN x = 1 .. m, DOMAIN y = 1 .. n,
           \A j \in 1 .. m : x[j] \in Nat, \A j \in 1 .. n : y[j] \in Nat,
           NEW i \in 1 .. m, i \in 1 .. n, x[i] # y[i], \A j \in 1 .. i - 1 : x[j] = y[j]
    PROVE  (Before(x, y) <=> x[i] < y[i]) /\ (Before(y, x) <=> y[i] < x[i])
<1>1. ASSUME NEW k \in 1 .. m, k \in 1 .. n, x[k] < y[k] \/ y[k] < x[k],
             \A j \in 1 .. k - 1 : x[j] = y[j]
      PROVE  k = i
  <2>1. x[k] # y[k]
    <3>1. x[k] \in Nat /\ y[k] \in Nat
      BY <1>1
    <3> QED BY <1>1, <3>1
  <2>2. ~(i < k)
    <3>1. i < k => i \in 1 .. k - 1
      BY <1>1
    <3> QED BY <1>1, <3>1
  <2>3. ~(k < i)
    <3>1. k < i => k \in 1 .. i - 1
      BY <1>1
    <3> QED BY <2>1, <3>1
  <2> QED BY <1>1, <2>2, <2>3
<1>2. Before(x, y) => x[i] < y[i]
  BY <1>1 DEF Before
<1>3. Before(y, x) => y[i] < x[i]
  <2>1. ASSUME NEW k \in 1 .. m, k \in 1 .. n, y[k] < x[k], \A j \in 1 .. k - 1 : y[j] = x[j]
        PROVE  y[i] < x[i]
    <3>1. \A j \in 1 .. k - 1 : x[j] = y[j]
      BY <2>1
    <3> QED BY <1>1, <2>1, <3>1
  <2> QED BY <2>1 DEF Before
<1> QED BY <1>2, <1>3 DEF Before

(* A text with the mark that comes after all characters.                   *)
LEMMA MarkedText ==
    ASSUME NEW s \in Seq(Nat), NEW m \in Nat
    PROVE  /\ Len(s) \in Nat /\ DOMAIN s = 1 .. Len(s) /\ \A j \in 1 .. Len(s) : s[j] \in Nat
           /\ DOMAIN Append(s, m) = 1 .. Len(s) + 1
           /\ \A j \in 1 .. Len(s) + 1 : Append(s, m)[j] \in Nat
           /\ \A j \in 1 .. Len(s) : Append(s, m)[j] = s[j]
           /\ Append(s, m)[Len(s) + 1] = m
<1>1. Len(s) \in Nat /\ DOMAIN s = 1 .. Len(s) /\ \A j \in 1 .. Len(s) : s[j] \in Nat
  BY LenProperties, ElementOfSeq
<1>2. /\ Append(s, m) \in Seq(Nat) /\ Len(Append(s, m)) = Len(s) + 1
      /\ \A j \in 1 .. Len(s) : Append(s, m)[j] = s[j]
      /\ Append(s, m)[Len(s) + 1] = m
  BY AppendProperties
<1>3. DOMAIN Append(s, m) = 1 .. Len(s) + 1
  BY <1>2, LenProperties
<1>4. \A j \in 1 .. Len(s) + 1 : Append(s, m)[j] \in Nat
  <2>1. \A j \in 1 .. Len(s) + 1 : j \in 1 .. Len(s) \/ j = Len(s) + 1
    BY <1>1
  <2> QED BY <1>1, <1>2, <2>1
<1> QED BY <1>1, <1>2, <1>3, <1>4

(* vstr_cmp of texts without terminators is the order of the dictionary in *)
(* which the end of a text comes after every character.                    *)
LEMMA CmpDecides ==
    ASSUME NEW s \in Seq(Nat), NEW t \in Seq(Nat), NEW m \in Nat,
           \A j \in 1 .. Len(s) : s[j] < m, \A j \in 1 .. Len(t) : t[j] < m
    PROVE  /\ String!Cmp(s, t) < 0 <=> Before(Append(s, m), Append(t, m))
           /\ String!Cmp(s, t) > 0 <=> Before(Append(t, m), Append(s, m))
<1> DEFINE n == IF Len(s) < Len(t) THEN Len(s) ELSE Len(t)
           diff == {i \in 1 .. n : s[i] # t[i]}
           a == Append(s, m)
           b == Append(t, m)
<1>1. /\ Len(s) \in Nat /\ \A j \in 1 .. Len(s) : s[j] \in Nat
      /\ DOMAIN a = 1 .. Len(s) + 1 /\ \A j \in 1 .. Len(s) + 1 : a[j] \in Nat
      /\ (\A j \in 1 .. Len(s) : a[j] = s[j]) /\ a[Len(s) + 1] = m
  BY MarkedText
<1>2. /\ Len(t) \in Nat /\ \A j \in 1 .. Len(t) : t[j] \in Nat
      /\ DOMAIN b = 1 .. Len(t) + 1 /\ \A j \in 1 .. Len(t) + 1 : b[j] \in Nat
      /\ (\A j \in 1 .. Len(t) : b[j] = t[j]) /\ b[Len(t) + 1] = m
  BY MarkedText
<1> HIDE DEF a, b
<1>3. ASSUME NEW i \in 1 .. Len(s) + 1, i \in 1 .. Len(t) + 1, a[i] # b[i],
             \A j \in 1 .. i - 1 : a[j] = b[j]
      PROVE  (Before(a, b) <=> a[i] < b[i]) /\ (Before(b, a) <=> b[i] < a[i])
  <2>1. Len(s) + 1 \in Nat /\ Len(t) + 1 \in Nat
    BY <1>1, <1>2
  <2> QED BY <1>1, <1>2, <1>3, <2>1, FirstDifference
<1>4. n \in Nat /\ n <= Len(s) /\ n <= Len(t)
  BY <1>1, <1>2
<1>5. CASE diff # {}
  <2> DEFINE i == CHOOSE k \in diff : \A j \in diff : k <= j
  <2>1. i \in diff /\ \A j \in diff : i <= j
    <3>1. diff \in SUBSET Nat
      BY <1>4
    <3>2. \E k \in diff : \A j \in diff : k <= j
      BY <1>5, <3>1, LeastNatural
    <3> QED BY <3>2
  <2>2. String!Cmp(s, t) = s[i] - t[i]
    BY <1>5 DEF String!Cmp
  <2> HIDE DEF i
  <2>3. /\ i \in 1 .. n /\ s[i] # t[i] /\ i \in 1 .. Len(s) /\ i \in 1 .. Len(t)
        /\ i \in 1 .. Len(s) + 1 /\ i \in 1 .. Len(t) + 1
    BY <1>1, <1>2, <1>4, <2>1
  <2>4. ASSUME NEW j \in 1 .. i - 1 PROVE a[j] = b[j]
    <3>1. j \in 1 .. n /\ ~(i <= j) /\ j \in 1 .. Len(s) /\ j \in 1 .. Len(t)
      BY <1>1, <1>2, <1>4, <2>3
    <3>2. s[j] = t[j]
      BY <2>1, <3>1
    <3> QED BY <1>1, <1>2, <3>1, <3>2
  <2>5. a[i] = s[i] /\ b[i] = t[i] /\ s[i] \in Nat /\ t[i] \in Nat
    BY <1>1, <1>2, <2>3
  <2>6. (Before(a, b) <=> s[i] < t[i]) /\ (Before(b, a) <=> t[i] < s[i])
    BY <1>3, <2>3, <2>4, <2>5
  <2>7. (s[i] - t[i] < 0 <=> s[i] < t[i]) /\ (s[i] - t[i] > 0 <=> t[i] < s[i])
    <3>1. \A x, y \in Nat : (x - y < 0 <=> x < y) /\ (x - y > 0 <=> y < x)
      OBVIOUS
    <3> QED BY <2>5, <3>1
  <2> QED BY <2>2, <2>6, <2>7 DEF a, b
<1>6. CASE diff = {}
  <2>0. String!Cmp(s, t) = IF Len(s) = Len(t) THEN 0 ELSE IF Len(s) < Len(t) THEN 1 ELSE -1
    BY <1>6 DEF String!Cmp
  <2>1. \A j \in 1 .. n : s[j] = t[j]
    BY <1>6
  <2>2. CASE Len(s) = Len(t)
    <3>1. ASSUME NEW j \in 1 .. Len(s) + 1 PROVE a[j] = b[j] /\ a[j] \in Nat
      <4>1. j \in 1 .. Len(s) \/ j = Len(s) + 1
        <5>1. \A k \in Nat : \A l \in 1 .. k + 1 : l \in 1 .. k \/ l = k + 1
          OBVIOUS
        <5> QED BY <1>1, <3>1, <5>1
      <4>2. n = Len(s)
        BY <2>2
      <4> QED BY <1>1, <1>2, <2>1, <2>2, <4>1, <4>2
    <3>2. \A j \in 1 .. Len(s) + 1 : ~(a[j] < b[j]) /\ ~(b[j] < a[j])
      BY <3>1
    <3>3. ~Before(a, b) /\ ~Before(b, a)
      BY <1>1, <3>2 DEF Before
    <3>4. String!Cmp(s, t) = 0
      BY <2>0, <2>2
    <3> QED BY <3>3, <3>4 DEF a, b
  <2>3. CASE Len(s) < Len(t)
    <3> DEFINE i == Len(s) + 1
    <3>1. /\ i \in 1 .. Len(s) + 1 /\ i \in 1 .. Len(t) + 1 /\ i \in 1 .. Len(t)
          /\ n = Len(s) /\ i - 1 = Len(s) /\ \A j \in 1 .. i - 1 : j \in 1 .. Len(t)
      BY <1>1, <1>2, <2>3
    <3>2. \A j \in 1 .. i - 1 : a[j] = b[j]
      BY <1>1, <1>2, <2>1, <3>1
    <3>3. a[i] = m /\ b[i] = t[i] /\ t[i] < m /\ t[i] \in Nat
      BY <1>1, <1>2, <3>1
    <3>4. a[i] # b[i] /\ ~(a[i] < b[i]) /\ b[i] < a[i]
      BY <3>3
    <3>5. ~Before(a, b) /\ Before(b, a)
      BY <1>3, <3>1, <3>2, <3>4
    <3>6. String!Cmp(s, t) = 1
      BY <1>1, <1>2, <2>0, <2>3
    <3> QED BY <3>5, <3>6 DEF a, b
  <2>4. CASE Len(t) < Len(s)
    <3> DEFINE i == Len(t) + 1
    <3>1. /\ i \in 1 .. Len(s) + 1 /\ i \in 1 .. Len(t) + 1 /\ i \in 1 .. Len(s)
          /\ n = Len(t) /\ i - 1 = Len(t) /\ \A j \in 1 .. i - 1 : j \in 1 .. Len(s)
      BY <1>1, <1>2, <2>4
    <3>2. \A j \in 1 .. i - 1 : a[j] = b[j]
      BY <1>1, <1>2, <2>1, <3>1
    <3>3. b[i] = m /\ a[i] = s[i] /\ s[i] < m /\ s[i] \in Nat
      BY <1>1, <1>2, <3>1
    <3>4. a[i] # b[i] /\ ~(b[i] < a[i]) /\ a[i] < b[i]
      BY <3>3
    <3>5. ~Before(b, a) /\ Before(a, b)
      BY <1>3, <3>1, <3>2, <3>4
    <3>6. String!Cmp(s, t) = -1
      BY <1>1, <1>2, <2>0, <2>4
    <3> QED BY <3>5, <3>6 DEF a, b
  <2> QED BY <1>1, <1>2, <2>2, <2>3, <2>4
<1> QED BY <1>5, <1>6

(* The text at hand and any other one are compared as in that dictionary.  *)
LEMMA StringOrder == StringInv => String!CmpIsOrder
<1> SUFFICES ASSUME StringInv, 0 \notin String!ToSet(String!Content), NEW t \in String!Strings
             PROVE  /\ String!Cmp(String!Content, t) < 0
                          <=> Before(Append(String!Content, Large + 1), Append(t, Large + 1))
                    /\ String!Cmp(String!Content, t) > 0
                          <=> Before(Append(t, Large + 1), Append(String!Content, Large + 1))
  BY DEF String!CmpIsOrder, Before
<1> DEFINE s == String!Content
<1>0. Large \in Nat /\ Large + 1 \in Nat /\ \A c \in Char : c \in Nat /\ c < Large + 1
  BY StringFacts
<1>1. s \in Seq(Byte)
  BY StringText
<1> HIDE DEF s
<1>2. Len(s) \in Nat /\ DOMAIN s = 1 .. Len(s) /\ \A j \in 1 .. Len(s) : s[j] \in Byte
  BY <1>1, LenProperties, ElementOfSeq
<1>3. \A j \in 1 .. Len(s) : s[j] \in Char
  BY <1>2 DEF s, String!ToSet, Byte
<1>4. s \in Seq(Nat) /\ \A j \in 1 .. Len(s) : s[j] < Large + 1
  <2>1. s \in [1 .. Len(s) -> Nat]
    <3>1. s = [j \in 1 .. Len(s) |-> s[j]]
      BY <1>1, <1>2, SeqDef
    <3>2. \A j \in 1 .. Len(s) : s[j] \in Nat
      BY <1>0, <1>3
    <3> QED BY <3>1, <3>2
  <2> QED BY <1>0, <1>2, <1>3, <2>1, IntervalIsSeq
<1>5. t \in Seq(Nat) /\ \A j \in 1 .. Len(t) : t[j] < Large + 1
  <2>1. t \in Seq(Char)
    BY GivenString
  <2>2. Len(t) \in Nat /\ \A j \in 1 .. Len(t) : t[j] \in Char
    BY <2>1, LenProperties, ElementOfSeq
  <2>3. t \in Seq(Nat)
    <3>1. Seq(Char) \subseteq Seq(Nat)
      BY <1>0
    <3> QED BY <2>1, <3>1
  <2> QED BY <1>0, <2>2, <2>3
<1> QED BY <1>0, <1>4, <1>5, CmpDecides DEF s
---------------------------------------------------------------------------
(* The priority queue.                                                     *)

(* What is assumed of it.                                                  *)
LEMMA PqFacts ==
    /\ \A v \in Ranked : v \in Nat /\ v # 0
    /\ Null \notin Ranked /\ PqInitialCap \in Nat /\ PqInitialCap >= 1
BY ContainerAssumption DEF Heap!PqAssumption

(* Arrays of m slots, in which 0 marks a cleared one.                      *)
Arrays(m) == [0 .. m - 1 -> Ranked \cup {0}]

(* The slots can be compared.                                              *)
LEMMA SlotsAreNumbers ==
    ASSUME NEW m \in Nat, NEW d \in Arrays(m)
    PROVE  \A i \in 0 .. m - 1 : d[i] \in Nat
BY PqFacts DEF Arrays

(* The parent of an index and the children it has.                         *)
LEMMA ParentFacts ==
    /\ \A i \in Nat : i >= 1 => Heap!Parent(i) \in Nat /\ Heap!Parent(i) < i
    /\ \A i, j \in Nat : j >= 1 => (Heap!Parent(j) = i <=> j = Heap!Left(i) \/ j = Heap!Right(i))
    /\ \A i \in Nat : Heap!Left(i) = 2 * i + 1 /\ Heap!Right(i) = 2 * i + 2
BY DEF Heap!Parent, Heap!Left, Heap!Right

(* e holds what d does among its first n slots, perhaps elsewhere.         *)
Permutes(n, d, e) == \E o : Reorders(n, o, d, e)

(* An array permutes itself.                                               *)
LEMMA PermutesSelf ==
    ASSUME NEW n \in Nat, NEW d
    PROVE  Permutes(n, d, d)
<1> DEFINE o == [i \in 0 .. n - 1 |-> i]
<1>1. o \in [0 .. n - 1 -> 0 .. n - 1] /\ \A i \in 0 .. n - 1 : o[i] = i
  OBVIOUS
<1> HIDE DEF o
<1>2. Reorders(n, o, d, d)
  BY <1>1 DEF Reorders, IsOrder
<1> QED BY <1>2 DEF Permutes

(* What permutes a permutation.                                            *)
LEMMA PermutesTwice ==
    ASSUME NEW n, NEW d, NEW e, NEW w, Permutes(n, d, e), Permutes(n, e, w)
    PROVE  Permutes(n, d, w)
<1>1. PICK o1 : Reorders(n, o1, d, e)
  BY DEF Permutes
<1>2. PICK o2 : Reorders(n, o2, e, w)
  BY DEF Permutes
<1> DEFINE o == [i \in 0 .. n - 1 |-> o1[o2[i]]]
<1>3. n \in Nat /\ o1 \in [0 .. n - 1 -> 0 .. n - 1] /\ o2 \in [0 .. n - 1 -> 0 .. n - 1]
  BY <1>1, <1>2 DEF Reorders, IsOrder
<1>4. /\ \A i, j \in 0 .. n - 1 : o1[i] = o1[j] => i = j
      /\ \A i, j \in 0 .. n - 1 : o2[i] = o2[j] => i = j
  BY <1>1, <1>2 DEF Reorders, IsOrder
<1>5. (\A i \in 0 .. n - 1 : e[i] = d[o1[i]]) /\ (\A i \in 0 .. n - 1 : w[i] = e[o2[i]])
  BY <1>1, <1>2 DEF Reorders
<1>6. \A i \in 0 .. n - 1 : o2[i] \in 0 .. n - 1 /\ o1[o2[i]] \in 0 .. n - 1 /\ o[i] = o1[o2[i]]
  BY <1>3
<1>7. o \in [0 .. n - 1 -> 0 .. n - 1]
  BY <1>6
<1> HIDE DEF o
<1>8. \A i, j \in 0 .. n - 1 : o[i] = o[j] => i = j
  BY <1>4, <1>6
<1>9. \A i \in 0 .. n - 1 : w[i] = d[o[i]]
  BY <1>5, <1>6
<1>10. Reorders(n, o, d, w)
  BY <1>3, <1>7, <1>8, <1>9 DEF Reorders, IsOrder
<1> QED BY <1>10 DEF Permutes

(* What an exchange of two slots leaves of an array.                       *)
LEMMA SwapIs ==
    ASSUME NEW m \in Nat, NEW d \in Arrays(m), NEW i \in 0 .. m - 1, NEW j \in 0 .. m - 1
    PROVE  /\ Heap!Swap(d, i, j) \in Arrays(m)
           /\ \A k \in 0 .. m - 1 :
                 Heap!Swap(d, i, j)[k] = IF k = i THEN d[j] ELSE IF k = j THEN d[i] ELSE d[k]
<1> DEFINE w == Heap!Swap(d, i, j)
<1>1. w = [d EXCEPT ![i] = d[j], ![j] = d[i]]
  BY DEF Heap!Swap
<1>2. \A k \in 0 .. m - 1 : w[k] = IF k = j THEN d[i] ELSE IF k = i THEN d[j] ELSE d[k]
  BY <1>1 DEF Arrays
<1>3. w \in Arrays(m)
  BY <1>1 DEF Arrays
<1> HIDE DEF w
<1>4. \A k \in 0 .. m - 1 : w[k] = IF k = i THEN d[j] ELSE IF k = j THEN d[i] ELSE d[k]
  BY <1>2
<1> QED BY <1>3, <1>4 DEF w

(* An exchange is a permutation.                                           *)
LEMMA SwapPermutes ==
    ASSUME NEW m \in Nat, NEW d \in Arrays(m), NEW n \in Nat, n <= m,
           NEW i \in 0 .. n - 1, NEW j \in 0 .. n - 1
    PROVE  Permutes(n, d, Heap!Swap(d, i, j))
<1> DEFINE o == [k \in 0 .. n - 1 |-> IF k = i THEN j ELSE IF k = j THEN i ELSE k]
           w == Heap!Swap(d, i, j)
<1>1. /\ o \in [0 .. n - 1 -> 0 .. n - 1]
      /\ \A k \in 0 .. n - 1 : o[k] = IF k = i THEN j ELSE IF k = j THEN i ELSE k
  OBVIOUS
<1>2. i \in 0 .. m - 1 /\ j \in 0 .. m - 1 /\ \A k \in 0 .. n - 1 : k \in 0 .. m - 1
  OBVIOUS
<1>3. \A k \in 0 .. m - 1 : w[k] = IF k = i THEN d[j] ELSE IF k = j THEN d[i] ELSE d[k]
  BY <1>2, SwapIs
<1> HIDE DEF o, w
<1>4. \A k \in 0 .. n - 1 : w[k] = d[o[k]]
  BY <1>1, <1>2, <1>3
<1>5. \A a, b \in 0 .. n - 1 : o[a] = o[b] => a = b
  BY <1>1
<1>6. Reorders(n, o, d, w)
  BY <1>1, <1>4, <1>5 DEF Reorders, IsOrder
<1> QED BY <1>6 DEF Permutes, w

(* What a permutation keeps: how often each value is there, the values,    *)
(* and their being distinct.                                               *)
LEMMA PermutesKeeps ==
    ASSUME NEW n, NEW d, NEW e, Permutes(n, d, e)
    PROVE  /\ \A v : Times(v, e, n) = Times(v, d, n)
           /\ \A i \in 0 .. n - 1 : \E j \in 0 .. n - 1 : e[i] = d[j]
           /\ (\A i, j \in 0 .. n - 1 : d[i] = d[j] => i = j)
                 => \A i, j \in 0 .. n - 1 : e[i] = e[j] => i = j
<1>1. PICK o : Reorders(n, o, d, e)
  BY DEF Permutes
<1>2. \A v : Times(v, e, n) = Times(v, d, n)
  BY <1>1, OrderKeepsTimes
<1>3. /\ o \in [0 .. n - 1 -> 0 .. n - 1] /\ \A i, j \in 0 .. n - 1 : o[i] = o[j] => i = j
      /\ \A i \in 0 .. n - 1 : e[i] = d[o[i]]
  BY <1>1 DEF Reorders, IsOrder
<1>4. \A i \in 0 .. n - 1 : o[i] \in 0 .. n - 1
  BY <1>3
<1> QED BY <1>2, <1>3, <1>4

(* One slot more.                                                          *)
LEMMA TimesMore ==
    ASSUME NEW n \in Nat, NEW d, NEW v
    PROVE  /\ Times(v, d, n) \in Nat /\ Times(v, d, 0) = 0
           /\ Times(v, d, n + 1) = IF d[n] = v THEN Times(v, d, n) + 1 ELSE Times(v, d, n)
<1>1. IsFiniteSet(Places(v, d, n)) /\ Times(v, d, n) \in Nat
  BY PlacesFinite
<1>2. Places(v, d, n + 1) = IF d[n] = v THEN Places(v, d, n) \cup {n} ELSE Places(v, d, n)
  <2>1. \A i : i \in 0 .. (n + 1) - 1 <=> i \in 0 .. n - 1 \/ i = n
    OBVIOUS
  <2> QED BY <2>1 DEF Places
<1>3. n \notin Places(v, d, n)
  <2>1. n \notin 0 .. n - 1
    OBVIOUS
  <2> QED BY <2>1 DEF Places
<1>4. Places(v, d, 0) = {}
  <2>1. \A i : i \notin 0 .. 0 - 1
    OBVIOUS
  <2> QED BY <2>1 DEF Places
<1>5. Times(v, d, 0) = 0
  BY <1>4, FS_EmptySet DEF Times
<1>6. Cardinality(Places(v, d, n) \cup {n}) = Cardinality(Places(v, d, n)) + 1
  BY <1>1, <1>3, FS_AddElement
<1> QED BY <1>1, <1>2, <1>5, <1>6 DEF Times

(* Arrays that agree below n hold a value equally often there.             *)
LEMMA TimesSame ==
    ASSUME NEW n, NEW d, NEW e, \A i \in 0 .. n - 1 : e[i] = d[i], NEW v
    PROVE  Times(v, e, n) = Times(v, d, n)
<1>1. Places(v, e, n) = Places(v, d, n)
  BY DEF Places
<1> QED BY <1>1 DEF Times

(* Every index from 1 to k has a value that is not below its parent's.     *)
HeapTo(d, k) == \A j \in 1 .. k : d[Heap!Parent(j)] <= d[j]

(* An index is treated in heapify_up: the value goes to the parent if it   *)
(* is below the parent's.                                                  *)
SwapUp(e, i) == IF e[Heap!Parent(i)] > e[i] THEN Heap!Swap(e, i, Heap!Parent(i)) ELSE e

(* The values of an index and its parent afterwards.                       *)
LEMMA SwapUpIs ==
    ASSUME NEW m \in Nat, NEW e \in Arrays(m), NEW k \in 1 .. m - 1
    PROVE  /\ SwapUp(e, k) \in Arrays(m)
           /\ Heap!Parent(k) \in 0 .. k - 1
           /\ \A x \in 0 .. m - 1 : x # k /\ x # Heap!Parent(k) => SwapUp(e, k)[x] = e[x]
           /\ \/ e[Heap!Parent(k)] <= e[k] /\ SwapUp(e, k) = e
              \/ /\ e[k] < e[Heap!Parent(k)]
                 /\ SwapUp(e, k)[k] = e[Heap!Parent(k)] /\ SwapUp(e, k)[Heap!Parent(k)] = e[k]
           /\ \A n \in Nat : n <= m /\ k < n => Permutes(n, e, SwapUp(e, k))
<1> DEFINE p == Heap!Parent(k)
           w == Heap!Swap(e, k, p)
<1>1. k \in Nat /\ p \in 0 .. k - 1 /\ p \in 0 .. m - 1 /\ k \in 0 .. m - 1 /\ p # k
  <2>1. k \in Nat /\ k >= 1
    OBVIOUS
  <2>2. p \in Nat /\ p < k
    BY <2>1, ParentFacts
  <2> QED BY <2>1, <2>2
<1> HIDE DEF p
<1>2. e[p] \in Nat /\ e[k] \in Nat
  BY <1>1, SlotsAreNumbers
<1>3. /\ w \in Arrays(m)
      /\ \A x \in 0 .. m - 1 : w[x] = IF x = k THEN e[p] ELSE IF x = p THEN e[k] ELSE e[x]
  BY <1>1, SwapIs
<1>4. SwapUp(e, k) = IF e[p] > e[k] THEN w ELSE e
  BY DEF SwapUp, p
<1>5. ASSUME NEW n \in Nat, n <= m, k < n PROVE Permutes(n, e, w) /\ Permutes(n, e, e)
  <2>1. k \in 0 .. n - 1 /\ p \in 0 .. n - 1
    BY <1>1, <1>5
  <2> QED BY <1>5, <2>1, SwapPermutes, PermutesSelf
<1> HIDE DEF w
<1>6. CASE e[p] > e[k]
  <2>1. SwapUp(e, k) = w /\ e[k] < e[p]
    BY <1>2, <1>4, <1>6
  <2> QED BY <1>1, <1>3, <1>5, <2>1 DEF p
<1>7. CASE ~(e[p] > e[k])
  <2>1. SwapUp(e, k) = e /\ e[p] <= e[k]
    BY <1>2, <1>4, <1>7
  <2> QED BY <1>1, <1>5, <2>1 DEF p
<1> QED BY <1>6, <1>7

(* What is so once the indices above i have been treated: each value has   *)
(* one up to i that is not above it;                                       *)
MinUpTo(e, n, i) == \A x \in 0 .. n : \E j \in 0 .. i : e[j] <= e[x]

(* and an array that was a heap but for the value at n has at most one     *)
(* index p whose value is below its parent's, with children that are not   *)
(* below that parent, and it is one that has not been treated.             *)
Lifted(e, n, i, p) ==
    /\ \A j \in 1 .. n : j # p => e[Heap!Parent(j)] <= e[j]
    /\ p >= 1 => \A j \in 1 .. n : Heap!Parent(j) = p => e[Heap!Parent(p)] <= e[j]
    /\ p <= i \/ HeapTo(e, n)

(* Treating an index keeps the first.                                      *)
LEMMA MinGoesUp ==
    ASSUME NEW m \in Nat, NEW e \in Arrays(m), NEW n \in 0 .. m - 1, NEW i \in 0 .. n - 1,
           MinUpTo(e, n, i + 1)
    PROVE  MinUpTo(SwapUp(e, i + 1), n, i)
<1> DEFINE k == i + 1
           p == Heap!Parent(k)
           w == SwapUp(e, k)
<1>1. k \in 1 .. m - 1 /\ k \in 0 .. m - 1 /\ \A x \in 0 .. n : x \in 0 .. m - 1
  OBVIOUS
<1>2. /\ w \in Arrays(m) /\ p \in 0 .. k - 1
      /\ \A x \in 0 .. m - 1 : x # k /\ x # p => w[x] = e[x]
      /\ \/ e[p] <= e[k] /\ w = e
         \/ e[k] < e[p] /\ w[k] = e[p] /\ w[p] = e[k]
  BY <1>1, SwapUpIs
<1> HIDE DEF p, w
<1>3. p \in 0 .. i /\ p \in 0 .. m - 1 /\ p # k
  BY <1>2
<1>4. (\A x \in 0 .. m - 1 : e[x] \in Nat) /\ \A x \in 0 .. m - 1 : w[x] \in Nat
  BY <1>2, SlotsAreNumbers
<1>5. e[k] \in Nat /\ e[p] \in Nat /\ w[k] \in Nat /\ w[p] \in Nat
  BY <1>1, <1>3, <1>4
<1>6. w[p] <= w[k] /\ w[p] <= e[p] /\ w[p] <= e[k]
  BY <1>2, <1>5
<1>7. ASSUME NEW x \in 0 .. n PROVE \E j \in 0 .. i : w[j] <= w[x]
  <2>0. x \in 0 .. m - 1 /\ e[x] \in Nat /\ w[x] \in Nat
    BY <1>1, <1>4
  <2>1. CASE x = k \/ x = p
    <3>1. w[p] <= w[x]
      BY <1>5, <1>6, <2>1
    <3> QED BY <1>3, <3>1
  <2>2. CASE x # k /\ x # p
    <3>1. w[x] = e[x]
      BY <1>2, <2>0, <2>2
    <3>2. PICK j \in 0 .. k : e[j] <= e[x]
      BY DEF MinUpTo
    <3>3. j \in 0 .. m - 1 /\ e[j] \in Nat
      <4>1. j \in 0 .. m - 1
        BY <1>1, <3>2
      <4> QED BY <1>4, <4>1
    <3>4. CASE j = k \/ j = p
      <4>1. w[p] <= w[x]
        BY <1>5, <1>6, <2>0, <3>1, <3>2, <3>3, <3>4
      <4> QED BY <1>3, <4>1
    <3>5. CASE j # k /\ j # p
      <4>1. w[j] = e[j] /\ j \in 0 .. i
        BY <1>2, <3>2, <3>3, <3>5
      <4> QED BY <3>1, <3>2, <4>1
    <3> QED BY <3>4, <3>5
  <2> QED BY <2>1, <2>2
<1> QED BY <1>7 DEF MinUpTo, w

(* Treating an index keeps the second.                                     *)
LEMMA LiftGoesUp ==
    ASSUME NEW m \in Nat, NEW e \in Arrays(m), NEW n \in 0 .. m - 1, NEW i \in 0 .. n - 1,
           NEW p \in 0 .. n, Lifted(e, n, i + 1, p)
    PROVE  \E q \in 0 .. n : Lifted(SwapUp(e, i + 1), n, i, q)
<1> DEFINE k == i + 1
           q == Heap!Parent(k)
           w == SwapUp(e, k)
<1>1. k \in 1 .. m - 1 /\ k \in 1 .. n /\ \A x \in 0 .. n : x \in 0 .. m - 1
  OBVIOUS
<1>2. /\ w \in Arrays(m) /\ q \in 0 .. k - 1
      /\ \A x \in 0 .. m - 1 : x # k /\ x # q => w[x] = e[x]
      /\ \/ e[q] <= e[k] /\ w = e
         \/ e[k] < e[q] /\ w[k] = e[q] /\ w[q] = e[k]
  BY <1>1, SwapUpIs
<1>3. /\ \A j \in 1 .. n : j # p => e[Heap!Parent(j)] <= e[j]
      /\ p >= 1 => \A j \in 1 .. n : Heap!Parent(j) = p => e[Heap!Parent(p)] <= e[j]
      /\ p <= k \/ HeapTo(e, n)
  BY DEF Lifted
<1>4. q \in 0 .. i /\ q \in 0 .. n /\ q # k
  BY <1>1, <1>2
<1>5. \A j \in 1 .. n : Heap!Parent(j) \in 0 .. n /\ Heap!Parent(j) < j /\ j \in 0 .. n
  <2> SUFFICES ASSUME NEW j \in 1 .. n
               PROVE  Heap!Parent(j) \in 0 .. n /\ Heap!Parent(j) < j /\ j \in 0 .. n
    OBVIOUS
  <2>1. j \in Nat /\ j >= 1
    OBVIOUS
  <2>2. Heap!Parent(j) \in Nat /\ Heap!Parent(j) < j
    BY <2>1, ParentFacts
  <2> QED BY <2>1, <2>2
<1>6. \A x \in 0 .. n : e[x] \in Nat
  BY <1>1, SlotsAreNumbers
<1> HIDE DEF w
<1>7. CASE e[q] <= e[k]
  <2>1. w = e
    <3>1. e[q] \in Nat /\ e[k] \in Nat
      BY <1>1, <1>4, <1>6
    <3> QED BY <1>2, <1>7, <3>1
  <2>2. p <= i \/ HeapTo(e, n)
    <3>1. CASE p = k
      BY <1>3, <1>7, <3>1 DEF HeapTo
    <3>2. CASE p # k
      BY <1>3, <3>2
    <3> QED BY <3>1, <3>2
  <2>3. Lifted(w, n, i, p)
    BY <1>3, <2>1, <2>2 DEF Lifted
  <2> QED BY <2>3 DEF w
<1>8. CASE ~(e[q] <= e[k])
  <2>0. ~(e[q] <= e[k]) /\ q = Heap!Parent(k)
    BY <1>8
  <2>1. p = k
    BY <1>1, <1>3, <2>0
  <2>2. e[k] < e[q] /\ w[k] = e[q] /\ w[q] = e[k]
    BY <1>2, <1>8
  <2>3. \A x \in 0 .. n : x # k /\ x # q => w[x] = e[x]
    BY <1>1, <1>2
  <2>4. e[q] \in Nat /\ e[k] \in Nat
    BY <1>1, <1>4, <1>6
  <2>5. \A j \in 1 .. n : Heap!Parent(j) = k => e[q] <= e[j]
    BY <1>1, <1>3, <2>0, <2>1
  <2>6. \A j \in 1 .. n : j # k => e[Heap!Parent(j)] <= e[j]
    BY <1>3, <2>1
  <2>p. Heap!Parent(k) = q
    OBVIOUS
  <2> HIDE DEF q, k
  <2>7. ASSUME NEW j \in 1 .. n, j # q PROVE w[Heap!Parent(j)] <= w[j]
    <3> DEFINE r == Heap!Parent(j)
    <3>1. r \in 0 .. n /\ j \in 0 .. n /\ e[r] \in Nat /\ e[j] \in Nat /\ r # j
      BY <1>5, <1>6, <2>7
    <3>2. CASE j = k
      <4>1. r = q
        BY <2>p, <3>2
      <4> QED BY <2>2, <2>4, <3>2, <4>1
    <3>3. CASE j # k
      <4>1. w[j] = e[j] /\ e[r] <= e[j]
        BY <2>3, <2>6, <2>7, <3>1, <3>3
      <4>2. CASE r = k
        <5>1. w[r] = e[q] /\ e[q] <= e[j]
          BY <2>2, <2>5, <4>2
        <5> QED BY <4>1, <5>1
      <4>3. CASE r = q
        <5>1. w[r] = e[k] /\ e[k] < e[q] /\ e[q] <= e[j]
          BY <2>2, <4>1, <4>3
        <5> QED BY <2>4, <3>1, <4>1, <5>1
      <4>4. CASE r # k /\ r # q
        <5>1. w[r] = e[r]
          BY <2>3, <3>1, <4>4
        <5> QED BY <4>1, <5>1
      <4> QED BY <4>2, <4>3, <4>4
    <3> QED BY <3>2, <3>3
  <2>8. ASSUME q >= 1, NEW j \in 1 .. n, Heap!Parent(j) = q PROVE w[Heap!Parent(q)] <= w[j]
    <3> DEFINE r == Heap!Parent(q)
    <3>0. q \in 1 .. n /\ q # k
      BY <1>4, <2>8
    <3>1. r \in 0 .. n /\ r < q /\ e[r] \in Nat /\ e[r] <= e[q]
      BY <1>5, <1>6, <2>6, <3>0
    <3>2. q < k /\ k \in Nat /\ q \in Nat
      BY <1>1, <1>5, <2>p DEF k
    <3>3. w[r] = e[r]
      <4>1. r # q /\ r # k
        BY <3>1, <3>2
      <4> QED BY <2>3, <3>1, <4>1
    <3>4. CASE j = k
      BY <2>2, <3>1, <3>3, <3>4
    <3>5. CASE j # k
      <4>1. j # q /\ j \in 0 .. n /\ e[j] \in Nat
        BY <1>5, <1>6, <2>8
      <4>2. w[j] = e[j] /\ e[q] <= e[j]
        BY <2>3, <2>6, <2>8, <3>5, <4>1
      <4> QED BY <2>4, <3>1, <3>3, <4>1, <4>2
    <3> QED BY <3>4, <3>5
  <2>9. q <= i
    BY <1>4
  <2>10. Lifted(w, n, i, q)
    BY <2>7, <2>8, <2>9 DEF Lifted
  <2> QED BY <1>4, <2>10 DEF w, k
<1> QED BY <1>7, <1>8

(* heapify_up from the last index n: a permutation with a minimum at the   *)
(* root, and a heap if it was one but for the value at n.                  *)
LEMMA HeapifyUpIs ==
    ASSUME NEW m \in Nat, NEW d \in Arrays(m), NEW n \in 0 .. m - 1
    PROVE  /\ Heap!HeapifyUp(d, n) \in Arrays(m)
           /\ Permutes(n + 1, d, Heap!HeapifyUp(d, n))
           /\ \A x \in 0 .. n : Heap!HeapifyUp(d, n)[0] <= Heap!HeapifyUp(d, n)[x]
           /\ HeapTo(d, n - 1) => HeapTo(Heap!HeapifyUp(d, n), n)
<1> DEFINE T == Arrays(m)
           G(f) == [i \in 0 .. n |-> IF i = n THEN d ELSE SwapUp(f[i + 1], i + 1)]
           F == CHOOSE f : f = G(f)
           g == [a \in (1 .. n) \X T |-> SwapUp(a[2], (n - a[1]) + 1)]
<1>0. n \in Nat /\ n <= m - 1
  OBVIOUS
<1>1. \A e \in T, k \in 1 .. n : SwapUp(e, k) \in T
  <2>1. \A k \in 1 .. n : k \in 1 .. m - 1
    BY <1>0
  <2> QED BY <2>1, SwapUpIs
<1>2. g \in [(1 .. n) \X T -> T] /\ \A t \in 1 .. n, e \in T : g[<<t, e>>] = SwapUp(e, (n - t) + 1)
  <2>1. \A t \in 1 .. n : (n - t) + 1 \in 1 .. n
    BY <1>0
  <2> HIDE DEF T
  <2> QED BY <1>1, <2>1
<1> HIDE DEF g, T
<1>3. \E f : f = G(f)
  <2>1. PICK h : IsRecursion(h, T, n, d, g)
    <3>1. d \in T
      BY DEF T
    <3> QED BY <1>0, <1>2, <3>1, RecursionExists
  <2>2. /\ h \in [0 .. n -> T]
        /\ \A t \in 0 .. n : h[t] = IF t = 0 THEN d ELSE g[<<t, h[t - 1]>>]
    BY <2>1 DEF IsRecursion
  <2> DEFINE f == [i \in 0 .. n |-> h[n - i]]
  <2>3. ASSUME NEW i \in 0 .. n PROVE f[i] = IF i = n THEN d ELSE SwapUp(f[i + 1], i + 1)
    <3>1. n - i \in 0 .. n /\ f[i] = h[n - i] /\ (n - i = 0 <=> i = n)
      BY <1>0
    <3>2. CASE i = n
      BY <2>2, <3>1, <3>2
    <3>3. CASE i # n
      <4>1. /\ n - i \in 1 .. n /\ i + 1 \in 0 .. n /\ (n - i) - 1 = n - (i + 1)
            /\ (n - i) - 1 \in 0 .. n /\ (n - (n - i)) + 1 = i + 1
        BY <1>0, <3>3
      <4>2. f[i + 1] = h[(n - i) - 1] /\ h[(n - i) - 1] \in T
        BY <2>2, <4>1
      <4>3. h[n - i] = g[<<n - i, h[(n - i) - 1]>>]
        BY <2>2, <3>1, <3>3
      <4> QED BY <1>2, <3>1, <3>3, <4>1, <4>2, <4>3
    <3> QED BY <3>2, <3>3
  <2>4. f = G(f)
    BY <2>3
  <2> QED BY <2>4
<1>4. Heap!HeapifyUp(d, n) = F[0]
  BY DEF Heap!HeapifyUp, SwapUp
<1> HIDE DEF G
<1>5. F = G(F)
  BY <1>3
<1> HIDE DEF F
<1>6. F[n] = d /\ \A i \in 0 .. n - 1 : F[i] = SwapUp(F[i + 1], i + 1)
  <2>1. \A i \in 0 .. n : F[i] = IF i = n THEN d ELSE SwapUp(F[i + 1], i + 1)
    BY <1>5 DEF G
  <2>2. n \in 0 .. n /\ \A i \in 0 .. n - 1 : i \in 0 .. n /\ i # n
    BY <1>0
  <2> QED BY <2>1, <2>2
<1> DEFINE Q(e, i) == /\ e \in T /\ Permutes(n + 1, d, e) /\ MinUpTo(e, n, i)
                      /\ HeapTo(d, n - 1) => \E p \in 0 .. n : Lifted(e, n, i, p)
           P == {t \in 0 .. n : Q(F[n - t], n - t)}
<1>7. Q(d, n)
  <2>1. n + 1 \in Nat /\ \A x \in 0 .. n : x \in 0 .. m - 1
    BY <1>0
  <2>2. \A x \in 0 .. n : d[x] \in Nat
    BY <2>1, SlotsAreNumbers
  <2>3. Permutes(n + 1, d, d)
    BY <2>1, PermutesSelf
  <2>4. MinUpTo(d, n, n)
    <3>1. \A x \in 0 .. n : d[x] <= d[x]
      BY <2>2
    <3> QED BY <3>1 DEF MinUpTo
  <2>5. ASSUME HeapTo(d, n - 1) PROVE Lifted(d, n, n, n)
    <3>1. \A j \in 1 .. n : j # n => d[Heap!Parent(j)] <= d[j]
      <4>1. \A j \in 1 .. n : j # n => j \in 1 .. n - 1
        BY <1>0
      <4> QED BY <2>5, <4>1 DEF HeapTo
    <3>2. \A j \in 1 .. n : Heap!Parent(j) # n
      <4> SUFFICES ASSUME NEW j \in 1 .. n PROVE Heap!Parent(j) # n
        OBVIOUS
      <4>1. j \in Nat /\ j >= 1
        BY <1>0
      <4>2. Heap!Parent(j) \in Nat /\ Heap!Parent(j) < j
        BY <4>1, ParentFacts
      <4> QED BY <1>0, <4>1, <4>2
    <3>3. n <= n
      BY <1>0
    <3> QED BY <3>1, <3>2, <3>3 DEF Lifted
  <2>6. n \in 0 .. n
    BY <1>0
  <2> QED BY <2>3, <2>4, <2>5, <2>6 DEF T
<1>8. ASSUME NEW i \in 0 .. n - 1, NEW e, Q(e, i + 1) PROVE Q(SwapUp(e, i + 1), i)
  <2>1. /\ e \in Arrays(m) /\ Permutes(n + 1, d, e) /\ MinUpTo(e, n, i + 1)
        /\ HeapTo(d, n - 1) => \E p \in 0 .. n : Lifted(e, n, i + 1, p)
    BY <1>8 DEF T
  <2>2. i + 1 \in 1 .. m - 1 /\ n + 1 \in Nat /\ n + 1 <= m /\ i + 1 < n + 1
    BY <1>0, <1>8
  <2>3. SwapUp(e, i + 1) \in Arrays(m) /\ Permutes(n + 1, e, SwapUp(e, i + 1))
    BY <2>1, <2>2, SwapUpIs
  <2>4. Permutes(n + 1, d, SwapUp(e, i + 1))
    BY <2>1, <2>3, PermutesTwice
  <2>5. MinUpTo(SwapUp(e, i + 1), n, i)
    BY <1>8, <2>1, MinGoesUp
  <2>6. ASSUME HeapTo(d, n - 1) PROVE \E q \in 0 .. n : Lifted(SwapUp(e, i + 1), n, i, q)
    <3>1. PICK p \in 0 .. n : Lifted(e, n, i + 1, p)
      BY <2>1, <2>6
    <3> QED BY <1>8, <2>1, <3>1, LiftGoesUp
  <2> QED BY <2>3, <2>4, <2>5, <2>6 DEF T
<1> HIDE DEF Q
<1>9. 0 \in P
  <2>1. 0 \in 0 .. n /\ n - 0 = n
    BY <1>0
  <2> QED BY <1>6, <1>7, <2>1
<1>10. ASSUME NEW t \in 0 .. n - 1, t \in P PROVE t + 1 \in P
  <2>1. /\ t + 1 \in 0 .. n /\ n - (t + 1) \in 0 .. n - 1 /\ (n - (t + 1)) + 1 = n - t
    BY <1>0, <1>10
  <2>2. Q(F[n - t], n - t)
    BY <1>10
  <2>3. Q(SwapUp(F[n - t], n - t), n - (t + 1))
    BY <1>8, <2>1, <2>2
  <2>4. F[n - (t + 1)] = SwapUp(F[n - t], n - t)
    BY <1>6, <2>1
  <2> QED BY <2>1, <2>3, <2>4
<1>11. Q(F[0], 0)
  <2> HIDE DEF P
  <2>1. n \in P
    <3>1. n \in 0 .. n
      BY <1>0
    <3> QED BY <1>0, <1>9, <1>10, <3>1, InductionTo
  <2>2. n - n = 0
    BY <1>0
  <2> QED BY <2>1, <2>2 DEF P
<1>12. /\ F[0] \in Arrays(m) /\ Permutes(n + 1, d, F[0]) /\ MinUpTo(F[0], n, 0)
       /\ HeapTo(d, n - 1) => \E p \in 0 .. n : Lifted(F[0], n, 0, p)
  BY <1>11 DEF Q, T
<1>13. \A x \in 0 .. n : F[0][0] <= F[0][x]
  BY <1>12 DEF MinUpTo
<1>14. ASSUME HeapTo(d, n - 1) PROVE HeapTo(F[0], n)
  <2>1. PICK p \in 0 .. n : Lifted(F[0], n, 0, p)
    BY <1>12, <1>14
  <2>2. CASE p <= 0
    <3>1. \A j \in 1 .. n : j # p
      BY <1>0, <2>1, <2>2
    <3> QED BY <2>1, <3>1 DEF Lifted, HeapTo
  <2>3. CASE ~(p <= 0)
    BY <2>1, <2>3 DEF Lifted
  <2> QED BY <2>2, <2>3
<1> QED BY <1>4, <1>12, <1>13, <1>14
---------------------------------------------------------------------------
(* heapify_down over the first n slots.                                    *)

(* Its loop has an array and the index of the value on its way down.       *)
Siftings(m) == [data : Arrays(m), idx : Nat]

(* A turn of the loop from s to w: it exchanges the value with a child     *)
(* below it, if it has both and the child is strictly below the other, or  *)
(* ends the loop.                                                          *)
TurnsTo(s, n, w) ==
    \/ /\ w.data = s.data /\ w.idx = n
       /\ \/ Heap!Right(s.idx) >= n
          \/ /\ s.data[s.idx] <= s.data[Heap!Left(s.idx)]
             /\ s.data[s.idx] <= s.data[Heap!Right(s.idx)]
          \/ s.data[Heap!Left(s.idx)] = s.data[Heap!Right(s.idx)]
    \/ \E c, o \in 0 .. n - 1 :
          /\ {c, o} = {Heap!Left(s.idx), Heap!Right(s.idx)} /\ c # o /\ c > s.idx
          /\ s.data[c] < s.data[o] /\ s.data[c] < s.data[s.idx]
          /\ w.data = Heap!Swap(s.data, s.idx, c) /\ w.idx = c

(* That is what the code's turn does.                                      *)
LEMMA SiftStepIs ==
    ASSUME NEW m \in Nat, NEW n \in 0 .. m, NEW s \in Siftings(m), s.idx \in 0 .. n - 1
    PROVE  Heap!SiftStep(s, n) \in Siftings(m) /\ TurnsTo(s, n, Heap!SiftStep(s, n))
<1> DEFINE e == s.data
           i == s.idx
           l == Heap!Left(i)
           r == Heap!Right(i)
           w == Heap!SiftStep(s, n)
<1>0. e \in Arrays(m) /\ i \in 0 .. n - 1
  BY DEF Siftings
<1>1. n \in Nat /\ i \in Nat /\ l = 2 * i + 1 /\ r = 2 * i + 2 /\ n <= m
  <2>1. n \in Nat /\ i \in Nat /\ n <= m
    BY <1>0
  <2> QED BY <2>1, ParentFacts
<1>2. w = IF r >= n THEN [s EXCEPT !.idx = n]
          ELSE IF e[r] < e[l] /\ e[r] < e[i] THEN [data |-> Heap!Swap(e, i, r), idx |-> r]
          ELSE IF e[l] < e[r] /\ e[l] < e[i] THEN [data |-> Heap!Swap(e, i, l), idx |-> l]
          ELSE [s EXCEPT !.idx = n]
  BY DEF Heap!SiftStep
<1> HIDE DEF l, r, w
<1>3. ASSUME w = [s EXCEPT !.idx = n] PROVE w \in Siftings(m) /\ w.data = e /\ w.idx = n
  BY <1>1, <1>3 DEF Siftings
<1>4. CASE r >= n
  <2>1. w = [s EXCEPT !.idx = n]
    BY <1>2, <1>4
  <2> QED BY <1>3, <1>4, <2>1 DEF w, r, TurnsTo
<1>5. CASE ~(r >= n)
  <2>1. /\ l \in 0 .. n - 1 /\ r \in 0 .. n - 1 /\ l # r /\ l > i /\ r > i
        /\ l \in 0 .. m - 1 /\ r \in 0 .. m - 1 /\ i \in 0 .. m - 1 /\ l \in Nat /\ r \in Nat
    BY <1>0, <1>1, <1>5
  <2>2. e[l] \in Nat /\ e[r] \in Nat /\ e[i] \in Nat
    BY <1>0, <2>1, SlotsAreNumbers
  <2>3. Heap!Swap(e, i, l) \in Arrays(m) /\ Heap!Swap(e, i, r) \in Arrays(m)
    BY <1>0, <2>1, SwapIs
  <2>4. CASE e[r] < e[l] /\ e[r] < e[i]
    <3>1. w = [data |-> Heap!Swap(e, i, r), idx |-> r]
      BY <1>2, <1>5, <2>4
    <3>2. w \in Siftings(m) /\ w.data = Heap!Swap(e, i, r) /\ w.idx = r
      BY <2>1, <2>3, <3>1 DEF Siftings
    <3>3. {r, l} = {l, r}
      OBVIOUS
    <3> QED BY <2>1, <2>4, <3>2, <3>3 DEF w, l, r, TurnsTo
  <2>5. CASE e[l] < e[r] /\ e[l] < e[i]
    <3>1. ~(e[r] < e[l])
      BY <2>2, <2>5
    <3>2. w = [data |-> Heap!Swap(e, i, l), idx |-> l]
      BY <1>2, <1>5, <2>5, <3>1
    <3>3. w \in Siftings(m) /\ w.data = Heap!Swap(e, i, l) /\ w.idx = l
      BY <2>1, <2>3, <3>2 DEF Siftings
    <3> QED BY <2>1, <2>5, <3>3 DEF w, l, r, TurnsTo
  <2>6. CASE ~(e[r] < e[l] /\ e[r] < e[i]) /\ ~(e[l] < e[r] /\ e[l] < e[i])
    <3>1. w = [s EXCEPT !.idx = n]
      BY <1>2, <1>5, <2>6
    <3>2. (e[i] <= e[l] /\ e[i] <= e[r]) \/ e[l] = e[r]
      BY <2>2, <2>6
    <3> QED BY <1>3, <3>1, <3>2 DEF w, l, r, TurnsTo
  <2> QED BY <2>4, <2>5, <2>6
<1> QED BY <1>4, <1>5

(* The elements of an array differ.                                        *)
Differ(e, n) == \A i, j \in 0 .. n - 1 : e[i] = e[j] => i = j

(* The array is a heap but for the children of i, which are not below its  *)
(* parent.                                                                 *)
Sinking(e, n, i) ==
    /\ \A j \in 1 .. n - 1 : Heap!Parent(j) # i => e[Heap!Parent(j)] <= e[j]
    /\ i >= 1 => \A j \in 1 .. n - 1 : Heap!Parent(j) = i => e[Heap!Parent(i)] <= e[j]

(* An exchange with the lesser child moves the exception down.             *)
LEMMA SinksTo ==
    ASSUME NEW m \in Nat, NEW n \in 0 .. m, NEW e \in Arrays(m), NEW i \in 0 .. n - 1,
           Sinking(e, n, i), NEW c \in 0 .. n - 1, NEW o \in 0 .. n - 1,
           {c, o} = {Heap!Left(i), Heap!Right(i)}, c # o, c > i, e[c] < e[o], e[c] < e[i]
    PROVE  Sinking(Heap!Swap(e, i, c), n, c)
<1> DEFINE w == Heap!Swap(e, i, c)
<1>1. /\ n \in Nat /\ i \in Nat /\ c \in Nat /\ i \in 0 .. m - 1 /\ c \in 0 .. m - 1 /\ i # c
      /\ \A x \in 0 .. n - 1 : x \in 0 .. m - 1
  OBVIOUS
<1>2. \A x \in 0 .. m - 1 : w[x] = IF x = i THEN e[c] ELSE IF x = c THEN e[i] ELSE e[x]
  BY <1>1, SwapIs
<1>3. \A x \in 0 .. n - 1 : e[x] \in Nat
  BY <1>1, SlotsAreNumbers
<1>4. \A j \in 1 .. n - 1 : /\ Heap!Parent(j) \in 0 .. n - 1 /\ Heap!Parent(j) < j
                            /\ j \in 0 .. n - 1 /\ (Heap!Parent(j) = i <=> j = c \/ j = o)
  <2> SUFFICES ASSUME NEW j \in 1 .. n - 1
               PROVE  /\ Heap!Parent(j) \in 0 .. n - 1 /\ Heap!Parent(j) < j
                      /\ j \in 0 .. n - 1 /\ (Heap!Parent(j) = i <=> j = c \/ j = o)
    OBVIOUS
  <2>1. j \in Nat /\ j >= 1
    OBVIOUS
  <2>2. Heap!Parent(j) \in Nat /\ Heap!Parent(j) < j
    BY <2>1, ParentFacts
  <2>3. Heap!Parent(j) = i <=> j = Heap!Left(i) \/ j = Heap!Right(i)
    BY <1>1, <2>1, ParentFacts
  <2>4. j = Heap!Left(i) \/ j = Heap!Right(i) <=> j = c \/ j = o
    OBVIOUS
  <2> QED BY <2>1, <2>2, <2>3, <2>4
<1>5. /\ \A j \in 1 .. n - 1 : Heap!Parent(j) # i => e[Heap!Parent(j)] <= e[j]
      /\ i >= 1 => \A j \in 1 .. n - 1 : Heap!Parent(j) = i => e[Heap!Parent(i)] <= e[j]
  BY DEF Sinking
<1>6. e[c] \in Nat /\ e[i] \in Nat /\ e[o] \in Nat /\ c \in 1 .. n - 1
  BY <1>1, <1>3
<1> HIDE DEF w
<1>7. ASSUME NEW j \in 1 .. n - 1, Heap!Parent(j) # c PROVE w[Heap!Parent(j)] <= w[j]
  <2> DEFINE p == Heap!Parent(j)
  <2>1. p \in 0 .. n - 1 /\ p # j /\ j \in 0 .. n - 1 /\ e[p] \in Nat /\ e[j] \in Nat
        /\ p \in 0 .. m - 1 /\ j \in 0 .. m - 1
    BY <1>1, <1>3, <1>4, <1>7
  <2>2. p # c /\ (p = i <=> j = c \/ j = o) /\ (p # i => e[p] <= e[j])
    BY <1>4, <1>5, <1>7
  <2>3. i >= 1 /\ j = i => e[p] <= e[c]
    <3>1. Heap!Parent(c) = i
      BY <1>4, <1>6
    <3> QED BY <1>5, <1>6, <3>1
  <2> HIDE DEF p
  <2>4. CASE j = c
    <3>1. w[p] = e[c] /\ w[j] = e[i]
      BY <1>1, <1>2, <2>1, <2>2, <2>4
    <3> QED BY <1>6, <3>1 DEF p
  <2>5. CASE j = o
    <3>1. w[p] = e[c] /\ w[j] = e[o]
      BY <1>2, <2>1, <2>2, <2>5
    <3> QED BY <1>6, <3>1 DEF p
  <2>6. CASE j = i
    <3>1. w[p] = e[p] /\ w[j] = e[c] /\ i >= 1
      BY <1>2, <1>7, <2>1, <2>2, <2>6
    <3> QED BY <2>3, <2>6, <3>1 DEF p
  <2>7. CASE j # c /\ j # o /\ j # i
    <3>1. w[p] = e[p] /\ w[j] = e[j]
      BY <1>2, <2>1, <2>2, <2>7
    <3> QED BY <2>2, <2>7, <3>1 DEF p
  <2> QED BY <2>4, <2>5, <2>6, <2>7
<1>8. ASSUME NEW j \in 1 .. n - 1, Heap!Parent(j) = c PROVE w[Heap!Parent(c)] <= w[j]
  <2>1. Heap!Parent(c) = i
    BY <1>4, <1>6
  <2>2. c < j /\ j # c /\ j # i /\ j \in 0 .. m - 1
    <3>1. c < j
      BY <1>4, <1>8
    <3> QED BY <1>1, <3>1
  <2>3. e[c] <= e[j]
    BY <1>1, <1>5, <1>8
  <2>4. w[i] = e[c] /\ w[j] = e[j]
    BY <1>1, <1>2, <2>2
  <2> QED BY <2>1, <2>3, <2>4
<1> QED BY <1>7, <1>8 DEF Sinking, w

(* An odd number of slots ends with a pair of children, so a value with no *)
(* two children has none, and the exception is gone.                       *)
LEMMA SunkTo ==
    ASSUME NEW m \in Nat, NEW n \in 0 .. m, n % 2 = 1, NEW e \in Arrays(m), NEW i \in 0 .. n - 1,
           Sinking(e, n, i), Differ(e, n),
           \/ Heap!Right(i) >= n
           \/ e[i] <= e[Heap!Left(i)] /\ e[i] <= e[Heap!Right(i)]
           \/ e[Heap!Left(i)] = e[Heap!Right(i)]
    PROVE  HeapTo(e, n - 1)
<1>1. n \in Nat /\ i \in Nat /\ Heap!Left(i) = 2 * i + 1 /\ Heap!Right(i) = 2 * i + 2
  <2>1. n \in Nat /\ i \in Nat
    OBVIOUS
  <2> QED BY <2>1, ParentFacts
<1>2. \A j \in 1 .. n - 1 : Heap!Parent(j) = i => j = Heap!Left(i) \/ j = Heap!Right(i)
  <2>1. \A j \in 1 .. n - 1 : j \in Nat /\ j >= 1
    BY <1>1
  <2> QED BY <1>1, <2>1, ParentFacts
<1>3. ASSUME NEW j \in 1 .. n - 1, Heap!Parent(j) = i PROVE e[i] <= e[j]
  <2>1. j = Heap!Left(i) \/ j = Heap!Right(i)
    BY <1>2, <1>3
  <2>2. ~(Heap!Right(i) >= n)
    <3>1. \A a, k \in Nat : k % 2 = 1 /\ (2 * a + 1 <= k - 1 \/ 2 * a + 2 <= k - 1) => 2 * a + 2 < k
      OBVIOUS
    <3>2. 2 * i + 1 <= n - 1 \/ 2 * i + 2 <= n - 1
      BY <1>1, <1>3, <2>1
    <3>3. 2 * i + 2 < n
      BY <1>1, <3>1, <3>2
    <3> QED BY <1>1, <3>3
  <2>3. e[Heap!Left(i)] # e[Heap!Right(i)]
    <3>1. Heap!Left(i) \in 0 .. n - 1 /\ Heap!Right(i) \in 0 .. n - 1 /\ Heap!Left(i) # Heap!Right(i)
      BY <1>1, <2>2
    <3> QED BY <3>1 DEF Differ
  <2> QED BY <2>1, <2>2, <2>3
<1> QED BY <1>3 DEF Sinking, HeapTo

(* heapify_down over n slots: a permutation of them, and a heap if their   *)
(* number is odd, they differ and were one but for the value at the root.  *)
LEMMA HeapifyDownIs ==
    ASSUME NEW m \in Nat, NEW n \in 0 .. m, NEW d \in Arrays(m)
    PROVE  /\ Heap!HeapifyDown(d, n) \in Arrays(m)
           /\ Permutes(n, d, Heap!HeapifyDown(d, n))
           /\ n % 2 = 1 /\ Differ(d, n) /\ Sinking(d, n, 0) => HeapTo(Heap!HeapifyDown(d, n), n - 1)
<1> DEFINE T == Siftings(m)
           s0 == [data |-> d, idx |-> 0]
           Turn(s) == IF s.idx >= n THEN s ELSE Heap!SiftStep(s, n)
           G(f) == [t \in 0 .. n |-> IF t = 0 THEN s0 ELSE Turn(f[t - 1])]
           F == CHOOSE f : f = G(f)
           g == [a \in (1 .. n) \X T |-> Turn(a[2])]
<1>0. n \in Nat /\ n <= m
  OBVIOUS
<1>1. s0 \in T /\ s0.data = d /\ s0.idx = 0
  BY DEF Siftings
<1>a. \A s \in T : s.data \in Arrays(m) /\ s.idx \in Nat
  BY DEF Siftings
<1>2. ASSUME NEW s \in T, ~(s.idx >= n)
      PROVE  /\ s.idx \in 0 .. n - 1 /\ s.data \in Arrays(m)
             /\ Turn(s) \in T /\ TurnsTo(s, n, Turn(s))
  <2>1. s.data \in Arrays(m) /\ s.idx \in 0 .. n - 1 /\ s \in Siftings(m)
    BY <1>0, <1>2, <1>a
  <2>2. Turn(s) = Heap!SiftStep(s, n)
    BY <1>2
  <2> HIDE DEF Turn, T
  <2>3. Heap!SiftStep(s, n) \in Siftings(m) /\ TurnsTo(s, n, Heap!SiftStep(s, n))
    BY <2>1, SiftStepIs
  <2> QED BY <2>1, <2>2, <2>3 DEF T
<1>3. \A s \in T : Turn(s) \in T
  <2>1. ASSUME NEW s \in T PROVE Turn(s) \in T
    <3>1. CASE s.idx >= n
      BY <3>1
    <3>2. CASE ~(s.idx >= n)
      BY <1>2, <3>2
    <3> QED BY <3>1, <3>2
  <2> QED BY <2>1
<1>4. \A s : s.idx >= n => Turn(s) = s
  OBVIOUS
<1>5. g \in [(1 .. n) \X T -> T] /\ \A t \in 1 .. n, s \in T : g[<<t, s>>] = Turn(s)
  <2> HIDE DEF T, Turn
  <2> QED BY <1>3
<1>6. Heap!HeapifyDown(d, n) = F[n].data
  BY DEF Heap!HeapifyDown
<1> HIDE DEF g, T, Turn, s0
<1>7. \E f : f = G(f)
  <2>1. PICK f : IsRecursion(f, T, n, s0, g)
    BY <1>0, <1>1, <1>5, RecursionExists
  <2>2. f \in [0 .. n -> T] /\ \A t \in 0 .. n : f[t] = IF t = 0 THEN s0 ELSE g[<<t, f[t - 1]>>]
    BY <2>1 DEF IsRecursion
  <2>3. ASSUME NEW t \in 0 .. n, t # 0 PROVE f[t] = Turn(f[t - 1])
    <3>1. t \in 1 .. n /\ t - 1 \in 0 .. n
      BY <1>0, <2>3
    <3>2. f[t - 1] \in T
      BY <2>2, <3>1
    <3> QED BY <1>5, <2>2, <2>3, <3>1, <3>2
  <2>4. f = G(f)
    BY <2>2, <2>3
  <2> QED BY <2>4
<1> HIDE DEF G
<1>8. F = G(F)
  BY <1>7
<1> HIDE DEF F
<1>9. F[0] = s0 /\ \A t \in 0 .. n - 1 : F[t + 1] = Turn(F[t])
  <2>1. \A t \in 0 .. n : F[t] = IF t = 0 THEN s0 ELSE Turn(F[t - 1])
    BY <1>8 DEF G
  <2>2. 0 \in 0 .. n /\ \A t \in 0 .. n - 1 : t + 1 \in 0 .. n /\ t + 1 # 0 /\ (t + 1) - 1 = t
    BY <1>0
  <2> QED BY <2>1, <2>2
<1> DEFINE Fit == n % 2 = 1 /\ Differ(d, n) /\ Sinking(d, n, 0)
           Q(s, t) == /\ s \in T /\ Permutes(n, d, s.data)
                      /\ s.idx >= n \/ s.idx >= t
                      /\ Fit /\ s.idx >= n => HeapTo(s.data, n - 1)
                      /\ Fit /\ ~(s.idx >= n) => Sinking(s.data, n, s.idx)
           P == {t \in 0 .. n : Q(F[t], t)}
<1>10. Q(s0, 0)
  <2>1. Permutes(n, d, d)
    BY <1>0, PermutesSelf
  <2>2. 0 >= n => ~Fit
    <3>1. 0 % 2 # 1
      OBVIOUS
    <3>2. 0 >= n => n = 0
      BY <1>0
    <3> QED BY <3>1, <3>2
  <2>3. 0 >= 0
    OBVIOUS
  <2> QED BY <1>1, <2>1, <2>2, <2>3
<1>11. ASSUME NEW t \in 0 .. n - 1, NEW s, Q(s, t) PROVE Q(Turn(s), t + 1)
  <2>1. CASE s.idx >= n
    BY <1>4, <1>11, <2>1
  <2>2. CASE ~(s.idx >= n)
    <3> DEFINE e == s.data
               i == s.idx
    <3>1. /\ i \in 0 .. n - 1 /\ e \in Arrays(m) /\ Turn(s) \in T /\ i >= t /\ Permutes(n, d, e)
          /\ Fit => Sinking(e, n, i)
      BY <1>2, <1>11, <2>2
    <3>2. CASE /\ Turn(s).data = e /\ Turn(s).idx = n
               /\ \/ Heap!Right(i) >= n
                  \/ e[i] <= e[Heap!Left(i)] /\ e[i] <= e[Heap!Right(i)]
                  \/ e[Heap!Left(i)] = e[Heap!Right(i)]
      <4> HIDE DEF e, i
      <4>1. ASSUME Fit PROVE HeapTo(e, n - 1)
        <5>1. Differ(e, n)
          <6>1. \A x, y \in 0 .. n - 1 : d[x] = d[y] => x = y
            BY <4>1 DEF Differ
          <6> QED BY <3>1, <6>1, PermutesKeeps DEF Differ
        <5> QED BY <3>1, <3>2, <4>1, <5>1, SunkTo
      <4>2. n >= n
        BY <1>0
      <4> QED BY <3>1, <3>2, <4>1, <4>2
    <3>3. CASE \E c, o \in 0 .. n - 1 :
                  /\ {c, o} = {Heap!Left(i), Heap!Right(i)} /\ c # o /\ c > i
                  /\ e[c] < e[o] /\ e[c] < e[i]
                  /\ Turn(s).data = Heap!Swap(e, i, c)
                  /\ Turn(s).idx = c
      <4> HIDE DEF e, i
      <4>1. PICK c \in 0 .. n - 1, o \in 0 .. n - 1 :
                  /\ {c, o} = {Heap!Left(i), Heap!Right(i)} /\ c # o /\ c > i
                  /\ e[c] < e[o] /\ e[c] < e[i]
                  /\ Turn(s).data = Heap!Swap(e, i, c)
                  /\ Turn(s).idx = c
        BY <3>3
      <4>2. c \in 0 .. n - 1 /\ o \in 0 .. n - 1 /\ ~(c >= n) /\ c >= t + 1
        BY <1>0, <1>11, <3>1, <4>1
      <4>3. Permutes(n, d, Heap!Swap(e, i, c))
        <5>1. Permutes(n, e, Heap!Swap(e, i, c))
          BY <1>0, <3>1, <4>2, SwapPermutes
        <5> QED BY <3>1, <5>1, PermutesTwice
      <4>4. Fit => Sinking(Heap!Swap(e, i, c), n, c)
        BY <3>1, <4>1, <4>2, SinksTo
      <4> QED BY <3>1, <4>1, <4>2, <4>3, <4>4
    <3>4. TurnsTo(s, n, Turn(s))
      BY <1>2, <1>11, <2>2
    <3> QED BY <3>2, <3>3, <3>4 DEF TurnsTo
  <2> QED BY <2>1, <2>2
<1> HIDE DEF Q
<1>12. Q(F[n], n)
  <2>1. 0 \in P
    BY <1>0, <1>9, <1>10
  <2>2. ASSUME NEW t \in 0 .. n - 1, t \in P PROVE t + 1 \in P
    <3>1. t + 1 \in 0 .. n
      BY <1>0, <2>2
    <3> QED BY <1>9, <1>11, <2>2, <3>1
  <2> HIDE DEF P
  <2>3. n \in P
    <3>1. n \in 0 .. n
      BY <1>0
    <3> QED BY <1>0, <2>1, <2>2, <3>1, InductionTo
  <2> QED BY <2>3 DEF P
<1>13. F[n] \in T /\ Permutes(n, d, F[n].data) /\ F[n].idx >= n /\ (Fit => HeapTo(F[n].data, n - 1))
  BY <1>12 DEF Q
<1> QED BY <1>6, <1>13, <1>a
---------------------------------------------------------------------------
(* The calls of the priority queue.                                        *)

(* The slots below len hold values; as long as the queue has only grown    *)
(* it is a heap.                                                           *)
PqInv ==
    /\ cap \in Nat /\ cap >= 1 /\ len \in 0 .. cap /\ data \in Arrays(cap)
    /\ \A i \in 0 .. len - 1 : data[i] \in Ranked
    /\ grown \in BOOLEAN /\ (grown => HeapTo(data, len - 1))
    /\ reply \in Heap!Reply

(* It gives what the run checks of the priority queue's states.            *)
LEMMA PqImplies == PqInv => Heap!TypeOK /\ Heap!GrownIsHeap
BY DEF PqInv, Heap!TypeOK, Heap!GrownIsHeap, Heap!IsHeap, HeapTo, Arrays

(* A cleared array of the first capacity.                                  *)
LEMMA PqFresh ==
    ASSUME NEW d, d = [i \in 0 .. PqInitialCap - 1 |-> 0]
    PROVE  d \in Arrays(PqInitialCap) /\ HeapTo(d, 0 - 1)
<1>1. \A j : j \notin 1 .. 0 - 1
  OBVIOUS
<1> QED BY <1>1 DEF Arrays, HeapTo

(* The first state.                                                        *)
LEMMA PqInit == Heap!Init => PqInv
<1> SUFFICES ASSUME Heap!Init PROVE PqInv
  OBVIOUS
<1>1. /\ data = [i \in 0 .. PqInitialCap - 1 |-> 0] /\ cap = PqInitialCap /\ len = 0
      /\ grown = TRUE /\ reply = Heap!Answer("new", 0, Null)
  BY DEF Heap!Init
<1>2. data \in Arrays(PqInitialCap) /\ HeapTo(data, 0 - 1)
  BY <1>1, PqFresh
<1>3. reply \in Heap!Reply
  BY <1>1 DEF Heap!Answer, Heap!Reply
<1>4. 0 \in 0 .. PqInitialCap /\ \A i : i \notin 0 .. 0 - 1
  BY PqFacts
<1> QED BY <1>1, <1>2, <1>3, <1>4, PqFacts DEF PqInv

(* What pq_insert sifts: the elements and the new one behind them.         *)
Sifted(c, v) ==
    /\ (\A i \in 0 .. len - 1 : c[i] = data[i]) /\ c[len] = v
    /\ Permutes(len + 1, c, data')
    /\ HeapTo(c, len - 1) => HeapTo(data', len)

(* An insertion puts the new element among the others, in room for it.     *)
LEMMA PqInserts ==
    ASSUME PqInv, NEW v \in Ranked, Heap!Insert(v)
    PROVE  /\ cap' \in Nat /\ cap' >= 1 /\ len' = len + 1 /\ len' \in 0 .. cap'
           /\ data' \in Arrays(cap')
           /\ \A x \in 0 .. len : data'[0] <= data'[x]
           /\ reply' = Heap!Answer("insert", 0, Null) /\ grown' = grown
           /\ \E c : Sifted(c, v)
<1> DEFINE room == IF len = cap THEN Heap!Doubled(data) ELSE data
           m == IF len = cap THEN 2 * cap ELSE cap
           c == [room EXCEPT ![len] = v]
<1>1. /\ data' = Heap!HeapifyUp(c, len) /\ cap' = m /\ len' = len + 1
      /\ reply' = Heap!Answer("insert", 0, Null) /\ grown' = grown
  BY DEF Heap!Insert
<1>2. /\ cap \in Nat /\ cap >= 1 /\ len \in 0 .. cap /\ len \in Nat
      /\ data \in [0 .. cap - 1 -> Ranked \cup {0}]
  BY DEF PqInv, Arrays
<1>3. /\ m \in Nat /\ m >= 1 /\ len \in 0 .. m - 1 /\ len + 1 \in 0 .. m
      /\ \A i \in 0 .. len - 1 : i \in 0 .. m - 1 /\ i \in 0 .. cap - 1 /\ i # len
  BY <1>2
<1>4. room \in [0 .. m - 1 -> Ranked \cup {0}] /\ \A i \in 0 .. len - 1 : room[i] = data[i]
  <2>1. CASE len = cap
    <3>1. room = [i \in 0 .. 2 * cap - 1 |-> IF i < len THEN data[i] ELSE 0] /\ m = 2 * cap
      BY <2>1 DEF Heap!Doubled
    <3>2. \A i \in 0 .. 2 * cap - 1 : i < len => i \in 0 .. cap - 1
      BY <1>2
    <3>3. \A i \in 0 .. len - 1 : i \in 0 .. 2 * cap - 1 /\ i < len
      BY <1>2
    <3> QED BY <1>2, <3>1, <3>2, <3>3
  <2>2. CASE len # cap
    BY <1>2, <2>2
  <2> QED BY <2>1, <2>2
<1> HIDE DEF room, m
<1>5. c \in Arrays(m) /\ (\A i \in 0 .. len - 1 : c[i] = data[i]) /\ c[len] = v
  BY <1>3, <1>4 DEF Arrays
<1> HIDE DEF c
<1>6. /\ Heap!HeapifyUp(c, len) \in Arrays(m)
      /\ Permutes(len + 1, c, Heap!HeapifyUp(c, len))
      /\ \A x \in 0 .. len : Heap!HeapifyUp(c, len)[0] <= Heap!HeapifyUp(c, len)[x]
      /\ HeapTo(c, len - 1) => HeapTo(Heap!HeapifyUp(c, len), len)
  BY <1>3, <1>5, HeapifyUpIs
<1>7. Sifted(c, v)
  BY <1>1, <1>5, <1>6 DEF Sifted
<1> QED BY <1>1, <1>3, <1>6, <1>7

(* What pq_delete sifts: the elements with the last one at the root.       *)
Lowered(s, c) ==
    /\ s = Heap!Swap(data, 0, len - 1) /\ c \in Arrays(cap)
    /\ \A i \in 0 .. len - 2 : c[i] = s[i]
    /\ Permutes(len - 1, c, data')
    /\ (len - 1) % 2 = 1 /\ Differ(c, len - 1) /\ Sinking(c, len - 1, 0) => HeapTo(data', len - 2)

(* A deletion takes the root from among the elements.                      *)
LEMMA PqDeletes ==
    ASSUME PqInv, Heap!Delete
    PROVE  /\ len > 0 /\ len' = len - 1 /\ cap' = cap /\ data' \in Arrays(cap)
           /\ reply' = Heap!Answer("delete", 0, data[0]) /\ grown' = (len = 1)
           /\ \E s, c : Lowered(s, c)
<1> DEFINE s == Heap!Swap(data, 0, len - 1)
           c == [s EXCEPT ![len - 1] = 0]
<1>1. /\ len > 0 /\ len' = len - 1 /\ cap' = cap
      /\ data' = IF len = 1 THEN [data EXCEPT ![0] = 0] ELSE Heap!HeapifyDown(c, len - 1)
      /\ reply' = Heap!Answer("delete", 0, data[0]) /\ grown' = (len = 1)
  BY DEF Heap!Delete
<1>2. cap \in Nat /\ len \in 1 .. cap /\ len \in Nat /\ data \in Arrays(cap)
  BY <1>1 DEF PqInv
<1>3. /\ 0 \in 0 .. cap - 1 /\ len - 1 \in 0 .. cap - 1 /\ len - 1 \in Nat /\ len - 1 \in 0 .. cap
      /\ (len - 1) - 1 = len - 2 /\ 0 \in Nat /\ 0 % 2 # 1
      /\ \A i \in 0 .. len - 2 : i # len - 1 /\ i \in 0 .. cap - 1
  BY <1>2
<1>4. s \in Arrays(cap)
  BY <1>2, <1>3, SwapIs
<1> HIDE DEF s
<1>5. c \in Arrays(cap) /\ \A i \in 0 .. len - 2 : c[i] = s[i]
  BY <1>3, <1>4 DEF Arrays
<1> HIDE DEF c
<1>6. CASE len = 1
  <2>1. data' = [data EXCEPT ![0] = 0] /\ data' \in Arrays(cap)
    BY <1>1, <1>2, <1>3, <1>6 DEF Arrays
  <2>2. \A i : i \notin 0 .. len - 2
    BY <1>6
  <2>3. len - 1 = 0 /\ (len - 1) % 2 # 1
    BY <1>3, <1>6
  <2>4. Permutes(len - 1, data', data')
    BY <1>3, PermutesSelf
  <2>5. Lowered(s, data')
    BY <2>1, <2>2, <2>3, <2>4 DEF Lowered, s
  <2> QED BY <1>1, <2>1, <2>5
<1>7. CASE len # 1
  <2>1. data' = Heap!HeapifyDown(c, len - 1)
    BY <1>1, <1>7
  <2>2. /\ data' \in Arrays(cap) /\ Permutes(len - 1, c, data')
        /\ (len - 1) % 2 = 1 /\ Differ(c, len - 1) /\ Sinking(c, len - 1, 0)
              => HeapTo(data', (len - 1) - 1)
    BY <1>2, <1>3, <1>5, <2>1, HeapifyDownIs
  <2>3. Lowered(s, c)
    BY <1>3, <1>5, <2>2 DEF Lowered, s
  <2> QED BY <1>1, <2>2, <2>3
<1> QED BY <1>6, <1>7

(* Every call keeps the invariant.                                         *)
LEMMA PqKeeps ==
    ASSUME PqInv, Heap!Next
    PROVE  PqInv'
<1>0. /\ cap \in Nat /\ cap >= 1 /\ len \in 0 .. cap /\ data \in Arrays(cap) /\ len \in Nat
      /\ \A i \in 0 .. len - 1 : data[i] \in Ranked
      /\ grown \in BOOLEAN /\ (grown => HeapTo(data, len - 1))
      /\ reply \in Heap!Reply
  BY DEF PqInv
<1>1. ASSUME NEW v \in Ranked, Heap!Insert(v) PROVE PqInv'
  <2>1. /\ cap' \in Nat /\ cap' >= 1 /\ len' = len + 1 /\ len' \in 0 .. cap'
        /\ data' \in Arrays(cap') /\ reply' = Heap!Answer("insert", 0, Null) /\ grown' = grown
        /\ \E c : Sifted(c, v)
    BY <1>1, PqInserts
  <2>2. PICK c : Sifted(c, v)
    BY <2>1
  <2>3. /\ (\A i \in 0 .. len - 1 : c[i] = data[i]) /\ c[len] = v
        /\ Permutes(len + 1, c, data')
        /\ HeapTo(c, len - 1) => HeapTo(data', len)
    BY <2>2 DEF Sifted
  <2>4. /\ (len + 1) - 1 = len /\ \A i \in 0 .. len : i \in 0 .. len - 1 \/ i = len
    BY <1>0
  <2>5. \A i \in 0 .. len : data'[i] \in Ranked
    <3>1. \A i \in 0 .. len : c[i] \in Ranked
      BY <1>0, <1>1, <2>3, <2>4
    <3>2. \A i \in 0 .. (len + 1) - 1 : \E j \in 0 .. (len + 1) - 1 : data'[i] = c[j]
      BY <2>3, PermutesKeeps
    <3> QED BY <2>4, <3>1, <3>2
  <2>6. grown => HeapTo(data', len)
    <3>1. ASSUME HeapTo(data, len - 1) PROVE HeapTo(c, len - 1)
      <4>1. ASSUME NEW j \in 1 .. len - 1 PROVE c[Heap!Parent(j)] = data[Heap!Parent(j)] /\ c[j] = data[j]
        <5>1. j \in Nat /\ j >= 1
          BY <4>1
        <5>2. Heap!Parent(j) \in Nat /\ Heap!Parent(j) < j
          BY <5>1, ParentFacts
        <5>3. j \in 0 .. len - 1 /\ Heap!Parent(j) \in 0 .. len - 1
          BY <1>0, <4>1, <5>1, <5>2
        <5> QED BY <2>3, <5>3
      <4> QED BY <3>1, <4>1 DEF HeapTo
    <3> QED BY <1>0, <2>3, <3>1
  <2>7. reply' \in Heap!Reply
    BY <2>1 DEF Heap!Answer, Heap!Reply
  <2> QED BY <1>0, <2>1, <2>4, <2>5, <2>6, <2>7 DEF PqInv
<1>2. CASE Heap!InsertFails
  <2>1. reply' \in Heap!Reply /\ UNCHANGED <<data, cap, len, grown>>
    BY <1>2 DEF Heap!InsertFails, Heap!Answer, Heap!Reply
  <2> QED BY <1>0, <2>1 DEF PqInv
<1>3. CASE Heap!Delete
  <2>1. /\ len > 0 /\ len' = len - 1 /\ cap' = cap /\ data' \in Arrays(cap)
        /\ reply' = Heap!Answer("delete", 0, data[0]) /\ grown' = (len = 1)
        /\ \E s, c : Lowered(s, c)
    BY <1>3, PqDeletes
  <2>2. PICK s, c : Lowered(s, c)
    BY <2>1
  <2>3. /\ s = Heap!Swap(data, 0, len - 1) /\ Permutes(len - 1, c, data')
        /\ \A i \in 0 .. len - 2 : c[i] = s[i]
    BY <2>2 DEF Lowered
  <2>4. /\ 0 \in 0 .. len - 1 /\ len - 1 \in 0 .. len - 1 /\ 0 \in 0 .. cap - 1 /\ len - 1 \in 0 .. cap - 1
        /\ (len - 1) - 1 = len - 2 /\ len - 1 \in 0 .. cap
        /\ \A i \in 0 .. len - 2 : i \in 0 .. len - 1 /\ i \in 0 .. cap - 1
    BY <1>0, <2>1
  <2>5. \A i \in 0 .. len - 2 : data'[i] \in Ranked
    <3>1. \A i \in 0 .. cap - 1 : s[i] = IF i = 0 THEN data[len - 1]
                                          ELSE IF i = len - 1 THEN data[0] ELSE data[i]
      <4> DEFINE n == len - 1
      <4>1. cap \in Nat /\ data \in Arrays(cap) /\ 0 \in 0 .. cap - 1 /\ n \in 0 .. cap - 1
        BY <1>0, <2>4
      <4> HIDE DEF n
      <4>2. \A i \in 0 .. cap - 1 :
                Heap!Swap(data, 0, n)[i] = IF i = 0 THEN data[n] ELSE IF i = n THEN data[0] ELSE data[i]
        BY <4>1, SwapIs
      <4> QED BY <2>3, <4>2 DEF n
    <3>2. \A i \in 0 .. len - 2 : c[i] \in Ranked
      BY <1>0, <2>3, <2>4, <3>1
    <3>3. \A i \in 0 .. (len - 1) - 1 : \E j \in 0 .. (len - 1) - 1 : data'[i] = c[j]
      BY <2>3, PermutesKeeps
    <3> QED BY <2>4, <3>2, <3>3
  <2>6. grown' \in BOOLEAN /\ (grown' => HeapTo(data', len - 2))
    <3>1. len = 1 => \A j : j \notin 1 .. len - 2
      BY <1>0
    <3> QED BY <2>1, <3>1 DEF HeapTo
  <2>7. reply' \in Heap!Reply
    BY <1>0, <2>1, <2>4 DEF Heap!Answer, Heap!Reply
  <2> QED BY <1>0, <2>1, <2>4, <2>5, <2>6, <2>7 DEF PqInv
<1>4. CASE Heap!DeleteEmpty
  <2>1. reply' \in Heap!Reply /\ UNCHANGED <<data, cap, len, grown>>
    BY <1>4 DEF Heap!DeleteEmpty, Heap!Answer, Heap!Reply
  <2> QED BY <1>0, <2>1 DEF PqInv
<1>5. CASE Heap!Renew
  <2>1. /\ data' = [i \in 0 .. PqInitialCap - 1 |-> 0] /\ cap' = PqInitialCap /\ len' = 0
        /\ grown' = TRUE /\ reply' = Heap!Answer("new", 0, Null)
    BY <1>5 DEF Heap!Renew
  <2>2. data' \in Arrays(PqInitialCap) /\ HeapTo(data', 0 - 1)
    BY <2>1, PqFresh
  <2>3. reply' \in Heap!Reply
    BY <2>1 DEF Heap!Answer, Heap!Reply
  <2>4. 0 \in 0 .. PqInitialCap /\ \A i : i \notin 0 .. 0 - 1
    BY PqFacts
  <2> QED BY <2>1, <2>2, <2>3, <2>4, PqFacts DEF PqInv
<1> QED BY <1>1, <1>2, <1>3, <1>4, <1>5 DEF Heap!Next

(* An insertion puts a minimum at the root, heap or not.                   *)
LEMMA PqSurfacesMin ==
    ASSUME PqInv, Heap!Next \/ UNCHANGED Heap!vars
    PROVE  Heap!InsertSurfacesMin
<1>0. len \in Nat
  BY DEF PqInv
<1>1. ASSUME NEW v \in Ranked, Heap!Insert(v) PROVE \A i \in 0 .. len' - 1 : data'[0] <= data'[i]
  <2>1. len' = len + 1 /\ (\A x \in 0 .. len : data'[0] <= data'[x]) /\ (len + 1) - 1 = len
    BY <1>0, <1>1, PqInserts
  <2> QED BY <2>1
<1>2. Heap!InsertFails \/ Heap!Delete \/ Heap!DeleteEmpty \/ Heap!Renew \/ UNCHANGED Heap!vars
        => ~(len' > len)
  BY <1>0 DEF Heap!InsertFails, Heap!Delete, Heap!DeleteEmpty, Heap!Renew, Heap!vars
<1> QED BY <1>1, <1>2 DEF Heap!Next, Heap!InsertSurfacesMin

(* A deletion from a heap of distinct elements down to an odd number of    *)
(* them leaves a heap.                                                     *)
LEMMA PqOddDelete ==
    ASSUME PqInv, Heap!Next \/ UNCHANGED Heap!vars
    PROVE  Heap!OddDeleteKeepsHeap
<1> SUFFICES ASSUME Heap!IsHeap, Heap!Distinct, len' < len, len' % 2 = 1
             PROVE  Heap!IsHeap'
  BY DEF Heap!OddDeleteKeepsHeap
<1>0. cap \in Nat /\ len \in 0 .. cap /\ len \in Nat /\ data \in Arrays(cap)
  BY DEF PqInv
<1>1. Heap!Delete
  <2>1. ASSUME NEW v \in Ranked, Heap!Insert(v) PROVE FALSE
    BY <1>0, <2>1 DEF Heap!Insert
  <2>2. ASSUME Heap!InsertFails \/ Heap!DeleteEmpty \/ UNCHANGED Heap!vars PROVE FALSE
    BY <1>0, <2>2 DEF Heap!InsertFails, Heap!DeleteEmpty, Heap!vars
  <2>3. ASSUME Heap!Renew PROVE FALSE
    <3>1. len' = 0 /\ 0 % 2 # 1
      BY <2>3 DEF Heap!Renew
    <3> QED BY <3>1
  <2> QED BY <2>1, <2>2, <2>3 DEF Heap!Next
<1>2. len > 0 /\ len' = len - 1 /\ \E s, c : Lowered(s, c)
  BY <1>1, PqDeletes
<1>3. PICK s, c : Lowered(s, c)
  BY <1>2
<1> DEFINE n == len - 1
<1>4. /\ s = Heap!Swap(data, 0, n) /\ (\A i \in 0 .. n - 1 : c[i] = s[i])
      /\ n % 2 = 1 /\ Differ(c, n) /\ Sinking(c, n, 0) => HeapTo(data', n - 1)
  <2>1. len - 2 = n - 1
    BY <1>0
  <2> QED BY <1>3, <2>1 DEF Lowered
<1>5. /\ n \in Nat /\ 0 \in 0 .. cap - 1 /\ n \in 0 .. cap - 1 /\ n \in 0 .. len - 1
      /\ \A i \in 0 .. n - 1 : i \in 0 .. len - 1 /\ i \in 0 .. cap - 1 /\ i # n
  BY <1>0, <1>2
<1>6. \A i \in 0 .. n - 1 : c[i] = IF i = 0 THEN data[n] ELSE data[i]
  <2>1. \A i \in 0 .. cap - 1 :
            Heap!Swap(data, 0, n)[i] = IF i = 0 THEN data[n] ELSE IF i = n THEN data[0] ELSE data[i]
    BY <1>0, <1>5, SwapIs
  <2> QED BY <1>4, <1>5, <2>1
<1>7. Differ(c, n)
  <2>1. \A i, j \in 0 .. len - 1 : data[i] = data[j] => i = j
    BY DEF Heap!Distinct
  <2> QED BY <1>5, <1>6, <2>1 DEF Differ
<1>8. Sinking(c, n, 0)
  <2>1. ASSUME NEW j \in 1 .. n - 1, Heap!Parent(j) # 0 PROVE c[Heap!Parent(j)] <= c[j]
    <3>1. j \in Nat /\ j >= 1
      BY <1>5, <2>1
    <3>2. Heap!Parent(j) \in Nat /\ Heap!Parent(j) < j
      BY <3>1, ParentFacts
    <3>3. Heap!Parent(j) \in 0 .. n - 1 /\ j \in 0 .. n - 1 /\ j # 0 /\ j \in 1 .. len - 1
      BY <1>0, <2>1, <3>1, <3>2
    <3>4. data[Heap!Parent(j)] <= data[j]
      BY <3>3 DEF Heap!IsHeap
    <3> QED BY <1>6, <2>1, <3>3, <3>4
  <2>2. ~(0 >= 1)
    OBVIOUS
  <2> QED BY <2>1, <2>2 DEF Sinking
<1>9. HeapTo(data', n - 1) /\ len' = n
  BY <1>2, <1>4, <1>7, <1>8
<1> QED BY <1>9 DEF HeapTo, Heap!IsHeap
---------------------------------------------------------------------------
(* The priority queue as a bag.                                            *)

(* How often each value is in an array, below n.                           *)
Bag(d, n) == [v \in Ranked |-> Times(v, d, n)]

(* The bag that the instance speaks of.                                    *)
LEMMA CountIs == Heap!Count = Bag(data, len)
<1>1. \A S : Heap!Cardinality(S) = Cardinality(S)
  BY DEF Heap!Cardinality, Cardinality
<1> QED BY <1>1 DEF Heap!Count, Bag, Times, Places

(* The same after a step.                                                  *)
LEMMA CountBecomes == Heap!Count' = Bag(data', len')
<1>1. \A S : Heap!Cardinality(S) = Cardinality(S)
  BY DEF Heap!Cardinality, Cardinality
<1> QED BY <1>1 DEF Heap!Count, Bag, Times, Places

(* Nothing is held below 0.                                                *)
LEMMA EmptyBag == \A d : Bag(d, 0) = Heap!B!Nothing
<1>1. \A d, v : Times(v, d, 0) = 0
  <2>1. 0 \in Nat
    OBVIOUS
  <2> QED BY <2>1, TimesMore
<1> QED BY <1>1 DEF Bag, Heap!B!Nothing

(* The first state.                                                        *)
LEMMA PqAbstractInit == Heap!Init => Heap!B!Init
<1> SUFFICES ASSUME Heap!Init PROVE Heap!B!Init
  OBVIOUS
<1>1. len = 0 /\ reply = Heap!Answer("new", 0, Null)
  BY DEF Heap!Init
<1>2. Heap!Count = Heap!B!Nothing
  BY <1>1, CountIs, EmptyBag
<1> QED BY <1>1, <1>2 DEF Heap!B!Init, Heap!B!Answer, Heap!Answer

(* Every call does to the bag what it should.                              *)
LEMMA PqAbstractStep ==
    ASSUME PqInv, Heap!Next
    PROVE  Heap!B!Next
<1> USE DEF Heap!Answer, Heap!B!Answer
<1>0. /\ cap \in Nat /\ len \in 0 .. cap /\ len \in Nat /\ data \in Arrays(cap)
      /\ \A i \in 0 .. len - 1 : data[i] \in Ranked
  BY DEF PqInv
<1>a. Heap!Count = Bag(data, len) /\ Heap!Count' = Bag(data', len')
  BY CountIs, CountBecomes
<1>1. ASSUME NEW v \in Ranked, Heap!Insert(v) PROVE Heap!B!Insert(v)
  <2>1. len' = len + 1 /\ reply' = Heap!Answer("insert", 0, Null) /\ \E c : Sifted(c, v)
    BY <1>1, PqInserts
  <2>2. PICK c : Sifted(c, v)
    BY <2>1
  <2>3. (\A i \in 0 .. len - 1 : c[i] = data[i]) /\ c[len] = v /\ Permutes(len + 1, c, data')
    BY <2>2 DEF Sifted
  <2>4. ASSUME NEW u \in Ranked
        PROVE  Times(u, data', len + 1) = IF u = v THEN Times(u, data, len) + 1 ELSE Times(u, data, len)
    <3>1. Times(u, data', len + 1) = Times(u, c, len + 1)
      BY <2>3, PermutesKeeps
    <3>2. Times(u, c, len + 1) = IF c[len] = u THEN Times(u, c, len) + 1 ELSE Times(u, c, len)
      BY <1>0, TimesMore
    <3>3. Times(u, c, len) = Times(u, data, len)
      BY <2>3, TimesSame
    <3> QED BY <2>3, <3>1, <3>2, <3>3
  <2>5. Bag(data', len + 1) = [Bag(data, len) EXCEPT ![v] = @ + 1]
    BY <2>4 DEF Bag
  <2> QED BY <1>a, <2>1, <2>5 DEF Heap!B!Insert
<1>2. CASE Heap!InsertFails
  <2>1. reply' = Heap!Answer("insert", 1, Null) /\ UNCHANGED <<data, len>>
    BY <1>2 DEF Heap!InsertFails
  <2> QED BY <1>a, <2>1 DEF Heap!B!Next, Heap!B!Refuse
<1>3. CASE Heap!Delete
  <2> DEFINE n == len - 1
             v == data[0]
  <2>1. /\ len > 0 /\ len' = n /\ reply' = Heap!Answer("delete", 0, v)
        /\ \E s, c : Lowered(s, c)
    BY <1>3, PqDeletes
  <2>2. PICK s, c : Lowered(s, c)
    BY <2>1
  <2>3. /\ n \in Nat /\ n + 1 = len /\ len <= cap /\ 0 \in 0 .. len - 1 /\ n \in 0 .. len - 1
        /\ 0 \in 0 .. cap - 1 /\ n \in 0 .. cap - 1 /\ len - 2 = n - 1
    BY <1>0, <2>1
  <2>4. s = Heap!Swap(data, 0, n) /\ (\A i \in 0 .. n - 1 : c[i] = s[i]) /\ Permutes(n, c, data')
    BY <2>2, <2>3 DEF Lowered
  <2>5. s[n] = v /\ v \in Ranked
    <3>1. \A i \in 0 .. cap - 1 :
              Heap!Swap(data, 0, n)[i] = IF i = 0 THEN data[n] ELSE IF i = n THEN data[0] ELSE data[i]
      BY <1>0, <2>3, SwapIs
    <3> QED BY <1>0, <2>3, <2>4, <3>1
  <2>6. Permutes(len, data, Heap!Swap(data, 0, n))
    BY <1>0, <2>3, SwapPermutes
  <2>7. ASSUME NEW u \in Ranked
        PROVE  /\ Times(u, data', n) \in Nat
               /\ Times(u, data, len) = IF u = v THEN Times(u, data', n) + 1 ELSE Times(u, data', n)
    <3>1. Times(u, data, len) = Times(u, s, len)
      BY <2>4, <2>6, PermutesKeeps
    <3>2. Times(u, s, n + 1) = IF s[n] = u THEN Times(u, s, n) + 1 ELSE Times(u, s, n)
      BY <2>3, TimesMore
    <3>3. Times(u, c, n) = Times(u, s, n)
      BY <2>4, TimesSame
    <3>4. Times(u, data', n) = Times(u, c, n)
      BY <2>4, PermutesKeeps
    <3>5. Times(u, data', n) \in Nat
      BY <2>3, TimesMore
    <3> QED BY <2>3, <2>5, <3>1, <3>2, <3>3, <3>4, <3>5
  <2> HIDE DEF n, v
  <2>8. Bag(data', n) = [Bag(data, len) EXCEPT ![v] = @ - 1] /\ Bag(data, len)[v] > 0
    <3>1. ASSUME NEW u \in Ranked
          PROVE  Times(u, data', n) = IF u = v THEN Times(u, data, len) - 1 ELSE Times(u, data, len)
      <4>1. \A x, y \in Nat : x = y + 1 => y = x - 1
        OBVIOUS
      <4>2. Times(u, data, len) \in Nat
        BY <1>0, TimesMore
      <4> QED BY <2>7, <4>1, <4>2
    <3>2. Times(v, data, len) > 0
      <4>1. Times(v, data, len) = Times(v, data', n) + 1 /\ Times(v, data', n) \in Nat
        BY <2>5, <2>7
      <4> QED BY <4>1
    <3> QED BY <2>5, <3>1, <3>2 DEF Bag
  <2>9. Heap!B!Poll(v)
    BY <1>a, <2>1, <2>8 DEF Heap!B!Poll
  <2> QED BY <2>5, <2>9 DEF Heap!B!Next
<1>4. CASE Heap!DeleteEmpty
  <2>1. len = 0 /\ reply' = Heap!Answer("delete", 1, Null) /\ UNCHANGED <<data, len>>
    BY <1>4 DEF Heap!DeleteEmpty
  <2> QED BY <1>a, <2>1, EmptyBag DEF Heap!B!Next, Heap!B!FindEmpty
<1>5. CASE Heap!Renew
  <2>1. len' = 0 /\ reply' = Heap!Answer("new", 0, Null)
    BY <1>5 DEF Heap!Renew
  <2> QED BY <1>a, <2>1, EmptyBag DEF Heap!B!Next, Heap!B!Clear
<1> QED BY <1>1, <1>2, <1>3, <1>4, <1>5 DEF Heap!Next, Heap!B!Next
---------------------------------------------------------------------------
(* The run over all containers: the container in use keeps its invariant.  *)
ContInv ==
    /\ part \in {"list", "queue", "pq", "vec", "small_vec", "vstr"}
    /\ part = "list" => ListInv
    /\ part = "queue" => QueueInv
    /\ part = "pq" => PqInv
    /\ part = "vec" => VecInv
    /\ part = "small_vec" => FixedInv
    /\ part = "vstr" => StringInv

(* The first state of each container satisfies it.                         *)
LEMMA ContInit == Init => ContInv
<1> SUFFICES ASSUME Init PROVE ContInv
  OBVIOUS
<1>1. \/ part = "list" /\ List!Init
      \/ part = "queue" /\ Line!Init
      \/ part = "pq" /\ Heap!Init
      \/ part = "vec" /\ Growing!Init
      \/ part = "small_vec" /\ Fixed!Init
      \/ part = "vstr" /\ String!Init
  BY DEF Init
<1> QED BY <1>1, ListInit, QueueInit, PqInit, VecInit, FixedInit, StringInit DEF ContInv

(* A step is one of the container in use, or of none.                      *)
LEMMA ContSteps ==
    ASSUME ContInv, Next
    PROVE  /\ part' = part
           /\ \/ part = "list" /\ ListInv /\ List!Next
              \/ part = "queue" /\ QueueInv /\ Line!Next
              \/ part = "pq" /\ PqInv /\ Heap!Next
              \/ part = "vec" /\ VecInv /\ Growing!Next
              \/ part = "small_vec" /\ FixedInv /\ Fixed!Next
              \/ part = "vstr" /\ StringInv /\ String!Next
BY DEF ContInv, Next

(* Nothing changes: the invariant holds as before.                         *)
LEMMA ContStutter ==
    ASSUME ContInv, UNCHANGED vars
    PROVE  ContInv'
<1>1. UNCHANGED <<part, reply, len, fault, data, cap, alive, node, head, tail, grown,
                  block, iter, born, steps, intact, is_large, small_avail>>
  BY DEF vars, nodes, vector, buffer
<1>2. ListInv => ListInv'
  BY <1>1 DEF ListInv, List!TypeOK, FromBack, BothWays
<1>3. QueueInv => QueueInv'
  BY <1>1 DEF QueueInv, Line!TypeOK, InLine
<1>4. PqInv => PqInv'
  BY <1>1 DEF PqInv, HeapTo, Heap!Reply
<1>5. VecInv => VecInv'
  BY <1>1 DEF VecInv, VecData, VecIteration, VecReplies
<1>6. FixedInv => FixedInv'
  BY <1>1 DEF FixedInv
<1>7. StringInv => StringInv'
  BY <1>1 DEF StringInv, Buffered
<1> QED BY <1>1, <1>2, <1>3, <1>4, <1>5, <1>6, <1>7 DEF ContInv

(* Every step keeps the invariant.                                         *)
LEMMA ContKeeps ==
    ASSUME ContInv, AtIsLine, ForwardIsList, [Next]_vars
    PROVE  ContInv'
<1>1. CASE Next
  <2>1. /\ part' = part
        /\ \/ part = "list" /\ ListInv /\ List!Next
           \/ part = "queue" /\ QueueInv /\ Line!Next
           \/ part = "pq" /\ PqInv /\ Heap!Next
           \/ part = "vec" /\ VecInv /\ Growing!Next
           \/ part = "small_vec" /\ FixedInv /\ Fixed!Next
           \/ part = "vstr" /\ StringInv /\ String!Next
    BY <1>1, ContSteps
  <2>2. CASE part = "list" /\ ListInv /\ List!Next
    BY <2>1, <2>2, ListKeeps DEF ContInv
  <2>3. CASE part = "queue" /\ QueueInv /\ Line!Next
    BY <2>1, <2>3, QueueKeeps DEF ContInv
  <2>4. CASE part = "pq" /\ PqInv /\ Heap!Next
    BY <2>1, <2>4, PqKeeps DEF ContInv
  <2>5. CASE part = "vec" /\ VecInv /\ Growing!Next
    BY <2>1, <2>5, VecKeeps DEF ContInv
  <2>6. CASE part = "small_vec" /\ FixedInv /\ Fixed!Next
    BY <2>1, <2>6, FixedKeeps DEF ContInv
  <2>7. CASE part = "vstr" /\ StringInv /\ String!Next
    BY <2>1, <2>7, StringStep DEF ContInv
  <2> QED BY <2>1, <2>2, <2>3, <2>4, <2>5, <2>6, <2>7
<1>2. CASE UNCHANGED vars
  BY <1>2, ContStutter
<1> QED BY <1>1, <1>2

(* Whatever sequence of calls, each container keeps its invariant.         *)
THEOREM ContainersKeepInv == Spec => []ContInv
<1>1. Init => ContInv
  BY ContInit
<1>2. ContInv /\ AtIsLine /\ ForwardIsList /\ [Next]_vars => ContInv'
  BY ContKeeps
<1>3. AtIsLine /\ ForwardIsList
  BY AtIsLineHolds, ForwardIsListHolds
<1> QED BY <1>1, <1>2, <1>3, PTL DEF Spec

(* What the invariant says of each state of the run.                       *)
LEMMA ContImplies ==
    ASSUME ContInv, AtIsLine, ForwardIsList, BackIsList
    PROVE  TypeOK /\ WellFormed /\ CmpIsOrder
<1>1. CASE part = "list"
  <2>1. List!TypeOK /\ List!WellLinked
    BY <1>1, ListIsLinked DEF ContInv
  <2> QED BY <1>1, <2>1 DEF TypeOK, WellFormed, CmpIsOrder
<1>2. CASE part = "queue"
  <2>1. Line!TypeOK /\ Line!Chained
    BY <1>2, QueueChained DEF ContInv
  <2> QED BY <1>2, <2>1 DEF TypeOK, WellFormed, CmpIsOrder
<1>3. CASE part = "pq"
  <2>1. Heap!TypeOK /\ Heap!GrownIsHeap
    BY <1>3, PqImplies DEF ContInv
  <2> QED BY <1>3, <2>1 DEF TypeOK, WellFormed, CmpIsOrder
<1>4. CASE part = "vec"
  <2>1. /\ Growing!TypeOK /\ Growing!NoClearedElement /\ Growing!IterInBounds
        /\ Growing!IterYieldsAll
    BY <1>4, VecImplies DEF ContInv
  <2> QED BY <1>4, <2>1 DEF TypeOK, WellFormed, CmpIsOrder
<1>5. CASE part = "small_vec"
  <2>1. FixedInv
    BY <1>5 DEF ContInv
  <2>2. len \in Nat /\ Fixed!CutAtLen
    BY <2>1, FixedAssumption DEF FixedInv, Fixed!CutAtLen, Fixed!Slot
  <2> QED BY <1>5, <2>2 DEF TypeOK, WellFormed, CmpIsOrder
<1>6. CASE part = "vstr"
  <2>1. String!TypeOK /\ String!ZeroTerminated /\ String!CmpIsOrder
    BY <1>6, StringImplies, StringOrder DEF ContInv
  <2> QED BY <1>6, <2>1 DEF TypeOK, WellFormed, CmpIsOrder
<1> QED BY <1>1, <1>2, <1>3, <1>4, <1>5, <1>6 DEF ContInv

(* The variables of every container keep their types.                      *)
THEOREM TypeCorrect == Spec => []TypeOK
<1>1. ContInv /\ AtIsLine /\ ForwardIsList /\ BackIsList => TypeOK
  BY ContImplies
<1>2. AtIsLine /\ ForwardIsList /\ BackIsList
  BY AtIsLineHolds, ForwardIsListHolds, BackIsListHolds
<1> QED BY <1>1, <1>2, ContainersKeepInv, PTL

(* After any sequence of calls list and queue are linked, a priority queue *)
(* that has only grown is a heap, the vectors hold elements exactly below  *)
(* len, iterators stay in bounds and yield each element once, and strings  *)
(* end in a zero.                                                          *)
THEOREM WellFormedHolds == Spec => []WellFormed
<1>1. ContInv /\ AtIsLine /\ ForwardIsList /\ BackIsList => WellFormed
  BY ContImplies
<1>2. AtIsLine /\ ForwardIsList /\ BackIsList
  BY AtIsLineHolds, ForwardIsListHolds, BackIsListHolds
<1> QED BY <1>1, <1>2, ContainersKeepInv, PTL

(* vstr_cmp orders the texts that a string can hold.                       *)
THEOREM CmpIsOrderHolds == Spec => []CmpIsOrder
<1>1. ContInv /\ AtIsLine /\ ForwardIsList /\ BackIsList => CmpIsOrder
  BY ContImplies
<1>2. AtIsLine /\ ForwardIsList /\ BackIsList
  BY AtIsLineHolds, ForwardIsListHolds, BackIsListHolds
<1> QED BY <1>1, <1>2, ContainersKeepInv, PTL

(* What the invariant says of each step of a priority queue.               *)
LEMMA PqSteps ==
    ASSUME ContInv, [Next]_vars, part = "pq"
    PROVE  Heap!InsertSurfacesMin /\ Heap!OddDeleteKeepsHeap
<1>1. PqInv
  BY DEF ContInv
<1>2. Heap!Next \/ UNCHANGED Heap!vars
  BY DEF Next, vars, Heap!vars
<1> QED BY <1>1, <1>2, PqSurfacesMin, PqOddDelete

(* pq_insert puts a minimum at the root, even of an array that deletions   *)
(* have left unordered.                                                    *)
THEOREM InsertSurfacesMinHolds == Spec => InsertSurfacesMin
<1>1. ContInv /\ [Next]_vars => [part = "pq" => Heap!InsertSurfacesMin]_vars
  BY PqSteps
<1> QED BY <1>1, ContainersKeepInv, PTL DEF Spec, InsertSurfacesMin

(* pq_delete leaves a heap of distinct values a heap if an odd number of   *)
(* them stays.                                                             *)
THEOREM OddDeleteKeepsHeapHolds == Spec => OddDeleteKeepsHeap
<1>1. ContInv /\ [Next]_vars => [part = "pq" => Heap!OddDeleteKeepsHeap]_vars
  BY PqSteps
<1> QED BY <1>1, ContainersKeepInv, PTL DEF Spec, OddDeleteKeepsHeap
---------------------------------------------------------------------------
(* What each container promises: the first state and the steps of its      *)
(* abstract specification.                                                 *)
AbstractInit ==
    CASE part = "list" -> List!L!Init
      [] part = "queue" -> Line!F!Init
      [] part = "pq" -> Heap!B!Init
      [] part = "vec" -> Growing!V!Init
      [] part = "small_vec" -> Fixed!V!Init
      [] part = "vstr" -> String!T!Init

AbstractStep ==
    CASE part = "list" -> List!L!Next \/ UNCHANGED List!L!vars
      [] part = "queue" -> Line!F!Next \/ UNCHANGED Line!F!vars
      [] part = "pq" -> Heap!B!Next \/ UNCHANGED Heap!B!vars
      [] part = "vec" -> Growing!V!Next \/ UNCHANGED Growing!V!vars
      [] part = "small_vec" -> Fixed!V!Next \/ UNCHANGED Fixed!V!vars
      [] part = "vstr" -> String!T!Next \/ UNCHANGED String!T!vars

(* The first state of each container is one of its abstract specification. *)
LEMMA AbstractBegins ==
    ASSUME ContInv, ItemsAreLine, ItemsAreList, Init
    PROVE  AbstractInit
<1>1. \/ part = "list" /\ List!Init
      \/ part = "queue" /\ Line!Init
      \/ part = "pq" /\ Heap!Init
      \/ part = "vec" /\ Growing!Init
      \/ part = "small_vec" /\ Fixed!Init
      \/ part = "vstr" /\ String!Init
  BY DEF Init
<1>2. CASE part = "list" /\ List!Init
  <2>1. List!L!Init
    BY <1>2, ListAbstractInit DEF ContInv
  <2> QED BY <1>2, <2>1 DEF AbstractInit
<1>3. CASE part = "queue" /\ Line!Init
  <2>1. Line!F!Init
    BY <1>3, QueueFifoInit DEF ContInv
  <2> QED BY <1>3, <2>1 DEF AbstractInit
<1>4. CASE part = "pq" /\ Heap!Init
  BY <1>4, PqAbstractInit DEF AbstractInit
<1>5. CASE part = "vec" /\ Growing!Init
  BY <1>5, VecAbstractInit DEF AbstractInit
<1>6. CASE part = "small_vec" /\ Fixed!Init
  BY <1>6, FixedAbstractInit DEF AbstractInit
<1>7. CASE part = "vstr" /\ String!Init
  BY <1>7, StringInit DEF AbstractInit
<1> QED BY <1>1, <1>2, <1>3, <1>4, <1>5, <1>6, <1>7

(* Every call is a step of the abstract specification, or changes nothing  *)
(* that it speaks of.                                                      *)
LEMMA AbstractGoesOn ==
    ASSUME ContInv, ContInv', ItemsAreLine, ItemsAreLine', ItemsAreList, ItemsAreList',
           ForwardIsList, Next
    PROVE  AbstractStep
<1>1. /\ part' = part
      /\ \/ part = "list" /\ ListInv /\ List!Next
         \/ part = "queue" /\ QueueInv /\ Line!Next
         \/ part = "pq" /\ PqInv /\ Heap!Next
         \/ part = "vec" /\ VecInv /\ Growing!Next
         \/ part = "small_vec" /\ FixedInv /\ Fixed!Next
         \/ part = "vstr" /\ StringInv /\ String!Next
  BY ContSteps
<1>2. CASE part = "list" /\ ListInv /\ List!Next
  <2>1. ListInv'
    BY <1>1, <1>2 DEF ContInv
  <2>2. List!L!Next \/ UNCHANGED List!L!vars
    BY <1>2, <2>1, ListAbstractStep
  <2> QED BY <1>2, <2>2 DEF AbstractStep
<1>3. CASE part = "queue" /\ QueueInv /\ Line!Next
  <2>1. QueueInv'
    BY <1>1, <1>3 DEF ContInv
  <2>2. Line!F!Next \/ UNCHANGED Line!F!vars
    BY <1>3, <2>1, QueueFifoStep
  <2> QED BY <1>3, <2>2 DEF AbstractStep
<1>4. CASE part = "pq" /\ PqInv /\ Heap!Next
  <2>1. Heap!B!Next
    BY <1>4, PqAbstractStep
  <2> QED BY <1>4, <2>1 DEF AbstractStep
<1>5. CASE part = "vec" /\ VecInv /\ Growing!Next
  <2>1. VecInv'
    BY <1>1, <1>5 DEF ContInv
  <2>2. Growing!V!Next \/ UNCHANGED Growing!V!vars
    BY <1>5, <2>1, VecAbstractStep
  <2> QED BY <1>5, <2>2 DEF AbstractStep
<1>6. CASE part = "small_vec" /\ FixedInv /\ Fixed!Next
  <2>1. FixedInv'
    BY <1>1, <1>6 DEF ContInv
  <2>2. Fixed!V!Next \/ UNCHANGED Fixed!V!vars
    BY <1>6, <2>1, FixedAbstractStep
  <2> QED BY <1>6, <2>2 DEF AbstractStep
<1>7. CASE part = "vstr" /\ StringInv /\ String!Next
  <2>1. String!T!Next \/ UNCHANGED String!T!vars
    BY <1>7, StringStep
  <2> QED BY <1>7, <2>1 DEF AbstractStep
<1> QED BY <1>1, <1>2, <1>3, <1>4, <1>5, <1>6, <1>7

(* Every container is what its documentation promises: the list and the    *)
(* vectors are sequences, the queue is first in, first out, the priority   *)
(* queue a bag and the string the text pushed to it.                       *)
THEOREM ContainersImplement == Spec => ImplementsAbstractions
<1>1. ContInv /\ ItemsAreLine /\ ItemsAreList /\ Init => AbstractInit
  BY AbstractBegins
<1>2. ContInv /\ ContInv' /\ ItemsAreLine /\ ItemsAreLine' /\ ItemsAreList /\ ItemsAreList'
      /\ ForwardIsList /\ [Next]_vars => [AbstractStep]_vars
  BY AbstractGoesOn
<1>3. ItemsAreLine /\ ItemsAreList /\ ForwardIsList
  BY ItemsAreLineHolds, ItemsAreListHolds, ForwardIsListHolds
<1>4. Spec => AbstractInit /\ [][AbstractStep]_vars
  BY <1>1, <1>2, <1>3, ContainersKeepInv, PTL DEF Spec
<1> QED BY <1>4, PTL DEF AbstractInit, AbstractStep, ImplementsAbstractions
=============================================================================
