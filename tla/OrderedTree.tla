---------------------------- MODULE OrderedTree ----------------------------
(***************************************************************************)
(* What the generic tree promises (vlib.h 728-822): keys hung under other  *)
(* keys, found in depth first or breadth first order.  A node is the path  *)
(* that leads to it, the sequence of the child positions taken from the    *)
(* root, and the two orders of search are orders of paths.                 *)
(***************************************************************************)
EXTENDS Naturals, FiniteSetsExt, SequencesExt

CONSTANTS Key

VARIABLES
    tree,    \* the keys by path: the domain is closed under prefixes
    reply    \* the last call, how it searched, its result code, the keys it freed

vars == <<tree, reply>>
Answer(op, how, code, freed) == [op |-> op, how |-> how, code |-> code, freed |-> freed]

Lexical(p, q) == \/ IsStrictPrefix(p, q)
                 \/ \E i \in DOMAIN p \cap DOMAIN q :
                        p[i] < q[i] /\ \A j \in 1 .. i - 1 : p[j] = q[j]
Earlier(how, p, q) == \/ how # "depth" /\ Len(p) < Len(q)
                      \/ (how # "depth" => Len(p) = Len(q)) /\ Lexical(p, q)
ChildrenFirst(p, q) == IsStrictPrefix(q, p) \/ (Lexical(p, q) /\ ~IsPrefix(p, q))

(* A breadth first search needs memory for every node it meets: short of   *)
(* it, it passes over a node with everything below it.                     *)
Met(t, how) == IF how # "short" THEN {DOMAIN t}
               ELSE {S \in SUBSET DOMAIN t :
                         \A p \in S : \A q \in DOMAIN t : IsPrefix(q, p) => q \in S}
First(t, how, S, k, p) == /\ p \in S /\ t[p] = k
                          /\ \A q \in S : t[q] = k => q = p \/ Earlier(how, p, q)
(* The keys below p, children before parents *)
KeysFreed(t, p) ==
    LET gone == {q \in DOMAIN t : IsPrefix(p, q)}
        met == CHOOSE s \in [1 .. Cardinality(gone) -> gone] :
                   \A i, j \in DOMAIN s : i < j => ChildrenFirst(s[i], s[j])
    IN  [i \in DOMAIN met |-> t[met[i]]]

Init == tree = <<>> /\ reply = Answer("new", "no", 0, <<>>)

Plant(k) == /\ reply' = Answer("insert", "no", 0, <<>>)
            /\ DOMAIN tree = {}
            /\ tree' = [p \in {<<>>} |-> k]

(* The new node is the last child of the first one with the parent's key. *)
Insert(how, k, par) ==
    /\ reply' = Answer("insert", how, 0, <<>>)
    /\ LET t == tree
       IN  \E S \in Met(t, how) : \E p \in S :
               LET n == Cardinality({i \in DOMAIN t : Len(i) = Len(p) + 1 /\ IsPrefix(p, i)})
                   new == Append(p, n + 1)
               IN  /\ First(t, how, S, par, p)
                   /\ tree' = [q \in DOMAIN t \cup {new} |-> IF q = new THEN k ELSE t[q]]

InsertFails == reply' = Answer("insert", "no", 1, <<>>) /\ UNCHANGED tree

Find(how, k) == /\ reply' = Answer("find", how, 0, <<>>)
                /\ LET t == tree IN \E S \in Met(t, how) : \E p \in S : t[p] = k
                /\ UNCHANGED tree

Missing(op, how, k) == /\ reply' = Answer(op, how, 1, <<>>)
                       /\ LET t == tree IN \E S \in Met(t, how) : \A p \in S : t[p] # k
                       /\ UNCHANGED tree

(* The node goes with all below it, children before parents, and its later *)
(* siblings move one place down.                                           *)
Delete(how, k) ==
    /\ reply'.op = "delete" /\ reply'.how = how
    /\ LET t == tree
       IN  \E S \in Met(t, how) : \E p \in S :
               LET gone == {q \in DOMAIN t : IsPrefix(p, q)}
                   d == Len(p)
                   Shifts(q) == Len(q) >= d /\ q[d] >= p[d] /\ \A i \in 1 .. d - 1 : q[i] = p[i]
                   New(q) == IF Shifts(q) THEN [q EXCEPT ![d] = @ - 1] ELSE q
                   Old(q) == IF Shifts(q) THEN [q EXCEPT ![d] = @ + 1] ELSE q
               IN  /\ p # <<>> /\ First(t, how, S, k, p)
                   /\ reply' = Answer("delete", how, 0, KeysFreed(t, p))
                   /\ tree' = [q \in {New(r) : r \in DOMAIN t \ gone} |-> t[Old(q)]]

Free == /\ reply'.op = "free"
        /\ reply' = Answer("free", "no", 0, KeysFreed(tree, <<>>))
        /\ DOMAIN tree # {}
        /\ tree' = <<>>

Renew == reply' = Answer("new", "no", 0, <<>>) /\ reply.op = "free" /\ UNCHANGED tree

Next == \/ \E k \in Key : Plant(k)
        \/ \E how \in {"depth", "breadth", "short"}, k \in Key :
               \/ \E par \in Key : Insert(how, k, par)
               \/ Find(how, k) \/ Delete(how, k) \/ Missing("find", how, k)
               \/ Missing("delete", how, k)
        \/ InsertFails \/ Free \/ Renew

Spec == Init /\ [][Next]_vars
=============================================================================
