---------------------------- MODULE RandomBytes ----------------------------
(***************************************************************************)
(* get_random_bytes of src/util.c, which gives every hash table and set    *)
(* its key (ht.c:28, set.c:19).  A block of the output is the digest of    *)
(* the seed and the counter, named here by the two; the seed comes from    *)
(* /dev/urandom or, when that cannot be read, from the clock.              *)
(***************************************************************************)
EXTENDS Integers, Sequences

CONSTANTS
    Entropy, Clock, Zero,   \* what the seed may be read as, or made up as
    BlockSize,              \* SHA256_BLOCK_SIZE
    Word,                   \* the counter wraps at this value
    Lengths,                \* the lengths asked for
    MaxBlocks               \* bound on the blocks made in all

RandomAssumption ==
    /\ Zero \notin Entropy \cup Clock
    /\ BlockSize \in Nat \ {0} /\ Lengths \subseteq Nat
    /\ Word \in Nat /\ MaxBlocks \in Nat /\ MaxBlocks < Word

VARIABLES
    seed_initialized, seed, counter,   \* the statics of the function
    len,                               \* what is left to do
    asked, out,                        \* the call at hand: its length, its blocks
    pc,
    used                               \* history: the blocks made so far

vars == <<seed_initialized, seed, counter, len, asked, out, pc, used>>
---------------------------------------------------------------------------
Blocks(n) == (n + BlockSize - 1) \div BlockSize

Init == /\ seed_initialized = FALSE /\ seed = Zero /\ counter = 0
        /\ len = 0 /\ asked = 0 /\ out = <<>> /\ pc = "idle" /\ used = {}

Call(n) == /\ pc = "idle" /\ counter + Blocks(n) <= MaxBlocks
           /\ len' = n /\ asked' = n /\ out' = <<>> /\ pc' = "seed"
           /\ UNCHANGED <<seed_initialized, seed, counter, used>>

(* Read once; as long as that fails, made up anew by every call *)
Seed == /\ pc = "seed"
        /\ \/ seed_initialized /\ UNCHANGED <<seed_initialized, seed>>
           \/ ~seed_initialized /\ seed_initialized' = TRUE /\ seed' \in Entropy
           \/ ~seed_initialized /\ seed_initialized' = FALSE /\ seed' \in Clock
        /\ pc' = "fill"
        /\ UNCHANGED <<counter, len, asked, out, used>>

Copied == IF len > BlockSize THEN BlockSize ELSE len

(* Mutant: only a whole block advances the counter. *)
FillCountsWhole ==
    /\ pc = "fill" /\ len > 0
    /\ out' = Append(out, [seed |-> seed, counter |-> counter, bytes |-> Copied])
    /\ used' = used \cup {<<seed, counter>>}
    /\ counter' = IF Copied = BlockSize THEN (counter + 1) % Word ELSE counter
    /\ len' = len - Copied
    /\ UNCHANGED <<seed_initialized, seed, asked, pc>>

Fill == /\ pc = "fill" /\ len > 0
        /\ out' = Append(out, [seed |-> seed, counter |-> counter, bytes |-> Copied])
        /\ used' = used \cup {<<seed, counter>>}
        /\ counter' = (counter + 1) % Word
        /\ len' = len - Copied
        /\ UNCHANGED <<seed_initialized, seed, asked, pc>>

Return == /\ pc = "fill" /\ len = 0
          /\ pc' = "idle"
          /\ UNCHANGED <<seed_initialized, seed, counter, len, asked, out, used>>

Step == Seed \/ Fill \/ Return
Calls == \E n \in Lengths : Call(n)
Next == Calls \/ Step

(* A call goes on until it returns: nothing else runs in between. *)
Spec == Init /\ [][Next]_vars /\ WF_vars(Step)
---------------------------------------------------------------------------
(* All blocks of the call but the last are whole.                          *)
Filled == IF out = <<>> THEN 0 ELSE (Len(out) - 1) * BlockSize + out[Len(out)].bytes

(* The bytes of the call so far and those to come are as many as were      *)
(* asked for, and none is the digest of a seed nobody set.                 *)
FillsWhatWasAsked ==
    /\ Filled + len = asked
    /\ \A b \in 1 .. Len(out) : /\ out[b].seed # Zero /\ out[b].bytes \in 1 .. BlockSize
                                /\ b < Len(out) => out[b].bytes = BlockSize

(* No two blocks, of one call or of two, are digests of the same seed and  *)
(* counter: no two tables share a key, whether or not the seed was ever    *)
(* read from /dev/urandom.                                                 *)
NoBlockTwice == out' # out /\ out' # <<>> => <<seed, counter>> \notin used

(* A seed once read is kept. *)
SeedStays == seed_initialized => seed_initialized' /\ seed' = seed
=============================================================================
