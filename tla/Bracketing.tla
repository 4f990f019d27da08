----------------------------- MODULE Bracketing -----------------------------
(***************************************************************************)
(* EncodeAndBracket (erasure_service.go): a block is encoded, and its      *)
(* shards are then checked: a checkup drops all but DataShards of them,    *)
(* lets the library rebuild the rest and compares the result with the      *)
(* block.                                                                  *)
(*                                                                         *)
(* The library is the constant Encode, from blocks to words, a word being  *)
(* a shard for every index.  Whatever goes wrong with the shards before    *)
(* they are checked, in the library or in memory, some word comes of it.   *)
(*                                                                         *)
(* The code lists the five sets of indexes its 8+4 checkups keep.  Kept    *)
(* is that list for any DataShards and ParityShards: all the parity, the   *)
(* last data shards, and one of the ParityShards + 1 first.                *)
(***************************************************************************)
EXTENDS Integers, FiniteSets

CONSTANTS
    DataShards,
    ParityShards,
    Blocks,        \* the contents of blocks
    Contents,      \* the contents of shards
    Encode         \* the library: the word of each block

Indexes == 0 .. DataShards + ParityShards - 1
Words   == [Indexes -> Contents]

ASSUME BracketingAssumption ==
    /\ DataShards \in Nat /\ ParityShards \in Nat
    /\ ParityShards < DataShards
    /\ Encode \in [Blocks -> Words]

VARIABLES
    data,       \* the block
    shards,     \* its shards, as they are in memory
    checkup,    \* the checkup that comes next
    outcome     \* where the call is, and how it ended

vars == <<data, shards, checkup, outcome>>

Agree(v, w, kept) == \A i \in kept : v[i] = w[i]

ParityAndTail == ParityShards + 1 .. DataShards + ParityShards - 1

\* Mutant: every checkup keeps the same shards.
KeptAgain(n) == {0} \cup ParityAndTail

\* Mutant: one shard too few.
KeptTooFew(n) == ParityAndTail

\* checkups: what checkup n keeps.
Kept(n) == {ParityShards - n} \cup ParityAndTail

Checkups == 0 .. ParityShards

\* Enc.Reconstruct and Enc.Join of the shards that are kept.
Rebuilt(kept) == CHOOSE b \in Blocks : Agree(Encode[b], shards, kept)
Rebuilds(kept) == \E b \in Blocks : Agree(Encode[b], shards, kept)

\* Reconstruction succeeds and gives the bytes of the block.
Matches(n) == Rebuilds(Kept(n)) /\ Rebuilt(Kept(n)) = data

\* Enc.Split and Enc.Encode, and what may go wrong with them.  The data shards
\* of Split are the block itself, so what damages one before it is encoded makes
\* it another block: the behaviours from that block, which are here with those
\* where the block stays.
EncodeBlock ==
    /\ outcome = "encoding"
    /\ shards' \in Words
    /\ outcome' = "checking"
    /\ UNCHANGED <<data, checkup>>

\* Mutant: the error is not looked at.
EncodeErrIgnored ==
    /\ outcome = "encoding"
    /\ outcome' = "checking"
    /\ UNCHANGED <<data, shards, checkup>>

EncodeErrs ==
    /\ outcome = "encoding"
    /\ outcome' = "error"
    /\ UNCHANGED <<data, shards, checkup>>

CheckupPasses ==
    /\ outcome = "checking" /\ checkup \in Checkups
    /\ Matches(checkup)
    /\ checkup' = checkup + 1
    /\ UNCHANGED <<data, shards, outcome>>

CheckupFails ==
    /\ outcome = "checking" /\ checkup \in Checkups
    /\ ~Matches(checkup)
    /\ outcome' = "failed"
    /\ UNCHANGED <<data, shards, checkup>>

\* The shards are given to storeErasureBlock.
Return ==
    /\ outcome = "checking" /\ checkup \notin Checkups
    /\ outcome' = "passed"
    /\ UNCHANGED <<data, shards, checkup>>

Init ==
    /\ data \in Blocks
    /\ shards = <<>>
    /\ checkup = 0
    /\ outcome = "encoding"

Next == EncodeBlock \/ EncodeErrs \/ CheckupPasses \/ CheckupFails \/ Return

Spec == Init /\ [][Next]_vars

(***************************************************************************)
(* Properties                                                              *)
(***************************************************************************)
\* The type invariant.  The loop ends after the last checkup, and only shards
\* that the library gave are checked.
TypeOK ==
    /\ data \in Blocks
    /\ outcome \in {"encoding", "error", "checking", "passed", "failed"}
    /\ outcome \in {"checking", "passed", "failed"} => shards \in Words
    /\ checkup \in 0 .. ParityShards + 1

\* What Reed-Solomon codes promise: any DataShards shards are those of exactly
\* one block.
MDS ==
    \A kept \in SUBSET Indexes : Cardinality(kept) = DataShards =>
        \A w \in Words : \E b \in Blocks :
            /\ Agree(Encode[b], w, kept)
            /\ \A c \in Blocks : Agree(Encode[c], w, kept) => c = b

\* Together the checkups see every shard: whatever was damaged, in data or in
\* parity, one shard or all of them, SimulateDisasterAndVerify finds it.
PassedIsIntact == outcome = "passed" => shards = Encode[data]

\* And it never refuses shards that are right.
IntactIsPassed == shards = Encode[data] => outcome # "failed"

\* What the checkups are said to ensure for whatever matrix they are run on:
\* that the block can be rebuilt from every other set of DataShards shards.
EveryLossRebuilds ==
    outcome = "passed" =>
        \A kept \in SUBSET Indexes : Cardinality(kept) = DataShards =>
            \A b \in Blocks : Agree(Encode[b], shards, kept) => b = data
=============================================================================
