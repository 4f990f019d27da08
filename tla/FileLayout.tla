----------------------------- MODULE FileLayout -----------------------------
(***************************************************************************)
(* How StorageService cuts a file into blocks and a block into chunks      *)
(* (storage_service.go: the constants, the routing of StoreFile and the    *)
(* splitting done by EncodeAndBracket).  Pure operators, no state.         *)
(*                                                                         *)
(*   file < InlineThreshold        one verbatim chunk on an inline machine *)
(*   every full block of BlockSize TotalShards shards on block machines    *)
(*   the trailing partial block    one verbatim chunk on a block machine   *)
(***************************************************************************)
EXTENDS Integers

CONSTANTS
    InlineThreshold,  \* files below this many bytes are stored inline
    BlockSize,        \* bytes of a full block
    DataShards,       \* shards a stripe needs to be rebuilt
    ParityShards,     \* shards a stripe may lose
    BytesPerMB        \* the unit discs are measured in

\* The program's values are 128K, 32M, 8, 4 and 2^20.
ASSUME LayoutAssumption ==
    /\ InlineThreshold \in Nat \ {0}
    /\ BlockSize \in Nat \ {0}
    /\ InlineThreshold <= BlockSize
    /\ DataShards \in Nat \ {0}
    /\ ParityShards \in Nat
    /\ BytesPerMB \in Nat \ {0}

TotalShards == DataShards + ParityShards

\* The shard index of a chunk that holds a whole block verbatim.
ShardIndexWhole == -1

Schemes == {"inline", "whole", "stripe"}

\* What io.ReadFull(file, buf) returns when offset bytes were read before.
ReadLen(size, offset) ==
    IF size - offset < BlockSize THEN size - offset ELSE BlockSize

\* The routing of StoreFile for a block of n bytes of a file of size bytes.
SchemeOf(size, n) ==
    IF size < InlineThreshold THEN "inline"
    ELSE IF n = BlockSize THEN "stripe" ELSE "whole"

\* The shard indexes a block is stored under: the loop of storeErasureBlock,
\* or the single ShardIndexWhole of storeWholeBlock.
FirstShard(scheme) == IF scheme = "stripe" THEN 0 ELSE ShardIndexWhole
LastShard(scheme)  == IF scheme = "stripe" THEN TotalShards - 1 ELSE ShardIndexWhole
ShardsOf(scheme)   == FirstShard(scheme) .. LastShard(scheme)

\* Enc.Split pads the block to DataShards equal shards.
ShardLen(n) == (n + DataShards - 1) \div DataShards

\* The bytes of one chunk of a block of n bytes.
ChunkLen(scheme, n) == IF scheme = "stripe" THEN ShardLen(n) ELSE n

\* requiredMB: whole megabytes, rounded up.
RequiredMB(bytes) == (bytes + BytesPerMB - 1) \div BytesPerMB
=============================================================================
