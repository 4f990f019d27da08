---------------------- MODULE StorageService_proofs -------------------------
(***************************************************************************)
(* Proofs about the storage service (storage_service.go): the write path,  *)
(* and the read path next to it, for any number of uploads, downloads,     *)
(* machines, daemons, shards, sizes and faults.                            *)
(*                                                                         *)
(* The first half is about WritePath alone, under its own specification;   *)
(* the second about ReadPath, whose steps are those of WritePath and the   *)
(* downloads.                                                              *)
(***************************************************************************)
EXTENDS ReadPath, FoldLemmas

(***************************************************************************)
(* The arithmetic of FileLayout                                            *)
(***************************************************************************)
\* Rounding a division up gives a natural number, at least as large as the
\* quotient: the arithmetic of requiredMB and of Enc.Split.
LEMMA RoundUp ==
    ASSUME NEW n \in Nat, NEW k \in Nat \ {0}
    PROVE  /\ (n + k - 1) \div k \in Nat
           /\ k * ((n + k - 1) \div k) >= n
<1> DEFINE q == (n + k - 1) \div k
           r == (n + k - 1) % k
<1>1. q \in Int /\ r \in 0 .. (k - 1)
  BY SMT
<1>2. n + k - 1 = k * q + r
  BY SMT
<1>3. k * q >= n
  BY <1>1, <1>2, SMT
<1>4. q \in Nat
  BY <1>1, <1>3, SMT
<1> QED
  BY <1>3, <1>4

\* A read inside the file returns something, at most a block, and never goes
\* past the end: the loop of StoreFile makes progress and stops at totalSize.
LEMMA ReadLenBounds ==
    ASSUME NEW total \in Nat, NEW from \in Nat, from < total
    PROVE  /\ ReadLen(total, from) \in 1 .. BlockSize
           /\ from + ReadLen(total, from) \in 1 .. total
BY LayoutAssumption, SMT DEF ReadLen

\* The data shards of a stripe hold the whole block.
THEOREM ShardsCoverBlock ==
    ASSUME NEW n \in Nat
    PROVE  ShardLen(n) \in Nat /\ DataShards * ShardLen(n) >= n
BY RoundUp, LayoutAssumption DEF ShardLen

\* The free space a placement asks for has room for the chunk it is for.
THEOREM RequiredMBCoversChunk ==
    ASSUME NEW n \in Nat
    PROVE  RequiredMB(n) \in Nat /\ BytesPerMB * RequiredMB(n) >= n
BY RoundUp, LayoutAssumption DEF RequiredMB

\* Every chunk the write path makes has a length.
LEMMA ChunkLenNat ==
    ASSUME NEW scheme, NEW n \in Nat
    PROVE  ChunkLen(scheme, n) \in Nat
BY ShardsCoverBlock DEF ChunkLen

(***************************************************************************)
(* Placement                                                               *)
(***************************************************************************)
\* Whatever placement answers assigns a machine to every chunk of the block,
\* and no machine twice.
LEMMA PlacementsSound ==
    ASSUME NEW u \in Uploads, NEW t \in Placements(u)
    PROVE  /\ t \in [ShardsOf(Scheme(u)) -> Machines]
           /\ Distinct(t, ShardsOf(Scheme(u)))
<1>1. Scheme(u) \in Schemes
  BY DEF Scheme, SchemeOf, Schemes
<1>2. CASE Scheme(u) = "stripe"
  <2>1. t \in SelectMachinesForEC(used, RequiredMB(ShardLen(BlockLen(u))))
    BY <1>2 DEF Placements
  <2>2. /\ t \in [ShardsOf("stripe") ->
                    Candidates(used, BlockMachines, RequiredMB(ShardLen(BlockLen(u))))]
        /\ Distinct(t, ShardsOf("stripe"))
    BY <2>1 DEF SelectMachinesForEC
  <2> QED
    BY <1>2, <2>2 DEF Candidates, Machines
<1>3. ASSUME NEW pool \in SUBSET Machines, NEW mb,
             t \in SelectMachine(used, pool, mb), Scheme(u) # "stripe"
      PROVE  /\ t \in [ShardsOf(Scheme(u)) -> Machines]
             /\ Distinct(t, ShardsOf(Scheme(u)))
  <2>1. ShardsOf(Scheme(u)) = {ShardIndexWhole} /\ ShardsOf("whole") = {ShardIndexWhole}
    BY <1>3 DEF ShardsOf, FirstShard, LastShard, ShardIndexWhole
  <2>2. PICK m \in Emptiest(used, Candidates(used, pool, mb)) :
            t = [s \in ShardsOf("whole") |-> m]
    BY <1>3 DEF SelectMachine
  <2>3. m \in Machines
    BY <2>2 DEF Emptiest, Candidates
  <2> QED
    BY <2>1, <2>2, <2>3 DEF Distinct
<1>4. CASE Scheme(u) = "inline"
  BY <1>3, <1>4 DEF Placements, Machines
<1>5. CASE Scheme(u) = "whole"
  BY <1>3, <1>5 DEF Placements, Machines
<1> QED
  BY <1>1, <1>2, <1>4, <1>5 DEF Schemes

(***************************************************************************)
(* Types, and where the loops are                                          *)
(***************************************************************************)
\* A call that has not begun is at the start of its file, one that reads a
\* block is inside it, and one that pushes has a machine for the shard it is at.
LoopInv ==
    \A u \in Uploads :
        /\ pc[u] = "idle" => offset[u] = 0
        /\ pc[u] \in {"placing", "pushing"} => offset[u] < size[u]
        /\ pc[u] = "pushing" =>
              /\ targets[u] \in [ShardsOf(Scheme(u)) -> Machines]
              /\ Distinct(targets[u], ShardsOf(Scheme(u)))
              /\ shard[u] \in ShardsOf(Scheme(u))

TypeInv == TypeOK /\ LoopInv

\* What a call in the middle of a block is about to write is a proper row.
LEMMA NewChunkTyped ==
    ASSUME TypeInv, NEW u \in Uploads, pc[u] = "pushing"
    PROVE  /\ NewChunk(u) \in Chunk
           /\ Id(NewChunk(u)) \in ChunkIds
           /\ BlockLen(u) \in Nat
           /\ offset[u] + BlockLen(u) \in 1 .. size[u]
<1> USE DEF TypeInv, TypeOK, UploadTypeOK
<1>1. /\ size[u] \in Nat /\ offset[u] \in Nat /\ offset[u] < size[u]
      /\ block[u] \in Nat /\ shard[u] \in Int
  BY DEF LoopInv
<1>2. BlockLen(u) \in Nat /\ offset[u] + BlockLen(u) \in 1 .. size[u]
  BY <1>1, ReadLenBounds, LayoutAssumption DEF BlockLen
<1>3. targets[u][shard[u]] \in Machines
  BY DEF LoopInv
<1>4. ChunkLen(Scheme(u), BlockLen(u)) \in Nat
  BY <1>2, ChunkLenNat
<1>5. NewChunk(u) \in Chunk
  BY <1>1, <1>2, <1>3, <1>4 DEF NewChunk, Chunk
<1>6. Id(NewChunk(u)) \in ChunkIds
  BY <1>1 DEF NewChunk, Id, ChunkIds
<1> QED
  BY <1>2, <1>5, <1>6

LEMMA TypeInit == WriteInit => TypeInv
BY WritePathAssumption
DEF WriteInit, TypeInv, TypeOK, UploadTypeOK, CatalogTypeOK, DiskTypeOK, LoopInv,
    Phases, Running

\* The end of a call keeps the types, whatever else the step changes.
LEMMA ReturnKeepsUploads ==
    ASSUME TypeInv, NEW u \in Uploads, NEW outcome \in {"stored", "failed"},
           Return(u, outcome)
    PROVE  UploadTypeOK' /\ LoopInv'
<1> USE DEF TypeInv, TypeOK, UploadTypeOK
<1>1. UploadTypeOK'
  BY DEF Return, Phases
<1>2. LoopInv'
  BY DEF Return, LoopInv, Scheme, BlockLen
<1> QED
  BY <1>1, <1>2

\* Every step of the write path keeps the types and the place of the loops.
LEMMA TypeNext == TypeInv /\ [WriteNext]_writeVars => TypeInv'
<1> SUFFICES ASSUME TypeInv, [WriteNext]_writeVars
             PROVE  TypeInv'
  OBVIOUS
<1> USE DEF TypeInv, TypeOK
<1>1. ASSUME NEW u \in Uploads, StoreFile(u)
      PROVE  TypeInv'
  <2>1. PICK n \in FileSizes, next \in {"failed", "placing"} :
            /\ next = "placing" => n > 0
            /\ size' = [size EXCEPT ![u] = n]
            /\ pc' = [pc EXCEPT ![u] = next]
    BY <1>1 DEF StoreFile
  <2>2. n \in Nat /\ offset[u] = 0 /\ pc[u] = "idle"
    BY <1>1, WritePathAssumption DEF StoreFile, LoopInv
  <2>3. UNCHANGED <<block, offset, shard, targets, chunks, catalogVars, disk, faultVars>>
    BY <1>1 DEF StoreFile
  <2>4. UploadTypeOK'
    BY <2>1, <2>2, <2>3 DEF UploadTypeOK, Phases, Running
  <2>5. CatalogTypeOK' /\ DiskTypeOK'
    BY <2>3 DEF CatalogTypeOK, DiskTypeOK, catalogVars, faultVars
  <2>6. LoopInv'
    BY <2>1, <2>2, <2>3 DEF LoopInv, UploadTypeOK, Scheme, BlockLen
  <2> QED
    BY <2>4, <2>5, <2>6
<1>2. ASSUME NEW u \in Uploads, Place(u)
      PROVE  TypeInv'
  <2>1. PICK t \in Placements(u) : targets' = [targets EXCEPT ![u] = t]
    BY <1>2 DEF Place
  <2>2. /\ t \in [ShardsOf(Scheme(u)) -> Machines]
        /\ Distinct(t, ShardsOf(Scheme(u)))
    BY <2>1, PlacementsSound
  <2>3. FirstShard(Scheme(u)) \in ShardsOf(Scheme(u)) /\ FirstShard(Scheme(u)) \in Int
    BY LayoutAssumption DEF ShardsOf, FirstShard, LastShard, ShardIndexWhole, TotalShards
  <2>4. /\ pc[u] = "placing"
        /\ pc' = [pc EXCEPT ![u] = "pushing"]
        /\ shard' = [shard EXCEPT ![u] = FirstShard(Scheme(u))]
        /\ UNCHANGED <<size, block, offset, chunks, catalogVars, disk, faultVars>>
    BY <1>2 DEF Place
  <2>5. UploadTypeOK'
    BY <2>1, <2>3, <2>4 DEF UploadTypeOK, Phases, Running
  <2>6. CatalogTypeOK' /\ DiskTypeOK'
    BY <2>4 DEF CatalogTypeOK, DiskTypeOK, catalogVars, faultVars
  <2>7. LoopInv'
    BY <2>1, <2>2, <2>3, <2>4 DEF LoopInv, UploadTypeOK, Scheme, BlockLen
  <2> QED
    BY <2>5, <2>6, <2>7
<1>3. ASSUME NEW u \in Uploads, PlaceFails(u) \/ CommitFails(u)
      PROVE  TypeInv'
  <2>1. Return(u, "failed") /\ UNCHANGED <<catalogVars, disk, faultVars>>
    BY <1>3 DEF PlaceFails, CommitFails
  <2> QED
    BY <2>1, ReturnKeepsUploads DEF CatalogTypeOK, DiskTypeOK, catalogVars, faultVars
<1>4. ASSUME NEW u \in Uploads, PushChunk(u)
      PROVE  TypeInv'
  <2>1. /\ pc[u] = "pushing"
        /\ Write(NewChunk(u))
        /\ chunks' = [chunks EXCEPT ![u] = @ \cup {NewChunk(u)}]
        /\ Advance(u)
        /\ UNCHANGED <<size, targets, catalogVars, faultVars>>
    BY <1>4 DEF PushChunk
  <2>2. /\ NewChunk(u) \in Chunk
        /\ Id(NewChunk(u)) \in ChunkIds
        /\ BlockLen(u) \in Nat
        /\ offset[u] + BlockLen(u) \in 1 .. size[u]
    BY <2>1, NewChunkTyped
  <2>3. DiskTypeOK'
    <3>1. disk' \in [Machines -> SUBSET ChunkIds]
      BY <2>1, <2>2 DEF Write, DiskTypeOK
    <3> QED
      BY <2>1, <3>1 DEF DiskTypeOK, faultVars
  <2>4. CatalogTypeOK'
    BY <2>1 DEF CatalogTypeOK, catalogVars
  <2>5. chunks' \in [Uploads -> SUBSET Chunk]
    BY <2>1, <2>2 DEF UploadTypeOK
  <2>6. CASE shard[u] < LastShard(Scheme(u))
    <3>1. shard' = [shard EXCEPT ![u] = @ + 1] /\ UNCHANGED <<pc, block, offset>>
      BY <2>1, <2>6 DEF Advance
    <3>2. UploadTypeOK'
      BY <2>1, <2>5, <3>1 DEF UploadTypeOK
    <3>3. shard[u] + 1 \in ShardsOf(Scheme(u))
      BY <2>1, <2>6, LayoutAssumption
      DEF LoopInv, ShardsOf, FirstShard, LastShard, ShardIndexWhole, TotalShards
    <3>4. LoopInv'
      BY <2>1, <3>1, <3>3 DEF LoopInv, UploadTypeOK, Scheme, BlockLen
    <3> QED
      BY <2>3, <2>4, <3>2, <3>4
  <2>7. CASE ~(shard[u] < LastShard(Scheme(u)))
    <3>1. /\ block' = [block EXCEPT ![u] = @ + 1]
          /\ offset' = [offset EXCEPT ![u] = @ + BlockLen(u)]
          /\ pc' = [pc EXCEPT ![u] = IF offset'[u] < size[u] THEN "placing" ELSE "commit"]
          /\ UNCHANGED shard
      BY <2>1, <2>7 DEF Advance
    <3>2. UploadTypeOK'
      BY <2>1, <2>2, <2>5, <3>1 DEF UploadTypeOK, Phases, Running
    <3>3. LoopInv'
      BY <2>1, <2>2, <3>1 DEF LoopInv, UploadTypeOK, Scheme, BlockLen
    <3> QED
      BY <2>3, <2>4, <3>2, <3>3
  <2> QED
    BY <2>6, <2>7
<1>5. ASSUME NEW u \in Uploads, PushFails(u)
      PROVE  TypeInv'
  <2>1. /\ pc[u] = "pushing"
        /\ UNCHANGED disk \/ Write(NewChunk(u))
        /\ Return(u, "failed")
        /\ UNCHANGED <<catalogVars, faultVars>>
    BY <1>5 DEF PushFails
  <2>2. Id(NewChunk(u)) \in ChunkIds
    BY <2>1, NewChunkTyped
  <2>3. disk' \in [Machines -> SUBSET ChunkIds]
    BY <2>1, <2>2 DEF Write, DiskTypeOK
  <2> QED
    BY <2>1, <2>3, ReturnKeepsUploads DEF CatalogTypeOK, DiskTypeOK, catalogVars, faultVars
<1>6. ASSUME NEW u \in Uploads, Commit(u)
      PROVE  TypeInv'
  <2>1. PICK outcome \in {"stored", "failed"} : Return(u, outcome)
    BY <1>6 DEF Commit
  <2>2. UploadTypeOK' /\ LoopInv'
    BY <2>1, ReturnKeepsUploads
  <2>3. CatalogTypeOK'
    BY <1>6 DEF Commit, ChargeUsage, CatalogTypeOK, UploadTypeOK
  <2>4. DiskTypeOK'
    BY <1>6 DEF Commit, DiskTypeOK, faultVars
  <2> QED
    BY <2>2, <2>3, <2>4
<1>7. ASSUME NEW u \in Uploads, FlagDeleted(u) \/ StampDeleted(u)
      PROVE  TypeInv'
  BY <1>7
  DEF FlagDeleted, StampDeleted, SetBlob, UploadTypeOK, CatalogTypeOK, DiskTypeOK, LoopInv,
      Scheme, BlockLen, uploadVars, faultVars
<1>8. ASSUME FaultStep
      PROVE  TypeInv'
  <2>1. UNCHANGED <<uploadVars, catalogVars>>
    BY <1>8 DEF FaultStep, LoseChunk, LoseMachine, Rot, WorkerDown, WorkerUp
  <2>2. UploadTypeOK' /\ CatalogTypeOK' /\ LoopInv'
    BY <2>1
    DEF UploadTypeOK, CatalogTypeOK, LoopInv, Scheme, BlockLen, uploadVars, catalogVars
  <2>3. DiskTypeOK'
    BY <1>8, WritePathAssumption
    DEF FaultStep, LoseChunk, LoseMachine, Rot, WorkerDown, WorkerUp, Fault, DiskTypeOK
  <2> QED
    BY <2>2, <2>3
<1>9. ASSUME CrashUploads
      PROVE  TypeInv'
  <2>1. UploadTypeOK'
    BY <1>9 DEF CrashUploads, UploadTypeOK, Phases, Running
  <2>2. CatalogTypeOK'
    BY <1>9 DEF CrashUploads, CatalogTypeOK, catalogVars
  <2>3. DiskTypeOK'
    BY <1>9, WritePathAssumption DEF CrashUploads, Fault, DiskTypeOK
  <2>4. LoopInv'
    BY <1>9 DEF CrashUploads, LoopInv, UploadTypeOK, Running
  <2> QED
    BY <2>1, <2>2, <2>3, <2>4
<1>10. CASE UNCHANGED writeVars
  BY <1>10
  DEF UploadTypeOK, CatalogTypeOK, DiskTypeOK, LoopInv, Scheme, BlockLen,
      writeVars, uploadVars, catalogVars, faultVars
<1> QED
  BY <1>1, <1>2, <1>3, <1>4, <1>5, <1>6, <1>7, <1>8, <1>9, <1>10
  DEF WriteNext, UploadStep, ClientStep

LEMMA TypeInvariant == WriteSpec => []TypeInv
BY TypeInit, TypeNext, PTL DEF WriteSpec

\* Every variable keeps its type and the block loop never runs past the end of
\* the file.
THEOREM TypeCorrect == WriteSpec => []TypeOK
BY TypeInvariant, PTL DEF TypeInv

(***************************************************************************)
(* No two shards of a stripe on one machine                                *)
(***************************************************************************)
\* Rows on distinct machines: what StripeSpread says of the catalog.
Spread(S) ==
    \A c, d \in S : (c.blob = d.blob /\ c.block = d.block /\ c # d) => c.disc # d.disc

\* A row of a running call is of an earlier block or, while the call pushes a
\* block, of an earlier shard of that block and where placement put it.
Behind(u, c) ==
    /\ c.blob = u
    /\ \/ c.block < block[u]
       \/ /\ pc[u] = "pushing"
          /\ c.block = block[u]
          /\ c.shard \in ShardsOf(Scheme(u))
          /\ c.shard < shard[u]
          /\ c.disc = targets[u][c.shard]

\* StripeSpread is not inductive: it must hold of the rows a call has built so
\* far, which needs where they come from, and the rows of the catalog must be
\* of other calls than the running ones.
SpreadInv ==
    /\ StripeSpread
    /\ \A c \in blobChunks : pc[c.blob] \in {"stored", "failed"}
    /\ \A u \in Uploads :
        /\ pc[u] \notin Running => chunks[u] = {}
        /\ Spread(chunks[u])
        /\ \A c \in chunks[u] : Behind(u, c)

LEMMA SpreadInit == WriteInit => SpreadInv
BY DEF WriteInit, SpreadInv, StripeSpread, Spread

\* Nothing changes for a call that returns but that its rows are gone.
LEMMA ReturnKeepsSpread ==
    ASSUME TypeInv, SpreadInv, NEW u \in Uploads, NEW outcome \in {"stored", "failed"},
           Return(u, outcome), UNCHANGED blobChunks
    PROVE  SpreadInv'
<1> USE DEF TypeInv, TypeOK, UploadTypeOK
<1>1. /\ pc' = [pc EXCEPT ![u] = outcome]
      /\ targets' = [targets EXCEPT ![u] = <<>>]
      /\ chunks' = [chunks EXCEPT ![u] = {}]
      /\ UNCHANGED <<size, block, offset, shard, blobChunks>>
  BY DEF Return
<1>2. ASSUME NEW v \in Uploads
      PROVE  /\ pc'[v] \notin Running => chunks'[v] = {}
             /\ Spread(chunks'[v])
             /\ \A c \in chunks'[v] : Behind(v, c)'
  BY <1>1 DEF SpreadInv, Spread, Behind, Scheme, BlockLen
<1>3. StripeSpread' /\ \A c \in blobChunks' : pc'[c.blob] \in {"stored", "failed"}
  BY <1>1 DEF SpreadInv, StripeSpread, CatalogTypeOK, Chunk
<1> QED
  BY <1>2, <1>3 DEF SpreadInv, Spread

\* Every step keeps the rows of a stripe on distinct machines.
LEMMA SpreadNext == TypeInv /\ SpreadInv /\ [WriteNext]_writeVars => SpreadInv'
<1> SUFFICES ASSUME TypeInv, SpreadInv, [WriteNext]_writeVars
             PROVE  SpreadInv'
  OBVIOUS
<1> USE DEF TypeInv, TypeOK, UploadTypeOK
<1>1. ASSUME NEW u \in Uploads, StoreFile(u)
      PROVE  SpreadInv'
  <2>1. /\ pc[u] = "idle"
        /\ \E next \in {"failed", "placing"} : pc' = [pc EXCEPT ![u] = next]
        /\ \A v \in Uploads \ {u} : size'[v] = size[v]
        /\ UNCHANGED <<block, offset, shard, targets, chunks, blobChunks>>
    BY <1>1 DEF StoreFile, catalogVars
  <2>2. chunks[u] = {}
    BY <2>1 DEF SpreadInv, Running
  <2>3. ASSUME NEW v \in Uploads
        PROVE  /\ pc'[v] \notin Running => chunks'[v] = {}
               /\ Spread(chunks'[v])
               /\ \A c \in chunks'[v] : Behind(v, c)'
    BY <2>1, <2>2 DEF SpreadInv, Spread, Behind, Scheme, BlockLen
  <2>4. \A c \in blobChunks' : pc'[c.blob] \in {"stored", "failed"}
    BY <2>1 DEF SpreadInv, CatalogTypeOK, Chunk
  <2> QED
    BY <2>1, <2>3, <2>4 DEF SpreadInv, StripeSpread, Spread
<1>2. ASSUME NEW u \in Uploads, Place(u)
      PROVE  SpreadInv'
  <2>1. /\ pc[u] = "placing"
        /\ pc' = [pc EXCEPT ![u] = "pushing"]
        /\ \A v \in Uploads \ {u} : targets'[v] = targets[v] /\ shard'[v] = shard[v]
        /\ UNCHANGED <<size, block, offset, chunks, blobChunks>>
    BY <1>2 DEF Place, catalogVars
  <2>2. ASSUME NEW v \in Uploads
        PROVE  /\ pc'[v] \notin Running => chunks'[v] = {}
               /\ Spread(chunks'[v])
               /\ \A c \in chunks'[v] : Behind(v, c)'
    BY <2>1 DEF SpreadInv, Spread, Behind, Scheme, BlockLen, Running
  <2>3. \A c \in blobChunks' : pc'[c.blob] \in {"stored", "failed"}
    BY <2>1 DEF SpreadInv, CatalogTypeOK, Chunk
  <2> QED
    BY <2>1, <2>2, <2>3 DEF SpreadInv, StripeSpread, Spread
<1>3. ASSUME NEW u \in Uploads, PlaceFails(u) \/ PushFails(u) \/ CommitFails(u)
      PROVE  SpreadInv'
  BY <1>3, ReturnKeepsSpread DEF PlaceFails, PushFails, CommitFails, catalogVars
<1>4. ASSUME NEW u \in Uploads, PushChunk(u)
      PROVE  SpreadInv'
  <2> DEFINE new == NewChunk(u)
  <2>1. /\ pc[u] = "pushing"
        /\ chunks' = [chunks EXCEPT ![u] = @ \cup {new}]
        /\ Advance(u)
        /\ UNCHANGED <<size, targets, blobChunks>>
    BY <1>4 DEF PushChunk, catalogVars
  <2>2. /\ new.blob = u
        /\ new.block = block[u]
        /\ new.shard = shard[u]
        /\ new.disc = targets[u][shard[u]]
    BY DEF NewChunk
  <2>3. /\ shard[u] \in ShardsOf(Scheme(u))
        /\ Distinct(targets[u], ShardsOf(Scheme(u)))
    BY <2>1 DEF LoopInv
  <2>4. block[u] \in Nat /\ shard[u] \in Int
    OBVIOUS
  <2>5. \A c \in chunks[u] : c.block = block[u] => c.disc # new.disc
    BY <2>1, <2>2, <2>3, <2>4 DEF SpreadInv, Behind, Distinct, Chunk
  <2>6. Spread(chunks'[u])
    <3> HIDE DEF new
    <3> QED
      BY <2>1, <2>2, <2>5 DEF SpreadInv, Spread
  <2>7. \A c \in chunks'[u] : Behind(u, c)'
    <3>1. CASE shard[u] < LastShard(Scheme(u))
      <4>1. shard' = [shard EXCEPT ![u] = @ + 1] /\ UNCHANGED <<pc, block, offset>>
        BY <2>1, <3>1 DEF Advance
      <4>2. Scheme(u)' = Scheme(u)
        BY <2>1, <4>1 DEF Scheme, BlockLen
      <4>3. shard'[u] = shard[u] + 1
        BY <4>1
      <4>4. \A c \in chunks[u] : Behind(u, c)'
        BY <2>1, <2>4, <4>1, <4>2, <4>3 DEF SpreadInv, Behind, Chunk
      <4>5. \A c \in {new} : Behind(u, c)'
        <5> HIDE DEF new
        <5> QED
          BY <2>1, <2>2, <2>3, <2>4, <4>1, <4>2, <4>3 DEF Behind
      <4> QED
        BY <2>1, <4>4, <4>5
    <3>2. CASE ~(shard[u] < LastShard(Scheme(u)))
      <4>1. block' = [block EXCEPT ![u] = @ + 1]
        BY <2>1, <3>2 DEF Advance
      <4>2. \A c \in chunks'[u] : c.blob = u /\ c.block \in Nat /\ c.block <= block[u]
        BY <2>1, <2>2, <2>4 DEF SpreadInv, Behind, Chunk
      <4> QED
        BY <2>4, <4>1, <4>2 DEF Behind
    <3> QED
      BY <3>1, <3>2
  <2>8. ASSUME NEW v \in Uploads \ {u}
        PROVE  /\ chunks'[v] = chunks[v]
               /\ pc'[v] = pc[v]
               /\ \A c \in chunks[v] : Behind(v, c)'
    <3>1. /\ pc'[v] = pc[v] /\ block'[v] = block[v] /\ offset'[v] = offset[v]
          /\ shard'[v] = shard[v] /\ chunks'[v] = chunks[v]
      BY <2>1 DEF Advance
    <3> QED
      BY <2>1, <3>1 DEF SpreadInv, Behind, Scheme, BlockLen
  <2>9. pc'[u] \in Running
    BY <2>1 DEF Advance, Running
  <2>10. \A c \in blobChunks' : pc'[c.blob] \in {"stored", "failed"}
    BY <2>1, <2>8 DEF SpreadInv, CatalogTypeOK, Chunk
  <2> QED
    BY <2>1, <2>6, <2>7, <2>8, <2>9, <2>10 DEF SpreadInv, StripeSpread, Spread
<1>5. ASSUME NEW u \in Uploads, Commit(u)
      PROVE  SpreadInv'
  <2>1. /\ pc[u] = "commit"
        /\ blobChunks' = blobChunks \cup chunks[u]
    BY <1>5 DEF Commit
  <2>2. PICK outcome \in {"stored", "failed"} : Return(u, outcome)
    BY <1>5 DEF Commit
  <2>3. /\ pc' = [pc EXCEPT ![u] = outcome]
        /\ chunks' = [chunks EXCEPT ![u] = {}]
        /\ \A v \in Uploads \ {u} : targets'[v] = targets[v]
        /\ UNCHANGED <<size, block, offset, shard>>
    BY <2>2 DEF Return
  <2>4. \A c \in blobChunks : c.blob # u /\ c.blob \in Uploads
    BY <2>1 DEF SpreadInv, CatalogTypeOK, Chunk
  <2>5. \A c \in chunks[u] : c.blob = u
    BY DEF SpreadInv, Behind
  <2>6. StripeSpread'
    BY <2>1, <2>4, <2>5 DEF SpreadInv, StripeSpread, Spread
  <2>7. \A c \in blobChunks' : pc'[c.blob] \in {"stored", "failed"}
    BY <2>1, <2>3, <2>4, <2>5 DEF SpreadInv
  <2>8. ASSUME NEW v \in Uploads
        PROVE  /\ pc'[v] \notin Running => chunks'[v] = {}
               /\ Spread(chunks'[v])
               /\ \A c \in chunks'[v] : Behind(v, c)'
    BY <2>3 DEF SpreadInv, Spread, Behind, Scheme, BlockLen
  <2> QED
    BY <2>6, <2>7, <2>8 DEF SpreadInv, Spread
<1>6. CASE UNCHANGED <<uploadVars, blobChunks>>
  BY <1>6 DEF SpreadInv, StripeSpread, Spread, Behind, Scheme, BlockLen, uploadVars
<1>7. ASSUME CrashUploads
      PROVE  SpreadInv'
  <2>1. /\ pc' = [v \in Uploads |-> IF pc[v] \in Running THEN "failed" ELSE pc[v]]
        /\ chunks' = [v \in Uploads |-> {}]
        /\ UNCHANGED blobChunks
    BY <1>7 DEF CrashUploads, catalogVars
  <2>2. \A c \in blobChunks' : pc'[c.blob] \in {"stored", "failed"}
    BY <2>1 DEF SpreadInv, CatalogTypeOK, Chunk, Running
  <2>3. StripeSpread'
    BY <2>1 DEF SpreadInv, StripeSpread
  <2> QED
    BY <2>1, <2>2, <2>3 DEF SpreadInv, Spread
<1>8. ASSUME NEW u \in Uploads, FlagDeleted(u) \/ StampDeleted(u)
      PROVE  UNCHANGED <<uploadVars, blobChunks>>
  BY <1>8 DEF FlagDeleted, StampDeleted, SetBlob
<1>9. ASSUME FaultStep
      PROVE  UNCHANGED <<uploadVars, blobChunks>>
  BY <1>9
  DEF FaultStep, LoseChunk, LoseMachine, Rot, WorkerDown, WorkerUp, catalogVars
<1>10. ASSUME UNCHANGED writeVars
       PROVE  UNCHANGED <<uploadVars, blobChunks>>
  BY <1>10 DEF writeVars, catalogVars
<1> QED
  BY <1>1, <1>2, <1>3, <1>4, <1>5, <1>6, <1>7, <1>8, <1>9, <1>10
  DEF WriteNext, UploadStep, ClientStep

\* No single machine loss costs a stripe more than one shard: two shards of
\* one stripe are never on one machine, however many uploads race for the same
\* discs.
THEOREM StripesSpread == WriteSpec => []StripeSpread
<1>1. WriteInit => SpreadInv
  BY SpreadInit
<1>2. TypeInv /\ SpreadInv /\ [WriteNext]_writeVars => SpreadInv'
  BY SpreadNext
<1>3. SpreadInv => StripeSpread
  BY DEF SpreadInv
<1> QED
  BY <1>1, <1>2, <1>3, TypeInvariant, PTL DEF WriteSpec

(***************************************************************************)
(* The catalog names only bytes that were written                          *)
(***************************************************************************)
\* A row whose bytes are where it says, or were until a fault.
Backed(c) == Id(c) \in disk[c.disc] \cup lost

\* CatalogBacked made inductive: it holds of the rows of running calls too.
BackedInv ==
    /\ CatalogBacked
    /\ \A u \in Uploads : \A c \in chunks[u] : Backed(c)

\* Chunks only leave a disc by being lost.
KeepsBytes == \A m \in Machines : disk[m] \cup lost \subseteq (disk[m] \cup lost)'

LEMMA BytesKept == TypeInv /\ [WriteNext]_writeVars => KeepsBytes
<1> SUFFICES ASSUME TypeInv, [WriteNext]_writeVars
             PROVE  KeepsBytes
  OBVIOUS
<1> USE DEF TypeInv, TypeOK, DiskTypeOK
<1>1. CASE UNCHANGED <<disk, lost>>
  BY <1>1 DEF KeepsBytes
<1>2. ASSUME NEW u \in Uploads, PushChunk(u) \/ PushFails(u)
      PROVE  KeepsBytes
  <2>1. UNCHANGED lost /\ (UNCHANGED disk \/ Write(NewChunk(u)))
    BY <1>2 DEF PushChunk, PushFails, faultVars
  <2> QED
    BY <2>1 DEF Write, KeepsBytes
<1>3. ASSUME NEW m \in Machines, LoseChunk(m) \/ LoseMachine(m) \/ Rot(m)
      PROVE  KeepsBytes
  BY <1>3 DEF LoseChunk, LoseMachine, Rot, KeepsBytes
<1>4. ASSUME NEW w \in Workers, WorkerDown(w) \/ WorkerUp(w)
      PROVE  UNCHANGED <<disk, lost>>
  BY <1>4 DEF WorkerDown, WorkerUp
<1>5. ASSUME NEW u \in Uploads,
             \/ Place(u) \/ PlaceFails(u) \/ Commit(u) \/ CommitFails(u) \/ ClientStep(u)
      PROVE  UNCHANGED <<disk, lost>>
  BY <1>5
  DEF Place, PlaceFails, Commit, CommitFails, ClientStep, StoreFile,
      FlagDeleted, StampDeleted, SetBlob, faultVars
<1>6. ASSUME CrashUploads \/ UNCHANGED writeVars
      PROVE  UNCHANGED <<disk, lost>>
  BY <1>6 DEF CrashUploads, writeVars, faultVars
<1> QED
  BY <1>1, <1>2, <1>3, <1>4, <1>5, <1>6 DEF WriteNext, UploadStep, FaultStep

\* What a step makes of the rows: a call's rows stay, go, or gain the chunk
\* that was just written; the catalog gains a call's rows or nothing.
LEMMA RowsChange ==
    ASSUME TypeInv, [WriteNext]_writeVars
    PROVE  /\ \/ UNCHANGED blobChunks
              \/ \E u \in Uploads : blobChunks' = blobChunks \cup chunks[u]
           /\ \A v \in Uploads :
                \/ chunks'[v] \subseteq chunks[v]
                \/ pc[v] = "pushing" /\ Write(NewChunk(v))
                       /\ chunks'[v] = chunks[v] \cup {NewChunk(v)}
<1> USE DEF TypeInv, TypeOK, UploadTypeOK
<1>1. ASSUME NEW u \in Uploads, PushChunk(u)
      PROVE  /\ UNCHANGED blobChunks
             /\ pc[u] = "pushing" /\ Write(NewChunk(u))
             /\ chunks' = [chunks EXCEPT ![u] = @ \cup {NewChunk(u)}]
  BY <1>1 DEF PushChunk, catalogVars
<1>2. ASSUME NEW u \in Uploads, PlaceFails(u) \/ PushFails(u) \/ CommitFails(u)
      PROVE  UNCHANGED blobChunks /\ chunks' = [chunks EXCEPT ![u] = {}]
  BY <1>2 DEF PlaceFails, PushFails, CommitFails, Return, catalogVars
<1>3. ASSUME NEW u \in Uploads, Commit(u)
      PROVE  blobChunks' = blobChunks \cup chunks[u] /\ chunks' = [chunks EXCEPT ![u] = {}]
  BY <1>3 DEF Commit, Return
<1>4. ASSUME NEW u \in Uploads, StoreFile(u) \/ Place(u) \/ FlagDeleted(u) \/ StampDeleted(u)
      PROVE  UNCHANGED <<blobChunks, chunks>>
  BY <1>4
  DEF StoreFile, Place, FlagDeleted, StampDeleted, SetBlob, uploadVars, catalogVars
<1>5. ASSUME FaultStep
      PROVE  UNCHANGED <<blobChunks, chunks>>
  BY <1>5
  DEF FaultStep, LoseChunk, LoseMachine, Rot, WorkerDown, WorkerUp, uploadVars, catalogVars
<1>6. ASSUME CrashUploads
      PROVE  UNCHANGED blobChunks /\ chunks' = [v \in Uploads |-> {}]
  BY <1>6 DEF CrashUploads, catalogVars
<1>7. ASSUME UNCHANGED writeVars
      PROVE  UNCHANGED <<blobChunks, chunks>>
  BY <1>7 DEF writeVars, uploadVars, catalogVars
<1>8. CASE \E u \in Uploads : PushChunk(u)
  <2>1. PICK u \in Uploads : PushChunk(u)
    BY <1>8
  <2>2. \A v \in Uploads \ {u} : chunks'[v] = chunks[v]
    BY <1>1, <2>1
  <2>3. chunks'[u] = chunks[u] \cup {NewChunk(u)}
    BY <1>1, <2>1
  <2> QED
    BY <1>1, <2>1, <2>2, <2>3
<1>9. CASE \E u \in Uploads : PlaceFails(u) \/ PushFails(u) \/ CommitFails(u) \/ Commit(u)
  BY <1>2, <1>3, <1>9
<1>10. CASE \/ FaultStep \/ CrashUploads \/ UNCHANGED writeVars
            \/ \E u \in Uploads :
                  StoreFile(u) \/ Place(u) \/ FlagDeleted(u) \/ StampDeleted(u)
  BY <1>4, <1>5, <1>6, <1>7, <1>10
<1> QED
  BY <1>8, <1>9, <1>10 DEF WriteNext, UploadStep, ClientStep

LEMMA BackedNext == TypeInv /\ BackedInv /\ [WriteNext]_writeVars => BackedInv'
<1> SUFFICES ASSUME TypeInv, BackedInv, [WriteNext]_writeVars
             PROVE  BackedInv'
  OBVIOUS
<1> USE DEF TypeInv, TypeOK
<1>1. ASSUME NEW c \in Chunk, Backed(c)
      PROVE  Backed(c)'
  <2>1. c.disc \in Machines
    BY DEF Chunk
  <2>2. Id(c) \in (disk[c.disc] \cup lost)'
    BY <1>1, <2>1, BytesKept DEF KeepsBytes, Backed
  <2> QED
    BY <2>2 DEF Backed, Id
<1>2. ASSUME NEW u \in Uploads
      PROVE  chunks[u] \subseteq Chunk /\ \A c \in chunks[u] : Backed(c)'
  BY <1>1 DEF UploadTypeOK, BackedInv
<1>3. \A c \in blobChunks : Backed(c)'
  BY <1>1 DEF CatalogTypeOK, BackedInv, CatalogBacked, Backed
<1>4. CatalogBacked'
  BY <1>2, <1>3, RowsChange DEF CatalogBacked, Backed
<1>5. ASSUME NEW v \in Uploads, pc[v] = "pushing", Write(NewChunk(v))
      PROVE  \A c \in {NewChunk(v)} : Backed(c)'
  <2>1. NewChunk(v).disc \in Machines
    BY <1>5, NewChunkTyped DEF Chunk
  <2>2. Id(NewChunk(v)) \in disk'[NewChunk(v).disc]
    BY <1>5, <2>1 DEF Write, DiskTypeOK
  <2> QED
    BY <2>2 DEF Backed, Id
<1>6. ASSUME NEW v \in Uploads
      PROVE  \A c \in chunks'[v] : Backed(c)'
  BY <1>2, <1>5, RowsChange
<1> QED
  BY <1>4, <1>6 DEF BackedInv

\* Metadata is committed only once every byte is on a worker: whatever fails,
\* whenever, the catalog names no chunk that was not written, and a chunk it
\* names is only missing when a fault of the disc destroyed it.
THEOREM CatalogIsBacked == WriteSpec => []CatalogBacked
<1>1. WriteInit => BackedInv
  BY DEF WriteInit, BackedInv, CatalogBacked, Backed
<1>2. TypeInv /\ BackedInv /\ [WriteNext]_writeVars => BackedInv'
  BY BackedNext
<1>3. BackedInv => CatalogBacked
  BY DEF BackedInv
<1> QED
  BY <1>1, <1>2, <1>3, TypeInvariant, PTL DEF WriteSpec

(***************************************************************************)
(* The layout of a file. StoredSoFar is how much of it a running call has  *)
(* behind it; CompleteInv says that the catalog has all of it.             *)
(***************************************************************************)
\* Where the block with a given index begins.
BlockStart(k) == BlockSize * k

\* The shards block k of a file of n bytes is cut into.
BlockScheme(n, k) == SchemeOf(n, ReadLen(n, BlockStart(k)))

\* Blocks begin one after the other, a block apart.
LEMMA BlockStarts ==
    ASSUME NEW k \in Nat
    PROVE  /\ BlockStart(k) \in Nat
           /\ BlockStart(k + 1) = BlockStart(k) + BlockSize
           /\ \A j \in Nat : j < k => BlockStart(j) + BlockSize <= BlockStart(k)
<1> DEFINE B == BlockSize
<1>0. B \in Nat /\ B > 0
  BY LayoutAssumption
<1> HIDE DEF B
<1>1. B * k \in Nat /\ B * (k + 1) = B * k + B
  BY <1>0, SMT
<1>2. ASSUME NEW j \in Nat, j < k
      PROVE  B * j + B <= B * k
  <2>1. PICK i \in Nat : k = j + 1 + i
    BY <1>2, SMT
  <2>2. B * k = B * j + B + B * i /\ B * i \in Nat /\ B * j \in Nat
    BY <1>0, <2>1, SMT
  <2> QED
    BY <1>0, <2>2, SMT
<1> QED
  BY <1>1, <1>2 DEF BlockStart, B

\* A byte of the file is in one block.
LEMMA BlockOf ==
    ASSUME NEW x \in Nat
    PROVE  \E k \in Nat : /\ BlockStart(k) <= x /\ x < BlockStart(k) + BlockSize
                          /\ \A j \in Nat : BlockStart(j) <= x /\ x < BlockStart(j) + BlockSize => j = k
<1> DEFINE k == x \div BlockSize
<1>1. k \in Nat /\ x % BlockSize \in 0 .. (BlockSize - 1) /\ x = BlockSize * k + (x % BlockSize)
  BY LayoutAssumption, SMT
<1>2. BlockStart(k) <= x /\ x < BlockStart(k) + BlockSize
  BY <1>1, LayoutAssumption, BlockStarts, SMT DEF BlockStart
<1>3. k \in Nat
  BY <1>1
<1> HIDE DEF k
<1>4. ASSUME NEW j \in Nat, BlockStart(j) <= x, x < BlockStart(j) + BlockSize
      PROVE  j = k
  <2>0. BlockStart(j) \in Nat /\ BlockStart(k) \in Nat /\ BlockSize \in Nat
    BY <1>3, BlockStarts, LayoutAssumption
  <2>1. CASE j < k
    <3>1. BlockStart(j) + BlockSize <= BlockStart(k)
      BY <1>3, <2>1, BlockStarts
    <3> QED
      BY <1>2, <1>4, <2>0, <3>1, SMT
  <2>2. CASE k < j
    <3>1. BlockStart(k) + BlockSize <= BlockStart(j)
      BY <1>3, <2>2, BlockStarts
    <3> QED
      BY <1>2, <1>4, <2>0, <3>1, SMT
  <2> QED
    BY <1>3, <2>1, <2>2, SMT
<1> QED
  BY <1>2, <1>3, <1>4

\* A stripe has TotalShards shard indexes.
LEMMA ShardCount == Cardinality(0 .. (TotalShards - 1)) = TotalShards
<1>1. TotalShards \in Nat \ {0}
  BY LayoutAssumption DEF TotalShards
<1>2. TotalShards - 1 \in Int /\ ~ (0 > TotalShards - 1) /\ (TotalShards - 1) - 0 + 1 = TotalShards
  BY <1>1
<1> QED
  BY <1>2, FS_Interval

\* A row is the one the layout of a file of n bytes has for its block and shard.
Fits(n, c) ==
    /\ c.offset = BlockStart(c.block)
    /\ c.offset < n
    /\ c.span = ReadLen(n, c.offset)
    /\ c.shard \in ShardsOf(SchemeOf(n, c.span))
    /\ c.size = ChunkLen(SchemeOf(n, c.span), c.span)

\* At most one row for each block and shard.
NoDuplicates(R) == \A c, d \in R : c.block = d.block /\ c.shard = d.shard => c = d

HasRow(R, k, i) == \E c \in R : c.block = k /\ c.shard = i

HasBlock(n, R, k) == \A i \in ShardsOf(BlockScheme(n, k)) : HasRow(R, k, i)

\* Rows that are the layout of a file of n bytes, all of it.
Layout(n, R) ==
    /\ \A c \in R : Fits(n, c)
    /\ NoDuplicates(R)
    /\ \A k \in Nat : BlockStart(k) < n => HasBlock(n, R, k)

\* The rows of a block of a complete layout.
LEMMA LayoutGroup ==
    ASSUME NEW n \in Nat, NEW R \in SUBSET Chunk, Layout(n, R), NEW c \in R
    PROVE  LET G == {x \in R : x.block = c.block}
           IN  /\ \A d \in G : d.offset = c.offset /\ d.span = c.span
               /\ {x.shard : x \in G} = ShardsOf(SchemeOf(n, c.span))
               /\ SchemeOf(n, c.span) = BlockScheme(n, c.block)
               /\ c.span \in 1 .. BlockSize
               /\ c.offset + c.span \in 1 .. n
<1> DEFINE G == {x \in R : x.block = c.block}
<1>1. c \in Chunk /\ Fits(n, c)
  BY DEF Layout
<1>2. \A d \in G : d.offset = c.offset /\ d.span = c.span
  BY <1>1 DEF Layout, Fits
<1>3. SchemeOf(n, c.span) = BlockScheme(n, c.block)
  BY <1>1 DEF Fits, BlockScheme
<1>4. c.block \in Nat /\ c.offset \in Nat /\ c.offset < n /\ c.span = ReadLen(n, c.offset)
  BY <1>1 DEF Fits, Chunk
<1>5. HasBlock(n, R, c.block)
  BY <1>1, <1>4 DEF Layout, Fits
<1>6. {x.shard : x \in G} \subseteq ShardsOf(SchemeOf(n, c.span))
  BY <1>2 DEF Layout, Fits
<1>7. ShardsOf(SchemeOf(n, c.span)) \subseteq {x.shard : x \in G}
  BY <1>3, <1>5 DEF HasBlock, HasRow
<1>8. c.span \in 1 .. BlockSize /\ c.offset + c.span \in 1 .. n
  BY <1>4, ReadLenBounds
<1> QED
  BY <1>2, <1>3, <1>6, <1>7, <1>8

\* As many rows as shards.
LEMMA LayoutGroupSize ==
    ASSUME NEW n \in Nat, NEW R \in SUBSET Chunk, Layout(n, R), NEW c \in R
    PROVE  LET G == {x \in R : x.block = c.block}
               S == ShardsOf(SchemeOf(n, c.span))
           IN  /\ IsFiniteSet(G)
               /\ Cardinality(G) = Cardinality(S)
<1> DEFINE G == {x \in R : x.block = c.block}
           S == ShardsOf(SchemeOf(n, c.span))
           f == [x \in G |-> x.shard]
<1>1. S = {x.shard : x \in G}
  BY LayoutGroup
<1>2. f \in Injection(G, S) /\ f \in Surjection(G, S)
  BY <1>1 DEF Layout, NoDuplicates, Injection, Surjection, IsInjective
<1>3. IsFiniteSet(S)
  BY FS_Interval, LayoutAssumption DEF ShardsOf, FirstShard, LastShard, ShardIndexWhole, TotalShards
<1> QED
  BY <1>2, <1>3, FS_Injection

\* Every byte of the file is in exactly one block of a complete layout.
LEMMA LayoutCovers ==
    ASSUME NEW n \in Nat, NEW R \in SUBSET Chunk, Layout(n, R), NEW x \in 0 .. (n - 1)
    PROVE  Cardinality({c.block : c \in {c \in R : c.offset <= x /\ x < c.offset + c.span}}) = 1
<1> DEFINE C == {c \in R : c.offset <= x /\ x < c.offset + c.span}
<1>1. x \in Nat /\ x < n
  OBVIOUS
<1>2. PICK k \in Nat : /\ BlockStart(k) <= x /\ x < BlockStart(k) + BlockSize
                       /\ \A j \in Nat : BlockStart(j) <= x /\ x < BlockStart(j) + BlockSize => j = k
  BY <1>1, BlockOf
<1>3. ASSUME NEW c \in C
      PROVE  c.block = k
  <2>1. /\ c.block \in Nat /\ c.offset \in Nat /\ c.offset = BlockStart(c.block)
        /\ c.span \in 1 .. BlockSize
    BY LayoutGroup DEF Layout, Fits, Chunk
  <2>2. BlockStart(c.block) <= x /\ x < BlockStart(c.block) + BlockSize
    BY <1>1, <2>1, LayoutAssumption
  <2> QED
    BY <1>2, <2>1, <2>2
<1>4. \E c \in C : c.block = k
  <2>1. BlockStart(k) \in Nat /\ BlockStart(k) < n
    BY <1>1, <1>2, BlockStarts
  <2>2. FirstShard(BlockScheme(n, k)) \in ShardsOf(BlockScheme(n, k))
    BY LayoutAssumption DEF ShardsOf, FirstShard, LastShard, ShardIndexWhole, TotalShards
  <2>3. PICK c \in R : c.block = k
    BY <2>1, <2>2 DEF Layout, HasBlock, HasRow
  <2>4. c.offset = BlockStart(k) /\ c.span = ReadLen(n, BlockStart(k))
    BY <2>3 DEF Layout, Fits
  <2>5. x < BlockStart(k) + ReadLen(n, BlockStart(k))
    BY <1>1, <1>2, <2>1, LayoutAssumption DEF ReadLen
  <2> QED
    BY <1>2, <2>3, <2>4, <2>5
<1>5. {c.block : c \in C} = {k}
  BY <1>3, <1>4
<1> QED
  BY <1>5, FS_Singleton

\* Catalogued blobs have a complete layout, the others no rows.
CataloguedInv ==
    \A b \in Uploads :
        IF blob[b] = "none" THEN RowsOf(b) = {} ELSE Layout(size[b], RowsOf(b))

\* A complete layout is what CatalogComplete asks for.
LEMMA LayoutComplete == TypeOK /\ CataloguedInv => CatalogComplete
<1> SUFFICES ASSUME TypeOK, CataloguedInv, NEW b \in Uploads, blob[b] # "none"
             PROVE
        LET R == RowsOf(b)
            covering(x) == {c \in R : c.offset <= x /\ x < c.offset + c.span}
            group(c) == {x \in R : x.block = c.block}
            shardsAt(c) == {x.shard : x \in group(c)}
        IN  /\ \A x \in 0 .. (size[b] - 1) : Cardinality({c.block : c \in covering(x)}) = 1
            /\ \A c \in R :
                  /\ c.offset + c.span <= size[b]
                  /\ \A d \in group(c) : d.offset = c.offset /\ d.span = c.span
                  /\ \/ group(c) = {c} /\ c.shard = ShardIndexWhole /\ c.size = c.span
                     \/ /\ Cardinality(group(c)) = TotalShards
                        /\ shardsAt(c) = 0 .. (TotalShards - 1)
                        /\ c.size * DataShards >= c.span
  BY DEF CatalogComplete, CataloguedInv
<1> DEFINE R == RowsOf(b)
           group(c) == {x \in R : x.block = c.block}
<1>1. R \in SUBSET Chunk /\ size[b] \in Nat /\ Layout(size[b], R)
  BY DEF TypeOK, CatalogTypeOK, UploadTypeOK, CataloguedInv, RowsOf
<1> HIDE DEF R
<1>2. \A x \in 0 .. (size[b] - 1) :
          Cardinality({c.block : c \in {c \in R : c.offset <= x /\ x < c.offset + c.span}}) = 1
  BY <1>1, LayoutCovers
<1>3. ASSUME NEW c \in R
      PROVE  /\ c.offset + c.span <= size[b]
             /\ \A d \in group(c) : d.offset = c.offset /\ d.span = c.span
             /\ \/ group(c) = {c} /\ c.shard = ShardIndexWhole /\ c.size = c.span
                \/ /\ Cardinality(group(c)) = TotalShards
                   /\ {x.shard : x \in group(c)} = 0 .. (TotalShards - 1)
                   /\ c.size * DataShards >= c.span
  <2> DEFINE scheme == SchemeOf(size[b], c.span)
  <2>1. /\ \A d \in group(c) : d.offset = c.offset /\ d.span = c.span
        /\ {x.shard : x \in group(c)} = ShardsOf(scheme)
        /\ c.span \in 1 .. BlockSize
        /\ c.offset + c.span \in 1 .. size[b]
    BY <1>1, LayoutGroup
  <2>2. Cardinality(group(c)) = Cardinality(ShardsOf(scheme))
    BY <1>1, LayoutGroupSize
  <2>3. c \in Chunk /\ c.size = ChunkLen(scheme, c.span)
    BY <1>1 DEF Layout, Fits
  <2>4. c.offset + c.span <= size[b]
    BY <1>1, <2>1
  <2>5. CASE scheme = "stripe"
    <3>1. ShardsOf(scheme) = 0 .. (TotalShards - 1)
      BY <2>5 DEF ShardsOf, FirstShard, LastShard
    <3>2. Cardinality(0 .. (TotalShards - 1)) = TotalShards
      BY ShardCount
    <3>3. c.size = ShardLen(c.span)
      BY <2>3, <2>5 DEF ChunkLen
    <3>4. ShardLen(c.span) \in Nat /\ DataShards * ShardLen(c.span) >= c.span
      BY <2>1, ShardsCoverBlock
    <3>5. c.size * DataShards >= c.span
      BY <3>3, <3>4, LayoutAssumption
    <3> QED
      BY <2>1, <2>2, <2>4, <3>1, <3>2, <3>5
  <2>6. CASE scheme # "stripe"
    <3>1. ShardsOf(scheme) = {ShardIndexWhole}
      BY <2>6 DEF ShardsOf, FirstShard, LastShard, ShardIndexWhole
    <3>2. c \in group(c) /\ \A d \in group(c) : d.shard = ShardIndexWhole
      BY <2>1, <3>1
    <3>3. group(c) = {c}
      BY <1>1, <3>2 DEF Layout, NoDuplicates
    <3>4. c.size = c.span
      BY <2>3, <2>6 DEF ChunkLen
    <3> QED
      BY <2>1, <2>4, <3>2, <3>3, <3>4
  <2> QED
    BY <2>5, <2>6
<1> QED
  BY <1>2, <1>3 DEF R

\* What a call has stored so far: of a file of n bytes, all blocks before the
\* one it is at, and of that one all shards before the one it is at.
StoredSoFar(u) ==
    /\ \A c \in chunks[u] : Fits(size[u], c)
    /\ NoDuplicates(chunks[u])
    /\ pc[u] = "idle" => block[u] = 0
    /\ pc[u] \in {"placing", "pushing"} =>
          /\ offset[u] = BlockStart(block[u])
          /\ \A k \in Nat : k < block[u] => HasBlock(size[u], chunks[u], k)
    /\ pc[u] = "pushing" =>
          \A i \in ShardsOf(Scheme(u)) : i < shard[u] => HasRow(chunks[u], block[u], i)
    /\ pc[u] = "commit" => Layout(size[u], chunks[u])

\* A blob is created by the commit of its upload.
BornByCommit == \A u \in Uploads : blob[u] # "none" => pc[u] \in {"stored", "failed"}

CompleteInv ==
    /\ \A u \in Uploads : StoredSoFar(u)
    /\ BornByCommit
    /\ CataloguedInv

\* What a call has stored stays as long as the call does nothing.
LEMMA StoredUnchanged ==
    ASSUME NEW u \in Uploads, StoredSoFar(u),
           UNCHANGED <<pc[u], size[u], block[u], offset[u], shard[u], chunks[u]>>
    PROVE  StoredSoFar(u)'
BY DEF StoredSoFar, Scheme, BlockLen

\* The catalog stays complete when its rows do not change.
LEMMA CatalogUnchanged ==
    ASSUME TypeInv, CompleteInv, UNCHANGED <<blob, blobChunks>>,
           \A u \in Uploads : pc[u] \in {"stored", "failed"} =>
                                 pc'[u] = pc[u] /\ size'[u] = size[u]
    PROVE  BornByCommit' /\ CataloguedInv'
<1>1. BornByCommit'
  BY DEF CompleteInv, BornByCommit
<1>2. ASSUME NEW b \in Uploads
      PROVE  IF blob'[b] = "none" THEN RowsOf(b)' = {} ELSE Layout(size'[b], RowsOf(b)')
  <2>1. RowsOf(b)' = RowsOf(b) /\ blob'[b] = blob[b]
    BY DEF RowsOf
  <2>2. blob[b] # "none" => size'[b] = size[b]
    BY DEF CompleteInv, BornByCommit
  <2> QED
    BY <2>1, <2>2 DEF CompleteInv, CataloguedInv
<1>3. CataloguedInv'
  BY <1>2 DEF CataloguedInv
<1> QED
  BY <1>1, <1>3

\* The step of the loops: what is stored after a chunk was pushed.
LEMMA PushStores ==
    ASSUME TypeInv, SpreadInv, NEW u \in Uploads, StoredSoFar(u), PushChunk(u)
    PROVE  StoredSoFar(u)'
<1> USE DEF TypeInv, TypeOK, UploadTypeOK
<1> DEFINE new == NewChunk(u)
           n == size[u]
           k == block[u]
           scheme == Scheme(u)
<1>1. /\ pc[u] = "pushing"
      /\ chunks'[u] = chunks[u] \cup {new}
      /\ Advance(u)
      /\ size' = size
  BY DEF PushChunk
<1>2. /\ n \in Nat /\ k \in Nat /\ offset[u] \in Nat /\ offset[u] < n
      /\ shard[u] \in ShardsOf(scheme) /\ shard[u] \in Int
      /\ offset[u] = BlockStart(k)
      /\ scheme = BlockScheme(n, k)
  BY <1>1 DEF LoopInv, StoredSoFar, Scheme, BlockLen, BlockScheme
<1>3. Fits(n, new) /\ new.block = k /\ new.shard = shard[u]
  BY <1>2 DEF Fits, NewChunk, BlockLen, Scheme
<1>4. \A c \in chunks'[u] : Fits(n, c)
  BY <1>1, <1>3 DEF StoredSoFar
<1>5. NoDuplicates(chunks'[u])
  <2>1. \A c \in chunks[u] : ~ (c.block = k /\ c.shard = shard[u])
    BY <1>1, <1>2 DEF SpreadInv, Behind
  <2> HIDE DEF new
  <2> QED
    BY <1>1, <1>3, <2>1 DEF StoredSoFar, NoDuplicates
<1>6. \A j, i : HasRow(chunks[u], j, i) => HasRow(chunks'[u], j, i)
  BY <1>1 DEF HasRow
<1>7. HasRow(chunks'[u], k, shard[u])
  BY <1>1, <1>3 DEF HasRow
<1>8. \A j \in Nat : j < k => HasBlock(n, chunks'[u], j)
  BY <1>1, <1>6 DEF StoredSoFar, HasBlock
<1>9. \A i \in ShardsOf(scheme) : i < shard[u] => HasRow(chunks'[u], k, i)
  BY <1>1, <1>6 DEF StoredSoFar
<1> HIDE DEF new, n, k, scheme
<1>10. CASE shard[u] < LastShard(Scheme(u))
  <2>1. shard'[u] = shard[u] + 1 /\ UNCHANGED <<pc, block, offset>>
    BY <1>1, <1>10 DEF Advance
  <2>2. Scheme(u)' = scheme
    BY <1>1, <2>1 DEF Scheme, BlockLen, scheme
  <2>3. \A i \in ShardsOf(scheme) : i < shard'[u] => HasRow(chunks'[u], k, i)
    <3>1. \A i \in ShardsOf(scheme) : i \in Int
      BY DEF ShardsOf
    <3> QED
      BY <1>2, <1>7, <1>9, <2>1, <3>1
  <2>4. offset'[u] = BlockStart(block'[u]) /\ block'[u] = k /\ size'[u] = n /\ pc'[u] = "pushing"
    BY <1>1, <1>2, <2>1 DEF k, n
  <2> QED
    BY <1>4, <1>5, <1>8, <2>2, <2>3, <2>4 DEF StoredSoFar
<1>11. CASE ~ (shard[u] < LastShard(Scheme(u)))
  <2>1. /\ block'[u] = k + 1
        /\ offset'[u] = offset[u] + BlockLen(u)
        /\ pc'[u] = IF offset'[u] < n THEN "placing" ELSE "commit"
    BY <1>1, <1>11 DEF Advance, n, k
  <2>2. HasBlock(n, chunks'[u], k)
    <3>1. \A i \in ShardsOf(scheme) : i \in Int /\ i <= LastShard(scheme)
      BY DEF ShardsOf
    <3>2. LastShard(scheme) \in Int
      BY LayoutAssumption DEF LastShard, TotalShards, ShardIndexWhole
    <3>3. \A i \in ShardsOf(scheme) : i < shard[u] \/ i = shard[u]
      BY <1>2, <1>11, <3>1, <3>2 DEF scheme
    <3> QED
      BY <1>2, <1>7, <1>9, <3>3 DEF HasBlock
  <2>3. \A j \in Nat : j < k + 1 => HasBlock(n, chunks'[u], j)
    BY <1>2, <1>8, <2>2
  <2>4. BlockStart(k + 1) = BlockStart(k) + BlockSize /\ BlockStart(k) \in Nat
    BY <1>2, BlockStarts
  <2>5. BlockLen(u) = IF n - offset[u] < BlockSize THEN n - offset[u] ELSE BlockSize
    BY DEF BlockLen, ReadLen, n
  <2>6. CASE offset'[u] < n
    <3>1. offset'[u] = BlockStart(k + 1)
      BY <1>2, <2>1, <2>4, <2>5, <2>6, LayoutAssumption
    <3>2. pc'[u] = "placing" /\ size'[u] = n
      BY <1>1, <2>1, <2>6 DEF n
    <3> QED
      BY <1>4, <1>5, <2>1, <2>3, <3>1, <3>2 DEF StoredSoFar
  <2>7. CASE ~ (offset'[u] < n)
    <3>1. n <= BlockStart(k + 1)
      BY <1>2, <2>1, <2>4, <2>5, <2>7, LayoutAssumption
    <3>2. ASSUME NEW j \in Nat, BlockStart(j) < n
          PROVE  j < k + 1
      <4>1. ~ (k + 1 < j)
        BY <1>2, <2>4, <3>1, <3>2, BlockStarts, LayoutAssumption
      <4>2. j # k + 1
        <5>1. BlockStart(k + 1) \in Nat
          BY <1>2, BlockStarts
        <5>2. ~ (BlockStart(k + 1) < n)
          BY <1>2, <3>1, <5>1
        <5> QED
          BY <3>2, <5>2
      <4> QED
        BY <1>2, <4>1, <4>2
    <3>3. Layout(n, chunks'[u])
      BY <1>4, <1>5, <2>3, <3>2 DEF Layout
    <3>4. pc'[u] = "commit" /\ size'[u] = n
      BY <1>1, <2>1, <2>7 DEF n
    <3> QED
      BY <1>4, <1>5, <3>3, <3>4 DEF StoredSoFar
  <2> QED
    BY <2>6, <2>7
<1> QED
  BY <1>10, <1>11

\* The catalog is complete when it is empty.
LEMMA CompleteInit == WriteInit => CompleteInv
BY DEF WriteInit, CompleteInv, StoredSoFar, NoDuplicates, BornByCommit, CataloguedInv, RowsOf

\* A call that fails leaves the catalog as it was.
LEMMA ReturnKeepsComplete ==
    ASSUME TypeInv, CompleteInv, NEW u \in Uploads, pc[u] \in Running, Return(u, "failed"),
           UNCHANGED <<blob, blobChunks>>
    PROVE  CompleteInv'
<1> USE DEF TypeInv, TypeOK, UploadTypeOK
<1>1. ASSUME NEW v \in Uploads
      PROVE  StoredSoFar(v)'
  <2>1. StoredSoFar(v)
    BY DEF CompleteInv
  <2>2. CASE v = u
    <3>1. chunks'[v] = {} /\ pc'[v] = "failed"
      BY <2>2 DEF Return
    <3> QED
      BY <3>1 DEF StoredSoFar, NoDuplicates
  <2>3. CASE v # u
    BY <2>1, <2>3, StoredUnchanged DEF Return
  <2> QED
    BY <2>2, <2>3
<1>2. \A v \in Uploads : pc[v] \in {"stored", "failed"} => pc'[v] = pc[v] /\ size'[v] = size[v]
  BY DEF Return, Running
<1>3. BornByCommit' /\ CataloguedInv'
  BY <1>2, CatalogUnchanged
<1> QED
  BY <1>1, <1>3 DEF CompleteInv

\* Every step keeps the catalog complete, one case for each action.
LEMMA CompleteNext == TypeInv /\ SpreadInv /\ CompleteInv /\ [WriteNext]_writeVars => CompleteInv'
<1> SUFFICES ASSUME TypeInv, SpreadInv, CompleteInv, [WriteNext]_writeVars
             PROVE  CompleteInv'
  OBVIOUS
<1> USE DEF TypeInv, TypeOK, UploadTypeOK
<1>0. \A v \in Uploads : StoredSoFar(v)
  BY DEF CompleteInv
<1>1. ASSUME NEW u \in Uploads, StoreFile(u)
      PROVE  CompleteInv'
  <2>1. PICK m \in FileSizes, next \in {"failed", "placing"} :
            /\ next = "placing" => m > 0
            /\ size' = [size EXCEPT ![u] = m]
            /\ pc' = [pc EXCEPT ![u] = next]
    BY <1>1 DEF StoreFile
  <2>2. /\ pc[u] = "idle"
        /\ UNCHANGED <<block, offset, shard, chunks, blob, blobChunks>>
    BY <1>1 DEF StoreFile, catalogVars
  <2>3. /\ chunks[u] = {} /\ block[u] = 0 /\ offset[u] = 0
    BY <1>0, <2>2 DEF SpreadInv, StoredSoFar, LoopInv, Running
  <2>4. StoredSoFar(u)'
    <3>1. BlockStart(0) = 0
      BY LayoutAssumption DEF BlockStart
    <3>2. pc'[u] \in {"failed", "placing"} /\ chunks'[u] = {} /\ block'[u] = 0 /\ offset'[u] = 0
      BY <2>1, <2>2, <2>3
    <3>3. \A k \in Nat : ~ (k < 0)
      OBVIOUS
    <3> QED
      BY <3>1, <3>2, <3>3 DEF StoredSoFar, NoDuplicates
  <2>5. ASSUME NEW v \in Uploads, v # u
        PROVE  StoredSoFar(v)'
    BY <1>0, <2>1, <2>2, <2>5, StoredUnchanged
  <2>6. BornByCommit' /\ CataloguedInv'
    BY <2>1, <2>2, CatalogUnchanged
  <2> QED
    BY <2>4, <2>5, <2>6 DEF CompleteInv
<1>2. ASSUME NEW u \in Uploads, Place(u)
      PROVE  CompleteInv'
  <2>1. /\ pc[u] = "placing"
        /\ pc' = [pc EXCEPT ![u] = "pushing"]
        /\ shard' = [shard EXCEPT ![u] = FirstShard(Scheme(u))]
        /\ UNCHANGED <<size, block, offset, chunks, blob, blobChunks>>
    BY <1>2 DEF Place, catalogVars
  <2>2. StoredSoFar(u)'
    <3>1. pc'[u] = "pushing" /\ shard'[u] = FirstShard(Scheme(u)) /\ Scheme(u)' = Scheme(u)
      BY <2>1 DEF Scheme, BlockLen
    <3>2. \A i \in ShardsOf(Scheme(u)) : ~ (i < shard'[u])
      BY <3>1, LayoutAssumption DEF ShardsOf, FirstShard, ShardIndexWhole
    <3> QED
      BY <1>0, <2>1, <3>1, <3>2 DEF StoredSoFar
  <2>3. ASSUME NEW v \in Uploads, v # u
        PROVE  StoredSoFar(v)'
    BY <1>0, <2>1, <2>3, StoredUnchanged
  <2>4. BornByCommit' /\ CataloguedInv'
    BY <2>1, CatalogUnchanged
  <2> QED
    BY <2>2, <2>3, <2>4 DEF CompleteInv
<1>3. ASSUME NEW u \in Uploads, PlaceFails(u) \/ PushFails(u) \/ CommitFails(u)
      PROVE  CompleteInv'
  BY <1>3, ReturnKeepsComplete DEF PlaceFails, PushFails, CommitFails, catalogVars, Running
<1>4. ASSUME NEW u \in Uploads, PushChunk(u)
      PROVE  CompleteInv'
  <2>1. StoredSoFar(u)'
    BY <1>0, <1>4, PushStores
  <2>2. /\ pc[u] = "pushing"
        /\ UNCHANGED <<size, blob, blobChunks>>
        /\ \A v \in Uploads \ {u} : UNCHANGED <<pc[v], block[v], offset[v], shard[v], chunks[v]>>
    BY <1>4 DEF PushChunk, Advance, catalogVars
  <2>3. ASSUME NEW v \in Uploads, v # u
        PROVE  StoredSoFar(v)'
    BY <1>0, <2>2, <2>3, StoredUnchanged
  <2>4. BornByCommit' /\ CataloguedInv'
    BY <2>2, CatalogUnchanged
  <2> QED
    BY <2>1, <2>3, <2>4 DEF CompleteInv
<1>5. ASSUME NEW u \in Uploads, Commit(u)
      PROVE  CompleteInv'
  <2>1. /\ pc[u] = "commit"
        /\ blob' = [blob EXCEPT ![u] = "live"]
        /\ blobChunks' = blobChunks \cup chunks[u]
    BY <1>5 DEF Commit
  <2>2. PICK outcome \in {"stored", "failed"} : Return(u, outcome)
    BY <1>5 DEF Commit
  <2>3. /\ pc' = [pc EXCEPT ![u] = outcome]
        /\ chunks' = [chunks EXCEPT ![u] = {}]
        /\ UNCHANGED <<size, block, offset, shard>>
    BY <2>2 DEF Return
  <2>4. ASSUME NEW v \in Uploads
        PROVE  StoredSoFar(v)'
    <3>1. CASE v = u
      BY <2>3, <3>1 DEF StoredSoFar, NoDuplicates
    <3>2. CASE v # u
      BY <1>0, <2>3, <3>2, StoredUnchanged
    <3> QED
      BY <3>1, <3>2
  <2>5. \A c \in chunks[u] : c.blob = u
    BY DEF SpreadInv, Behind
  <2>6. BornByCommit'
    BY <2>1, <2>3 DEF CompleteInv, BornByCommit, CatalogTypeOK
  <2>7. ASSUME NEW b \in Uploads
        PROVE  IF blob'[b] = "none" THEN RowsOf(b)' = {} ELSE Layout(size'[b], RowsOf(b)')
    <3>1. CASE b = u
      <4>1. blob[u] = "none"
        BY <2>1 DEF CompleteInv, BornByCommit
      <4>2. RowsOf(u) = {}
        BY <4>1 DEF CompleteInv, CataloguedInv
      <4>3. RowsOf(u)' = chunks[u]
        BY <2>1, <2>5, <4>2 DEF RowsOf
      <4>4. Layout(size[u], chunks[u])
        BY <1>0, <2>1 DEF StoredSoFar
      <4>5. blob'[u] = "live" /\ size'[u] = size[u]
        BY <2>1, <2>3 DEF CatalogTypeOK
      <4> QED
        BY <3>1, <4>3, <4>4, <4>5
    <3>2. CASE b # u
      <4>1. RowsOf(b)' = RowsOf(b)
        BY <2>1, <2>5, <3>2 DEF RowsOf
      <4>2. blob'[b] = blob[b] /\ size'[b] = size[b]
        BY <2>1, <2>3, <3>2 DEF CatalogTypeOK
      <4> QED
        BY <4>1, <4>2 DEF CompleteInv, CataloguedInv
    <3> QED
      BY <3>1, <3>2
  <2> QED
    BY <2>4, <2>6, <2>7 DEF CompleteInv, CataloguedInv
<1>6. ASSUME NEW b \in Uploads, FlagDeleted(b) \/ StampDeleted(b)
      PROVE  CompleteInv'
  <2>1. /\ blob[b] # "none" /\ blob'[b] # "none"
        /\ \A v \in Uploads \ {b} : blob'[v] = blob[v]
        /\ UNCHANGED <<blobChunks, pc, size, block, offset, shard, chunks>>
    BY <1>6 DEF FlagDeleted, StampDeleted, SetBlob, CatalogTypeOK, uploadVars
  <2>2. ASSUME NEW v \in Uploads
        PROVE  StoredSoFar(v)'
    BY <1>0, <2>1, StoredUnchanged
  <2>3. BornByCommit'
    BY <2>1 DEF CompleteInv, BornByCommit
  <2>4. CataloguedInv'
    BY <2>1 DEF CompleteInv, CataloguedInv, RowsOf
  <2> QED
    BY <2>2, <2>3, <2>4 DEF CompleteInv
<1>7. CASE UNCHANGED <<uploadVars, blob, blobChunks>>
  <2>1. ASSUME NEW v \in Uploads
        PROVE  StoredSoFar(v)'
    BY <1>0, <1>7, StoredUnchanged DEF uploadVars
  <2>2. BornByCommit' /\ CataloguedInv'
    BY <1>7, CatalogUnchanged DEF uploadVars
  <2> QED
    BY <2>1, <2>2 DEF CompleteInv
<1>8. ASSUME CrashUploads
      PROVE  CompleteInv'
  <2>1. /\ pc' = [v \in Uploads |-> IF pc[v] \in Running THEN "failed" ELSE pc[v]]
        /\ chunks' = [v \in Uploads |-> {}]
        /\ UNCHANGED <<size, block, offset, shard, blob, blobChunks>>
    BY <1>8 DEF CrashUploads, catalogVars
  <2>2. ASSUME NEW v \in Uploads
        PROVE  StoredSoFar(v)'
    <3>1. pc'[v] \in {"idle", "stored", "failed"} /\ (pc'[v] = "idle" => pc[v] = "idle")
      BY <2>1 DEF Phases, Running
    <3> QED
      BY <1>0, <2>1, <3>1 DEF StoredSoFar, NoDuplicates
  <2>3. BornByCommit' /\ CataloguedInv'
    BY <2>1, CatalogUnchanged DEF Running
  <2> QED
    BY <2>2, <2>3 DEF CompleteInv
<1>9. ASSUME FaultStep
      PROVE  UNCHANGED <<uploadVars, blob, blobChunks>>
  BY <1>9
  DEF FaultStep, LoseChunk, LoseMachine, Rot, WorkerDown, WorkerUp, catalogVars
<1>10. ASSUME UNCHANGED writeVars
       PROVE  UNCHANGED <<uploadVars, blob, blobChunks>>
  BY <1>10 DEF writeVars, catalogVars
<1> QED
  BY <1>1, <1>2, <1>3, <1>4, <1>5, <1>6, <1>7, <1>8, <1>9, <1>10
  DEF WriteNext, UploadStep, ClientStep

\* A blob in the catalog has rows for every byte, once, in blocks that are whole
\* or exactly a stripe: StoreFile commits only what its loops have covered.
THEOREM CatalogIsComplete == WriteSpec => []CatalogComplete
<1>1. WriteInit => TypeInv /\ SpreadInv /\ CompleteInv
  BY TypeInit, SpreadInit, CompleteInit
<1>2. TypeInv /\ SpreadInv /\ CompleteInv /\ [WriteNext]_writeVars => (TypeInv /\ SpreadInv /\ CompleteInv)'
  BY TypeNext, SpreadNext, CompleteNext
<1>3. TypeInv /\ CompleteInv => CatalogComplete
  BY LayoutComplete DEF TypeInv, CompleteInv
<1> QED
  BY <1>1, <1>2, <1>3, PTL DEF WriteSpec

(***************************************************************************)
(* The usage counters                                                      *)
(***************************************************************************)
\* UsageExact with what makes it inductive: sums are of finitely many rows.
UsageInv ==
    /\ UsageExact
    /\ IsFiniteSet(blobChunks)
    /\ \A u \in Uploads : IsFiniteSet(chunks[u])

\* Bytes is the sum FoldLemmas is about.
LEMMA BytesIsSizeSum == \A S : Bytes(S) = SizeSum(S)
BY DEF Bytes, SizeSum

\* The bytes of two sets of rows that have no row in common.
LEMMA BytesUnion ==
    ASSUME NEW X \in SUBSET Chunk, IsFiniteSet(X), NEW Y \in SUBSET Chunk, IsFiniteSet(Y),
           X \cap Y = {}
    PROVE  Bytes(X \cup Y) = Bytes(X) + Bytes(Y)
<1>1. Sized(X) /\ Sized(Y)
  BY DEF Sized, Chunk
<1>2. SizeSum(X \cup Y) = SizeSum(X) + SizeSum(Y)
  BY <1>1, SizeSumUnion
<1> QED
  BY <1>2, BytesIsSizeSum

\* The counters are right when there are no rows.
LEMMA UsageInit == WriteInit => UsageInv
<1> SUFFICES ASSUME WriteInit PROVE UsageInv
  OBVIOUS
<1>1. IsFiniteSet({}) /\ Bytes({}) = 0
  BY FS_EmptySet, SizeSumAt, BytesIsSizeSum
<1>2. \A m \in Machines : {c \in blobChunks : c.disc = m} = {}
  BY DEF WriteInit
<1>3. \A w \in Workers : {c \in blobChunks : WorkerOf[c.disc] = w} = {}
  BY DEF WriteInit
<1> QED
  BY <1>1, <1>2, <1>3 DEF WriteInit, UsageInv, UsageExact

\* Only a commit changes the counters, and it adds rows the catalog does not have yet.
LEMMA UsageNext == TypeInv /\ SpreadInv /\ UsageInv /\ [WriteNext]_writeVars => UsageInv'
<1> SUFFICES ASSUME TypeInv, SpreadInv, UsageInv, [WriteNext]_writeVars
             PROVE  UsageInv'
  OBVIOUS
<1> USE DEF TypeInv, TypeOK, UploadTypeOK, CatalogTypeOK
<1>1. \A u \in Uploads : IsFiniteSet(chunks'[u])
  BY RowsChange, FS_Subset, FS_AddElement DEF UsageInv
<1>2. IsFiniteSet(blobChunks')
  <2>1. \A u \in Uploads : IsFiniteSet(blobChunks \cup chunks[u])
    BY FS_Union DEF UsageInv
  <2> QED
    BY <2>1, RowsChange DEF UsageInv
<1>3. ASSUME NEW u \in Uploads, Commit(u)
      PROVE  UsageExact'
  <2>1. /\ blobChunks' = blobChunks \cup chunks[u]
        /\ used' = [m \in Machines |-> used[m] + Bytes({c \in chunks[u] : c.disc = m})]
        /\ workerUsed' = [w \in Workers |->
              workerUsed[w] + Bytes({c \in chunks[u] : WorkerOf[c.disc] = w})]
        /\ pc[u] = "commit"
    BY <1>3 DEF Commit, ChargeUsage
  <2>2. blobChunks \cap chunks[u] = {}
    BY <2>1 DEF SpreadInv, Behind
  <2>3. /\ blobChunks \in SUBSET Chunk /\ chunks[u] \in SUBSET Chunk
        /\ IsFiniteSet(blobChunks) /\ IsFiniteSet(chunks[u])
    BY DEF UsageInv
  <2>9. ASSUME NEW A \in SUBSET Chunk
        PROVE  Bytes((blobChunks \cup chunks[u]) \cap A) = Bytes(blobChunks \cap A) + Bytes(chunks[u] \cap A)
    <3>1. PICK X \in SUBSET Chunk : X = blobChunks \cap A
      BY <2>3
    <3>2. PICK Y \in SUBSET Chunk : Y = chunks[u] \cap A
      BY <2>3
    <3>3. IsFiniteSet(X) /\ IsFiniteSet(Y)
      BY <2>3, <3>1, <3>2, FS_Intersection
    <3>4. X \cap Y = {} /\ X \cup Y = (blobChunks \cup chunks[u]) \cap A
      BY <2>2, <3>1, <3>2
    <3>5. Bytes(X \cup Y) = Bytes(X) + Bytes(Y)
      BY <3>3, <3>4, BytesUnion
    <3> QED
      BY <3>1, <3>2, <3>4, <3>5
  <2>4. ASSUME NEW m \in Machines
        PROVE  used'[m] = Bytes({c \in blobChunks' : c.disc = m})
    <3> DEFINE A == {c \in Chunk : c.disc = m}
    <3>1. /\ {c \in blobChunks : c.disc = m} = blobChunks \cap A
          /\ {c \in chunks[u] : c.disc = m} = chunks[u] \cap A
          /\ {c \in blobChunks' : c.disc = m} = (blobChunks \cup chunks[u]) \cap A
      BY <2>1, <2>3
    <3>2. A \in SUBSET Chunk
      OBVIOUS
    <3> HIDE DEF A
    <3>3. used'[m] = Bytes(blobChunks \cap A) + Bytes(chunks[u] \cap A)
      BY <2>1, <3>1 DEF UsageInv, UsageExact
    <3>4. Bytes((blobChunks \cup chunks[u]) \cap A)
             = Bytes(blobChunks \cap A) + Bytes(chunks[u] \cap A)
      BY <3>2, <2>9
    <3> QED
      BY <3>1, <3>3, <3>4
  <2>5. ASSUME NEW w \in Workers
        PROVE  workerUsed'[w] = Bytes({c \in blobChunks' : WorkerOf[c.disc] = w})
    <3> DEFINE A == {c \in Chunk : WorkerOf[c.disc] = w}
    <3>1. /\ {c \in blobChunks : WorkerOf[c.disc] = w} = blobChunks \cap A
          /\ {c \in chunks[u] : WorkerOf[c.disc] = w} = chunks[u] \cap A
          /\ {c \in blobChunks' : WorkerOf[c.disc] = w} = (blobChunks \cup chunks[u]) \cap A
      BY <2>1, <2>3
    <3>2. A \in SUBSET Chunk
      OBVIOUS
    <3> HIDE DEF A
    <3>3. workerUsed'[w] = Bytes(blobChunks \cap A) + Bytes(chunks[u] \cap A)
      BY <2>1, <3>1 DEF UsageInv, UsageExact
    <3>4. Bytes((blobChunks \cup chunks[u]) \cap A)
             = Bytes(blobChunks \cap A) + Bytes(chunks[u] \cap A)
      BY <3>2, <2>9
    <3> QED
      BY <3>1, <3>3, <3>4
  <2> QED
    BY <2>4, <2>5 DEF UsageExact
<1>4. ASSUME UNCHANGED <<blobChunks, used, workerUsed>>
      PROVE  UsageExact'
  BY <1>4 DEF UsageInv, UsageExact
<1>5. ASSUME NEW u \in Uploads, (UploadStep(u) /\ ~ Commit(u)) \/ ClientStep(u)
      PROVE  UNCHANGED <<blobChunks, used, workerUsed>>
  BY <1>5
  DEF UploadStep, ClientStep, StoreFile, Place, PlaceFails, PushChunk, PushFails, CommitFails,
      FlagDeleted, StampDeleted, SetBlob, catalogVars
<1>6. ASSUME FaultStep \/ CrashUploads \/ UNCHANGED writeVars
      PROVE  UNCHANGED <<blobChunks, used, workerUsed>>
  BY <1>6
  DEF FaultStep, LoseChunk, LoseMachine, Rot, WorkerDown, WorkerUp, CrashUploads,
      catalogVars, writeVars
<1>7. UsageExact'
  BY <1>3, <1>4, <1>5, <1>6 DEF WriteNext, UsageInv
<1> QED
  BY <1>1, <1>2, <1>7 DEF UsageInv

\* discs.used_bytes and workers.used_bytes are what the rows of the catalog add up
\* to: chargeUsage, next to uploads that fail and to deletes.
THEOREM UsageIsExact == WriteSpec => []UsageExact
<1>1. WriteInit => UsageInv
  BY UsageInit
<1>2. TypeInv /\ SpreadInv /\ UsageInv /\ [WriteNext]_writeVars => UsageInv'
  BY UsageNext
<1>3. WriteInit => TypeInv /\ SpreadInv
  BY TypeInit, SpreadInit
<1>4. TypeInv /\ SpreadInv /\ [WriteNext]_writeVars => (TypeInv /\ SpreadInv)'
  BY TypeNext, SpreadNext
<1>5. UsageInv => UsageExact
  BY DEF UsageInv
<1> QED
  BY <1>1, <1>2, <1>3, <1>4, <1>5, PTL DEF WriteSpec

(***************************************************************************)
(* What the read path needs of the write path: WriteInv, its invariants    *)
(* together.                                                               *)
(***************************************************************************)
\* A blob of the catalog has at least one byte: an empty file is refused.
NonEmptyInv ==
    /\ \A u \in Uploads : pc[u] \in Running => size[u] > 0
    /\ \A b \in Uploads : blob[b] # "none" => size[b] > 0

\* No step makes an empty blob.
LEMMA NonEmptyNext == TypeInv /\ CompleteInv /\ NonEmptyInv /\ [WriteNext]_writeVars => NonEmptyInv'
<1> SUFFICES ASSUME TypeInv, CompleteInv, NonEmptyInv, [WriteNext]_writeVars
             PROVE  NonEmptyInv'
  OBVIOUS
<1> USE DEF TypeInv, TypeOK, UploadTypeOK, CatalogTypeOK, NonEmptyInv
<1>1. ASSUME NEW u \in Uploads, StoreFile(u)
      PROVE  NonEmptyInv'
  <2>1. PICK m \in FileSizes, next \in {"failed", "placing"} :
            /\ next = "placing" => m > 0
            /\ size' = [size EXCEPT ![u] = m]
            /\ pc' = [pc EXCEPT ![u] = next]
    BY <1>1 DEF StoreFile
  <2>2. pc[u] = "idle" /\ UNCHANGED blob /\ m \in Nat
    BY <1>1, WritePathAssumption DEF StoreFile, catalogVars
  <2>3. blob[u] = "none"
    BY <2>2 DEF CompleteInv, BornByCommit
  <2> QED
    BY <2>1, <2>2, <2>3 DEF Running
<1>2. ASSUME UNCHANGED size, \A v \in Uploads : pc'[v] \in Running => pc[v] \in Running,
             \A v \in Uploads : blob'[v] # "none" => blob[v] # "none" \/ pc[v] \in Running
      PROVE  NonEmptyInv'
  BY <1>2
<1>3. ASSUME NEW u \in Uploads, UploadStep(u)
      PROVE  /\ UNCHANGED size
             /\ pc[u] \in Running
             /\ \A v \in Uploads : v # u => pc'[v] = pc[v]
             /\ \A v \in Uploads : v # u => blob'[v] = blob[v]
  BY <1>3 DEF UploadStep, Place, PlaceFails, PushChunk, PushFails, Commit, CommitFails, Return,
      Advance, Running, catalogVars
<1>4. ASSUME NEW u \in Uploads, FlagDeleted(u) \/ StampDeleted(u)
      PROVE  /\ UNCHANGED <<size, pc>>
             /\ \A v \in Uploads : blob'[v] # "none" => blob[v] # "none"
  BY <1>4 DEF FlagDeleted, StampDeleted, SetBlob, uploadVars
<1>5. ASSUME FaultStep \/ CrashUploads \/ UNCHANGED writeVars
      PROVE  /\ UNCHANGED <<size, blob>>
             /\ \A v \in Uploads : pc'[v] \in Running => pc[v] \in Running
  BY <1>5 DEF FaultStep, LoseChunk, LoseMachine, Rot, WorkerDown, WorkerUp, CrashUploads,
      uploadVars, catalogVars, writeVars, Running
<1> QED
  BY <1>1, <1>2, <1>3, <1>4, <1>5 DEF WriteNext, ClientStep

\* A daemon that is down was down at some time.
DownInv == down \subseteq everDown

\* What a fault did stays done, and a blob of the catalog stays as it is.
LEMMA FaultsStay ==
    ASSUME [WriteNext]_writeVars
    PROVE  /\ lost \subseteq lost' /\ rotten \subseteq rotten' /\ everDown \subseteq everDown'
           /\ DownInv => DownInv'
<1>1. ASSUME NEW u \in Uploads, UploadStep(u) \/ ClientStep(u)
      PROVE  UNCHANGED <<lost, rotten, everDown, down>>
  BY <1>1 DEF UploadStep, ClientStep, Place, PlaceFails, PushChunk, PushFails, Commit, CommitFails,
      StoreFile, FlagDeleted, StampDeleted, SetBlob, faultVars
<1>2. ASSUME CrashUploads \/ UNCHANGED writeVars
      PROVE  UNCHANGED <<lost, rotten, everDown, down>>
  BY <1>2 DEF CrashUploads, writeVars, faultVars
<1>3. ASSUME NEW m \in Machines, LoseChunk(m) \/ LoseMachine(m) \/ Rot(m)
      PROVE  lost \subseteq lost' /\ rotten \subseteq rotten' /\ UNCHANGED <<everDown, down>>
  BY <1>3 DEF LoseChunk, LoseMachine, Rot
<1>4. ASSUME NEW w \in Workers, WorkerDown(w) \/ WorkerUp(w)
      PROVE  /\ UNCHANGED <<lost, rotten>> /\ everDown \subseteq everDown'
             /\ DownInv => DownInv'
  BY <1>4 DEF WorkerDown, WorkerUp, DownInv
<1> QED
  BY <1>1, <1>2, <1>3, <1>4 DEF WriteNext, FaultStep, DownInv

\* A blob of the catalog keeps its size and its rows.
LEMMA CataloguedStay ==
    ASSUME TypeInv, SpreadInv, CompleteInv, [WriteNext]_writeVars,
           NEW b \in Uploads, blob[b] # "none"
    PROVE  blob'[b] # "none" /\ size'[b] = size[b] /\ RowsOf(b)' = RowsOf(b) /\ pc'[b] = pc[b]
<1> USE DEF TypeInv, TypeOK, UploadTypeOK, CatalogTypeOK
<1>1. pc[b] \in {"stored", "failed"}
  BY DEF CompleteInv, BornByCommit
<1>2. ASSUME NEW u \in Uploads, UploadStep(u)
      PROVE  /\ UNCHANGED size /\ blob'[b] = blob[b] /\ RowsOf(b)' = RowsOf(b) /\ pc'[b] = pc[b]
  <2>1. pc[u] \in Running /\ u # b
    BY <1>1, <1>2
    DEF UploadStep, Place, PlaceFails, PushChunk, PushFails, Commit, CommitFails, Running
  <2>2. UNCHANGED size /\ blob'[b] = blob[b] /\ pc'[b] = pc[b]
    BY <1>2, <2>1 DEF UploadStep, Place, PlaceFails, PushChunk, PushFails, Commit, CommitFails,
       Return, Advance, catalogVars
  <2>3. \A c \in chunks[u] : c.blob # b
    BY <2>1 DEF SpreadInv, Behind
  <2>4. blobChunks' = blobChunks \/ blobChunks' = blobChunks \cup chunks[u]
    BY <1>2 DEF UploadStep, Place, PlaceFails, PushChunk, PushFails, Commit, CommitFails,
       catalogVars
  <2> QED
    BY <2>2, <2>3, <2>4 DEF RowsOf
<1>3. ASSUME NEW u \in Uploads, StoreFile(u)
      PROVE  size'[b] = size[b] /\ UNCHANGED <<blob, blobChunks>> /\ pc'[b] = pc[b]
  BY <1>1, <1>3 DEF StoreFile, catalogVars
<1>4. ASSUME NEW u \in Uploads, FlagDeleted(u) \/ StampDeleted(u)
      PROVE  UNCHANGED <<size, blobChunks, pc>> /\ blob'[b] # "none"
  BY <1>4 DEF FlagDeleted, StampDeleted, SetBlob, uploadVars
<1>5. ASSUME FaultStep \/ UNCHANGED writeVars
      PROVE  UNCHANGED <<size, blobChunks, blob, pc>>
  BY <1>5 DEF FaultStep, LoseChunk, LoseMachine, Rot, WorkerDown, WorkerUp,
      uploadVars, catalogVars, writeVars
<1>6. ASSUME CrashUploads
      PROVE  UNCHANGED <<size, blobChunks, blob>> /\ pc'[b] = pc[b]
  BY <1>1, <1>6 DEF CrashUploads, catalogVars, Running
<1> QED
  BY <1>2, <1>3, <1>4, <1>5, <1>6 DEF WriteNext, ClientStep, RowsOf

\* The invariant of the write path, all of it.
WriteInv ==
    TypeInv /\ SpreadInv /\ BackedInv /\ CompleteInv /\ UsageInv /\ NonEmptyInv /\ DownInv

\* It holds in the beginning.
LEMMA WriteInvInit == WriteInit => WriteInv
<1>1. WriteInit => TypeInv /\ SpreadInv /\ CompleteInv /\ UsageInv
  BY TypeInit, SpreadInit, CompleteInit, UsageInit
<1>2. WriteInit => BackedInv /\ NonEmptyInv /\ DownInv
  BY DEF WriteInit, BackedInv, CatalogBacked, Backed, NonEmptyInv, DownInv, Running
<1> QED
  BY <1>1, <1>2 DEF WriteInv

\* It is kept by every step.
LEMMA WriteInvNext == WriteInv /\ [WriteNext]_writeVars => WriteInv'
BY TypeNext, SpreadNext, BackedNext, CompleteNext, UsageNext, NonEmptyNext, FaultsStay DEF WriteInv

(***************************************************************************)
(* The rows of a complete layout in the order in which RetrieveBlob reads  *)
(* them                                                                    *)
(***************************************************************************)
FirstOf(c, S) == c \in S /\ \A e \in S : Before(c, e)

\* There is a next location as long as there are locations.
LEMMA FirstExists ==
    ASSUME NEW S \in SUBSET Chunk, S # {}, \A c \in S : c.shard >= ShardIndexWhole
    PROVE  \E c \in S : FirstOf(c, S)
<1> DEFINE K == {c.block : c \in S}
<1>1. K \subseteq Nat /\ K # {}
  BY DEF Chunk
<1>2. PICK k \in K : \A j \in K : k <= j
  <2> HIDE DEF K
  <2> QED
    BY <1>1, LeastNat
<1> DEFINE J == {c.shard + 1 : c \in {x \in S : x.block = k}}
<1>3. J \subseteq Nat /\ J # {}
  BY <1>2 DEF Chunk, ShardIndexWhole
<1>4. PICK i \in J : \A j \in J : i <= j
  <2> HIDE DEF J
  <2> QED
    BY <1>3, LeastNat
<1>5. PICK c \in S : c.block = k /\ i = c.shard + 1
  BY <1>4
<1>6. ASSUME NEW e \in S
      PROVE  Before(c, e)
  <2>1. c \in Chunk /\ e \in Chunk
    OBVIOUS
  <2>2. c.block <= e.block
    BY <1>2, <1>5
  <2>3. CASE e.block = c.block
    <3>1. e.shard + 1 \in J
      BY <1>5, <2>3
    <3>2. c.shard + 1 <= e.shard + 1
      BY <1>4, <1>5, <3>1
    <3> QED
      BY <2>1, <2>3, <3>2 DEF Before, Chunk
  <2> QED
    BY <2>1, <2>2, <2>3 DEF Before, Chunk
<1> QED
  BY <1>6 DEF FirstOf

\* The rows of a complete layout in the order of the query.
LEMMA LayoutShards ==
    ASSUME NEW n \in Nat, NEW R \in SUBSET Chunk, Layout(n, R)
    PROVE  \A c \in R : c.shard >= ShardIndexWhole
BY LayoutAssumption
DEF Layout, Fits, ShardsOf, FirstShard, ShardIndexWhole

\* There is only one next location.
LEMMA FirstUnique ==
    ASSUME NEW n \in Nat, NEW R \in SUBSET Chunk, Layout(n, R), NEW S \in SUBSET R,
           NEW c, FirstOf(c, S), NEW e, FirstOf(e, S)
    PROVE  c = e
<1>1. c \in Chunk /\ e \in Chunk /\ Before(c, e) /\ Before(e, c)
  BY DEF FirstOf
<1>2. c.block = e.block /\ c.shard = e.shard
  BY <1>1 DEF Before, Chunk
<1> QED
  BY <1>2 DEF Layout, NoDuplicates, FirstOf

\* The block that follows a block that does not end the file.
LEMMA LayoutFollows ==
    ASSUME NEW n \in Nat, NEW R \in SUBSET Chunk, Layout(n, R), NEW c \in R,
           c.offset + c.span < n
    PROVE  /\ \E y \in R : y.block = c.block + 1
           /\ \A y \in R : y.block = c.block + 1 => y.offset = c.offset + c.span
<1>1. /\ c.block \in Nat /\ c.offset \in Nat /\ c.offset = BlockStart(c.block)
      /\ c.span = ReadLen(n, c.offset)
  BY DEF Layout, Fits, Chunk
<1>2. c.span = BlockSize
  BY <1>1, LayoutAssumption DEF ReadLen
<1>3. BlockStart(c.block + 1) = c.offset + c.span
  BY <1>1, <1>2, BlockStarts
<1>4. HasBlock(n, R, c.block + 1)
  BY <1>1, <1>3 DEF Layout
<1>5. FirstShard(BlockScheme(n, c.block + 1)) \in ShardsOf(BlockScheme(n, c.block + 1))
  BY LayoutAssumption DEF ShardsOf, FirstShard, LastShard, ShardIndexWhole, TotalShards
<1>6. \E y \in R : y.block = c.block + 1
  BY <1>4, <1>5 DEF HasBlock, HasRow
<1>7. \A y \in R : y.block = c.block + 1 => y.offset = c.offset + c.span
  BY <1>3 DEF Layout, Fits
<1> QED
  BY <1>6, <1>7

\* No block follows the one that ends the file.
LEMMA LayoutEnds ==
    ASSUME NEW n \in Nat, NEW R \in SUBSET Chunk, Layout(n, R), NEW c \in R,
           c.offset + c.span >= n
    PROVE  \A y \in R : y.block <= c.block
<1>1. /\ c.block \in Nat /\ c.offset \in Nat /\ c.offset = BlockStart(c.block)
      /\ c.span = ReadLen(n, c.offset)
  BY DEF Layout, Fits, Chunk
<1>2. c.span <= BlockSize /\ c.span \in Int
  BY <1>1, LayoutAssumption DEF ReadLen
<1>3. ASSUME NEW y \in R, y.block > c.block
      PROVE  FALSE
  <2>1. y.block \in Nat /\ BlockStart(y.block) < n
    BY DEF Layout, Fits, Chunk
  <2>2. BlockStart(c.block) + BlockSize <= BlockStart(y.block) /\ BlockStart(y.block) \in Nat
    BY <1>1, <1>3, <2>1, BlockStarts
  <2> QED
    BY <1>1, <1>2, <2>1, <2>2, LayoutAssumption
<1> QED
  BY <1>1, <1>3 DEF Chunk

\* The first block starts the file.
LEMMA LayoutStarts ==
    ASSUME NEW n \in Nat, n > 0, NEW R \in SUBSET Chunk, Layout(n, R), NEW c, FirstOf(c, R)
    PROVE  c.offset = 0
<1>1. BlockStart(0) = 0
  BY LayoutAssumption DEF BlockStart
<1>2. HasBlock(n, R, 0)
  BY <1>1 DEF Layout
<1>3. FirstShard(BlockScheme(n, 0)) \in ShardsOf(BlockScheme(n, 0))
  BY LayoutAssumption DEF ShardsOf, FirstShard, LastShard, ShardIndexWhole, TotalShards
<1>4. PICK y \in R : y.block = 0
  BY <1>2, <1>3 DEF HasBlock, HasRow
<1>5. c.block = 0
  BY <1>4 DEF FirstOf, Before, Chunk
<1> QED
  BY <1>1, <1>5 DEF Layout, Fits, FirstOf

(***************************************************************************)
(* The invariant of a download                                             *)
(***************************************************************************)
\* The record of a shard that passed its checksum.
Good(x) == [shard |-> x.shard, intact |-> TRUE]

Untouched(d) == got[d] = {} /\ locs[d] = {} /\ out[d] = [len |-> 0, exact |-> TRUE]

\* A download in the middle of a blob has the rows from some place on before
\* it, and the bytes before the block of that place behind it.  Of that block
\* it has every shard it came past, but for those a fault struck and those it
\* missed.
InOrder(d) ==
    /\ locs[d] \subseteq RowsOf(want[d])
    /\ \A x \in locs[d] : \A y \in RowsOf(want[d]) : Before(x, y) => y \in locs[d]
    /\ out[d].exact = TRUE
    /\ locs[d] = {} => out[d].len = size[want[d]] /\ got[d] = {}

BlockSoFar(d, c) ==
    /\ out[d].len = c.offset
    /\ \A x \in RowsOf(want[d]) \ locs[d] :
          x.block = c.block => Suspect(x) \/ x \in missed[d] \/ Good(x) \in got[d]
    /\ \A g \in got[d] : \E x \in RowsOf(want[d]) \ locs[d] : x.block = c.block /\ g = Good(x)

Reading(d) ==
    /\ InOrder(d)
    /\ \A c \in locs[d] : FirstOf(c, locs[d]) => BlockSoFar(d, c)

DownloadInv(d) ==
    /\ rpc[d] \in {"idle", "missing"} => want[d] = NoBlob
    /\ rpc[d] \in {"idle", "found"} => Untouched(d)
    /\ rpc[d] \in Fetching \cup {"ok"} => want[d] \in Uploads
    /\ want[d] # NoBlob => blob[want[d]] # "none"
    /\ rpc[d] = "reading" => Reading(d)
    /\ rpc[d] = "ok" => out[d] = [len |-> size[want[d]], exact |-> TRUE]
    /\ rpc[d] = "error" => refused[d] \/ Starved(d)

ReadInv == ReadTypeOK /\ \A d \in Downloads : DownloadInv(d)

\* A chunk of the catalog that cannot be read was struck by a fault.
LEMMA UnreadableSuspect ==
    ASSUME WriteInv, NEW c \in blobChunks,
           ~ (Readable(c) /\ ChunkVerified(c, Intact(c)))
    PROVE  Suspect(c)
<1>1. Id(c) \in disk[c.disc] \cup lost
  BY DEF WriteInv, BackedInv, CatalogBacked
<1>2. ASSUME WorkerOf[c.disc] \in down
      PROVE  WorkerOf[c.disc] \in everDown
  BY <1>2 DEF WriteInv, DownInv
<1> QED
  BY <1>1, <1>2 DEF Suspect, Readable, ChunkVerified, Intact, Reachable

\* A block of which too few shards are left is beyond repair.
LEMMA TooFewShards ==
    ASSUME NEW n \in Nat, NEW R \in SUBSET Chunk, Layout(n, R), NEW c \in R,
           c.shard # ShardIndexWhole, NEW have,
           ~ EnoughShards(Cardinality(have)), NEW bad \in SUBSET R,
           \A x \in bad : x.block = c.block,
           \A g \in have : \E x \in R : x.block = c.block /\ g = Good(x),
           \A x \in R : x.block = c.block => x \in bad \/ Good(x) \in have
    PROVE  Cardinality(bad) > Spare(c)
<1> DEFINE G == {x \in R : x.block = c.block}
           scheme == SchemeOf(n, c.span)
           f == [x \in G \ bad |-> Good(x)]
<1>1. IsFiniteSet(G) /\ Cardinality(G) = Cardinality(ShardsOf(scheme))
  BY LayoutGroupSize
<1>2. scheme = "stripe"
  <2>1. c.shard \in ShardsOf(scheme)
    BY DEF Layout, Fits
  <2> QED
    BY <2>1 DEF ShardsOf, FirstShard, LastShard, ShardIndexWhole
<1>3. Cardinality(G) = TotalShards
  <2>1. ShardsOf(scheme) = 0 .. (TotalShards - 1)
    BY <1>2 DEF ShardsOf, FirstShard, LastShard
  <2>2. Cardinality(0 .. (TotalShards - 1)) = TotalShards
    BY ShardCount
  <2> QED
    BY <1>1, <2>1, <2>2
<1>4. bad \subseteq G /\ IsFiniteSet(bad) /\ IsFiniteSet(G \ bad)
  BY <1>1, FS_Subset
<1>0. IsFiniteSet(have)
  <2> DEFINE h == [g \in have |-> CHOOSE x \in G : g = Good(x)]
  <2>1. \A g \in have : h[g] \in G /\ g = Good(h[g])
    OBVIOUS
  <2>2. h \in Injection(have, G)
    <3>1. h \in [have -> G]
      BY <2>1
    <3> HIDE DEF h, G
    <3> QED
      BY <2>1, <3>1 DEF Injection, IsInjective
  <2> HIDE DEF h, G
  <2> QED
    BY <1>1, <2>2, FS_Injection
<1>5. Cardinality(G \ bad) = Cardinality(G) - Cardinality(bad)
  <2>1. G \cap bad = bad
    BY <1>4
  <2> HIDE DEF G
  <2>2. Cardinality(G \ bad) = Cardinality(G) - Cardinality(G \cap bad)
    BY <1>1, FS_Difference
  <2> QED
    BY <2>1, <2>2
<1>6. f \in Injection(G \ bad, have)
  BY DEF Injection, IsInjective, Layout, NoDuplicates, Good
<1>7. Cardinality(G \ bad) <= Cardinality(have)
  <2> HIDE DEF f, G
  <2> QED
    BY <1>0, <1>6, FS_Injection
<1>8. Cardinality(bad) \in Nat /\ Cardinality(have) \in Nat /\ Cardinality(have) < DataShards
  <2>1. Cardinality(bad) \in Nat /\ Cardinality(have) \in Nat
    BY <1>0, <1>4, FS_CardinalityType
  <2> QED
    BY <2>1, LayoutAssumption DEF EnoughShards
<1>9. Spare(c) = ParityShards
  BY DEF Spare
<1> HIDE DEF G
<1>10. Cardinality(bad) > ParityShards
  BY <1>3, <1>5, <1>7, <1>8, LayoutAssumption DEF TotalShards
<1> QED
  BY <1>9, <1>10

\* The facts about a download in the middle of a blob that its steps rest on.
LEMMA NextLocationFirst ==
    ASSUME WriteInv, ReadInv, NEW d \in Downloads, rpc[d] = "reading"
    PROVE  /\ want[d] \in Uploads
           /\ size[want[d]] \in Nat \ {0}
           /\ RowsOf(want[d]) \in SUBSET Chunk
           /\ Layout(size[want[d]], RowsOf(want[d]))
           /\ locs[d] \in SUBSET RowsOf(want[d])
           /\ locs[d] # {} => /\ FirstOf(NextLocation(d), locs[d])
                              /\ NextLocation(d) \in Chunk
                              /\ BlockSoFar(d, NextLocation(d))
<1>1. want[d] \in Uploads /\ blob[want[d]] # "none"
  BY ReadPathAssumption DEF ReadInv, DownloadInv, Fetching
<1>2. size[want[d]] \in Nat \ {0}
  BY <1>1 DEF WriteInv, NonEmptyInv, TypeInv, TypeOK, UploadTypeOK
<1>3. RowsOf(want[d]) \in SUBSET Chunk
  BY DEF WriteInv, TypeInv, TypeOK, CatalogTypeOK, RowsOf
<1>4. Layout(size[want[d]], RowsOf(want[d]))
  BY <1>1 DEF WriteInv, CompleteInv, CataloguedInv
<1>5. locs[d] \in SUBSET RowsOf(want[d])
  BY DEF ReadInv, DownloadInv, Reading, InOrder
<1>6. ASSUME locs[d] # {}
      PROVE  FirstOf(NextLocation(d), locs[d])
  <2>1. \A c \in RowsOf(want[d]) : c.shard >= ShardIndexWhole
    BY <1>2, <1>3, <1>4, LayoutShards
  <2>2. PICK S \in SUBSET Chunk : S = locs[d]
    BY <1>3, <1>5
  <2>3. S # {} /\ \A c \in S : c.shard >= ShardIndexWhole
    BY <1>5, <1>6, <2>1, <2>2
  <2>4. \E c \in S : FirstOf(c, S)
    BY <2>3, FirstExists
  <2> QED
    BY <2>2, <2>4 DEF NextLocation, FirstOf
<1>7. locs[d] # {} => NextLocation(d) \in Chunk /\ BlockSoFar(d, NextLocation(d))
  BY <1>3, <1>5, <1>6 DEF ReadInv, DownloadInv, Reading, FirstOf
<1> QED
  BY <1>1, <1>2, <1>3, <1>4, <1>5, <1>6, <1>7

(***************************************************************************)
(* The blocks of a download                                                *)
(***************************************************************************)
\* A chunk of a block that is not the last of it.
LEMMA MidBlock ==
    ASSUME WriteInv, ReadInv, NEW d \in Downloads, rpc[d] = "reading", locs[d] # {},
           NEW c, c = NextLocation(d),
           NEW have, have = got[d] \/ have = got[d] \cup {Good(c)},
           NEW miss, miss = missed[d] \/ miss = missed[d] \cup {c},
           Suspect(c) \/ c \in miss \/ Good(c) \in have,
           UNCHANGED writeVars, want'[d] = want[d], out'[d] = out[d],
           locs'[d] = locs[d] \ {c}, got'[d] = have, missed'[d] = miss,
           \E e \in locs[d] \ {c} : e.block = c.block
    PROVE  Reading(d)'
<1> DEFINE n == size[want[d]]
           R == RowsOf(want[d])
           L == locs[d]
<1>1. /\ n \in Nat \ {0} /\ R \in SUBSET Chunk /\ Layout(n, R) /\ L \in SUBSET R
      /\ FirstOf(c, L) /\ c \in Chunk /\ BlockSoFar(d, c)
  BY NextLocationFirst
<1>2. RowsOf(want[d])' = R /\ size'[want[d]] = n
  BY DEF writeVars, uploadVars, catalogVars, RowsOf
<1>3. \A x : Suspect(x)' <=> Suspect(x)
  BY DEF writeVars, faultVars, Suspect, Id
<1>4. InOrder(d)
  BY DEF ReadInv, DownloadInv, Reading
<1>5. \A x \in L \ {c} : \A y \in R : Before(x, y) => y \in L \ {c}
  <2>1. \A x \in L \ {c} : ~ Before(x, c)
    <3>1. ASSUME NEW x \in L, Before(x, c)
          PROVE  x = c
      <4>1. x \in Chunk /\ Before(c, x)
        BY <1>1 DEF FirstOf
      <4>2. x.block = c.block /\ x.shard = c.shard
        BY <1>1, <3>1, <4>1 DEF Before, Chunk
      <4> QED
        BY <1>1, <4>2 DEF Layout, NoDuplicates, FirstOf
    <3> QED
      BY <3>1
  <2> QED
    BY <1>4, <2>1 DEF InOrder
<1>6. InOrder(d)'
  BY <1>1, <1>2, <1>4, <1>5 DEF InOrder
<1>7. ASSUME NEW f \in L \ {c}, FirstOf(f, L \ {c})
      PROVE  BlockSoFar(d, f)'
  <2>1. f.block = c.block
    <3>1. PICK e \in L \ {c} : e.block = c.block
      OBVIOUS
    <3>2. f \in Chunk /\ e \in Chunk /\ Before(f, e) /\ Before(c, f)
      BY <1>1, <1>7 DEF FirstOf
    <3> QED
      BY <1>1, <3>1, <3>2 DEF Before, Chunk
  <2>2. out'[d].len = f.offset
    <3>1. out[d].len = c.offset
      BY <1>1 DEF BlockSoFar
    <3> QED
      BY <1>1, <2>1, <3>1 DEF Layout, Fits, FirstOf
  <2>3. \A x \in R \ (L \ {c}) :
            x.block = f.block => Suspect(x) \/ x \in miss \/ Good(x) \in have
    BY <1>1, <2>1 DEF BlockSoFar
  <2>4. \A g \in have : \E x \in R \ (L \ {c}) : x.block = f.block /\ g = Good(x)
    <3>1. c \in R \ (L \ {c})
      BY <1>1 DEF FirstOf
    <3>2. \A g \in got[d] : \E x \in R \ L : x.block = c.block /\ g = Good(x)
      BY <1>1 DEF BlockSoFar
    <3> QED
      BY <2>1, <3>1, <3>2
  <2> QED
    BY <1>2, <1>3, <2>2, <2>3, <2>4 DEF BlockSoFar, Good
<1> QED
  BY <1>6, <1>7 DEF Reading, FirstOf

\* The last chunk of a block that has enough of them.
LEMMA BlockDone ==
    ASSUME WriteInv, ReadInv, NEW d \in Downloads, rpc[d] = "reading", locs[d] # {},
           NEW c, c = NextLocation(d),
           UNCHANGED writeVars, want'[d] = want[d],
           out'[d] = [len |-> out[d].len + c.span, exact |-> TRUE],
           locs'[d] = locs[d] \ {c}, got'[d] = {},
           \A e \in locs[d] \ {c} : e.block # c.block
    PROVE  Reading(d)' /\ out'[d].len \in 0 .. size[want[d]]
<1> DEFINE n == size[want[d]]
           R == RowsOf(want[d])
           L == locs[d]
<1>1. /\ n \in Nat \ {0} /\ R \in SUBSET Chunk /\ Layout(n, R) /\ L \in SUBSET R
      /\ FirstOf(c, L) /\ c \in Chunk /\ BlockSoFar(d, c)
  BY NextLocationFirst
<1>2. RowsOf(want[d])' = R /\ size'[want[d]] = n
  BY DEF writeVars, uploadVars, catalogVars, RowsOf
<1>3. out'[d].len = c.offset + c.span /\ out'[d].exact = TRUE
  BY <1>1 DEF BlockSoFar
<1>4. c \in R /\ c.offset + c.span \in 1 .. n
  BY <1>1, LayoutGroup DEF FirstOf
<1>5. \A x \in L \ {c} : \A y \in R : Before(x, y) => y \in L \ {c}
  <2>1. \A x \in L \ {c} : ~ Before(x, c)
    <3>1. ASSUME NEW x \in L, Before(x, c)
          PROVE  x = c
      <4>1. x \in Chunk /\ Before(c, x)
        BY <1>1 DEF FirstOf
      <4>2. x.block = c.block
        BY <1>1, <3>1, <4>1 DEF Before, Chunk
      <4> QED
        BY <4>2
    <3> QED
      BY <3>1
  <2>2. InOrder(d)
    BY DEF ReadInv, DownloadInv, Reading
  <2> QED
    BY <2>1, <2>2 DEF InOrder
<1>6. \A x \in L \ {c} : x.block \in Nat /\ c.block < x.block
  <2>1. ASSUME NEW x \in L \ {c}
        PROVE  x.block \in Nat /\ c.block < x.block
    <3>1. x \in Chunk /\ Before(c, x) /\ x.block # c.block
      BY <1>1 DEF FirstOf
    <3> QED
      BY <1>1, <3>1 DEF Before, Chunk
  <2> QED
    BY <2>1
<1>7. CASE c.offset + c.span < n
  <2>1. /\ \E y \in R : y.block = c.block + 1
        /\ \A y \in R : y.block = c.block + 1 => y.offset = c.offset + c.span
    BY <1>1, <1>4, <1>7, LayoutFollows
  <2>2. \A y \in R : y.block = c.block + 1 => y \in L \ {c}
    <3>1. \A y \in R : y.block = c.block + 1 => Before(c, y) /\ y # c
      BY <1>1 DEF Before, Chunk
    <3>2. \A y \in R : Before(c, y) => y \in L
      BY <1>1 DEF InOrder, ReadInv, DownloadInv, Reading, FirstOf
    <3> QED
      BY <3>1, <3>2
  <2>3. L \ {c} # {}
    BY <2>1, <2>2
  <2>4. InOrder(d)'
    BY <1>1, <1>2, <1>3, <1>5, <2>3 DEF InOrder
  <2>5. ASSUME NEW f \in L \ {c}, FirstOf(f, L \ {c})
        PROVE  BlockSoFar(d, f)'
    <3>1. f.block = c.block + 1
      <4>1. PICK y \in R : y.block = c.block + 1
        BY <2>1
      <4>2. Before(f, y)
        BY <2>2, <2>5, <4>1 DEF FirstOf
      <4>3. c.block < f.block /\ f.block \in Nat /\ c.block \in Nat
        BY <1>1, <1>6 DEF Chunk
      <4> QED
        BY <4>1, <4>2, <4>3 DEF Before
    <3>2. out'[d].len = f.offset
      BY <1>1, <1>3, <2>1, <3>1
    <3>3. \A x \in R \ (L \ {c}) : x.block # f.block
      BY <2>2, <3>1
    <3> QED
      BY <1>2, <3>2, <3>3 DEF BlockSoFar
  <2> QED
    BY <1>3, <1>4, <2>4, <2>5 DEF Reading, FirstOf
<1>8. CASE ~ (c.offset + c.span < n)
  <2>1. c.offset + c.span = n
    BY <1>1, <1>4, <1>8
  <2>2. \A y \in R : y.block <= c.block
    BY <1>1, <1>4, <2>1, LayoutEnds
  <2>3. L \ {c} = {}
    BY <1>1, <1>6, <2>2 DEF Chunk
  <2>4. InOrder(d)'
    BY <1>2, <1>3, <2>1, <2>3 DEF InOrder
  <2> QED
    BY <1>3, <1>4, <2>3, <2>4 DEF Reading
<1> QED
  BY <1>7, <1>8

\* The last chunk of a block that has too few of them.
LEMMA BlockBad ==
    ASSUME WriteInv, ReadInv, NEW d \in Downloads, rpc[d] = "reading", locs[d] # {},
           NEW c, c = NextLocation(d),
           NEW have, have = got[d] \/ have = got[d] \cup {Good(c)},
           NEW miss, miss = missed[d] \/ miss = missed[d] \cup {c},
           Suspect(c) \/ c \in miss \/ Good(c) \in have,
           UNCHANGED writeVars, want'[d] = want[d], missed'[d] = miss,
           \A e \in locs[d] \ {c} : e.block # c.block,
           IF c.shard = ShardIndexWhole
           THEN Suspect(c) \/ c \in miss
           ELSE ~ EnoughShards(Cardinality(have))
    PROVE  Starved(d)'
<1> DEFINE n == size[want[d]]
           R == RowsOf(want[d])
           L == locs[d]
<1>1. /\ n \in Nat \ {0} /\ R \in SUBSET Chunk /\ Layout(n, R) /\ L \in SUBSET R
      /\ FirstOf(c, L) /\ c \in Chunk /\ BlockSoFar(d, c)
  BY NextLocationFirst
<1>2. c \in R
  BY <1>1 DEF FirstOf
<1>3. PICK bad \in SUBSET R :
          bad = {x \in R : x.block = c.block /\ (Suspect(x) \/ x \in miss)}
  OBVIOUS
<1>4. \A x \in R : x.block = c.block => x \in bad \/ Good(x) \in have
  BY <1>1, <1>3 DEF BlockSoFar
<1>5. \A g \in have : \E x \in R : x.block = c.block /\ g = Good(x)
  BY <1>1, <1>2, <1>4 DEF BlockSoFar
<1>6. \A x \in bad : x.block = c.block
  BY <1>3
<1>7. PICK S \in SUBSET Chunk : S = R
  BY <1>1
<1>8. PICK m \in Nat : m = n
  BY <1>1
<1>12. RowsOf(want[d])' = R /\ OutOfReach(d, c)' = bad
  BY <1>3 DEF OutOfReach, RowsOf, Suspect, Id, writeVars, catalogVars, faultVars
<1> HIDE DEF n, R, L
<1>9. Layout(m, S) /\ c \in S /\ bad \in SUBSET S
  BY <1>1, <1>2, <1>7, <1>8
<1>10. CASE c.shard # ShardIndexWhole
  <2>1. \A x \in S : x.block = c.block => x \in bad \/ Good(x) \in have
    BY <1>4, <1>7
  <2>2. \A g \in have : \E x \in S : x.block = c.block /\ g = Good(x)
    BY <1>5, <1>7
  <2>3. ~ EnoughShards(Cardinality(have))
    BY <1>10
  <2>4. Cardinality(bad) > Spare(c)
    BY <1>6, <1>9, <1>10, <2>1, <2>2, <2>3, TooFewShards
  <2> QED
    BY <1>2, <1>12, <2>4 DEF Starved, Spare
<1>11. CASE c.shard = ShardIndexWhole
  <2>1. IsFiniteSet({x \in S : x.block = c.block})
    BY <1>9, LayoutGroupSize
  <2>2. bad \in SUBSET {x \in S : x.block = c.block} /\ c \in bad
    BY <1>2, <1>3, <1>6, <1>9, <1>11
  <2>3. IsFiniteSet(bad)
    BY <2>1, <2>2, FS_Subset
  <2>4. Cardinality(bad) \in Nat /\ Cardinality(bad) # 0
    BY <2>2, <2>3, FS_CardinalityType, FS_EmptySet
  <2>5. Spare(c) = 0
    BY <1>11 DEF Spare
  <2>6. Cardinality(bad) > Spare(c)
    BY <2>4, <2>5
  <2> QED
    BY <1>2, <1>12, <2>6 DEF Starved, Spare
<1> QED
  BY <1>10, <1>11

(***************************************************************************)
(* Steps of others                                                         *)
(***************************************************************************)
\* What is out of reach of a download stays so under the steps of others.
LEMMA DamageStays ==
    ASSUME WriteInv, WriteInv', [WriteNext]_writeVars, NEW d \in Downloads,
           want[d] \in Uploads, want'[d] = want[d], missed'[d] = missed[d], Starved(d)
    PROVE  Starved(d)'
<1> DEFINE b == want[d]
<1>1. PICK c \in RowsOf(b) : Cardinality(OutOfReach(d, c)) > Spare(c)
  BY DEF Starved
<1>2. blob[b] # "none"
  BY <1>1 DEF WriteInv, CompleteInv, CataloguedInv
<1>3. RowsOf(b)' = RowsOf(b)
  BY <1>2, CataloguedStay DEF WriteInv
<1>4. ASSUME NEW x, Suspect(x)
      PROVE  Suspect(x)'
  BY <1>4, FaultsStay DEF Suspect
<1>5. PICK Old : Old = OutOfReach(d, c)
  OBVIOUS
<1>6. PICK New : New = OutOfReach(d, c)'
  OBVIOUS
<1>7. Old \subseteq New /\ New \subseteq blobChunks
  BY <1>3, <1>4, <1>5, <1>6 DEF OutOfReach, RowsOf
<1>8. IsFiniteSet(New)
  <2>1. IsFiniteSet(blobChunks)
    BY DEF WriteInv, UsageInv
  <2> QED
    BY <1>7, <2>1, FS_Subset
<1>9. IsFiniteSet(Old) /\ Cardinality(Old) <= Cardinality(New)
  BY <1>7, <1>8, FS_Subset
<1>10. Cardinality(Old) \in Nat /\ Cardinality(New) \in Nat
  BY <1>8, <1>9, FS_CardinalityType
<1>11. Spare(c) \in Nat
  BY LayoutAssumption DEF Spare
<1>12. Cardinality(New) > Spare(c)
  BY <1>1, <1>5, <1>9, <1>10, <1>11
<1> QED
  BY <1>1, <1>3, <1>6, <1>12 DEF Starved, Spare

\* A step of the write path, and of another download, leaves a download alone.
LEMMA DownloadStays ==
    ASSUME WriteInv, WriteInv', ReadInv, [WriteNext]_writeVars, NEW d \in Downloads,
           rpc'[d] = rpc[d], want'[d] = want[d], locs'[d] = locs[d],
           got'[d] = got[d], out'[d] = out[d],
           refused'[d] = refused[d], missed'[d] = missed[d]
    PROVE  DownloadInv(d)' /\ (want[d] \in Uploads => out'[d].len <= size'[want[d]])
<1>1. DownloadInv(d) /\ want[d] \in Uploads \cup {NoBlob}
  BY DEF ReadInv, ReadTypeOK
<1>2. CASE want[d] = NoBlob
  <2>1. rpc[d] \notin Fetching \cup {"ok"} /\ want[d] \notin Uploads
    BY <1>1, <1>2, ReadPathAssumption DEF DownloadInv
  <2>2. ~ Starved(d)
    BY <2>1 DEF Starved, RowsOf, WriteInv, TypeInv, TypeOK, CatalogTypeOK, Chunk
  <2> QED
    BY <1>1, <1>2, <2>1, <2>2 DEF DownloadInv, Untouched, Fetching
<1>3. CASE want[d] \in Uploads
  <2>1. want[d] # NoBlob /\ blob[want[d]] # "none"
    BY <1>1, <1>3, ReadPathAssumption DEF DownloadInv
  <2>2. /\ blob'[want[d]] # "none" /\ size'[want[d]] = size[want[d]]
        /\ RowsOf(want[d])' = RowsOf(want[d])
    BY <1>3, <2>1, CataloguedStay DEF WriteInv
  <2>3. \A x : Suspect(x) => Suspect(x)'
    BY FaultsStay DEF Suspect
  <2>4. Starved(d) => Starved(d)'
    BY <1>3, DamageStays
  <2>5. ASSUME NEW c, BlockSoFar(d, c)
        PROVE  BlockSoFar(d, c)'
    BY <2>2, <2>3, <2>5 DEF BlockSoFar, Good
  <2>6. Reading(d) => Reading(d)'
    BY <2>2, <2>5 DEF Reading, InOrder, FirstOf
  <2>7. out'[d].len <= size'[want[d]]
    BY <1>3, <2>2 DEF ReadInv, ReadTypeOK
  <2> QED
    BY <1>1, <2>1, <2>2, <2>4, <2>6, <2>7 DEF DownloadInv, Untouched
<1> QED
  BY <1>1, <1>2, <1>3

(***************************************************************************)
(* Steps of a download                                                     *)
(***************************************************************************)
\* The types of the values of a download.
DownloadTypeOK(d) ==
    /\ rpc[d] \in {"idle"} \cup Fetching \cup Answers
    /\ want[d] \in Uploads \cup {NoBlob}
    /\ locs[d] \in SUBSET Chunk
    /\ got[d] \in SUBSET [shard : Int, intact : BOOLEAN]
    /\ out[d] \in [len : Nat, exact : BOOLEAN]
    /\ refused[d] \in BOOLEAN
    /\ missed[d] \in SUBSET Chunk
    /\ want[d] \in Uploads => out[d].len <= size[want[d]]

\* A step of one download.
OnlyDownload(d) ==
    /\ UNCHANGED writeVars
    /\ \A e \in Downloads \ {d} : /\ rpc'[e] = rpc[e] /\ want'[e] = want[e]
                                  /\ locs'[e] = locs[e] /\ got'[e] = got[e]
                                  /\ out'[e] = out[e]
                                  /\ refused'[e] = refused[e] /\ missed'[e] = missed[e]

Total == /\ rpc = [d \in Downloads |-> rpc[d]]
         /\ want = [d \in Downloads |-> want[d]]
         /\ locs = [d \in Downloads |-> locs[d]]
         /\ got = [d \in Downloads |-> got[d]]
         /\ out = [d \in Downloads |-> out[d]]
         /\ refused = [d \in Downloads |-> refused[d]]
         /\ missed = [d \in Downloads |-> missed[d]]

\* The types, one download at a time.
LEMMA ReadTypeByDownload == ReadTypeOK => Total /\ \A d \in Downloads : DownloadTypeOK(d)
BY DEF ReadTypeOK, Total, DownloadTypeOK

\* The types of the downloads after a step make up ReadTypeOK after it.
LEMMA DownloadTypesNext ==
    ASSUME Total', \A d \in Downloads : DownloadTypeOK(d)'
    PROVE  ReadTypeOK'
<1>1. rpc' \in [Downloads -> {"idle"} \cup Fetching \cup Answers]
  BY DEF Total, DownloadTypeOK
<1>2. want' \in [Downloads -> Uploads \cup {NoBlob}]
  BY DEF Total, DownloadTypeOK
<1>3. locs' \in [Downloads -> SUBSET Chunk]
  BY DEF Total, DownloadTypeOK
<1>4. got' \in [Downloads -> SUBSET [shard : Int, intact : BOOLEAN]]
  BY DEF Total, DownloadTypeOK
<1>5. out' \in [Downloads -> [len : Nat, exact : BOOLEAN]]
  BY DEF Total, DownloadTypeOK
<1>6. refused' \in [Downloads -> BOOLEAN]
  BY DEF Total, DownloadTypeOK
<1>7. missed' \in [Downloads -> SUBSET Chunk]
  BY DEF Total, DownloadTypeOK
<1> QED
  BY <1>1, <1>2, <1>3, <1>4, <1>5, <1>6, <1>7 DEF ReadTypeOK, DownloadTypeOK

\* A step of one download has to be shown right for that download only.
LEMMA OneDownload ==
    ASSUME WriteInv, ReadInv, NEW d \in Downloads, OnlyDownload(d), Total',
           DownloadTypeOK(d)', DownloadInv(d)'
    PROVE  ReadInv'
<1>1. [WriteNext]_writeVars /\ WriteInv'
  BY WriteInvNext DEF OnlyDownload
<1>2. ASSUME NEW e \in Downloads, e # d
      PROVE  DownloadInv(e)' /\ DownloadTypeOK(e)'
  <2>1. /\ rpc'[e] = rpc[e] /\ want'[e] = want[e] /\ locs'[e] = locs[e]
        /\ got'[e] = got[e] /\ out'[e] = out[e]
        /\ refused'[e] = refused[e] /\ missed'[e] = missed[e]
    BY <1>2 DEF OnlyDownload
  <2>2. DownloadTypeOK(e)
    BY ReadTypeByDownload DEF ReadInv
  <2>3. DownloadInv(e)' /\ (want[e] \in Uploads => out'[e].len <= size'[want[e]])
    BY <1>1, <2>1, DownloadStays
  <2> QED
    BY <2>1, <2>2, <2>3 DEF DownloadTypeOK
<1>3. \A e \in Downloads : DownloadInv(e)' /\ DownloadTypeOK(e)'
  BY <1>2
<1>4. ReadTypeOK'
  BY <1>3, DownloadTypesNext
<1> QED
  BY <1>3, <1>4 DEF ReadInv

\* findBlob loads a blob of the catalog, or answers that there is none.
LEMMA FindBlobKeeps ==
    ASSUME WriteInv, ReadInv, NEW d \in Downloads, FindBlob(d)
    PROVE  ReadInv'
<1>1. /\ UNCHANGED <<locs, got, out, refused, missed, writeVars>> /\ rpc[d] = "idle"
      /\ \E b \in Uploads :
            \/ /\ Visible(b)
               /\ rpc' = [rpc EXCEPT ![d] = "found"]
               /\ want' = [want EXCEPT ![d] = b]
            \/ /\ rpc' = [rpc EXCEPT ![d] = "missing"]
               /\ UNCHANGED want
  BY DEF FindBlob, mishapVars
<1>2. Total /\ DownloadTypeOK(d) /\ DownloadInv(d)
  BY ReadTypeByDownload DEF ReadInv
<1>3. OnlyDownload(d) /\ Total'
  BY <1>1, <1>2 DEF OnlyDownload, Total
<1>4. Untouched(d) /\ want[d] = NoBlob
  BY <1>1, <1>2 DEF DownloadInv
<1>5. UNCHANGED <<blob, size>>
  BY <1>1 DEF writeVars, uploadVars, catalogVars
<1>6. \A b \in Uploads : size[b] \in Nat
  BY DEF WriteInv, TypeInv, TypeOK, UploadTypeOK
<1>7. CASE \E b \in Uploads :
            /\ Visible(b)
            /\ rpc' = [rpc EXCEPT ![d] = "found"]
            /\ want' = [want EXCEPT ![d] = b]
  <2>1. PICK b \in Uploads : Visible(b) /\ rpc'[d] = "found" /\ want'[d] = b
    BY <1>2, <1>7 DEF Total
  <2>2. b # NoBlob /\ blob[b] = "live"
    BY <2>1, ReadPathAssumption DEF Visible
  <2>3. DownloadTypeOK(d)'
    BY <1>1, <1>2, <1>4, <1>5, <1>6, <2>1 DEF DownloadTypeOK, Untouched, Fetching, Answers
  <2>4. DownloadInv(d)'
    BY <1>1, <1>4, <1>5, <2>1, <2>2 DEF DownloadInv, Untouched, Fetching
  <2> QED
    BY <1>3, <2>3, <2>4, OneDownload
<1>8. CASE rpc' = [rpc EXCEPT ![d] = "missing"] /\ UNCHANGED want
  <2>1. rpc'[d] = "missing" /\ want'[d] = NoBlob
    BY <1>2, <1>4, <1>8 DEF Total
  <2>2. DownloadTypeOK(d)'
    BY <1>1, <1>2, <2>1, <1>4, ReadPathAssumption DEF DownloadTypeOK, Answers
  <2>3. DownloadInv(d)'
    BY <2>1 DEF DownloadInv, Fetching
  <2> QED
    BY <1>3, <2>2, <2>3, OneDownload
<1> QED
  BY <1>1, <1>7, <1>8

\* A query that fails ends the request, and is why it failed.
LEMMA QueryFailsKeeps ==
    ASSUME WriteInv, ReadInv, NEW d \in Downloads, QueryFails(d)
    PROVE  ReadInv'
<1>1. /\ rpc[d] \in {"idle", "found"}
      /\ UNCHANGED <<want, out, missed, writeVars>>
      /\ rpc' = [rpc EXCEPT ![d] = "error"]
      /\ refused' = [refused EXCEPT ![d] = TRUE]
      /\ locs' = [locs EXCEPT ![d] = {}]
      /\ got' = [got EXCEPT ![d] = {}]
  BY DEF QueryFails, Answer
<1>2. Total /\ DownloadTypeOK(d) /\ DownloadInv(d)
  BY ReadTypeByDownload DEF ReadInv
<1>3. /\ OnlyDownload(d) /\ Total' /\ rpc'[d] = "error" /\ refused'[d] = TRUE
      /\ locs'[d] = {} /\ got'[d] = {}
  BY <1>1, <1>2 DEF OnlyDownload, Total
<1>4. UNCHANGED <<blob, size>>
  BY <1>1 DEF writeVars, uploadVars, catalogVars
<1>5. DownloadTypeOK(d)'
  BY <1>1, <1>2, <1>3, <1>4 DEF DownloadTypeOK, Answers
<1>6. DownloadInv(d)'
  BY <1>1, <1>2, <1>3, <1>4 DEF DownloadInv, Fetching
<1> QED
  BY <1>3, <1>5, <1>6, OneDownload

\* A blob that was found has rows, so that its download can start.
LEMMA FoundHasRows ==
    ASSUME WriteInv, ReadInv, NEW d \in Downloads, rpc[d] = "found"
    PROVE  /\ want[d] \in Uploads /\ size[want[d]] \in Nat \ {0}
           /\ RowsOf(want[d]) \in SUBSET Chunk /\ RowsOf(want[d]) # {}
           /\ Layout(size[want[d]], RowsOf(want[d]))
<1>1. want[d] \in Uploads /\ blob[want[d]] # "none"
  BY ReadPathAssumption DEF ReadInv, DownloadInv, Fetching
<1>2. size[want[d]] \in Nat \ {0}
  BY <1>1 DEF WriteInv, NonEmptyInv, TypeInv, TypeOK, UploadTypeOK
<1>3. RowsOf(want[d]) \in SUBSET Chunk
  BY DEF WriteInv, TypeInv, TypeOK, CatalogTypeOK, RowsOf
<1>4. Layout(size[want[d]], RowsOf(want[d]))
  BY <1>1 DEF WriteInv, CompleteInv, CataloguedInv
<1>5. RowsOf(want[d]) # {}
  <2>1. BlockStart(0) < size[want[d]]
    BY <1>2, LayoutAssumption DEF BlockStart
  <2>2. HasBlock(size[want[d]], RowsOf(want[d]), 0)
    BY <1>4, <2>1 DEF Layout
  <2>3. \A s : FirstShard(s) \in ShardsOf(s)
    BY LayoutAssumption DEF ShardsOf, FirstShard, LastShard, ShardIndexWhole, TotalShards
  <2> QED
    BY <2>2, <2>3 DEF HasBlock, HasRow
<1> QED
  BY <1>1, <1>2, <1>3, <1>4, <1>5

\* The query of RetrieveBlob starts the download with all rows of its blob.
LEMMA LoadChunksKeeps ==
    ASSUME WriteInv, ReadInv, NEW d \in Downloads, LoadChunks(d)
    PROVE  ReadInv'
<1>1. /\ want[d] \in Uploads /\ size[want[d]] \in Nat \ {0}
      /\ RowsOf(want[d]) \in SUBSET Chunk /\ RowsOf(want[d]) # {}
      /\ Layout(size[want[d]], RowsOf(want[d]))
      /\ rpc[d] = "found"
  BY FoundHasRows DEF LoadChunks
<1>2. /\ rpc' = [rpc EXCEPT ![d] = "reading"]
      /\ locs' = [locs EXCEPT ![d] = RowsOf(want[d])]
      /\ UNCHANGED <<want, got, out, refused, missed, writeVars>>
  BY <1>1 DEF LoadChunks, mishapVars
<1>3. Total /\ DownloadTypeOK(d) /\ DownloadInv(d)
  BY ReadTypeByDownload DEF ReadInv
<1>4. OnlyDownload(d) /\ Total'
  BY <1>2, <1>3 DEF OnlyDownload, Total
<1>5. Untouched(d) /\ blob[want[d]] # "none" /\ want[d] # NoBlob
  BY <1>1, <1>3, ReadPathAssumption DEF DownloadInv
<1>6. rpc'[d] = "reading" /\ locs'[d] = RowsOf(want[d])
  BY <1>2, <1>3 DEF Total
<1>7. UNCHANGED <<blob, size, blobChunks>>
  BY <1>2 DEF writeVars, uploadVars, catalogVars
<1>8. RowsOf(want[d])' = RowsOf(want[d])
  BY <1>2, <1>7 DEF RowsOf
<1>9. ASSUME NEW c, FirstOf(c, RowsOf(want[d]))
      PROVE  c.offset = 0
  <2>1. PICK n \in Nat : n = size[want[d]]
    BY <1>1
  <2>2. PICK R \in SUBSET Chunk : R = RowsOf(want[d])
    BY <1>1
  <2>3. n > 0 /\ Layout(n, R) /\ FirstOf(c, R)
    BY <1>1, <1>9, <2>1, <2>2
  <2> QED
    BY <2>3, LayoutStarts
<1>10. DownloadTypeOK(d)'
  BY <1>1, <1>2, <1>3, <1>6, <1>7 DEF DownloadTypeOK, Fetching
<1>11. InOrder(d)'
  BY <1>1, <1>2, <1>5, <1>6, <1>8 DEF InOrder, Untouched
<1>12. ASSUME NEW c \in RowsOf(want[d]), FirstOf(c, RowsOf(want[d]))
       PROVE  BlockSoFar(d, c)'
  BY <1>2, <1>5, <1>6, <1>8, <1>9, <1>12 DEF BlockSoFar, Untouched
<1>13. Reading(d)'
  BY <1>6, <1>11, <1>12 DEF Reading, FirstOf
<1>14. DownloadInv(d)'
  BY <1>1, <1>2, <1>5, <1>6, <1>7, <1>13 DEF DownloadInv
<1> QED
  BY <1>4, <1>10, <1>14, OneDownload

\* The ways a chunk c may be fetched, with have what the download then has of
\* the block and miss what it missed of it: in the middle of a block, at the end
\* of one that is rebuilt, at the end of one that is not.
InBlock(d, c, have, miss) ==
    /\ \E e \in locs[d] \ {c} : e.block = c.block
    /\ locs' = [locs EXCEPT ![d] = locs[d] \ {c}]
    /\ got' = [got EXCEPT ![d] = have]
    /\ missed' = [missed EXCEPT ![d] = miss]
    /\ UNCHANGED <<rpc, out>>

AfterBlock(d, c) ==
    /\ \A e \in locs[d] \ {c} : e.block # c.block
    /\ locs' = [locs EXCEPT ![d] = locs[d] \ {c}]
    /\ got' = [got EXCEPT ![d] = {}]
    /\ out' = [out EXCEPT ![d] = [len |-> out[d].len + c.span, exact |-> TRUE]]
    /\ missed' = [missed EXCEPT ![d] = {}]
    /\ UNCHANGED rpc

NoBlock(d, c, have, miss) ==
    /\ \A e \in locs[d] \ {c} : e.block # c.block
    /\ IF c.shard = ShardIndexWhole
       THEN Suspect(c) \/ c \in miss
       ELSE ~ EnoughShards(Cardinality(have))
    /\ BlockFails(d)
    /\ missed' = [missed EXCEPT ![d] = miss]

\* The chunk c is the next one, and if the block does not have it, a fault
\* struck it or it was missed.
Fetched(d, c, have, miss) ==
    /\ c = NextLocation(d)
    /\ have = got[d] \/ have = got[d] \cup {Good(c)}
    /\ miss = missed[d] \/ miss = missed[d] \cup {c}
    /\ Suspect(c) \/ c \in miss \/ Good(c) \in have

\* What a step that fetches a chunk does, in terms of the lemmas on blocks.
LEMMA ReadChunkCases ==
    ASSUME WriteInv, ReadInv, NEW d \in Downloads, ReadChunk(d)
    PROVE  \E c \in RowsOf(want[d]), have \in SUBSET [shard : Int, intact : BOOLEAN],
              miss \in SUBSET Chunk :
              /\ Fetched(d, c, have, miss)
              /\ InBlock(d, c, have, miss) \/ AfterBlock(d, c) \/ NoBlock(d, c, have, miss)
<1>1. rpc[d] = "reading" /\ locs[d] # {}
  BY DEF ReadChunk
<1>2. PICK c : c = NextLocation(d)
  OBVIOUS
<1>3. /\ c \in RowsOf(want[d]) /\ c \in Chunk /\ FirstOf(c, locs[d]) /\ BlockSoFar(d, c)
  BY <1>1, <1>2, NextLocationFirst DEF FirstOf
<1>4. PICK delivered \in BOOLEAN :
        LET good == Readable(c) /\ ChunkVerified(c, Intact(c))
            ok   == good /\ delivered
            have == got[d] \cup (IF ok THEN {[shard |-> c.shard, intact |-> Intact(c)]} ELSE {})
            rest == locs[d] \ {c}
            last == \A e \in rest : e.block # c.block
            need == IF c.shard = ShardIndexWhole THEN ok ELSE EnoughShards(Cardinality(have))
            miss == missed[d] \cup {x \in {c} : good /\ ~delivered}
        IN  IF ~last
            THEN /\ locs' = [locs EXCEPT ![d] = rest]
                 /\ got' = [got EXCEPT ![d] = have]
                 /\ missed' = [missed EXCEPT ![d] = miss]
                 /\ UNCHANGED <<rpc, out>>
            ELSE IF need
            THEN /\ locs' = [locs EXCEPT ![d] = rest]
                 /\ got' = [got EXCEPT ![d] = {}]
                 /\ out' = [out EXCEPT ![d] = Extend(@, c, have)]
                 /\ missed' = [missed EXCEPT ![d] = {}]
                 /\ UNCHANGED rpc
            ELSE /\ BlockFails(d)
                 /\ missed' = [missed EXCEPT ![d] = miss]
  BY <1>2 DEF ReadChunk
<1>5. PICK good \in BOOLEAN : good = (Readable(c) /\ ChunkVerified(c, Intact(c)))
  BY DEF ChunkVerified, Intact, Readable
<1>6. PICK have :
        have = got[d] \cup
            (IF good /\ delivered THEN {[shard |-> c.shard, intact |-> Intact(c)]} ELSE {})
  OBVIOUS
<1>7. PICK miss : miss = missed[d] \cup {x \in {c} : good /\ ~delivered}
  OBVIOUS
<1>8. have = IF good /\ delivered THEN got[d] \cup {Good(c)} ELSE got[d]
  <2>1. good => Intact(c) = TRUE
    BY <1>5 DEF ChunkVerified, Intact
  <2> QED
    BY <1>6, <2>1 DEF Good
<1>9. miss = IF good /\ ~delivered THEN missed[d] \cup {c} ELSE missed[d]
  BY <1>7
<1>10. ~ (good /\ delivered) => Suspect(c) \/ c \in miss
  <2>1. ~ good => Suspect(c)
    BY <1>3, <1>5, UnreadableSuspect DEF RowsOf
  <2> QED
    BY <1>9, <2>1
<1>11. have \in SUBSET [shard : Int, intact : BOOLEAN] /\ miss \in SUBSET Chunk
  <2>1. got[d] \in SUBSET [shard : Int, intact : BOOLEAN] /\ missed[d] \in SUBSET Chunk
    BY DEF ReadInv, ReadTypeOK
  <2>2. Good(c) \in [shard : Int, intact : BOOLEAN]
    BY <1>3 DEF Good, Chunk
  <2> QED
    BY <1>3, <1>8, <1>9, <2>1, <2>2
<1>12. Fetched(d, c, have, miss)
  BY <1>2, <1>8, <1>9, <1>10 DEF Fetched
<1>13. Extend(out[d], c, have) = [len |-> out[d].len + c.span, exact |-> TRUE]
  <2>1. \A g \in have : g.intact = TRUE
    BY <1>3, <1>8 DEF BlockSoFar, Good
  <2>2. out[d].exact = TRUE /\ c.offset = out[d].len
    BY <1>1, <1>3 DEF BlockSoFar, ReadInv, DownloadInv, Reading, InOrder
  <2> QED
    BY <2>1, <2>2 DEF Extend
<1>14. CASE ~ \A e \in locs[d] \ {c} : e.block # c.block
  <2>1. InBlock(d, c, have, miss)
    BY <1>4, <1>5, <1>6, <1>7, <1>14 DEF InBlock
  <2> QED
    BY <1>3, <1>11, <1>12, <2>1
<1>15. CASE \A e \in locs[d] \ {c} : e.block # c.block
  <2> DEFINE need == IF c.shard = ShardIndexWhole
                     THEN good /\ delivered
                     ELSE EnoughShards(Cardinality(have))
  <2>1. CASE need
    <3>1. AfterBlock(d, c)
      BY <1>4, <1>5, <1>6, <1>13, <1>15, <2>1 DEF AfterBlock
    <3> QED
      BY <1>3, <1>11, <1>12, <3>1
  <2>2. CASE ~ need
    <3>1. BlockFails(d) /\ missed' = [missed EXCEPT ![d] = miss]
      BY <1>4, <1>5, <1>6, <1>7, <1>15, <2>2
    <3>2. NoBlock(d, c, have, miss)
      BY <1>10, <1>15, <2>2, <3>1 DEF NoBlock
    <3> QED
      BY <1>3, <1>11, <1>12, <3>2
  <2> QED
    BY <2>1, <2>2
<1> QED
  BY <1>14, <1>15

\* A fetched chunk keeps the download in order; the end of a block moves the
\* buffer on, or finds the blob beyond repair.
LEMMA ReadChunkKeeps ==
    ASSUME WriteInv, ReadInv, NEW d \in Downloads, ReadChunk(d)
    PROVE  ReadInv'
<1>1. rpc[d] = "reading" /\ locs[d] # {} /\ UNCHANGED <<want, refused, writeVars>>
  BY DEF ReadChunk
<1>2. Total /\ DownloadTypeOK(d) /\ DownloadInv(d)
  BY ReadTypeByDownload DEF ReadInv
<1>3. PICK c \in RowsOf(want[d]), have \in SUBSET [shard : Int, intact : BOOLEAN],
        miss \in SUBSET Chunk :
        /\ Fetched(d, c, have, miss)
        /\ InBlock(d, c, have, miss) \/ AfterBlock(d, c) \/ NoBlock(d, c, have, miss)
  BY ReadChunkCases
<1>4. UNCHANGED <<blob, size>> /\ want[d] \in Uploads /\ blob[want[d]] # "none"
  BY <1>1, <1>2, ReadPathAssumption
  DEF writeVars, uploadVars, catalogVars, DownloadInv, Fetching
<1>5. want[d] # NoBlob
  BY <1>4, ReadPathAssumption
<1>6. CASE InBlock(d, c, have, miss)
  <2>1. /\ OnlyDownload(d) /\ Total' /\ locs'[d] = locs[d] \ {c} /\ got'[d] = have
        /\ missed'[d] = miss /\ UNCHANGED <<rpc, out>>
    BY <1>1, <1>2, <1>6 DEF InBlock, OnlyDownload, Total
  <2>2. Reading(d)'
    BY <1>1, <1>3, <1>6, <2>1, MidBlock DEF Fetched, InBlock
  <2>3. DownloadTypeOK(d)'
    BY <1>1, <1>2, <1>4, <2>1 DEF DownloadTypeOK
  <2>4. DownloadInv(d)'
    BY <1>1, <1>4, <1>5, <2>1, <2>2 DEF DownloadInv
  <2> QED
    BY <2>1, <2>3, <2>4, OneDownload
<1>7. CASE AfterBlock(d, c)
  <2>1. /\ OnlyDownload(d) /\ Total' /\ locs'[d] = locs[d] \ {c} /\ got'[d] = {}
        /\ out'[d] = [len |-> out[d].len + c.span, exact |-> TRUE]
        /\ missed'[d] = {} /\ UNCHANGED rpc
    BY <1>1, <1>2, <1>7 DEF AfterBlock, OnlyDownload, Total
  <2>2. Reading(d)' /\ out'[d].len \in 0 .. size[want[d]]
    BY <1>1, <1>3, <1>7, <2>1, BlockDone DEF Fetched, AfterBlock
  <2>3. size[want[d]] \in Nat
    BY <1>4 DEF WriteInv, TypeInv, TypeOK, UploadTypeOK
  <2>4. out'[d] \in [len : Nat, exact : BOOLEAN] /\ out'[d].len <= size[want[d]]
    BY <2>1, <2>2, <2>3
  <2>5. DownloadTypeOK(d)'
    BY <1>1, <1>2, <1>4, <2>1, <2>4 DEF DownloadTypeOK
  <2>6. DownloadInv(d)'
    BY <1>1, <1>4, <1>5, <2>1, <2>2 DEF DownloadInv
  <2> QED
    BY <2>1, <2>5, <2>6, OneDownload
<1>8. CASE NoBlock(d, c, have, miss)
  <2>1. /\ OnlyDownload(d) /\ Total' /\ locs'[d] = {} /\ got'[d] = {} /\ rpc'[d] = "error"
        /\ out'[d] = out[d] /\ missed'[d] = miss
    BY <1>1, <1>2, <1>8 DEF NoBlock, OnlyDownload, Total, BlockFails, Answer
  <2>2. Starved(d)'
    BY <1>1, <1>3, <1>8, <2>1, BlockBad DEF Fetched, NoBlock
  <2>3. DownloadTypeOK(d)'
    BY <1>1, <1>2, <1>4, <2>1 DEF DownloadTypeOK, Answers
  <2>4. DownloadInv(d)'
    BY <1>1, <1>4, <1>5, <2>1, <2>2 DEF DownloadInv, Fetching
  <2> QED
    BY <2>1, <2>3, <2>4, OneDownload
<1> QED
  BY <1>3, <1>6, <1>7, <1>8

\* The two checks at the end never fail: whatever was corrupt was caught by
\* the checksum of its chunk.
LEMMA FinishDownloadKeeps ==
    ASSUME WriteInv, ReadInv, NEW d \in Downloads, FinishDownload(d)
    PROVE  ReadInv' /\ rpc' = [rpc EXCEPT ![d] = "ok"]
<1>1. rpc[d] = "reading" /\ locs[d] = {} /\ UNCHANGED <<want, out, refused, missed, writeVars>>
  BY DEF FinishDownload, mishapVars
<1>2. Total /\ DownloadTypeOK(d) /\ DownloadInv(d)
  BY ReadTypeByDownload DEF ReadInv
<1>3. out[d].len = size[want[d]] /\ out[d].exact = TRUE
  BY <1>1, <1>2 DEF DownloadInv, Reading, InOrder
<1>4. rpc' = [rpc EXCEPT ![d] = "ok"]
  BY <1>3 DEF FinishDownload, Answer, SizeMatches, ChecksumMatches
<1>5. OnlyDownload(d) /\ Total' /\ rpc'[d] = "ok" /\ locs'[d] = {} /\ got'[d] = {}
  BY <1>1, <1>2, <1>4 DEF OnlyDownload, Total, FinishDownload, Answer
<1>6. UNCHANGED <<blob, size>> /\ want[d] \in Uploads /\ blob[want[d]] # "none"
  BY <1>1, <1>2, ReadPathAssumption
  DEF writeVars, uploadVars, catalogVars, DownloadInv, Fetching
<1>7. DownloadTypeOK(d)'
  BY <1>1, <1>2, <1>5, <1>6 DEF DownloadTypeOK, Answers
<1>8. out[d] = [len |-> size[want[d]], exact |-> TRUE]
  BY <1>2, <1>3 DEF DownloadTypeOK
<1>9. DownloadInv(d)'
  BY <1>1, <1>5, <1>6, <1>8, ReadPathAssumption DEF DownloadInv, Fetching
<1> QED
  BY <1>4, <1>5, <1>7, <1>9, OneDownload

\* Downloads that are cut short.
LEMMA GatewayCrashKeeps ==
    ASSUME WriteInv, WriteInv', ReadInv, GatewayCrash
    PROVE  ReadInv'
<1>1. [WriteNext]_writeVars /\ UNCHANGED <<want, out, refused, missed, size, blob>>
  BY DEF GatewayCrash, WriteNext, CrashUploads, catalogVars, mishapVars
<1>2. Total /\ \A d \in Downloads : DownloadTypeOK(d) /\ DownloadInv(d)
  BY ReadTypeByDownload DEF ReadInv
<1>3. Total'
  BY <1>1, <1>2 DEF GatewayCrash, Total
<1>4. ASSUME NEW d \in Downloads
      PROVE  DownloadTypeOK(d)' /\ DownloadInv(d)'
  <2>1. /\ rpc'[d] = IF rpc[d] \in Fetching THEN "dropped" ELSE rpc[d]
        /\ locs'[d] = {} /\ got'[d] = {}
    BY DEF GatewayCrash
  <2>2. DownloadTypeOK(d)'
    BY <1>1, <1>2, <2>1 DEF DownloadTypeOK, Answers, Fetching
  <2>3. Starved(d) => Starved(d)'
    <3>1. Starved(d) => want[d] \in Uploads
      BY DEF Starved, RowsOf, WriteInv, TypeInv, TypeOK, CatalogTypeOK, Chunk
    <3> QED
      BY <1>1, <3>1, DamageStays
  <2>4. DownloadInv(d)
    BY <1>2
  <2>5. rpc[d] = "error" => refused'[d] \/ Starved(d)'
    BY <1>1, <2>3, <2>4 DEF DownloadInv
  <2>6. want'[d] = want[d] /\ out'[d] = out[d] /\ blob' = blob /\ size' = size
    BY <1>1
  <2>7. rpc'[d] \in {"idle", "found"} => Untouched(d)'
    BY <2>1, <2>4, <2>6 DEF DownloadInv, Untouched, Fetching
  <2>8. rpc'[d] = "error" => refused'[d] \/ Starved(d)'
    BY <2>1, <2>5
  <2>9. rpc'[d] # "reading"
    BY <2>1 DEF Fetching
  <2> QED
    BY <2>1, <2>2, <2>4, <2>6, <2>7, <2>8, <2>9 DEF DownloadInv, Fetching
<1> QED
  BY <1>3, <1>4, DownloadTypesNext DEF ReadInv

\* It holds in the beginning.
LEMMA ReadInvInit == Init => ReadInv
<1> SUFFICES ASSUME Init PROVE ReadInv
  OBVIOUS
<1>1. \A d \in Downloads : DownloadInv(d)
  BY DEF Init, ReadInit, DownloadInv, Untouched, Fetching
<1>2. \A u \in Uploads : size[u] = 0
  BY DEF Init, WriteInit
<1>3. ReadTypeOK
  BY <1>2 DEF Init, ReadInit, ReadTypeOK
<1> QED
  BY <1>1, <1>3 DEF ReadInv

\* It is kept by every step.
LEMMA ReadInvNext == WriteInv /\ WriteInv' /\ ReadInv /\ [Next]_vars => ReadInv'
<1> SUFFICES ASSUME WriteInv, WriteInv', ReadInv, [Next]_vars
             PROVE  ReadInv'
  OBVIOUS
<1>1. ASSUME [WriteNext]_writeVars, UNCHANGED readVars
      PROVE  ReadInv'
  <2>1. Total /\ \A d \in Downloads : DownloadTypeOK(d) /\ DownloadInv(d)
    BY ReadTypeByDownload DEF ReadInv
  <2>2. UNCHANGED <<rpc, want, locs, got, out, refused, missed>>
    BY <1>1 DEF readVars, mishapVars
  <2>3. ASSUME NEW d \in Downloads
        PROVE  DownloadTypeOK(d)' /\ DownloadInv(d)'
    <3>1. DownloadInv(d)' /\ (want[d] \in Uploads => out'[d].len <= size'[want[d]])
      BY <1>1, <2>2, DownloadStays
    <3> QED
      BY <2>1, <2>2, <3>1 DEF DownloadTypeOK
  <2>4. Total'
    BY <2>1, <2>2 DEF Total
  <2> QED
    BY <2>3, <2>4, DownloadTypesNext DEF ReadInv
<1>2. ASSUME NEW d \in Downloads, FindBlob(d) \/ QueryFails(d) \/ DownloadStep(d)
      PROVE  ReadInv'
  BY <1>2, FindBlobKeeps, QueryFailsKeeps, LoadChunksKeeps, ReadChunkKeeps, FinishDownloadKeeps
  DEF DownloadStep
<1> QED
  BY <1>1, <1>2, GatewayCrashKeeps DEF Next, WriteNext, vars

\* The invariants of writing and reading hold together.
LEMMA InvariantUnderReads == Spec => [](WriteInv /\ ReadInv)
<1>1. Init => WriteInv /\ ReadInv
  BY WriteInvInit, ReadInvInit DEF Init
<1>2. [Next]_vars => [WriteNext]_writeVars
  <2>1. ASSUME NEW d \in Downloads, FindBlob(d) \/ QueryFails(d) \/ DownloadStep(d)
        PROVE  UNCHANGED writeVars
    BY <2>1 DEF FindBlob, QueryFails, DownloadStep, LoadChunks, ReadChunk, FinishDownload
  <2> QED
    BY <2>1 DEF Next, GatewayCrash, WriteNext, vars
<1>3. WriteInv /\ ReadInv /\ [Next]_vars => (WriteInv /\ ReadInv)'
  BY <1>2, WriteInvNext, ReadInvNext
<1> QED
  BY <1>1, <1>3, PTL DEF Spec

\* The buffer of a download never outgrows its file (RetrieveBlob), and the
\* state of the reads is well typed.
THEOREM ReadTypesHold == Spec => []ReadTypeOK
<1>1. ReadInv => ReadTypeOK
  BY DEF ReadInv
<1> QED
  BY <1>1, InvariantUnderReads, PTL

\* A download fails only when a query of it failed, or when faults struck, or
\* fetches that failed missed, more chunks of one block than the layout
\* tolerates (RetrieveBlob, readBlock).
THEOREM FailuresAreExplained == Spec => []FailuresExplained
<1>1. ReadInv => FailuresExplained
  BY DEF ReadInv, DownloadInv, FailuresExplained
<1> QED
  BY <1>1, InvariantUnderReads, PTL

(***************************************************************************)
(* What the clients see: every step is a step of BlobStore, or shows       *)
(* nothing.                                                                *)
(***************************************************************************)
\* The variables of BlobStore, as ClientSees has them.
SeenStore   == [b \in Uploads |-> StoreState(b)]
SeenAck     == [b \in Uploads |->
                   IF pc[b] \in {"stored", "failed"} THEN pc[b] ELSE "pending"]
SeenHindered == {d \in Downloads : refused[d] \/ Starved(d)}
SeenReader  == [d \in Downloads |-> IF rpc[d] \in Fetching THEN "reading" ELSE rpc[d]]
SeenAnswer  == [d \in Downloads |->
                   IF rpc[d] = "ok" /\ out[d] = [len |-> size[want[d]], exact |-> TRUE]
                   THEN want[d] ELSE NoBlob]

SeenVars == <<SeenStore, SeenAck, SeenHindered, SeenReader, want, SeenAnswer>>

\* A step hinders whom it may.
LEMMA SeenHindrance == ClientSees!Hindrance
BY DEF ClientSees!Hindrance

\* A step of the write path shows the readers nothing new.
LEMMA SeenReaders ==
    ASSUME WriteInv, ReadInv, [WriteNext]_writeVars, UNCHANGED readVars
    PROVE  UNCHANGED <<SeenReader, want, SeenAnswer>>
<1>1. UNCHANGED <<rpc, want, out>>
  BY DEF readVars
<1>2. ASSUME NEW d \in Downloads, rpc[d] = "ok"
      PROVE  size'[want[d]] = size[want[d]]
  <2>1. want[d] \in Uploads /\ blob[want[d]] # "none"
    BY <1>2, ReadPathAssumption DEF ReadInv, DownloadInv
  <2> QED
    BY <2>1, CataloguedStay DEF WriteInv
<1> QED
  BY <1>1, <1>2 DEF SeenReader, SeenAnswer

\* The promises hold in the beginning.
LEMMA SeenInit == Init => ClientSees!StoreInit
<1> SUFFICES ASSUME Init PROVE ClientSees!StoreInit
  OBVIOUS
<1>1. SeenStore = [b \in Uploads |-> "absent"] /\ SeenAck = [b \in Uploads |-> "pending"]
  BY DEF Init, WriteInit, SeenStore, SeenAck, StoreState, Visible
<1>2. SeenHindered = {}
  BY DEF Init, WriteInit, ReadInit, SeenHindered, Starved, RowsOf
<1>3. /\ SeenReader = [d \in Downloads |-> "idle"] /\ want = [d \in Downloads |-> NoBlob]
      /\ SeenAnswer = [d \in Downloads |-> NoBlob]
  BY DEF Init, ReadInit, SeenReader, SeenAnswer, Fetching
<1> QED
  BY <1>1, <1>2, <1>3
  DEF ClientSees!StoreInit, SeenStore, SeenAck, SeenHindered, SeenReader, SeenAnswer

\* An upload that ends without a blob is refused.
LEMMA SeenRefuse ==
    ASSUME WriteInv, WriteInv', ReadInv, [WriteNext]_writeVars, UNCHANGED readVars,
           NEW u \in Uploads, pc[u] \notin {"stored", "failed"},
           pc' = [pc EXCEPT ![u] = "failed"], UNCHANGED blob
    PROVE  ClientSees!StoreNext
<1>1. ClientSees!Hindrance
  BY SeenHindrance
<1>2. UNCHANGED <<SeenReader, want, SeenAnswer>>
  BY SeenReaders
<1>3. SeenAck[u] = "pending" /\ UNCHANGED SeenStore
  BY DEF SeenAck, SeenStore, StoreState, Visible
<1>4. SeenAck' = [b \in Uploads |-> IF b \in {u} THEN "failed" ELSE SeenAck[b]]
  BY DEF WriteInv, TypeInv, TypeOK, UploadTypeOK, SeenAck
<1>5. ClientSees!Refuse({u})
  BY <1>1, <1>2, <1>3, <1>4
  DEF ClientSees!Refuse, SeenStore, SeenAck, SeenHindered, SeenAnswer
<1>6. UNCHANGED SeenReader
  BY <1>2
<1> QED
  BY <1>5, <1>6 DEF ClientSees!StoreNext, SeenReader

\* A step in which nobody outside learns anything.
LEMMA SeenNothing ==
    ASSUME WriteInv, WriteInv', [WriteNext]_writeVars,
           UNCHANGED <<SeenStore, SeenAck, SeenReader, want, SeenAnswer>>
    PROVE  ClientSees!StoreNext
<1>1. ClientSees!Hindrance
  BY SeenHindrance
<1>2. ClientSees!Hinder
  BY <1>1 DEF ClientSees!Hinder, SeenStore, SeenAck, SeenHindered,
      SeenReader, SeenAnswer
<1> QED
  BY <1>2 DEF ClientSees!StoreNext

\* Each step of StoreFile is a Put, a Refuse, or shows nothing.
LEMMA SeenUpload ==
    ASSUME WriteInv, WriteInv', ReadInv, NEW u \in Uploads, UploadStep(u) \/ StoreFile(u),
           UNCHANGED readVars
    PROVE  ClientSees!StoreNext
<1>1. [WriteNext]_writeVars
  BY DEF WriteNext, ClientStep
<1>2. pc \in [Uploads -> Phases] /\ blob \in [Uploads -> {"none", "live", "flagged", "stamped"}]
  BY DEF WriteInv, TypeInv, TypeOK, UploadTypeOK, CatalogTypeOK
<1>3. UNCHANGED <<SeenReader, want, SeenAnswer>>
  BY <1>1, SeenReaders
<1>4. pc[u] \in Running \cup {"idle"}
  BY DEF UploadStep, Place, PlaceFails, PushChunk, PushFails, Commit, CommitFails, StoreFile,
     Running
<1>5. pc[u] \notin {"stored", "failed"}
  BY <1>4 DEF Running
<1>6. CASE Commit(u)
  <2>1. PICK outcome \in {"stored", "failed"} : pc' = [pc EXCEPT ![u] = outcome]
    BY <1>6 DEF Commit, Return
  <2>2. blob' = [blob EXCEPT ![u] = "live"] /\ blob[u] = "none"
    BY <1>2, <1>5, <1>6 DEF Commit, WriteInv, CompleteInv, BornByCommit
  <2>3. SeenAck[u] = "pending" /\ SeenStore[u] = "absent"
    BY <1>5, <2>2 DEF SeenAck, SeenStore, StoreState, Visible
  <2>4. SeenAck' = [SeenAck EXCEPT ![u] = outcome]
    BY <1>2, <2>1 DEF SeenAck
  <2>5. SeenStore' = [SeenStore EXCEPT ![u] = "present"]
    BY <1>2, <2>2 DEF SeenStore, StoreState, Visible
  <2>6. ClientSees!Hindrance
    BY SeenHindrance
  <2>7. ClientSees!Put(u)
    BY <1>3, <2>3, <2>4, <2>5, <2>6
    DEF ClientSees!Put, SeenStore, SeenAck, SeenHindered, SeenReader,
        SeenAnswer
  <2> QED
    BY <2>7 DEF ClientSees!StoreNext
<1>7. CASE PlaceFails(u) \/ PushFails(u) \/ CommitFails(u)
  <2>1. pc' = [pc EXCEPT ![u] = "failed"] /\ UNCHANGED blob
    BY <1>7 DEF PlaceFails, PushFails, CommitFails, Return, catalogVars
  <2> QED
    BY <1>1, <1>5, <2>1, SeenRefuse
<1>8. CASE Place(u) \/ PushChunk(u)
  <2>1. UNCHANGED blob /\ pc'[u] \notin {"stored", "failed"} /\ \A v \in Uploads \ {u} : pc'[v] = pc[v]
    BY <1>2, <1>8 DEF Place, PushChunk, Advance, catalogVars
  <2>2. UNCHANGED <<SeenStore, SeenAck>>
    BY <1>5, <2>1 DEF SeenStore, SeenAck, StoreState, Visible
  <2> QED
    BY <1>1, <1>3, <2>2, SeenNothing
<1>9. CASE StoreFile(u)
  <2>1. PICK next \in {"failed", "placing"} : pc' = [pc EXCEPT ![u] = next]
    BY <1>9 DEF StoreFile
  <2>2. UNCHANGED blob
    BY <1>9 DEF StoreFile, catalogVars
  <2>3. CASE next = "failed"
    BY <1>1, <1>5, <2>1, <2>2, <2>3, SeenRefuse
  <2>4. CASE next = "placing"
    <3>1. UNCHANGED <<SeenStore, SeenAck>>
      BY <1>2, <1>5, <2>1, <2>2, <2>4 DEF SeenStore, SeenAck, StoreState, Visible
    <3> QED
      BY <1>1, <1>3, <3>1, SeenNothing
  <2> QED
    BY <2>3, <2>4
<1> QED
  BY <1>6, <1>7, <1>8, <1>9 DEF UploadStep

\* The first statement of DeleteFile is the Delete; the second shows nothing.
LEMMA SeenDelete ==
    ASSUME WriteInv, WriteInv', ReadInv, NEW b \in Uploads, FlagDeleted(b) \/ StampDeleted(b),
           UNCHANGED readVars
    PROVE  ClientSees!StoreNext
<1>1. [WriteNext]_writeVars
  BY DEF WriteNext, ClientStep
<1>2. blob \in [Uploads -> {"none", "live", "flagged", "stamped"}]
  BY DEF WriteInv, TypeInv, TypeOK, CatalogTypeOK
<1>3. UNCHANGED <<SeenReader, want, SeenAnswer>>
  BY <1>1, SeenReaders
<1>4. UNCHANGED SeenAck
  BY DEF FlagDeleted, StampDeleted, SetBlob, uploadVars, SeenAck
<1>5. CASE FlagDeleted(b)
  <2>1. blob[b] = "live" /\ blob' = [blob EXCEPT ![b] = "flagged"]
    BY <1>5 DEF FlagDeleted, SetBlob
  <2>2. SeenStore[b] = "present" /\ SeenStore' = [SeenStore EXCEPT ![b] = "deleted"]
    BY <1>2, <2>1 DEF SeenStore, StoreState, Visible
  <2>3. ClientSees!Hindrance
    BY SeenHindrance
  <2>4. ClientSees!Delete(b)
    BY <1>3, <1>4, <2>2, <2>3
    DEF ClientSees!Delete, SeenStore, SeenAck, SeenHindered, SeenReader,
        SeenAnswer
  <2> QED
    BY <2>4 DEF ClientSees!StoreNext
<1>6. CASE StampDeleted(b)
  <2>1. blob[b] = "flagged" /\ blob' = [blob EXCEPT ![b] = "stamped"]
    BY <1>6 DEF StampDeleted, SetBlob
  <2>2. UNCHANGED SeenStore
    BY <1>2, <2>1 DEF SeenStore, StoreState, Visible
  <2> QED
    BY <1>1, <1>3, <1>4, <2>2, SeenNothing
<1> QED
  BY <1>5, <1>6

\* Faults only spread damage.
LEMMA SeenFault ==
    ASSUME WriteInv, WriteInv', ReadInv, FaultStep, UNCHANGED readVars
    PROVE  ClientSees!StoreNext
<1>1. [WriteNext]_writeVars
  BY DEF WriteNext
<1>2. UNCHANGED <<SeenReader, want, SeenAnswer>>
  BY <1>1, SeenReaders
<1>3. UNCHANGED <<pc, blob>>
  BY DEF FaultStep, LoseChunk, LoseMachine, Rot, WorkerDown, WorkerUp, uploadVars, catalogVars
<1>4. UNCHANGED <<SeenStore, SeenAck>>
  BY <1>3 DEF SeenStore, StoreState, SeenAck, Visible
<1> QED
  BY <1>1, <1>2, <1>4, SeenNothing

\* A step of a download shows nothing of the uploads.
LEMMA SeenUploads ==
    ASSUME UNCHANGED writeVars
    PROVE  UNCHANGED <<SeenStore, SeenAck>>
BY DEF writeVars, uploadVars, catalogVars, SeenStore, StoreState, Visible, SeenAck

\* findBlob is a Find.
LEMMA SeenFind ==
    ASSUME WriteInv, ReadInv, NEW d \in Downloads, FindBlob(d)
    PROVE  ClientSees!StoreNext
<1>1. /\ UNCHANGED <<locs, got, out, writeVars>> /\ rpc[d] = "idle"
      /\ rpc \in [Downloads -> {"idle"} \cup Fetching \cup Answers]
      /\ want \in [Downloads -> Uploads \cup {NoBlob}]
  BY DEF FindBlob, ReadInv, ReadTypeOK
<1>2. PICK b \in Uploads :
        \/ /\ Visible(b)
           /\ rpc' = [rpc EXCEPT ![d] = "found"]
           /\ want' = [want EXCEPT ![d] = b]
        \/ /\ ~Visible(b)
           /\ rpc' = [rpc EXCEPT ![d] = "missing"]
           /\ UNCHANGED want
  BY DEF FindBlob
<1>3. UNCHANGED <<SeenStore, SeenAck, size, out>> /\ ClientSees!Hindrance
  BY <1>1, SeenUploads, SeenHindrance DEF writeVars, uploadVars
<1>4. UNCHANGED SeenAnswer
  <2>1. \A e \in Downloads : e # d => rpc'[e] = rpc[e] /\ want'[e] = want[e]
    BY <1>1, <1>2
  <2>2. rpc'[d] # "ok" /\ rpc[d] # "ok"
    BY <1>1, <1>2
  <2> QED
    BY <1>3, <2>1, <2>2 DEF SeenAnswer
<1>5. SeenReader[d] = "idle"
  BY <1>1 DEF SeenReader, Fetching
<1>6. IF SeenStore[b] = "present"
      THEN /\ SeenReader' = [SeenReader EXCEPT ![d] = "reading"]
           /\ want' = [want EXCEPT ![d] = b]
      ELSE /\ SeenReader' = [SeenReader EXCEPT ![d] = "missing"]
           /\ UNCHANGED want
  <2>1. SeenStore[b] = "present" <=> Visible(b)
    BY DEF SeenStore, StoreState, Visible
  <2>2. Visible(b) => SeenReader' = [SeenReader EXCEPT ![d] = "reading"]
    BY <1>1, <1>2 DEF SeenReader, Fetching
  <2>3. ~ Visible(b) => SeenReader' = [SeenReader EXCEPT ![d] = "missing"]
    BY <1>1, <1>2 DEF SeenReader, Fetching
  <2> QED
    BY <1>2, <2>1, <2>2, <2>3
<1>7. ClientSees!Find(d, b)
  BY <1>3, <1>4, <1>5, <1>6
  DEF ClientSees!Find, SeenStore, SeenAck, SeenHindered, SeenReader, SeenAnswer
<1> QED
  BY <1>7 DEF ClientSees!StoreNext

\* A request that fails is a GiveUp if its reader is hindered by then.
LEMMA SeenGiveUp ==
    ASSUME ReadInv, NEW d \in Downloads, rpc[d] \in {"idle"} \cup Fetching,
           rpc' = [rpc EXCEPT ![d] = "error"], (refused[d] \/ Starved(d))',
           UNCHANGED <<want, out, writeVars>>
    PROVE  ClientSees!StoreNext
<1>1. rpc \in [Downloads -> {"idle"} \cup Fetching \cup Answers]
  BY DEF ReadInv, ReadTypeOK
<1>2. UNCHANGED <<SeenStore, SeenAck, size>> /\ ClientSees!Hindrance
  BY SeenUploads, SeenHindrance DEF writeVars, uploadVars
<1>3. SeenReader[d] \in {"idle", "reading"}
  BY DEF SeenReader, Fetching
<1>4. SeenReader' = [SeenReader EXCEPT ![d] = "error"]
  BY <1>1 DEF SeenReader, Fetching
<1>5. UNCHANGED SeenAnswer
  <2>1. \A e \in Downloads : (rpc[e] = "ok") = (rpc'[e] = "ok")
    BY <1>1 DEF Fetching
  <2> QED
    BY <1>2, <2>1 DEF SeenAnswer
<1>6. d \in SeenHindered'
  BY DEF SeenHindered
<1>7. ClientSees!GiveUp(d)
  BY <1>2, <1>3, <1>4, <1>5, <1>6
  DEF ClientSees!GiveUp, SeenStore, SeenAck, SeenHindered, SeenReader, SeenAnswer
<1> QED
  BY <1>7 DEF ClientSees!StoreNext

\* A query that fails makes the reader give up.
LEMMA SeenQueryFails ==
    ASSUME ReadInv, NEW d \in Downloads, QueryFails(d)
    PROVE  ClientSees!StoreNext
<1>1. /\ rpc[d] \in {"idle"} \cup Fetching
      /\ rpc' = [rpc EXCEPT ![d] = "error"]
      /\ UNCHANGED <<want, out, writeVars>>
  BY DEF QueryFails, Answer, Fetching
<1>2. refused'[d]
  BY DEF QueryFails, ReadInv, ReadTypeOK
<1> QED
  BY <1>1, <1>2, SeenGiveUp

\* The end of a download is a Deliver, its failure a GiveUp; the steps between
\* show nothing.
LEMMA SeenDownload ==
    ASSUME WriteInv, WriteInv', ReadInv, NEW d \in Downloads, DownloadStep(d)
    PROVE  ClientSees!StoreNext
<1>1. /\ rpc \in [Downloads -> {"idle"} \cup Fetching \cup Answers]
      /\ out \in [Downloads -> [len : Nat, exact : BOOLEAN]]
      /\ DownloadInv(d)
  BY DEF ReadInv, ReadTypeOK
<1>2. UNCHANGED <<want, writeVars>> /\ rpc[d] \in Fetching
  BY DEF DownloadStep, LoadChunks, ReadChunk, FinishDownload, QueryFails, Fetching
<1>3. UNCHANGED <<SeenStore, SeenAck, size>> /\ ClientSees!Hindrance
  BY <1>2, SeenUploads, SeenHindrance DEF writeVars, uploadVars
<1>4. SeenReader[d] = "reading"
  BY <1>2 DEF SeenReader
<1>5. rpc[d] # "ok" /\ want[d] \in Uploads
  BY <1>1, <1>2, ReadPathAssumption DEF Fetching, DownloadInv
<1>6. CASE FinishDownload(d)
  <2>1. rpc' = [rpc EXCEPT ![d] = "ok"] /\ ReadInv' /\ UNCHANGED out
    BY <1>6, FinishDownloadKeeps DEF FinishDownload
  <2>2. out[d] = [len |-> size[want[d]], exact |-> TRUE]
    <3>1. rpc'[d] = "ok"
      BY <1>1, <2>1
    <3>2. DownloadInv(d)'
      BY <2>1 DEF ReadInv
    <3> QED
      BY <1>2, <1>3, <2>1, <3>1, <3>2 DEF DownloadInv
  <2>3. SeenReader' = [SeenReader EXCEPT ![d] = "ok"]
    BY <1>1, <2>1 DEF SeenReader, Fetching
  <2>4. SeenAnswer' = [SeenAnswer EXCEPT ![d] = want[d]]
    BY <1>1, <1>2, <1>3, <2>1, <2>2 DEF SeenAnswer
  <2>5. ClientSees!Deliver(d)
    BY <1>2, <1>3, <1>4, <2>3, <2>4
    DEF ClientSees!Deliver, SeenStore, SeenAck, SeenHindered, SeenReader, SeenAnswer
  <2> QED
    BY <2>5 DEF ClientSees!StoreNext
<1>8. ASSUME \A e \in Downloads \ {d} : rpc'[e] = rpc[e] /\ out'[e] = out[e],
             rpc'[d] \in Fetching
      PROVE  ClientSees!StoreNext
  <2>1. UNCHANGED SeenReader
    BY <1>2, <1>8 DEF SeenReader
  <2>2. rpc'[d] # "ok"
    BY <1>8 DEF Fetching
  <2>3. UNCHANGED SeenAnswer
    BY <1>2, <1>3, <1>5, <1>8, <2>2 DEF SeenAnswer
  <2> QED
    BY <1>2, <1>3, <2>1, <2>3, SeenNothing
<1>9. CASE LoadChunks(d)
  <2>1. RowsOf(want[d]) # {}
    BY <1>9, FoundHasRows DEF LoadChunks
  <2>2. rpc' = [rpc EXCEPT ![d] = "reading"] /\ UNCHANGED out
    BY <1>9, <2>1 DEF LoadChunks
  <2> QED
    BY <1>1, <1>8, <2>2 DEF Fetching
<1>10. CASE ReadChunk(d)
  <2>1. rpc[d] = "reading" /\ locs[d] # {}
    BY <1>10 DEF ReadChunk
  <2>2. PICK c \in RowsOf(want[d]), have \in SUBSET [shard : Int, intact : BOOLEAN],
          miss \in SUBSET Chunk :
          /\ Fetched(d, c, have, miss)
          /\ InBlock(d, c, have, miss) \/ AfterBlock(d, c) \/ NoBlock(d, c, have, miss)
    BY <1>10, ReadChunkCases
  <2>3. CASE NoBlock(d, c, have, miss)
    <3>1. missed'[d] = miss
      BY <2>3 DEF NoBlock, ReadInv, ReadTypeOK
    <3>2. Starved(d)'
      BY <1>2, <2>1, <2>2, <2>3, <3>1, BlockBad DEF Fetched, NoBlock
    <3>3. rpc' = [rpc EXCEPT ![d] = "error"] /\ UNCHANGED out
      BY <2>3 DEF NoBlock, BlockFails, Answer
    <3> QED
      BY <1>2, <3>2, <3>3, SeenGiveUp
  <2>4. CASE InBlock(d, c, have, miss) \/ AfterBlock(d, c)
    BY <1>1, <1>2, <1>8, <2>4 DEF InBlock, AfterBlock
  <2> QED
    BY <2>2, <2>3, <2>4
<1>11. CASE QueryFails(d)
  BY <1>11, SeenQueryFails
<1> QED
  BY <1>6, <1>9, <1>10, <1>11 DEF DownloadStep

\* A restart refuses the uploads that were running.
LEMMA SeenCrash ==
    ASSUME WriteInv, WriteInv', ReadInv, GatewayCrash
    PROVE  ClientSees!StoreNext
<1> DEFINE S == {u \in Uploads : pc[u] \in Running}
<1>1. /\ [WriteNext]_writeVars /\ UNCHANGED <<want, out, size, blob>>
      /\ pc' = [u \in Uploads |-> IF pc[u] \in Running THEN "failed" ELSE pc[u]]
      /\ rpc' = [d \in Downloads |-> IF rpc[d] \in Fetching THEN "dropped" ELSE rpc[d]]
  BY DEF GatewayCrash, WriteNext, CrashUploads, catalogVars
<1>2. ClientSees!Hindrance
  BY SeenHindrance
<1>3. \A b \in S : SeenAck[b] = "pending"
  BY DEF SeenAck, Running
<1>4. SeenAck' = [b \in Uploads |-> IF b \in S THEN "failed" ELSE SeenAck[b]]
  BY <1>1 DEF SeenAck, Running
<1>5. UNCHANGED SeenStore
  BY <1>1 DEF SeenStore, StoreState, Visible
<1>6. UNCHANGED SeenAnswer
  <2>1. \A d \in Downloads : rpc'[d] = "ok" <=> rpc[d] = "ok"
    BY <1>1 DEF Fetching
  <2> QED
    BY <1>1, <2>1 DEF SeenAnswer
<1>7. SeenReader' = [d \in Downloads |-> IF SeenReader[d] = "reading" THEN "dropped" ELSE SeenReader[d]]
  <2>1. \A d \in Downloads : SeenReader[d] = "reading" <=> rpc[d] \in Fetching
    BY DEF SeenReader, Fetching
  <2> QED
    BY <1>1, <2>1 DEF SeenReader, Fetching
<1>8. ClientSees!Refuse(S)
  BY <1>1, <1>2, <1>3, <1>4, <1>5, <1>6
  DEF ClientSees!Refuse, SeenStore, SeenAck, SeenHindered, SeenAnswer
<1>9. S \in SUBSET Uploads
  OBVIOUS
<1> HIDE DEF S
<1>10. \E T \in SUBSET Uploads : ClientSees!Refuse(T)
  BY <1>8, <1>9, Zenon DEF ClientSees!Refuse
<1>11. ClientSees!Restart
  BY <1>7, <1>10, Zenon DEF ClientSees!Restart, SeenReader
<1> QED
  BY <1>11 DEF ClientSees!StoreNext

\* The gateway, the catalog and the workers together implement BlobStore: what is
\* acknowledged is stored, what is deleted is gone, what is downloaded is what
\* was uploaded, and only damage beyond repair makes a download fail.
THEOREM PromisesAreKept == Spec => KeepsPromises
<1>1. WriteInv /\ WriteInv' /\ ReadInv /\ [Next]_vars => [ClientSees!StoreNext]_(ClientSees!storeVars)
  <2> SUFFICES ASSUME WriteInv, WriteInv', ReadInv, [Next]_vars
               PROVE  [ClientSees!StoreNext]_(ClientSees!storeVars)
    OBVIOUS
  <2>1. CASE UNCHANGED vars
    <3>1. /\ UNCHANGED <<rpc, want, out, refused, missed, size>>
          /\ UNCHANGED <<writeVars, blobChunks, lost, rotten, everDown>>
      BY <2>1 DEF vars, readVars, mishapVars, writeVars, uploadVars, catalogVars, faultVars
    <3>2. UNCHANGED <<SeenStore, SeenAck, SeenHindered>>
      BY <3>1, SeenUploads DEF SeenHindered, Starved, OutOfReach, Suspect, RowsOf
    <3>3. UNCHANGED <<SeenReader, want, SeenAnswer>>
      BY <3>1 DEF SeenReader, SeenAnswer
    <3> QED
      BY <3>2, <3>3
      DEF ClientSees!storeVars, SeenStore, SeenAck, SeenHindered, SeenReader, SeenAnswer
  <2>2. CASE Next
    <3>1. ASSUME NEW u \in Uploads, (UploadStep(u) \/ ClientStep(u)) /\ UNCHANGED readVars
          PROVE  ClientSees!StoreNext
      BY <3>1, SeenUpload, SeenDelete DEF ClientStep
    <3>2. ASSUME NEW d \in Downloads, FindBlob(d) \/ QueryFails(d) \/ DownloadStep(d)
          PROVE  ClientSees!StoreNext
      BY <3>2, SeenFind, SeenQueryFails, SeenDownload
    <3> QED
      BY <2>2, <3>1, <3>2, SeenFault, SeenCrash DEF Next
  <2> QED
    BY <2>1, <2>2
<1>2. Spec => [](WriteInv /\ ReadInv)
  BY InvariantUnderReads
<1> QED
  BY <1>1, <1>2, SeenInit, PTL DEF Spec, KeepsPromises, ClientSees!StoreSpec

(***************************************************************************)
(* What is proved of the write path stays true under reads.                *)
(***************************************************************************)
\* The system with downloads, seen without them, is the write path.
THEOREM ImplementsWritePath == Spec => WriteSpec
<1>1. Init => WriteInit
  BY DEF Init
<1>2. [Next]_vars => [WriteNext]_writeVars
  <2>1. ASSUME NEW d \in Downloads, FindBlob(d) \/ QueryFails(d) \/ DownloadStep(d)
        PROVE  UNCHANGED writeVars
    BY <2>1 DEF FindBlob, QueryFails, DownloadStep, LoadChunks, ReadChunk, FinishDownload
  <2> QED
    BY <2>1 DEF Next, GatewayCrash, WriteNext, vars
<1> QED
  BY <1>1, <1>2, PTL DEF Spec, WriteSpec

\* With downloads running too, the catalog names only bytes that were written.
THEOREM CatalogIsBackedUnderReads == Spec => []CatalogBacked
BY ImplementsWritePath, CatalogIsBacked, PTL

\* With downloads running too, a stripe has no two shards on one machine.
THEOREM StripesSpreadUnderReads == Spec => []StripeSpread
BY ImplementsWritePath, StripesSpread, PTL

\* With downloads running too, a blob in the catalog has rows for every byte.
THEOREM CatalogIsCompleteUnderReads == Spec => []CatalogComplete
BY ImplementsWritePath, CatalogIsComplete, PTL

\* With downloads running too, the counters are what the rows add up to.
THEOREM UsageIsExactUnderReads == Spec => []UsageExact
BY ImplementsWritePath, UsageIsExact, PTL
=============================================================================
