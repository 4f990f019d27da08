------------------------------ MODULE WritePath -----------------------------
(***************************************************************************)
(* The write path of the gateway: StorageService.StoreFile and what it     *)
(* calls, the catalog it commits to, logical deletion, and the discs of    *)
(* the cluster with the faults that strike them.                           *)
(*                                                                         *)
(* Each upload u is one call of StoreFile, running in its own goroutine    *)
(* next to the others; it creates the blob u.  A step is what happens      *)
(* between two awaits: one placement query, one chunk sent to a worker,    *)
(* one database transaction.                                               *)
(*                                                                         *)
(* A chunk's id is <<blob, block, shard>>: the code draws a fresh uuid in  *)
(* pushChunk, which runs once per upload, block and shard.                 *)
(***************************************************************************)
EXTENDS Placement, FiniteSetsExt

CONSTANTS
    Uploads,     \* the StoreFile calls of a behaviour
    FileSizes,   \* the sizes a staged file may have
    Workers,     \* wkr10 daemons
    WorkerOf,    \* the daemon that serves each machine
    MaxFaults    \* bound on the number of faults of a behaviour

ASSUME WritePathAssumption ==
    /\ FileSizes \subseteq Nat
    /\ WorkerOf \in [Machines -> Workers]
    /\ MaxFaults \in Nat

VARIABLES
    \* locals of StoreFile, one value per upload
    pc,          \* where the call is
    size,        \* totalSize
    block,       \* blockIndex
    offset,      \* logicalOffset
    shard,       \* shardIndex, the next shard of the block to push
    targets,     \* the machines placement chose for the block
    chunks,      \* the rows built so far
    \* the database
    blob,        \* the row of each blob: "none", "live", "flagged", "stamped"
    blobChunks,  \* the blob_chunks rows
    used,        \* discs.used_bytes
    workerUsed,  \* workers.used_bytes
    \* the workers
    disk,        \* the chunks on each machine's disc
    down,        \* the daemons that do not answer
    \* faults, for the properties to refer to
    lost,        \* chunks a disc lost
    rotten,      \* chunks whose bytes changed on disc
    everDown,    \* daemons that were down at some time
    faults       \* faults that may still happen

uploadVars  == <<pc, size, block, offset, shard, targets, chunks>>
catalogVars == <<blob, blobChunks, used, workerUsed>>
faultVars   == <<down, lost, rotten, everDown, faults>>
writeVars   == <<uploadVars, catalogVars, disk, faultVars>>

Running == {"placing", "pushing", "commit"}
Phases  == {"idle", "stored", "failed"} \cup Running

\* A blob_chunks row.  WorkerID is WorkerOf[disc], checksum and path follow
\* from the id.
Chunk == [blob : Uploads, block : Nat, shard : Int, disc : Machines,
          size : Nat, offset : Nat, span : Nat]

Id(c) == <<c.blob, c.block, c.shard>>

ChunkIds == Uploads \X Nat \X Int

RowsOf(b) == {c \in blobChunks : c.blob = b}

(***************************************************************************)
(* StoreFile                                                               *)
(***************************************************************************)
BlockLen(u) == ReadLen(size[u], offset[u])
Scheme(u)   == SchemeOf(size[u], BlockLen(u))

\* The call starts: an empty file is refused, and so is one that cannot be
\* opened, hashed or rewound.
StoreFile(u) ==
    /\ pc[u] = "idle"
    /\ \E n \in FileSizes :
        /\ size' = [size EXCEPT ![u] = n]
        /\ \E next \in {"failed"} \cup {p \in {"placing"} : n > 0} :
              pc' = [pc EXCEPT ![u] = next]
    /\ UNCHANGED <<block, offset, shard, targets, chunks, catalogVars, disk, faultVars>>

\* The answers placement may give for the next block.
Placements(u) ==
    CASE Scheme(u) = "inline" ->
            SelectMachine(used, InlineMachines, RequiredMB(BlockLen(u)))
      [] Scheme(u) = "whole" ->
            SelectMachine(used, BlockMachines, RequiredMB(BlockLen(u)))
      [] Scheme(u) = "stripe" ->
            SelectMachinesForEC(used, RequiredMB(ShardLen(BlockLen(u))))

\* One placement query.  It reads used_mb, which only Commit changes.
Place(u) ==
    /\ pc[u] = "placing"
    /\ \E t \in Placements(u) : targets' = [targets EXCEPT ![u] = t]
    /\ shard' = [shard EXCEPT ![u] = FirstShard(Scheme(u))]
    /\ pc' = [pc EXCEPT ![u] = "pushing"]
    /\ UNCHANGED <<size, block, offset, chunks, catalogVars, disk, faultVars>>

\* StoreFile returns and its locals are gone.  The chunks it wrote stay where
\* they are, whatever the outcome.
Return(u, outcome) ==
    /\ pc' = [pc EXCEPT ![u] = outcome]
    /\ targets' = [targets EXCEPT ![u] = <<>>]
    /\ chunks' = [chunks EXCEPT ![u] = {}]
    /\ UNCHANGED <<size, block, offset, shard>>

\* The read of the block fails, or EncodeAndBracket, or the placement query,
\* or no machine has room.
PlaceFails(u) ==
    /\ pc[u] = "placing"
    /\ Return(u, "failed")
    /\ UNCHANGED <<catalogVars, disk, faultVars>>

\* The row pushChunk builds for the next shard.
NewChunk(u) ==
    [blob |-> u, block |-> block[u], shard |-> shard[u], disc |-> targets[u][shard[u]],
     size |-> ChunkLen(Scheme(u), BlockLen(u)), offset |-> offset[u], span |-> BlockLen(u)]

\* The chunk reaches the disc of its machine.
Write(c) == disk' = [disk EXCEPT ![c.disc] = @ \cup {Id(c)}]

\* Mutant: the loop adds BlockSize instead of the bytes it read.
AdvanceByBlockSize(u) ==
    IF shard[u] < LastShard(Scheme(u))
    THEN /\ shard' = [shard EXCEPT ![u] = @ + 1]
         /\ UNCHANGED <<pc, block, offset>>
    ELSE /\ block' = [block EXCEPT ![u] = @ + 1]
         /\ offset' = [offset EXCEPT ![u] = @ + BlockSize]
         /\ pc' = [pc EXCEPT ![u] = IF offset'[u] < size[u] THEN "placing" ELSE "commit"]
         /\ UNCHANGED shard

\* Mutant: the loop stops at the last full block.
AdvanceDropsTail(u) ==
    IF shard[u] < LastShard(Scheme(u))
    THEN /\ shard' = [shard EXCEPT ![u] = @ + 1]
         /\ UNCHANGED <<pc, block, offset>>
    ELSE /\ block' = [block EXCEPT ![u] = @ + 1]
         /\ offset' = [offset EXCEPT ![u] = @ + BlockLen(u)]
         /\ pc' = [pc EXCEPT ![u] =
                IF offset'[u] + BlockSize <= size[u] THEN "placing" ELSE "commit"]
         /\ UNCHANGED shard

\* The bookkeeping of the loops: the next shard, or the next block, or out.
Advance(u) ==
    IF shard[u] < LastShard(Scheme(u))
    THEN /\ shard' = [shard EXCEPT ![u] = @ + 1]
         /\ UNCHANGED <<pc, block, offset>>
    ELSE /\ block' = [block EXCEPT ![u] = @ + 1]
         /\ offset' = [offset EXCEPT ![u] = @ + BlockLen(u)]
         /\ pc' = [pc EXCEPT ![u] = IF offset'[u] < size[u] THEN "placing" ELSE "commit"]
         /\ UNCHANGED shard

Reachable(m) == WorkerOf[m] \notin down

\* One chunk is written and acknowledged.
PushChunk(u) ==
    /\ pc[u] = "pushing"
    /\ Reachable(NewChunk(u).disc)
    /\ Write(NewChunk(u))
    /\ chunks' = [chunks EXCEPT ![u] = @ \cup {NewChunk(u)}]
    /\ Advance(u)
    /\ UNCHANGED <<size, targets, catalogVars, faultVars>>

\* Mutant: the error is logged and the loop goes on with the row.
PushErrorIgnored(u) ==
    /\ pc[u] = "pushing"
    /\ chunks' = [chunks EXCEPT ![u] = @ \cup {NewChunk(u)}]
    /\ Advance(u)
    /\ UNCHANGED <<size, targets, catalogVars, disk, faultVars>>

\* Mutant: the client waits for ever for a worker that does not answer.
PushWithoutTimeout(u) ==
    /\ pc[u] = "pushing"
    /\ Reachable(NewChunk(u).disc)
    /\ Return(u, "failed")
    /\ UNCHANGED <<catalogVars, disk, faultVars>>

\* The request to the worker fails or times out; the worker may have written
\* the chunk all the same.
PushFails(u) ==
    /\ pc[u] = "pushing"
    /\ \/ UNCHANGED disk
       \/ Reachable(NewChunk(u).disc) /\ Write(NewChunk(u))
    /\ Return(u, "failed")
    /\ UNCHANGED <<catalogVars, faultVars>>

Bytes(S) == MapThenSumSet(LAMBDA c : c.size, S)

\* Mutant: perDisc[id] = size, where the code has +=.
ChargeLastChunk(rows) ==
    /\ used' = [m \in Machines |-> used[m] +
            (IF \E c \in rows : c.disc = m THEN (CHOOSE c \in rows : c.disc = m).size ELSE 0)]
    /\ workerUsed' = [w \in Workers |->
            workerUsed[w] + Bytes({c \in rows : WorkerOf[c.disc] = w})]

\* chargeUsage: what the rows of a new blob add to each disc and worker.
ChargeUsage(rows) ==
    /\ used' = [m \in Machines |-> used[m] + Bytes({c \in rows : c.disc = m})]
    /\ workerUsed' = [w \in Workers |->
            workerUsed[w] + Bytes({c \in rows : WorkerOf[c.disc] = w})]

\* The transaction: blob, chunks and usage, all or nothing.  When it commits
\* and the answer of the database is lost, the caller is told it failed.
Commit(u) ==
    /\ pc[u] = "commit"
    /\ blob' = [blob EXCEPT ![u] = "live"]
    /\ blobChunks' = blobChunks \cup chunks[u]
    /\ ChargeUsage(chunks[u])
    /\ \E outcome \in {"stored", "failed"} : Return(u, outcome)
    /\ UNCHANGED <<disk, faultVars>>

CommitFails(u) ==
    /\ pc[u] = "commit"
    /\ Return(u, "failed")
    /\ UNCHANGED <<catalogVars, disk, faultVars>>

(***************************************************************************)
(* DeleteFile: two statements.  The chunks and the usage stay.             *)
(***************************************************************************)
SetBlob(b, from, to) ==
    /\ blob[b] = from
    /\ blob' = [blob EXCEPT ![b] = to]
    /\ UNCHANGED <<blobChunks, used, workerUsed, uploadVars, disk, faultVars>>

FlagDeleted(b)  == SetBlob(b, "live", "flagged")
StampDeleted(b) == SetBlob(b, "flagged", "stamped")

(***************************************************************************)
(* Faults                                                                  *)
(***************************************************************************)
Fault == faults > 0 /\ faults' = faults - 1

LoseChunk(m) ==
    /\ Fault
    /\ \E id \in disk[m] :
        /\ disk' = [disk EXCEPT ![m] = @ \ {id}]
        /\ lost' = lost \cup {id}
    /\ UNCHANGED <<uploadVars, catalogVars, down, rotten, everDown>>

\* A disc crashes and is replaced by an empty one.
LoseMachine(m) ==
    /\ Fault
    /\ disk[m] # {}
    /\ disk' = [disk EXCEPT ![m] = {}]
    /\ lost' = lost \cup disk[m]
    /\ UNCHANGED <<uploadVars, catalogVars, down, rotten, everDown>>

Rot(m) ==
    /\ Fault
    /\ \E id \in disk[m] : rotten' = rotten \cup {id}
    /\ UNCHANGED <<uploadVars, catalogVars, disk, down, lost, everDown>>

WorkerDown(w) ==
    /\ Fault
    /\ w \notin down
    /\ down' = down \cup {w}
    /\ everDown' = everDown \cup {w}
    /\ UNCHANGED <<uploadVars, catalogVars, disk, lost, rotten>>

WorkerUp(w) ==
    /\ w \in down
    /\ down' = down \ {w}
    /\ UNCHANGED <<uploadVars, catalogVars, disk, lost, rotten, everDown, faults>>

\* The gateway restarts: the running calls are gone, the database is not.
CrashUploads ==
    /\ Fault
    /\ pc' = [u \in Uploads |-> IF pc[u] \in Running THEN "failed" ELSE pc[u]]
    /\ targets' = [u \in Uploads |-> <<>>]
    /\ chunks' = [u \in Uploads |-> {}]
    /\ UNCHANGED <<size, block, offset, shard, catalogVars, disk,
                   down, lost, rotten, everDown>>

(***************************************************************************)
(* The specification                                                       *)
(***************************************************************************)
WriteInit ==
    /\ pc = [u \in Uploads |-> "idle"]
    /\ size = [u \in Uploads |-> 0]
    /\ block = [u \in Uploads |-> 0]
    /\ offset = [u \in Uploads |-> 0]
    /\ shard = [u \in Uploads |-> 0]
    /\ targets = [u \in Uploads |-> <<>>]
    /\ chunks = [u \in Uploads |-> {}]
    /\ blob = [u \in Uploads |-> "none"]
    /\ blobChunks = {}
    /\ used = [m \in Machines |-> 0]
    /\ workerUsed = [w \in Workers |-> 0]
    /\ disk = [m \in Machines |-> {}]
    /\ down = {}
    /\ lost = {}
    /\ rotten = {}
    /\ everDown = {}
    /\ faults = MaxFaults

UploadStep(u) ==
    \/ Place(u) \/ PlaceFails(u)
    \/ PushChunk(u) \/ PushFails(u)
    \/ Commit(u) \/ CommitFails(u)

ClientStep(u) == StoreFile(u) \/ FlagDeleted(u) \/ StampDeleted(u)

FaultStep ==
    \/ \E m \in Machines : LoseChunk(m) \/ LoseMachine(m) \/ Rot(m)
    \/ \E w \in Workers : WorkerDown(w) \/ WorkerUp(w)

WriteNext ==
    \/ \E u \in Uploads : UploadStep(u) \/ ClientStep(u)
    \/ FaultStep
    \/ CrashUploads

WriteSpec == WriteInit /\ [][WriteNext]_writeVars

\* A running call always takes its next step: the goroutine is never parked
\* for good, because every request to a worker ends within the 60 s of
\* WorkerClient and every query is answered or fails.
WriteFairness == \A u \in Uploads : WF_writeVars(UploadStep(u))

FairWriteSpec == WriteSpec /\ WriteFairness

(***************************************************************************)
(* Properties                                                              *)
(***************************************************************************)
UploadTypeOK ==
    /\ pc \in [Uploads -> Phases]
    /\ size \in [Uploads -> Nat]
    /\ block \in [Uploads -> Nat]
    /\ offset \in [Uploads -> Nat]
    /\ shard \in [Uploads -> Int]
    /\ DOMAIN targets = Uploads
    /\ chunks \in [Uploads -> SUBSET Chunk]
    /\ \A u \in Uploads : offset[u] <= size[u]

CatalogTypeOK ==
    /\ blob \in [Uploads -> {"none", "live", "flagged", "stamped"}]
    /\ blobChunks \subseteq Chunk
    /\ DOMAIN used = Machines
    /\ DOMAIN workerUsed = Workers

DiskTypeOK ==
    /\ disk \in [Machines -> SUBSET ChunkIds]
    /\ down \subseteq Workers
    /\ everDown \subseteq Workers
    /\ lost \subseteq ChunkIds
    /\ rotten \subseteq ChunkIds
    /\ faults \in 0 .. MaxFaults

\* The type invariant; the block loop never runs past the end of the file.
\* The values of the usage counters are UsageExact's.
TypeOK == UploadTypeOK /\ CatalogTypeOK /\ DiskTypeOK

\* Every chunk the catalog names is on the disc the catalog names, unless a
\* fault of that disc destroyed it: metadata is committed only once every
\* byte is on a worker.
CatalogBacked == \A c \in blobChunks : Id(c) \in disk[c.disc] \cup lost

\* A blob in the catalog has rows for every byte, once: its blocks tile the
\* file without gap or overlap, and each block has one verbatim chunk or
\* exactly the TotalShards shards of a stripe, together long enough.  This is
\* what RetrieveBlob needs to rebuild the file.
CatalogComplete ==
    \A b \in Uploads :
        LET R == RowsOf(b)
            covering(x) == {c \in R : c.offset <= x /\ x < c.offset + c.span}
            group(c) == {x \in R : x.block = c.block}
            shardsAt(c) == {x.shard : x \in group(c)}
        IN  IF blob[b] = "none" THEN R = {}
            ELSE /\ \A x \in 0 .. (size[b] - 1) : Cardinality({c.block : c \in covering(x)}) = 1
                 /\ \A c \in R :
                        /\ c.offset + c.span <= size[b]
                        /\ \A d \in group(c) : d.offset = c.offset /\ d.span = c.span
                        /\ \/ group(c) = {c} /\ c.shard = ShardIndexWhole /\ c.size = c.span
                           \/ /\ Cardinality(group(c)) = TotalShards
                              /\ shardsAt(c) = 0 .. (TotalShards - 1)
                              /\ c.size * DataShards >= c.span

\* Two shards of one stripe are never on one machine, so that no single
\* machine loss costs more than one shard.
StripeSpread ==
    \A c, d \in blobChunks :
        (c.blob = d.blob /\ c.block = d.block /\ c # d) => c.disc # d.disc

\* discs.used_bytes and workers.used_bytes are what the rows of the catalog
\* add up to, across concurrent, failed and half-finished uploads and deletes.
UsageExact ==
    /\ \A m \in Machines : used[m] = Bytes({c \in blobChunks : c.disc = m})
    /\ \A w \in Workers : workerUsed[w] = Bytes({c \in blobChunks : WorkerOf[c.disc] = w})

\* Every StoreFile call returns, whatever the workers do.
UploadsEnd == \A u \in Uploads : pc[u] \in Running ~> pc[u] \notin Running

\* No disc is given more bytes than its capacity_mb, the "maximum capacity" of
\* apps/gateway/docs/tables.md.  It does not hold: used_mb is charged when an
\* upload commits, and placement does not see what it placed before that.
CapacityRespected == \A m \in Machines : used[m] <= CapacityMB * BytesPerMB

\* The system survives the loss of ParityShards nodes, a node being a worker
\* daemon (README.md of the gateway, tables.md): every stripe keeps
\* DataShards shards on the daemons that never went down.  It does not hold:
\* placement spreads a stripe over machines, not over daemons.
SurvivesNodeLoss ==
    \A c \in blobChunks :
        c.shard # ShardIndexWhole /\ Cardinality(everDown) <= ParityShards =>
            Cardinality({x \in RowsOf(c.blob) :
                x.block = c.block /\ WorkerOf[x.disc] \notin everDown}) >= DataShards

\* The program's 16, "Top 16" of docs/placement_strategy.md.
TopSize == TotalShards + ParityShards

\* The machines of a stripe are among the TopSize emptiest of the cluster, as
\* docs/placement_strategy.md describes the selection.  It does not hold: the
\* random half is drawn from every candidate that is left.
StripeFromTheTop ==
    \A t \in SelectMachinesForEC(used, RequiredMB(ShardLen(BlockSize))) :
        \A i \in DOMAIN t :
            Cardinality({m \in BlockMachines : FreeMB(used, m) > FreeMB(used, t[i])}) < TopSize
=============================================================================
