# R10 BLOB Store: TLA+ specifications

R10 stores files as blobs. A Go *gateway* cuts each file into chunks, sends them
to *wkr10* worker daemons and keeps a catalog in PostgreSQL; an Angular page is
the client. These modules model the gateway and the workers as the code has them,
TLC checks them on small instances, and TLAPS proves the most important of their
properties for every value of the constants.

Paths below are relative to the repository (`src/`); `gateway/` and `wkr10/` stand
for `apps/gateway/internal/` and `apps/wkr10/internal/`.

## 1. The system

### Components, their state and operations

| component | code | state | operations |
|---|---|---|---|
| file layout, erasure coding | `gateway/services/storage_service.go`, `erasure_service.go` | none | route a file, cut blocks, encode a stripe, check it ("bracketing") |
| placement | `gateway/services/placement_service.go` | none; reads `discs.used_mb` | `SelectMachine`, `SelectMachinesForEC` |
| storage, writing | `storage_service.go` `StoreFile` | locals of each call; rows of `blobs`, `blob_chunks`, `discs`, `workers` | place, push chunk by chunk, commit |
| storage, reading | `storage_service.go` `RetrieveBlob` | locals of each call | load rows, fetch and verify chunks, rebuild |
| file controller | `gateway/controllers/file_controller.go` | flags of a blob | list, get, download, delete (logical, two statements) |
| upload staging | `gateway/controllers/upload_controller.go` | a directory per upload id | init, put part, complete |
| system user | `upload_controller.go` `defaultOwnerID` | a row of `users` | find or create |
| cluster management | `gateway/services/management_service.go` | topology tables, `jobs`, the root directory | bootstrap job, reset job, job status |
| inline engine | `wkr10/io/inline_engine.go` | a volume file and a mutex per machine | append, read |
| block engine | `wkr10/io/block_engine.go` | a file per chunk | write, read |
| worker client | `gateway/clients/worker_client.go` | none | write, read, each within 60 s |
| web client | `apps/web/src/app` | components' fields | chunked upload, job polling, lists |
| schema, entry points, scripts | `cmd/`, `scripts/` | none | wiring, seeding, test drivers, fault injection |

### How they interact

`upload.service.ts` (or `scripts/lib/upload.sh`) calls *init*, *put* and *complete*
in sequence. *Complete* assembles the parts, resolves the owner and calls
`StoreFile`, which asks placement for machines, pushes every chunk through the
worker client to an engine, and commits the rows and the usage in one transaction;
then the staging directory is removed. A download loads the blob row, then its
chunk rows, then the chunks. Gin runs each request in a goroutine of its own and
the gateway has **no lock**: concurrent calls meet only in the database, in the
staging directory of an upload, and on the discs. The worker's only lock is the
mutex of an inline volume. Management jobs run in goroutines of their own, next
to all of this.

### What is hard here, and what correctness is

* *Write path.* Many concurrent calls; each may fail after any chunk, be cut off by a
  restart, or have its answers lost. Correct when the catalog names only bytes that
  exist, describes each file completely, spreads a stripe, and accounts for usage.
* *Read path.* A download takes many steps while blobs are deleted, uploads commit and
  discs fail. Correct when it returns the uploaded bytes or fails for a reason the
  layout excuses, and always answers.
* *Staging.* Retried, aborted and overlapping requests share files. Correct when what is
  stored is the client's file.
* *Inline engine.* Offset, copy and sync are one critical section per machine, held across
  a network copy. Correct when an acknowledged append stays readable and the lock is
  always released.
* *Worker.* Reads of a path next to appends behind the offset, resets, crashes and I/O errors.
  Correct when a read whose path still leads to its chunk answers what was acknowledged or fails.
* *Usage.* Commits update the same rows in the random order of Go's maps. Correct when each
  is charged whole and once, and none waits for ever.
* *Management.* Long jobs without transactions next to uploads and to each other; a page whose
  polls and timers outlive the job they were started for.

`PROJECT.json` lists each hazard at its line with the properties that watch it.

## 2. Modules

| module | what it is |
|---|---|
| `FileLayout` | pure operators: routing, block and shard lengths, megabytes |
| `Placement` | pure operators: the *set* of answers each placement query may give |
| `WritePath` | `StoreFile`, the catalog, deletion, discs and faults |
| `ReadPath` | extends `WritePath` with downloads; the composed system |
| `BlobStore` | the abstract promise to clients, implemented by `ReadPath` |
| `UploadStaging` | one staging directory with its init, PUTs and completions |
| `InlineEngine` | one inline volume with its appends |
| `Worker` | extends `InlineEngine` with block chunks and reads: one machine of a daemon |
| `UsageCharging` | the commit of `StoreFile` with its row locks |
| `Ledger` | the abstract books, implemented by `UsageCharging` |
| `ClusterTopology` | bootstrap and reset jobs and the reset command, next to uploads |
| `ClusterActions` | the dialog that starts jobs and follows them |
| `Bracketing` | the check of a stripe before it is stored |
| `OwnerLookup` | find or create the system user |
| `MC*` | instances for TLC |
| `StorageService_proofs` | theorems of `FileLayout`, `Placement`, `WritePath`, `ReadPath` and their implementing `BlobStore` |
| `InlineEngine_proofs` | theorems of `InlineEngine` and `Worker` |
| `UploadStaging_proofs` | theorems of `UploadStaging` and `OwnerLookup`, what a completion consists of |
| `*_proofs` (others) | theorems of the module of that name |
| `FoldLemmas` | what `MapThenSumSet` computes, for the sums of `UsageExact` and `UsageCharging` |

### FileLayout, Placement

A file under `InlineThreshold` is one verbatim chunk on an inline machine; otherwise
every full block is a stripe of `DataShards + ParityShards` shards and the rest one
verbatim chunk. `SelectMachinesForEC` sorts the candidates by free space (ties open),
takes half in order and shuffles the rest; the operator returns every function from
shard indexes to machines this may give. Every machine has one disc, so a machine
stands for its disc too. `workers.status` and `discs.status` are never changed by the
repository and filter nothing.

### WritePath

One upload `u` is one call of `StoreFile`. Its locals are `size`, `block`, `offset`,
`shard`, `targets`, `chunks`; `pc` says where it is. A step is what happens between two
awaits: `StoreFile` (open, stat, checksum, rewind; each may fail, and an empty file is refused),
`Place` / `PlaceFails` (one block read, encoded and placed, or an error of any of these), `PushChunk` / `PushFails` (one chunk; on failure the worker may have written it
all the same), `Commit` / `CommitFails` (the transaction; a commit whose answer is lost is
reported as a failure). `chargeUsage` is a part of `Commit`. `FlagDeleted` and
`StampDeleted` are the two statements of a delete. Faults, bounded by `MaxFaults`:
a disc loses one chunk or all, a chunk rots, a daemon stops (and may return), the
gateway restarts. `lost`, `rotten`, `everDown` record them for the properties.

A chunk is `<<blob, block, shard>>`: the fresh uuid `pushChunk` draws. Its path, offset on
disc and checksum follow from it. A dropped request is a push that fails although the
daemon is up, so no separate network is needed.

### ReadPath, BlobStore

One download `d` is one request: `FindBlob`, `LoadChunks`, then `ReadChunk` in the order of
the rows, rebuilding each block after its last chunk, then `FinishDownload` with the two
final checks. `QueryFails` is the 500 of either query, damage or not; `refused` remembers it, and
`missed` the fetches of the current block that failed although the chunk was there. Bytes are abstract: the buffer is how far it reaches and whether it is still
a prefix of the upload; a shard is intact or not, and the chunk's sha256 tells. A worker
that stops and comes back during a download is a fetch that failed.

`BlobStore` knows blobs that are absent, present or deleted, uploaders that were told
"stored" or "failed", and readers with an answer. Its promise: an acknowledged upload is
there, a refused one is there whole or not at all; deletion is for ever and deleted blobs
are not found; bytes that are answered are those that were uploaded; and a reader is refused
only when it was hindered: a query of it failed, or of one block more was out of its reach than
the layout tolerates. The mapping is at the end of `ReadPath` (`ClientSees`).

### UploadStaging

`InitUpload` makes the directory (`MakeDir`) and the manifest (`WriteManifest`), or fails
between (`InitFails`). PUTs write their part file byte by byte at a position of their own,
after truncating it, or are refused (`RefusePut`); an acknowledged PUT whose part is sent again is
`"replaced"`, because its bytes are gone. Completions read the manifest (`OpenUpload`), list the
parts (`ListParts`), truncate `assembled.bin` (`CreateAssembled`) and fill it part by part in
ascending order, compare sizes, and call `StoreFile`, which reads the file twice (checksum, then
chunks). Each of these may fail (`RefuseComplete`, `AssembleFails`, which may leave a part half
copied, `StoreFails`) and leaves staging for the next completion. `RemoveAll` takes file by file (`RemovePart`,
`RemoveManifest`, `Release`); its error is ignored by the code, so it may
stop anywhere (`ReleaseFails`, remembered in `unswept`) and the client is told "stored". A
byte is `<<part, k>>`. What the client may overlap is a constant, because the handlers take no
lock: the repository's clients overlap nothing, a client or proxy that repeats a request whose
first attempt still runs does. `Alone` names the first kind of client.

Simplified: StoreFile's second pass is one step, and a stored blob is a record of both
passes rather than rows; the Stat of a PUT and its os.Create are one step. The file of a client is
not empty and its `total_size` is its length, as the repository's clients send it: a negative
one is bound, and skips the comparison of `SizeExpected`, and is left out with the requests no client
here makes; gin takes 0 for missing.

### InlineEngine

One machine: requests arrive, lock, open and stat, copy byte by byte (`O_APPEND`), sync, and
compare what they received with `X-Chunk-Size`. A body may end early, any call may fail at any
point, and what was copied stays. A crash may lose bytes that were not synced (`LoseBytes`), or the
volume's name, in a directory nobody syncs (`LoseName`): whether fsync of a new file makes its name
durable is the file system's choice, hence `EntriesDurable`. A reset unlinks the file while it is
open, so a volume has *generations*, one per inode. `vol` is indexed by generation and `path`
names the one the directory has. `AckedIntact` speaks of what the path leads to, and not of
generations that a reset removed (`removed`): their bytes are in `vol` for the handlers that still
have them open, and no property reads them otherwise.

### Worker

A machine of a daemon as the gateway's worker client sees it. A block chunk is a file of its
own: made (`CreateFile`), copied (`CopyBlock`), synced, and answered when the bytes received
are those announced. A read opens the chunk's path (`OpenChunk`), and reads at the offset that
the acknowledgement carried as many bytes as the row says (`FinishRead`); a missing file and a short
read are errors, and so is any failing call (`FailRead`). Reads begin only once their chunk was acknowledged, because only then the gateway has
a row of it. `RemoveAll` is what a reset does to both kinds of files, `CrashAll` a crash of
the host, which may cost unsynced bytes and, depending on `EntriesDurable`, names. With `UNCHANGED <<block, reading>>` its steps
are those of `InlineEngine`, which it implements.

### UsageCharging, Ledger

One upload is the transaction that ends `StoreFile`: the inserts (`Insert`), an UPDATE for each
key of `perDisc`, in any order, then for each key of `perWorker`. An UPDATE is asked for
(`Ask`) and gets its row (`Update`) when nobody else has updated it and not ended; it adds to
the row as committed. `draft` is what the transaction would commit. Transactions that wait in
a ring (`Ring`) stay there until PostgreSQL aborts one (`Abort`); `StoreFile` then fails as for
any other error. A `Ledger` books an upload on every row it uses, in one step, or refuses it;
its rows are the committed ones.

`WritePath` has all this as one `Commit`, which is sound because the ledger is implemented.

### ClusterActions

The fields of the component (`showModal`, `jobStatus`, `pollingSub`), the POSTs and polls on
their way, and the timers of two seconds. A poll is an interval whose ticks ask for the
status (`Tick`; `switchMap` cancels the request before, whether the gateway has answered it
(`ReadStatus`) or not) and which ends with the status that
ends the job (`takeWhile`, inclusive). `ngOnDestroy` stops the poll that started last, and no
timer. `Patient` is what the user does: confirm once, wait for the first answer, start
nothing before the job in the dialog has ended. The page asks for none of that.

### ClusterTopology

A job is a *program*, the sequence of its statements: `WipeTopology` is the five DELETEs,
`BuildTopology` the inserts and directories daemon by daemon, `Reset` a wipe and the removal
of the root directory, `CliReset` what the command does. One step of a job is one statement,
because nothing in the code joins them into a transaction. The constraints of the schema
(`MayDelete`: the foreign keys of the models; `MayInsert`: these and the unique name of a
worker) decide whether it succeeds; `FailJob` is the end of a job one of whose statements
failed. Rows carry the name of the job that made them, as they carry fresh uuids in the code.
Status updates ignore their errors (`SetStatus`), and a restart of the gateway leaves jobs as
they are; both are *mishaps*. An upload is reduced to place, push and commit of one chunk.
`OverlappingJobs` says whether a job may start while another runs: the code lets it, an
operator who waits does not. Types, capacities and the statistics are left out.

### Bracketing

The library is a constant from blocks to words (a shard per index). `EncodeBlock` gives any
word: whatever goes wrong before the check. Checkup `n` keeps `Kept(n)`, the code's list
generalised to any `DataShards` and `ParityShards`; with 8 and 4 it is that list. A full block
is a multiple of eight bytes, so there is no padding to compare.

### OwnerLookup

One call is one run of `defaultOwnerID`; `user` is the ID field of its variable, which is what
makes `Reread` look for the wrong row. An insert may be done and its answer lost, in which
case the reread finds it.

## 3. Runs

A stripe is 2+1 shards, a block 8 bytes, a megabyte 2 bytes, the inline threshold 2 bytes.
The code uses 8+4, 32 MB, 1 MB, 128 KB; nothing in it depends on the numbers but through
the comparisons that the small ones exercise on both sides (inline / one block / exact
block / block and tail / two blocks; enough, just enough and too few shards or machines).

| run | instance | properties |
|---|---|---|
| `write_concurrent` | 2 uploads of sizes 1, 8, 11 on 4+1 machines, no faults (`QuietSpec`) | `TypeOK`, `CatalogComplete`, `StripeSpread`, `UsageExact` |
| `reads` | 1 upload of size 0, 1 or 11, 1 download, 2 faults; fair | `ReadTypeOK`, `CatalogBacked`, `FailuresExplained`, `KeepsPromises`, `DownloadsEnd`, `UploadsEnd` |
| `usage_charging` | 4 commits on 3 discs and 2 workers, 1 error; fair | `TypeOK`, `DeadlockNeedsTwo`, `ChargesOnce`, `CommitsEnd` |
| `upload_staging` | 2 parts, each sent up to twice, 2 completions, 1 restart | `TypeOK`, `StoredExact`, `KeptUntilStored`, `StoredOnce` |
| `worker` | appends of 2 and 1 bytes, a block chunk of 2, 1 read, 2 removals, 1 crash; fair | `TypeOK`, `AckedIntact`, `WorkerTypeOK`, `BlocksKept`, `ReadsExact`, `AppendsEnd` |
| `cluster_jobs` | 3 jobs in turn, 2 daemons of 1 machine, 1 upload, 1 error, 1 mishap; fair | `TypeOK`, `LatestStands`, `ChunksExist`, `JobsEnd` |
| `job_dialog` | 3 jobs, a patient user, 1 error; fair | `TypeOK`, `NoCloseInWork`, `DialogGoesOn` |
| `bracketing` | 3+1 shards over three values, every word | `TypeOK`, `PassedIsIntact`, `IntactIsPassed` |
| `owner_lookup` | 3 calls, 2 errors; fair | `OwnerTypeOK`, `OwnersAreOne`, `RetryHelps` |

The four commits meet in pairs on a disc, so that rings of two and of three form; one has two
chunks on one disc (a key, not a chunk, is charged) and one is an inline file, which the
first part of `DeadlockNeedsTwo` says is never a victim. Two removals are the reset under an open
file and one that finds no volume. Three jobs of the dialog are one that is followed, one
whose timer is still running then, and one begun after it.

Three jobs are a topology, one that fails half-way, and one that has to cope with what both
left. Jobs are numbered in the order in which they start, so none is explored twice. One
download is enough, because a download changes nothing that another reads.

Two uploads are enough for the interference the write path has: calls share only `used`
and the catalog, and each commit is atomic. Two faults exceed the one parity shard, so that
both tolerated and intolerable damage occur. Deadlock is not checked: when all requests
are answered the systems stop.

`CHECK_DEADLOCK FALSE` hides no stuck call: `UploadsEnd`, `DownloadsEnd`, `AppendsEnd`,
`CommitsEnd`, `JobsEnd` and `DialogGoesOn` ask for the end of each.

Runs that show where the code and its words part (each expects a violation):

| run | property | what happens |
|---|---|---|
| `node_loss` | `SurvivesNodeLoss` | two shards of a stripe on one daemon, which stops |
| `overlapping_completes` | `StoredReadable` | a second completion truncates `assembled.bin` between the checksum and the chunks |
| `owner_race` | `LoserIsServed` | the loser looks for the winner with its own uuid in the condition |

Further instances, not among the runs of `PROJECT.json`. Two pass: `MCWriteFaults.cfg` has more
file sizes (0, 3, 11, 16) and machines than `reads`, with one fault and no downloads;
`MCInlineEngine.cfg` has three appends and no block chunks. The others have one property that
fails for the reason given:

| config | property | what happens |
|---|---|---|
| `MCWriteCapacity.cfg` | `CapacityRespected` | `used_mb` is charged at commit; both stripes of one file go to discs with room for one |
| `MCWriteTop.cfg` | `StripeFromTheTop` | the documented pool is the 16 emptiest machines; the code draws from all |
| `MCStagingPuts.cfg` | `StoredExact` | a repeated PUT truncates the file under the first, leaving a hole of the right size |
| `MCTopologyBootstraps.cfg` | `BootstrapSucceeds` | two bootstraps at once wipe, then both create the worker of the first name |
| `MCTopologyResets.cfg` | `LatestStands` | a slow reset takes away what the bootstrap after it has built; both report success |
| `MCTopologyHusks.cfg` | `BlobsKeepTheirRows` | a commit between two DELETEs fails the job and leaves blobs listed without chunks |
| `MCTopologyCommand.cfg` | `CliResetSucceeds` | the command deletes no chunks, so any stored file stops it at its first DELETE |
| `MCWorkerEntries.cfg` | `BlocksKept` | on a file system where fsync of a new file does not keep its name, a crash loses an acknowledged chunk |
| `MCActionsHasty.cfg` | `NoCloseInWork` | a user who confirms again before the first answer starts a second job, and the timer of the first closes the dialog on it |
| `MCBracketingMatrix.cfg` | `EveryLossRebuilds` | a matrix that ignores the last data shard passes all checkups (the library's does not ignore it) |

### Fairness

Weak fairness of each running call (`UploadStep`, `DownloadStep`, `Handle` and `HandleAppend`,
`JobStep`, `Lookup`, `Step` of `UsageCharging`): the goroutine is never parked for good, because every request to a worker ends within the 60 s of
`WorkerClient`'s timeout, queries are answered or fail, and a waiter of `sync.Mutex` is
served in turn once it has waited a millisecond. An UPDATE that waits for a row gets it once it
is free, and PostgreSQL looks for rings when a wait lasts a second (`deadlock_timeout`). In the
browser an interval ticks (`Tick`), a timer fires, and the gateway reads the row (`ReadStatus`),
weakly fair each. `Answer \/ PollFails` is strongly fair, and this is an assumption: of the answers
that are on their way again and again some arrives before the next tick cancels it. With a gateway
that takes more than a second for every answer the page shows nothing, for ever. `QueryFails` is
only fair after `FindBlob`, as one of the ways in which a query ends. Nothing is assumed of clients, faults or
repairs: a daemon may stay down for ever, and nobody has to try again.

## 4. Proofs

All are for any number of uploads, downloads, machines, daemons, shards, any sizes and any
number of faults. They rest on the named `ASSUME`s next to the constants (positive sizes,
the two kinds of machines disjoint, `NoBlob` no upload, the chunks of an upload finite and the
like), on the premises named below (`MDS`, `Alone`, `EntriesDurable`, `~OverlappingJobs`, `Patient`) where a
theorem has one, and nothing else.

**Storage service** (`StorageService_proofs`)

* Layout: rounding up covers (`RoundUp`), hence the shards of a stripe hold the block
  (`ShardsCoverBlock`) and a placement asks for enough (`RequiredMBCoversChunk`); a read inside
  a file advances and never passes its end (`ReadLenBounds`).
* `TypeCorrect`. `TypeOK` alone is not inductive: that the offset stays in
  the file needs `LoopInv` (a call that places or pushes is before the end of its file) and
  that a pushed row is well typed needs that placement answered with a machine for every
  shard (`PlacementsSound`).
* `StripesSpread`. `SpreadInv` adds that only ended uploads have rows, that the rows a running
  call holds are spread, and that each is *behind* the loop: of an earlier block, or of an
  earlier shard of this one on that shard's target. Distinct targets do the rest.
* `CatalogIsBacked`. `BackedInv` adds that rows a call holds, not yet committed, are backed
  too; a chunk only leaves a disc by being lost (`BytesKept`).
* `CatalogIsComplete`. `CompleteInv` says that the rows a running call holds are those of every
  block before the one it is at, plus the shards of that one it has pushed, each as long as its
  block asks for, and that the offset is where that block begins. When the loop ends, the
  blocks tile the file, because they begin one block apart (`BlockStarts`) and only the last may
  be shorter (`LayoutCovers`).
* `UsageIsExact`. `Commit` adds the rows of one call to the catalog and their sizes to
  the counters: the rows are new (`SpreadInv` again), so the sum over both is the sum of the
  sums, which is `SizeSumUnion`.
* `ImplementsWritePath`: every step of the composition with downloads is a step or stutter of the
  write path, so all of the above holds next to reads.
* `ReadTypesHold`, `FailuresAreExplained`. `ReadInv` relates a download to the rows it was given:
  they are a complete layout in the order of the query, the ones it has still to fetch are a
  tail of that order, and the buffer is where the first of them begins; what it has counted
  of the block it is in is what it could fetch, and each chunk that it could not fetch is one that
  a fault struck or whose fetch failed (`missed`). So a download that fails was refused a query, or
  too much of one block was out of its reach; and the buffer never outgrows the file.
* `PromisesAreKept`: `ReadPath` implements `BlobStore`, under the mapping `ClientSees`. `Commit` is a
  `Put`, whether its answer arrives or not; `FlagDeleted` the `Delete`, and `StampDeleted` shows
  nothing; `FindBlob` is a `Find`, the last chunk a `Deliver`, a failure a `GiveUp`, whose guard (the
  reader is hindered) is what `ReadInv` provides. That the bytes delivered are
  the upload needs that the final checks of size and checksum see a whole, exact buffer.

**Sums** (`FoldLemmas`). `MapThenSumSet` is a recursion over a set, and the library's induction
theorems cannot be used here because they take the formula as a parameter. But a property that fails for
some subset of a finite set fails for a smallest one (`MinimalSubset`, from the
well-foundedness of the strict subset relation), and a smallest one contradicts the recursion. So the sum
exists, is a natural number, does not depend on the order (`SizeSumRemove`), and is additive
(`SizeSumUnion`). `FlattenSeq` yields to the same argument over lengths (`FlattenElements` in
`ClusterTopology_proofs`).

**Usage, staging, engines, bracketing, owner**

* `UsageCharging_proofs!DeadlocksNeedTwo`. The invariant has three parts. `Shape`: the types
  without the amounts. `Locks`: what a transaction holds, asks for and has left are disjoint and
  together the keys of the loops it has begun, so nobody in the loop of the discs holds a
  worker, and nobody waits for a row it holds. In a ring nobody can be left out
  (`RingIsTight`), so each is waited for, hence holds a row of the kind the waiter asks for; a
  waiter for a worker can only wait for a transaction that is in the second loop, and around
  the ring all are in the same one. Each holds one key of it and asks for another, so it has two.
* `UsageCharging_proofs!TypesHold`: the counters stay natural numbers, because the sums are.
* `Implements`: `Commit` is `Book`, `Abort` and `Fail` are `Refuse`, the rest stutters. It needs
  `Drafts`: what a holder would commit is the committed row plus its charge, because nobody
  else commits that row meanwhile; and at `Commit` it holds exactly the rows it uses (`Locks`).
* `UploadStaging_proofs`: `TypeCorrect`, `StoredIsExact`, `AcknowledgedIsKept` and
  `AnsweredIsFinal`, for files and parts of any size, any number of requests and restarts, and
  clients that overlap nothing (`Alone`; the runs with overlap violate them). `IInv` says that at
  most one request runs (`Apart`), that an acknowledged part that was not sent again is the
  client's slice on disc (`Sent`), that `assembled.bin` is the file up to where the copy is (`Staged`: `Copied`), that
  nothing was stored but the file, and that the directory is only taken apart after (`Swept`).
  The copy needs no induction over the parts: sizes are compared at the end, and a copy whose
  bytes so far end at part `k` is about to copy part `k + 1`.
* `InlineEngine_proofs!TypeCorrect`: the holder of the mutex is exactly the handler that runs.
* `AckedStaysIntact`, with the premise `EntriesDurable`. `IInv` adds that the handler that has the
  file open owns its end (offset plus bytes sent is the length), and that what was synced covers
  what was acknowledged, so that a crash spares its bytes. `Placed` says that a file that was
  acknowledged from was flushed, so that a crash spares its name, and that a handler's file is the
  one the path leads to unless a reset or a crash took it.
* `ImplementsEngine`: every step of a `Worker` is a step or stutter of the engine, so
  `AckedIntact` holds next to reads and block chunks (`AckedStaysIntactInWorker`).
* `WorkerTypeCorrect`, `ReadsAreExact`, `BlocksAreKept`. A name that was taken never comes back:
  generations are opened in ascending order (`PathInv`), and a chunk file has one writer (`FileInv`);
  so a chunk that is `Gone` stays so (`EngineStep`, `GoneStays`). While it is not, the file that a read
  opens is its own (`NamedIsHome`), and what it finds there at the offset is what was acknowledged
  (`ReadStep`). `ReadsAreExact` has no premise; `BlocksAreKept` has `EntriesDurable`.
* `Bracketing_proofs`: every checkup keeps exactly `DataShards` shards and every shard is kept
  by some checkup; so shards that pass all of them (`PassedSoFar`) are the encoding of the
  block, whatever the code. That right shards pass needs that the code is one in which any
  `DataShards` shards determine the block (`MDS`), an explicit premise of the theorem.
* `UploadStaging_proofs!OwnerTypeCorrect`, `OneOwner`, about `OwnerLookup`, which shares nothing
  with the staging: well typed; at most one row (`OneRow`), and answered calls hold the id
  of a row.

**Cluster management** (`ClusterTopology_proofs`), for any list of daemons, those without a machine
included, any kinds and number of jobs, uploads, errors and mishaps

* The programs: what statements they consist of, for every list (`BuildElements`), and where
  the statements of each kind are (`Positions`): DELETEs first in the order of the foreign keys,
  the removal of the directory last.
* `TypeCorrect`, jobs that overlap included. `TypeOK` alone does not tell what a job is about
  to insert: `JobInv` says that a started job is at a line of the program of its kind and that jobs
  start in turn, `RowInv` and `UploadInv` that rows, directories and targets are those of jobs that
  started, so that a job that starts finds nothing of its name.
* `ChunksStay` and `LatestIsBuilt`, with the premise `~OverlappingJobs`; the jobs that overlap
  violate the second (`MCTopologyResets.cfg`). `SerialInv`: at most the latest job runs, and
  "success" is said only at the end of a program. `WipeInv`: a table that the job has wiped holds
  exactly what the job has put there since (`Built`, `Made`), whatever uploads do, and blobs no more
  than chunks. `GoneInv`: once a reset has emptied `discs` there is no chunk either, and
  no upload can add one, since its disc is gone. `OwnInv`: an upload that was given a disc of the latest
  job finds it at its commit. `FilesInv`, the heart of it: a chunk that is pushed and whose disc
  is still there has its bytes. A removal of the directory comes when no disc is left
  (`GoneInv`), and a disc that is inserted is not the target of an upload that lost its
  bytes before (`OwnInv`). At the end of the program `AllBuilt` and `NothingBuilt` turn `Built` into
  the topology, or into nothing. All of these were checked by TLC before they were proved.

**The dialog** (`ClusterActions_proofs`), for any finite set of jobs and any number of failing requests

* `TypeCorrect`. That the timers are no more than the jobs that have ended is not inductive: it
  needs that each timer was started by the *last* answer about its job. `TimersInv` counts the
  jobs that ended and that no request is about any more (`Reported`): an answer that starts a
  timer adds one to both. That it may do so, because a job that was said to have ended stays so,
  is in `Types`: a late answer is never ahead of the job.
* `NoCloseOnWork`, with the premise `Patient`; the hasty user violates it
  (`MCActionsHasty.cfg`). `PatientInv` says that at most one job has a request under way, and none
  while the dialog shows an end. A timer, its own or left over, closes the dialog only when it shows
  "success", hence when nothing is in work.

Only model-checked: everything temporal beyond `[]` (`UploadsEnd`,
`DownloadsEnd`, `AppendsEnd`, `CommitsEnd`, `JobsEnd`, `DialogGoesOn`, `RetryHelps`): liveness under
fairness, and ENABLED with it, are out of the prover's reach. The violations of section 3 are
TLC's counterexamples, too.

## 5. Not modelled

* The list of uploads of the page: numbers by file name that nothing else reads.
* `ListFiles`, `GetFile`, the list of workers and the statistics only read, and keep nothing.
* The `MkdirAll` of the root directory in `BuildTopology`, no machine's directory: a job that fails
  in it ends as one whose first insert fails.
* What becomes of the bytes of an append that is acknowledged after a reset has unlinked its file, and
  a reset whose removal a crash of the host undoes: nothing in the code or its documents says.
* A library that aliases: the data shards of `Split` are the block, so what damages one before it is
  encoded makes it another block. `Bracketing` keeps both apart, and has those behaviours from the
  other block.
* Directories of uploads that are never completed, and chunks of uploads that failed: no code
  looks for them again, so there is no behaviour to model beyond that they stay.
* Authentication of the page, schema creation, routing, `Write` of both engines (no caller),
  backup and memblock32 tables (no code).
* A reset of the cluster is not an action of `WritePath`, whose properties are about a topology
  that stays; `ClusterTopology` has uploads in less detail.
* In `WritePath` and `ReadPath` a chunk that was acknowledged is on its disc, under its name, until
  a fault takes it; `Worker` says on which file systems that is so. sha256 is taken as
  collision-free; any `DataShards` intact shards rebuild a block.

## 6. Plan

Done: 1 `FileLayout`, `Placement`; 2 `WritePath`; 3 `ReadPath` and `BlobStore`;
4 `InlineEngine` and `Worker`; 5 `UploadStaging`; 6 `ClusterTopology`; 7 `Bracketing`,
`OwnerLookup`; 8 `UsageCharging` and `Ledger`; 9 `ClusterActions`; proofs of all of them, the
refinements of `WritePath`, `BlobStore`, `InlineEngine` and `Ledger` among them.

Next, in order of weight:

1. An abstract cluster (no topology, this topology, being changed) that the serial jobs of
   `ClusterTopology` implement; `WipeInv` and `GoneInv` are what its refinement needs.
2. `GetFile`'s two queries, and the progress list of the page, should either begin to matter
   to anything else.
