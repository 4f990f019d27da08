------------------------------- MODULE ReadPath -----------------------------
(***************************************************************************)
(* The read path of the gateway, FileController.DownloadFile and           *)
(* StorageService.RetrieveBlob, composed with the write path it runs next  *)
(* to: uploads that commit, blobs that are deleted and discs that fail     *)
(* while a download is under way.                                          *)
(*                                                                         *)
(* Each download d is one request.  A step is one query or one chunk       *)
(* fetched from a worker; what the gateway computes on the bytes it has is *)
(* part of the step that fetched the last of them.                         *)
(*                                                                         *)
(* Bytes are abstract: out is how far the buffer reaches and whether it is *)
(* a prefix of what was uploaded; a shard is intact or not.                *)
(***************************************************************************)
EXTENDS WritePath

CONSTANTS
    Downloads,   \* the download requests of a behaviour
    NoBlob       \* a value that is no blob

ASSUME ReadPathAssumption == NoBlob \notin Uploads

VARIABLES
    rpc,    \* where the request is
    want,   \* the blob row findBlob loaded
    locs,   \* locations still to be read: rows, as they were when loaded
    got,    \* shards of the current block that passed their checksum
    out,    \* the buffer: [len, exact]
    \* what went wrong for the request, for the properties to refer to
    refused,  \* a query of the request failed
    missed    \* rows of the current block not fetched, though there and intact

mishapVars == <<refused, missed>>
readVars   == <<rpc, want, locs, got, out, mishapVars>>
vars       == <<writeVars, readVars>>

Fetching == {"found", "reading"}
\* "missing" is 404, "error" is 500, "dropped" is a connection the restart of
\* the gateway closed.
Answers  == {"ok", "missing", "error", "dropped"}

(***************************************************************************)
(* DownloadFile                                                            *)
(***************************************************************************)
Answer(d, answer) ==
    /\ rpc' = [rpc EXCEPT ![d] = answer]
    /\ locs' = [locs EXCEPT ![d] = {}]
    /\ got' = [got EXCEPT ![d] = {}]

\* findBlob: deleted = false and no deleted_at.
Visible(b) == blob[b] = "live"

\* Mutant: the filter on deleted is forgotten.
FindAnyBlob(d) ==
    /\ rpc[d] = "idle"
    /\ \E b \in Uploads :
        /\ blob[b] # "none"
        /\ rpc' = [rpc EXCEPT ![d] = "found"]
        /\ want' = [want EXCEPT ![d] = b]
    /\ UNCHANGED <<locs, got, out, mishapVars, writeVars>>

FindBlob(d) ==
    /\ rpc[d] = "idle"
    /\ \E b \in Uploads :
        \/ /\ Visible(b)
           /\ rpc' = [rpc EXCEPT ![d] = "found"]
           /\ want' = [want EXCEPT ![d] = b]
        \/ /\ ~Visible(b)
           /\ rpc' = [rpc EXCEPT ![d] = "missing"]
           /\ UNCHANGED want
    /\ UNCHANGED <<locs, got, out, mishapVars, writeVars>>

\* The database does not answer a query: findBlob's, or the one at the head of
\* RetrieveBlob.  The client gets 500, damage or not.
QueryFails(d) ==
    /\ rpc[d] \in {"idle", "found"}
    /\ Answer(d, "error")
    /\ refused' = [refused EXCEPT ![d] = TRUE]
    /\ UNCHANGED <<want, out, missed, writeVars>>

\* The query at the head of RetrieveBlob.  It does not look at deleted.
LoadChunks(d) ==
    /\ rpc[d] = "found"
    /\ IF RowsOf(want[d]) = {}
       THEN Answer(d, "error")
       ELSE /\ rpc' = [rpc EXCEPT ![d] = "reading"]
            /\ locs' = [locs EXCEPT ![d] = RowsOf(want[d])]
            /\ UNCHANGED got
    /\ UNCHANGED <<want, out, mishapVars, writeVars>>

\* ORDER BY block_index, shard_index.
Before(c, e) == c.block < e.block \/ (c.block = e.block /\ c.shard <= e.shard)
NextLocation(d) == CHOOSE c \in locs[d] : \A e \in locs[d] : Before(c, e)

\* The sha256 of readChunkVerified.
ChunkVerified(c, intact) == intact

\* WorkerClient.ReadChunk: an answer of c.size bytes.
Readable(c) == Reachable(c.disc) /\ Id(c) \in disk[c.disc]
Intact(c)   == Id(c) \notin rotten

\* Mutant: off by one.
MoreThanEnoughShards(n) == n > DataShards

\* readBlock's test before it reconstructs.
EnoughShards(n) == n >= DataShards

\* Mutant: all the shards are written, padding and parity included.
ExtendByShards(buffer, c, shards) ==
    [len |-> buffer.len + TotalShards * c.size, exact |-> FALSE]

\* What a block adds to the buffer: Join writes LogicalSize bytes.  The buffer
\* stays a prefix of the file if the block is the next one and its shards are
\* the bytes that were encoded.
Extend(buffer, c, shards) ==
    [len |-> buffer.len + c.span,
     exact |-> buffer.exact /\ c.offset = buffer.len /\ \A g \in shards : g.intact]

\* Mutant: the block is tried again instead.
BlockRetried(d) == UNCHANGED <<rpc, locs, got, out>>

\* readBlock fails, and RetrieveBlob with it.
BlockFails(d) == Answer(d, "error") /\ UNCHANGED out

\* One chunk of the current block is fetched, or is not although it could be:
\* the request is lost, times out or fails on the worker.  After the last one
\* the block is rebuilt and written to the buffer.
ReadChunk(d) ==
    /\ rpc[d] = "reading"
    /\ locs[d] # {}
    /\ \E delivered \in BOOLEAN :
       LET c    == NextLocation(d)
           good == Readable(c) /\ ChunkVerified(c, Intact(c))
           ok   == good /\ delivered
           have == got[d] \cup (IF ok THEN {[shard |-> c.shard, intact |-> Intact(c)]} ELSE {})
           rest == locs[d] \ {c}
           last == \A e \in rest : e.block # c.block
           need == IF c.shard = ShardIndexWhole THEN ok ELSE EnoughShards(Cardinality(have))
           miss == missed[d] \cup {x \in {c} : good /\ ~delivered}
       IN  IF ~last
           THEN /\ locs' = [locs EXCEPT ![d] = rest]
                /\ got' = [got EXCEPT ![d] = have]
                /\ missed' = [missed EXCEPT ![d] = miss]
                /\ UNCHANGED <<rpc, out>>
           ELSE IF need
           THEN /\ locs' = [locs EXCEPT ![d] = rest]
                /\ got' = [got EXCEPT ![d] = {}]
                /\ out' = [out EXCEPT ![d] = Extend(@, c, have)]
                /\ missed' = [missed EXCEPT ![d] = {}]
                /\ UNCHANGED rpc
           ELSE /\ BlockFails(d)
                /\ missed' = [missed EXCEPT ![d] = miss]
    /\ UNCHANGED <<want, refused, writeVars>>

\* The two checks at the end of RetrieveBlob: the length, then the sha256 of
\* the whole file.
SizeMatches(d)     == out[d].len = size[want[d]]
ChecksumMatches(d) == out[d].exact

FinishDownload(d) ==
    /\ rpc[d] = "reading"
    /\ locs[d] = {}
    /\ Answer(d, IF SizeMatches(d) /\ ChecksumMatches(d) THEN "ok" ELSE "error")
    /\ UNCHANGED <<want, out, mishapVars, writeVars>>

\* The gateway restarts: uploads and downloads under way are gone.
GatewayCrash ==
    /\ CrashUploads
    /\ rpc' = [d \in Downloads |-> IF rpc[d] \in Fetching THEN "dropped" ELSE rpc[d]]
    /\ locs' = [d \in Downloads |-> {}]
    /\ got' = [d \in Downloads |-> {}]
    /\ UNCHANGED <<want, out, mishapVars>>

(***************************************************************************)
(* The specification                                                       *)
(***************************************************************************)
ReadInit ==
    /\ rpc = [d \in Downloads |-> "idle"]
    /\ want = [d \in Downloads |-> NoBlob]
    /\ locs = [d \in Downloads |-> {}]
    /\ got = [d \in Downloads |-> {}]
    /\ out = [d \in Downloads |-> [len |-> 0, exact |-> TRUE]]
    /\ refused = [d \in Downloads |-> FALSE]
    /\ missed = [d \in Downloads |-> {}]

Init == WriteInit /\ ReadInit

\* QueryFails(d) also fails findBlob's query, which no fairness calls for.
DownloadStep(d) ==
    \/ LoadChunks(d) \/ ReadChunk(d) \/ FinishDownload(d)
    \/ rpc[d] = "found" /\ QueryFails(d)

Next ==
    \/ \E u \in Uploads : (UploadStep(u) \/ ClientStep(u)) /\ UNCHANGED readVars
    \/ FaultStep /\ UNCHANGED readVars
    \/ \E d \in Downloads : FindBlob(d) \/ QueryFails(d) \/ DownloadStep(d)
    \/ GatewayCrash

Spec == Init /\ [][Next]_vars

\* A download that found its blob always takes its next step: queries are
\* answered or fail, and WorkerClient gives every fetch 60 s.
FairSpec ==
    /\ Spec
    /\ \A u \in Uploads : WF_vars(UploadStep(u) /\ UNCHANGED readVars)
    /\ \A d \in Downloads : WF_vars(DownloadStep(d))

(***************************************************************************)
(* Properties                                                              *)
(***************************************************************************)
\* The type invariant; the buffer never outgrows the file.
ReadTypeOK ==
    /\ rpc \in [Downloads -> {"idle"} \cup Fetching \cup Answers]
    /\ want \in [Downloads -> Uploads \cup {NoBlob}]
    /\ locs \in [Downloads -> SUBSET Chunk]
    /\ got \in [Downloads -> SUBSET [shard : Int, intact : BOOLEAN]]
    /\ out \in [Downloads -> [len : Nat, exact : BOOLEAN]]
    /\ refused \in [Downloads -> BOOLEAN]
    /\ missed \in [Downloads -> SUBSET Chunk]
    /\ \A d \in Downloads : want[d] \in Uploads => out[d].len <= size[want[d]]

\* What may make a chunk unreadable for good, or made it so for a while.
Suspect(c) ==
    \/ Id(c) \in lost \cup rotten
    \/ WorkerOf[c.disc] \in everDown

\* How many chunks of its block the blob can do without.
Spare(c) == IF c.shard = ShardIndexWhole THEN 0 ELSE ParityShards

\* The chunks of a block of which the download may have had nothing.
OutOfReach(d, c) ==
    {x \in RowsOf(want[d]) : x.block = c.block /\ (Suspect(x) \/ x \in missed[d])}

\* Of one block, more is out of reach than its layout is meant to survive.
Starved(d) == \E c \in RowsOf(want[d]) : Cardinality(OutOfReach(d, c)) > Spare(c)

\* A download fails only when the database refused it a query, or when faults
\* struck, or fetches that failed missed, more chunks of one block than the
\* layout tolerates.  Deletion, a concurrent upload, corruption that the
\* chunk checksum catches, daemons that come and go or fetches that fail here
\* and there never make it fail.
FailuresExplained ==
    \A d \in Downloads : rpc[d] = "error" => refused[d] \/ Starved(d)

\* Every download that found its blob is answered.
DownloadsEnd == \A d \in Downloads : rpc[d] \in Fetching ~> rpc[d] \in Answers

(***************************************************************************)
(* What the clients see                                                    *)
(***************************************************************************)
StoreState(b) ==
    CASE blob[b] = "none" -> "absent"
      [] Visible(b)       -> "present"
      [] OTHER            -> "deleted"

ClientSees == INSTANCE BlobStore WITH
    Blobs    <- Uploads,
    Readers  <- Downloads,
    store    <- [b \in Uploads |-> StoreState(b)],
    ack      <- [b \in Uploads |->
                    IF pc[b] \in {"stored", "failed"} THEN pc[b] ELSE "pending"],
    hindered <- {d \in Downloads : refused[d] \/ Starved(d)},
    reader   <- [d \in Downloads |-> IF rpc[d] \in Fetching THEN "reading" ELSE rpc[d]],
    target   <- want,
    answer   <- [d \in Downloads |->
                    IF rpc[d] = "ok" /\ out[d] = [len |-> size[want[d]], exact |-> TRUE]
                    THEN want[d] ELSE NoBlob]

\* The gateway, the catalog and the workers together keep the promises of
\* BlobStore.
KeepsPromises == ClientSees!StoreSpec
=============================================================================
