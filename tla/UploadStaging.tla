----------------------------- MODULE UploadStaging --------------------------
(***************************************************************************)
(* The staging of one chunked upload (upload_controller.go): the PUTs of   *)
(* its parts, the POSTs that complete it, and the directory they share.    *)
(* Uploads have directories of their own and share nothing else.           *)
(*                                                                         *)
(* The handlers take no lock, so what keeps two of them apart is only what *)
(* the client does.  The two Overlapping constants say whether the client  *)
(* (or a proxy that repeats a request) may have two PUTs of one part, or   *)
(* two completions, under way at a time; the web client of the repository  *)
(* (upload.service.ts) and scripts/lib/upload.sh never do.                 *)
(*                                                                         *)
(* A byte is <<part, k>>; Zero is a byte nobody wrote.  StoreFile reads    *)
(* the assembled file twice, for the checksum and for the chunks, and both *)
(* are kept with the blob it stores: they must be the same bytes.          *)
(***************************************************************************)
EXTENDS Integers, Sequences, FiniteSetsExt

CONSTANTS
    TotalSize,             \* total_size of the manifest
    SliceSize,             \* bytes of a part, the last may be shorter
    Inline,                \* is the file below InlineThreshold?
    Puts,                  \* the PUT requests of a behaviour
    PartOf,                \* the part each of them carries
    Completes,             \* the complete requests of a behaviour
    OverlappingPuts,       \* may two PUTs of a part run at once?
    OverlappingCompletes,  \* may two completions run at once?
    MaxRestarts            \* bound on the restarts of the gateway

ASSUME StagingAssumption ==
    /\ TotalSize \in Nat \ {0}
    /\ SliceSize \in Nat \ {0}
    /\ Inline \in BOOLEAN
    /\ OverlappingPuts \in BOOLEAN
    /\ OverlappingCompletes \in BOOLEAN
    /\ MaxRestarts \in Nat

\* Math.ceil(file.size / SLICE_SIZE), and file.slice(start, end).
Parts == 1 .. ((TotalSize + SliceSize - 1) \div SliceSize)
PartLen(p) ==
    IF p * SliceSize <= TotalSize THEN SliceSize ELSE TotalSize - (p - 1) * SliceSize

ASSUME PartOfAssumption == PartOf \in [Puts -> Parts]

Zero == <<0, 0>>

\* The file as the client has it.
Whole == [i \in 1 .. TotalSize |->
            <<((i - 1) \div SliceSize) + 1, ((i - 1) % SliceSize) + 1>>]

\* A part of it.
Slice(p) == [k \in 1 .. PartLen(p) |-> <<p, k>>]

VARIABLES
    init,       \* where InitUpload is
    dir,        \* is the staging directory there?
    manifest,   \* is the manifest in it?
    made,       \* the parts that have a file
    part,       \* the bytes of each part file
    assembled,  \* the bytes of assembled.bin
    put,        \* where each PUT is
    pos,        \* how many bytes of its body it has written
    comp,       \* where each completion is
    todo,       \* the listed parts it has not copied yet
    total,      \* the bytes it copied
    sum,        \* the bytes it took the checksum of
    blobs,      \* the blobs stored
    unswept,    \* the completions whose RemoveAll failed
    restarts    \* restarts so far

dirVars  == <<init, dir, manifest>>
putVars  == <<put, pos, made, part>>
compVars == <<comp, todo, total, sum, assembled, blobs, unswept>>
vars     == <<dirVars, putVars, compVars, restarts>>

InitPlaces == {"idle", "made", "answered", "failed"}
\* A PUT that was acknowledged is "replaced" by a later one that truncates its part.
PutPlaces  == {"idle", "writing", "ok", "replaced", "failed"}
CompPlaces == {"idle", "opened", "listed", "assembling", "staged", "hashed", "stored",
               "done", "failed"}

PutRunning(q)  == put[q] = "writing"
CompRunning(c) == comp[c] \notin {"idle", "done", "failed"}

\* write(2) of data at position at: a gap is filled with zeros.
WriteAt(f, at, data) ==
    [i \in 1 .. Max({Len(f), at + Len(data)}) |->
        IF i \in (at + 1) .. (at + Len(data)) THEN data[i - at]
        ELSE IF i <= Len(f) THEN f[i] ELSE Zero]

(***************************************************************************)
(* The client                                                              *)
(***************************************************************************)
\* A PUT is sent when no completion runs and, unless they may overlap, no
\* other PUT of the part.
MayPut(q) ==
    /\ init = "answered"
    /\ \A c \in Completes : ~CompRunning(c)
    /\ OverlappingPuts \/ \A r \in Puts : PartOf[r] = PartOf[q] => ~PutRunning(r)

\* Every part was acknowledged by some PUT.
AllAcknowledged ==
    \A p \in Parts : \E q \in Puts : PartOf[q] = p /\ put[q] \in {"ok", "replaced"}

\* A completion is sent when no PUT runs, however many parts were sent, or,
\* when PUTs may overlap, as soon as every part was acknowledged once.
MayComplete(c) ==
    /\ init = "answered"
    /\ (OverlappingPuts /\ AllAcknowledged) \/ \A q \in Puts : ~PutRunning(q)
    /\ OverlappingCompletes \/ \A d \in Completes : ~CompRunning(d)

(***************************************************************************)
(* InitUpload                                                              *)
(***************************************************************************)
MakeDir ==
    /\ init = "idle"
    /\ init' = "made"
    /\ dir' = TRUE
    /\ UNCHANGED <<manifest, putVars, compVars, restarts>>

\* The manifest is written and the client learns the id.
WriteManifest ==
    /\ init = "made"
    /\ init' = "answered"
    /\ manifest' = TRUE
    /\ UNCHANGED <<dir, putVars, compVars, restarts>>

\* MkdirAll or WriteFile fails: the client has no id, and what was made stays.
InitFails ==
    /\ init \in {"idle", "made"}
    /\ init' = "failed"
    /\ UNCHANGED <<dir, manifest, putVars, compVars, restarts>>

(***************************************************************************)
(* UploadPart                                                              *)
(***************************************************************************)
\* Mutant: the part file is opened without truncating it.
KeepPart(p) == UNCHANGED part

\* os.Create truncates the file of an earlier PUT.
TruncatePart(p) == part' = [part EXCEPT ![p] = <<>>]

\* What earlier PUTs of the part were acknowledged for is gone.
Replaced(q) ==
    [r \in Puts |-> IF r = q THEN "writing"
                    ELSE IF PartOf[r] = PartOf[q] /\ put[r] = "ok" THEN "replaced"
                    ELSE put[r]]

\* Stat finds the directory, and the part file is created in it.
CreatePart(q) ==
    /\ put[q] = "idle"
    /\ MayPut(q)
    /\ dir
    /\ TruncatePart(PartOf[q])
    /\ made' = made \cup {PartOf[q]}
    /\ put' = Replaced(q)
    /\ UNCHANGED <<dirVars, pos, compVars, restarts>>

\* There is no directory, or os.Create fails in it.
RefusePut(q) ==
    /\ put[q] = "idle"
    /\ MayPut(q)
    /\ put' = [put EXCEPT ![q] = "failed"]
    /\ UNCHANGED <<dirVars, pos, made, part, compVars, restarts>>

\* One write of io.Copy, at the position this handler has reached.
WritePart(q) ==
    /\ PutRunning(q)
    /\ pos[q] < PartLen(PartOf[q])
    /\ part' = [part EXCEPT ![PartOf[q]] = WriteAt(@, pos[q], <<(<<PartOf[q], pos[q] + 1>>)>>)]
    /\ pos' = [pos EXCEPT ![q] = @ + 1]
    /\ UNCHANGED <<dirVars, put, made, compVars, restarts>>

AnswerPut(q) ==
    /\ PutRunning(q)
    /\ pos[q] = PartLen(PartOf[q])
    /\ put' = [put EXCEPT ![q] = "ok"]
    /\ UNCHANGED <<dirVars, pos, made, part, compVars, restarts>>

\* The connection breaks or a write fails; what was written stays.
BreakPut(q) ==
    /\ PutRunning(q)
    /\ put' = [put EXCEPT ![q] = "failed"]
    /\ UNCHANGED <<dirVars, pos, made, part, compVars, restarts>>

(***************************************************************************)
(* CompleteUpload                                                          *)
(***************************************************************************)
CompleteFails(c) == comp' = [comp EXCEPT ![c] = "failed"]

\* Stat and readManifest.
OpenUpload(c) ==
    /\ comp[c] = "idle"
    /\ MayComplete(c)
    /\ dir /\ manifest
    /\ comp' = [comp EXCEPT ![c] = "opened"]
    /\ UNCHANGED <<dirVars, putVars, todo, total, sum, assembled, blobs, unswept, restarts>>

\* ReadDir, with a part at least.
ListParts(c) ==
    /\ comp[c] = "opened"
    /\ made # {}
    /\ comp' = [comp EXCEPT ![c] = "listed"]
    /\ todo' = [todo EXCEPT ![c] = made]
    /\ UNCHANGED <<dirVars, putVars, total, sum, assembled, blobs, unswept, restarts>>

\* os.Create truncates assembled.bin.
CreateAssembled(c) ==
    /\ comp[c] = "listed"
    /\ dir
    /\ comp' = [comp EXCEPT ![c] = "assembling"]
    /\ assembled' = <<>>
    /\ UNCHANGED <<dirVars, putVars, todo, total, sum, blobs, unswept, restarts>>

\* No directory, no manifest or no part, or an error of any of these calls.
RefuseComplete(c) ==
    /\ (comp[c] = "idle" /\ MayComplete(c)) \/ comp[c] \in {"opened", "listed"}
    /\ CompleteFails(c)
    /\ UNCHANGED <<dirVars, putVars, todo, total, sum, assembled, blobs, unswept, restarts>>

\* Mutant: the parts are copied in the order the directory lists them.
AnyPart(S, p) == TRUE

\* sort.Strings of the zero-padded names.
NextPart(S, p) == \A r \in S : p <= r

\* One part is opened and copied.
CopyPart(c, p) ==
    /\ p \in made
    /\ assembled' = WriteAt(assembled, total[c], part[p])
    /\ total' = [total EXCEPT ![c] = @ + Len(part[p])]
    /\ todo' = [todo EXCEPT ![c] = @ \ {p}]

AppendPart(c) ==
    /\ comp[c] = "assembling"
    /\ \E p \in todo[c] : NextPart(todo[c], p) /\ CopyPart(c, p)
    /\ UNCHANGED <<dirVars, putVars, comp, sum, blobs, unswept, restarts>>

\* A part cannot be opened, it is gone or the call fails; io.Copy fails after
\* n bytes of one; or Sync fails when all are copied.
AssembleFails(c) ==
    /\ comp[c] = "assembling"
    /\ CompleteFails(c)
    /\ \/ UNCHANGED assembled
       \/ \E p \in todo[c] : \E n \in 1 .. Len(part[p]) :
             /\ NextPart(todo[c], p)
             /\ assembled' = WriteAt(assembled, total[c], SubSeq(part[p], 1, n))
    /\ UNCHANGED <<dirVars, putVars, todo, total, sum, blobs, unswept, restarts>>

\* The comparison with the manifest, if it has a size.
SizeExpected(n) == TotalSize > 0 => n = TotalSize

CheckSize(c) ==
    /\ comp[c] = "assembling"
    /\ todo[c] = {}
    /\ comp' = [comp EXCEPT ![c] = IF SizeExpected(total[c]) THEN "staged" ELSE "failed"]
    /\ UNCHANGED <<dirVars, putVars, todo, total, sum, assembled, blobs, unswept, restarts>>

\* StoreFile opens the file, refuses an empty one and takes the checksum.
HashFile(c) ==
    /\ comp[c] = "staged"
    /\ dir /\ assembled # <<>>
    /\ comp' = [comp EXCEPT ![c] = "hashed"]
    /\ sum' = [sum EXCEPT ![c] = assembled]
    /\ UNCHANGED <<dirVars, putVars, todo, total, assembled, blobs, unswept, restarts>>

\* StoreFile reads the file again, through the handle it has, and commits.  A
\* file that has shrunk to nothing has no block and so no row to create, which
\* is an error, but an inline file always has its one chunk.
StoreBlob(c) ==
    /\ comp[c] = "hashed"
    /\ assembled # <<>> \/ Inline
    /\ blobs' = blobs \cup {[by |-> c, sum |-> sum[c], bytes |-> assembled]}
    /\ comp' = [comp EXCEPT ![c] = "stored"]
    /\ UNCHANGED <<dirVars, putVars, todo, total, sum, assembled, unswept, restarts>>

\* defaultOwnerID or StoreFile fails.  The staging directory stays.
StoreFails(c) ==
    /\ comp[c] \in {"staged", "hashed"}
    /\ CompleteFails(c)
    /\ UNCHANGED <<dirVars, putVars, todo, total, sum, assembled, blobs, unswept, restarts>>

\* Mutant: the directory is released whatever became of StoreFile.
ReleaseAlways(c) == comp[c] \in {"hashed", "stored"}

ReleaseAfter(c) == comp[c] = "stored"

\* RemoveAll takes the files one by one, the manifest and assembled.bin too.
RemovePart(c) ==
    /\ ReleaseAfter(c)
    /\ \E p \in made :
        /\ made' = made \ {p}
        /\ part' = [part EXCEPT ![p] = <<>>]
    /\ UNCHANGED <<dirVars, put, pos, compVars, restarts>>

RemoveManifest(c) ==
    /\ ReleaseAfter(c)
    /\ manifest
    /\ manifest' = FALSE
    /\ UNCHANGED <<init, dir, putVars, compVars, restarts>>

\* Mutant: the completion answers and leaves the directory to somebody else.
KeepDir(c) ==
    /\ ReleaseAfter(c)
    /\ comp' = [comp EXCEPT ![c] = "done"]
    /\ UNCHANGED <<dirVars, putVars, todo, total, sum, assembled, blobs, unswept, restarts>>

\* RemoveAll ends with the directory, and the answer is sent.
Release(c) ==
    /\ ReleaseAfter(c)
    /\ made = {} /\ ~manifest
    /\ dir' = FALSE
    /\ comp' = [comp EXCEPT ![c] = "done"]
    /\ UNCHANGED <<init, manifest, putVars, todo, total, sum, assembled, blobs, unswept, restarts>>

\* RemoveAll fails, which is logged: the client is answered all the same.
ReleaseFails(c) ==
    /\ ReleaseAfter(c)
    /\ comp' = [comp EXCEPT ![c] = "done"]
    /\ unswept' = unswept \cup {c}
    /\ UNCHANGED <<dirVars, putVars, todo, total, sum, assembled, blobs, restarts>>

\* The gateway restarts: the handlers are gone, the directory is not.
Restart ==
    /\ restarts < MaxRestarts
    /\ restarts' = restarts + 1
    /\ init' = IF init = "made" THEN "failed" ELSE init
    /\ put' = [q \in Puts |-> IF PutRunning(q) THEN "failed" ELSE put[q]]
    /\ comp' = [c \in Completes |-> IF CompRunning(c) THEN "failed" ELSE comp[c]]
    /\ UNCHANGED <<dir, manifest, pos, made, part, todo, total, sum, assembled, blobs, unswept>>

Init ==
    /\ init = "idle"
    /\ dir = FALSE
    /\ manifest = FALSE
    /\ made = {}
    /\ part = [p \in Parts |-> <<>>]
    /\ assembled = <<>>
    /\ put = [q \in Puts |-> "idle"]
    /\ pos = [q \in Puts |-> 0]
    /\ comp = [c \in Completes |-> "idle"]
    /\ todo = [c \in Completes |-> {}]
    /\ total = [c \in Completes |-> 0]
    /\ sum = [c \in Completes |-> <<>>]
    /\ blobs = {}
    /\ unswept = {}
    /\ restarts = 0

PutStep(q) ==
    CreatePart(q) \/ RefusePut(q) \/ WritePart(q) \/ AnswerPut(q) \/ BreakPut(q)

CompleteStep(c) ==
    \/ OpenUpload(c) \/ ListParts(c) \/ CreateAssembled(c) \/ RefuseComplete(c)
    \/ AppendPart(c) \/ AssembleFails(c) \/ CheckSize(c)
    \/ HashFile(c) \/ StoreBlob(c) \/ StoreFails(c)
    \/ RemovePart(c) \/ RemoveManifest(c) \/ Release(c) \/ ReleaseFails(c)

Next ==
    \/ MakeDir \/ WriteManifest \/ InitFails
    \/ \E q \in Puts : PutStep(q)
    \/ \E c \in Completes : CompleteStep(c)
    \/ Restart

Spec == Init /\ [][Next]_vars

(***************************************************************************)
(* Properties                                                              *)
(***************************************************************************)
Byte == {<<p, k>> : p \in Parts, k \in 1 .. SliceSize} \cup {Zero}

\* The type invariant; unless PUTs of a part overlap, its file holds what the
\* one that runs has written.
TypeOK ==
    /\ init \in InitPlaces
    /\ dir \in BOOLEAN
    /\ manifest \in BOOLEAN
    /\ made \subseteq Parts
    /\ part \in [Parts -> Seq(Byte)]
    /\ assembled \in Seq(Byte)
    /\ put \in [Puts -> PutPlaces]
    /\ pos \in [Puts -> Nat]
    /\ \A q \in Puts : pos[q] <= PartLen(PartOf[q])
    /\ ~OverlappingPuts => \A q \in Puts : PutRunning(q) => Len(part[PartOf[q]]) = pos[q]
    /\ comp \in [Completes -> CompPlaces]
    /\ todo \in [Completes -> SUBSET Parts]
    /\ total \in [Completes -> Nat]
    /\ sum \in [Completes -> Seq(Byte)]
    /\ \A b \in blobs : b \in [by : Completes, sum : Seq(Byte), bytes : Seq(Byte)]
    /\ unswept \subseteq Completes
    /\ restarts \in 0 .. MaxRestarts

\* A blob that is stored is the file of the client, byte for byte, whatever
\* parts were broken off, sent again or left out, and whatever completion was
\* tried too early, refused or cut short by a restart.  The size check stands
\* between a lost part and a corrupt blob.
StoredExact == \A b \in blobs : b.bytes = Whole /\ b.sum = Whole

\* A blob that is stored can be read back: its checksum is of its bytes.
\* Metadata is committed only once every byte is on a worker, so that no
\* failed upload leaves a listable but unreadable blob.
StoredReadable == \A b \in blobs : b.bytes = b.sum

\* The bytes of a part that was acknowledged, and that the client did not send
\* again since, are in its file until the whole file is in a blob: a completion
\* that fails, at whatever step, can be tried again, and staging is released
\* only as soon as the bytes are durable.
KeptUntilStored ==
    \/ \E b \in blobs : b.bytes = Whole
    \/ \A q \in Puts : put[q] = "ok" =>
          PartOf[q] \in made /\ part[PartOf[q]] = Slice(PartOf[q])

\* A file whose upload was answered is not stored again: the completion that a
\* client repeats later, after any restart, finds no directory.  Where RemoveAll
\* failed, where the answer was lost or where a restart came before it, the
\* code cannot tell a repetition, and stores the file twice.
StoredOnce ==
    [][(\E c \in Completes \ unswept : comp[c] = "done") => blobs' = blobs]_vars
=============================================================================
