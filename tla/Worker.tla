------------------------------- MODULE Worker -------------------------------
(***************************************************************************)
(* A machine of a wkr10 daemon as WorkerClient sees it: the appends of     *)
(* InlineEngine, block chunks streamed to files of their own               *)
(* (BlockEngine.StreamWrite, WriteBlockChunk), and reads of both by path,  *)
(* offset and size (ReadChunk, BlockEngine.Read), all at once, while a     *)
(* reset of the cluster removes the directory and the host may crash.      *)
(*                                                                         *)
(* A block chunk has a fresh id, so its file has one writer and holds some *)
(* first bytes of the body.  A chunk is read where its answer said.        *)
(***************************************************************************)
EXTENDS InlineEngine, FiniteSetsExt

CONSTANTS
    Writes,          \* the block chunks of a behaviour
    Body,            \* the length of each
    Reads,           \* the reads
    NoRead           \* a read that gets no bytes

ASSUME WorkerAssumption ==
    /\ Writes \cap Appends = {}
    /\ Body \in [Writes -> Nat]

VARIABLES
    wrote,     \* where the handler of each block write is
    disk,      \* the bytes in its file
    name,      \* its directory entry: never made, there, lost or removed
    read,      \* where the handler of each read is
    chunk,     \* the chunk it is for
    fd,        \* the file it has open: a generation of the volume, or the chunk's
    data       \* what it answers

block   == <<wrote, disk, name>>
reading == <<read, chunk, fd, data>>
allVars == <<vars, block, reading>>

Chunks  == Appends \cup Writes
Entries == {"none", "there", "lost", "removed"}
Longest == Max({0} \cup {Body[w] : w \in Writes})
Size(c) == IF c \in Appends THEN Length[c] ELSE Body[c]

\* os.O_TRUNC on a file that has just been made.
CreateFile(w) ==
    /\ wrote[w] = "idle"
    /\ wrote' = [wrote EXCEPT ![w] = "copying"]
    /\ disk' = [disk EXCEPT ![w] = 0]
    /\ name' = [name EXCEPT ![w] = "there"]
    /\ UNCHANGED <<vars, reading>>

\* One write of io.Copy.
CopyBlock(w) ==
    /\ wrote[w] = "copying" /\ disk[w] < Body[w]
    /\ disk' = [disk EXCEPT ![w] = @ + 1]
    /\ UNCHANGED <<vars, wrote, name, reading>>

\* The body has ended, at its declared size or before: Sync.
SyncBlock(w) ==
    /\ wrote[w] = "copying"
    /\ wrote' = [wrote EXCEPT ![w] = "synced"]
    /\ UNCHANGED <<vars, disk, name, reading>>

\* Mutant: the bytes received are not compared with X-Chunk-Size.
Untested(w) == TRUE

Whole(w) == disk[w] = Body[w]

AnswerBlock(w) ==
    /\ wrote[w] = "synced"
    /\ wrote' = [wrote EXCEPT ![w] = IF Whole(w) THEN "acked" ELSE "failed"]
    /\ UNCHANGED <<vars, disk, name, reading>>

\* MkdirAll, OpenFile, a write or Sync fails, or the connection is closed.
FailBlock(w) ==
    /\ wrote[w] \in {"idle"} \cup Open
    /\ wrote' = [wrote EXCEPT ![w] = "failed"]
    /\ UNCHANGED <<vars, disk, name, reading>>

(***************************************************************************)
(* Reads                                                                   *)
(***************************************************************************)
Acked(c) == IF c \in Appends THEN at[c] = "acked" ELSE wrote[c] = "acked"

\* The file the chunk's path names, and the one its bytes went to.
Named(c) == IF c \in Appends THEN path ELSE IF name[c] = "there" THEN 1 ELSE NoFile
Home(c)  == IF c \in Appends THEN file[c] ELSE 1

Bytes(c) == [k \in 1 .. Size(c) |-> <<c, k>>]

\* os.Open, for a positive size.
OpenChunk(r) ==
    /\ read[r] = "idle"
    /\ \E c \in Chunks :
          /\ Acked(c) /\ Size(c) > 0
          /\ chunk' = [chunk EXCEPT ![r] = c]
          /\ fd' = [fd EXCEPT ![r] = Named(c)]
          /\ read' = [read EXCEPT ![r] = IF Named(c) = NoFile THEN "missing" ELSE "open"]
    /\ UNCHANGED <<vars, block, data>>

\* Mutant: the offset is forgotten, as it may be for a block chunk.
FromStart(c) == 0

Offset(c) == IF c \in Appends THEN offset[c] ELSE 0

\* ReadAt: as many bytes as the file has there, of size.
ReadAt(c, f) ==
    LET all == IF c \in Appends THEN vol[f] ELSE SubSeq(Bytes(c), 1, disk[c])
    IN  SubSeq(all, Offset(c) + 1, Min({Offset(c) + Size(c), Len(all)}))

\* Mutant: a short read is answered.
AnyLength(c, bytes) == TRUE

FullLength(c, bytes) == Len(bytes) = Size(c)

\* A short read is refused, here and again by the client.
FinishRead(r) ==
    /\ read[r] = "open"
    /\ LET bytes == ReadAt(chunk[r], fd[r])
       IN  IF FullLength(chunk[r], bytes)
           THEN /\ data' = [data EXCEPT ![r] = bytes]
                /\ read' = [read EXCEPT ![r] = "done"]
           ELSE /\ read' = [read EXCEPT ![r] = "short"]
                /\ UNCHANGED data
    /\ UNCHANGED <<vars, block, chunk, fd>>

\* Open fails on a file that is there, or ReadAt does.
FailRead(r) ==
    /\ read[r] \in {"idle", "open"}
    /\ read' = [read EXCEPT ![r] = "failed"]
    /\ UNCHANGED <<vars, block, chunk, fd, data>>

(***************************************************************************)
(* Resets and crashes                                                      *)
(***************************************************************************)
RemoveAll ==
    /\ Remove
    /\ name' = [w \in Writes |-> IF name[w] = "there" THEN "removed" ELSE name[w]]
    /\ UNCHANGED <<wrote, disk, reading>>

Synced == {w \in Writes : wrote[w] \in {"synced", "acked"}}

\* What a crash of the host may leave of a block chunk.  Whether fsync of a new
\* file makes its name outlive the host is up to the file system.
Survives(w, n, entry) ==
    /\ n \in (IF w \in Synced THEN disk[w] ELSE 0) .. disk[w]
    /\ entry # name[w] => entry = "lost" /\ name[w] = "there" /\ ~(EntriesDurable /\ w \in Synced)

CrashAll ==
    /\ Crash
    /\ wrote' = [w \in Writes |-> IF wrote[w] \in Open THEN "failed" ELSE wrote[w]]
    /\ disk' \in [Writes -> 0 .. Longest] /\ name' \in [Writes -> Entries]
    /\ \A w \in Writes : Survives(w, disk'[w], name'[w])
    /\ read' = [r \in Reads |-> IF read[r] = "open" THEN "failed" ELSE read[r]]
    /\ UNCHANGED <<chunk, fd, data>>

InitAll ==
    /\ Init
    /\ wrote = [w \in Writes |-> "idle"]
    /\ disk = [w \in Writes |-> 0]
    /\ name = [w \in Writes |-> "none"]
    /\ read = [r \in Reads |-> "idle"]
    /\ chunk = [r \in Reads |-> NoRead]
    /\ fd = [r \in Reads |-> NoFile]
    /\ data = [r \in Reads |-> NoRead]

HandleAppend(a) == Handle(a) /\ UNCHANGED <<block, reading>>

NextAll ==
    \/ \E a \in Appends : (Arrive(a) /\ UNCHANGED <<block, reading>>) \/ HandleAppend(a)
    \/ \E w \in Writes :
          CreateFile(w) \/ CopyBlock(w) \/ SyncBlock(w) \/ AnswerBlock(w) \/ FailBlock(w)
    \/ \E r \in Reads : OpenChunk(r) \/ FinishRead(r) \/ FailRead(r)
    \/ RemoveAll
    \/ CrashAll

\* Fairness is that of InlineEngine: block chunks and reads wait for nobody.
WorkerSpec == InitAll /\ [][NextAll]_allVars /\ \A a \in Appends : WF_allVars(HandleAppend(a))

(***************************************************************************)
(* Properties                                                              *)
(***************************************************************************)
\* The type invariant of what Worker adds; an answered read has the size that
\* was asked for.
WorkerTypeOK ==
    /\ wrote \in [Writes -> {"idle"} \cup Open \cup Done]
    /\ disk \in [Writes -> Nat] /\ \A w \in Writes : disk[w] <= Body[w]
    /\ name \in [Writes -> Entries]
    /\ read \in [Reads -> {"idle", "open", "done", "missing", "short", "failed"}]
    /\ chunk \in [Reads -> Chunks \cup {NoRead}]
    /\ fd \in [Reads -> Gens \cup {NoFile}]
    /\ \A r \in Reads : data[r] # NoRead => Len(data[r]) = Size(chunk[r])

\* An acknowledged block chunk is on the disc with all its bytes, and under its
\* name unless a reset removed it, whatever crashes ("the bytes must be on the
\* platter before the response goes out").
BlocksKept ==
    \A w \in Writes : wrote[w] = "acked" => disk[w] = Body[w] /\ name[w] \in {"there", "removed"}

\* The chunk's path does not lead to its file: a reset or a crash took the name.
Gone(c) == Named(c) # Home(c)

\* A read that is answered gets the bytes that were acknowledged, of a block
\* chunk or of a slice of the volume that others append to meanwhile, and a
\* chunk is only found missing or too short when its path does not lead to it
\* any more.  Then a read of a block chunk gets nothing; one of an inline chunk
\* may get what a later volume has at its offset.
ReadsExact ==
    \A r \in Reads :
        /\ read[r] = "done" =>
              IF fd[r] = Home(chunk[r]) THEN data[r] = Bytes(chunk[r])
              ELSE chunk[r] \in Appends /\ Gone(chunk[r])
        /\ read[r] \in {"missing", "short"} => Gone(chunk[r])
=============================================================================
