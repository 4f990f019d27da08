----------------------------- MODULE InlineEngine ---------------------------
(***************************************************************************)
(* The inline engine of wkr10 (inline_engine.go, and AppendInlineChunk of  *)
(* chunk_handler.go): concurrent appends to the one volume file of an      *)
(* inline machine.  The engine keeps one mutex per machine and machines    *)
(* share nothing else, so one machine is modelled.                         *)
(*                                                                         *)
(* The volume is removed by the reset of the cluster (RemoveAll of the     *)
(* root directory) under the feet of the daemon: an append that has the    *)
(* file open goes on writing to the unlinked inode.  So a volume has       *)
(* generations, one per inode, and path says which one has the name.  The  *)
(* bytes of a generation that has no name are there for the handlers that  *)
(* have it open and for nobody else, and no property relies on them.       *)
(*                                                                         *)
(* A byte is <<append, k>>: the k-th byte of the body of that request.     *)
(***************************************************************************)
EXTENDS Integers, Sequences

CONSTANTS
    Appends,      \* the append requests of a behaviour
    Length,       \* X-Chunk-Size of each, the length of its body
    MaxRemovals,  \* bound on the resets of a behaviour
    MaxCrashes,   \* bound on the crashes of a behaviour
    EntriesDurable, \* does fsync of a new file make its name durable too?
    NoAppend      \* the mutex is free

ASSUME InlineAssumption ==
    /\ Length \in [Appends -> Nat]
    /\ MaxRemovals \in Nat
    /\ MaxCrashes \in Nat
    /\ EntriesDurable \in BOOLEAN
    /\ NoAppend \notin Appends

\* Generation 0 is the absence of a file; each removal or crash allows one more.
Gens == 1 .. (MaxRemovals + MaxCrashes + 1)
NoFile == 0

VARIABLES
    at,        \* where the handler of each request is
    mutex,     \* who holds the machine's mutex
    path,      \* the generation named volume_01.dat, or NoFile
    vol,       \* the bytes of each generation
    synced,    \* how many of them are known to be on the platter
    flushed,   \* the generations that were synced at least once
    removed,   \* the generations a reset took the name of
    file,      \* the generation the handler has open
    offset,    \* what Stat said
    sent,      \* bytes of the body copied so far
    removals,  \* resets so far
    crashes    \* crashes so far

locals == <<file, offset, sent>>
volume == <<path, vol, synced, flushed, removed>>
vars   == <<at, mutex, volume, locals, removals, crashes>>

Open    == {"copying", "synced"}
Holding == {"locked"} \cup Open
Done    == {"acked", "failed"}
Places  == {"idle", "waiting"} \cup Holding \cup Done

\* A request arrives and asks for the mutex.
Arrive(a) ==
    /\ at[a] = "idle"
    /\ at' = [at EXCEPT ![a] = "waiting"]
    /\ UNCHANGED <<mutex, volume, locals, removals, crashes>>

\* Mutant: every request gets a mutex of its own.
MutexPerRequest == TRUE

MutexFree == mutex = NoAppend

\* mu.Lock()
Lock(a) ==
    /\ at[a] = "waiting"
    /\ MutexFree
    /\ mutex' = a
    /\ at' = [at EXCEPT ![a] = "locked"]
    /\ UNCHANGED <<volume, locals, removals, crashes>>

\* The deferred file.Close() and mu.Unlock(), on every return.
Leave(a, outcome) ==
    /\ at' = [at EXCEPT ![a] = outcome]
    /\ mutex' = NoAppend

\* The file OpenFile opens or creates.
Opened == IF path = NoFile THEN removals + crashes + 1 ELSE path

\* Stat of the open file.
StatSize(g) == Len(vol[g])

\* MkdirAll, OpenFile with O_APPEND and O_CREATE, Stat.
OpenAndStat(a) ==
    /\ at[a] = "locked"
    /\ path' = Opened
    /\ file' = [file EXCEPT ![a] = Opened]
    /\ offset' = [offset EXCEPT ![a] = StatSize(Opened)]
    /\ sent' = [sent EXCEPT ![a] = 0]
    /\ at' = [at EXCEPT ![a] = "copying"]
    /\ UNCHANGED <<mutex, vol, synced, flushed, removed, removals, crashes>>

\* One write of io.Copy: O_APPEND puts it at the end of the file.
Copy(a) ==
    /\ at[a] = "copying"
    /\ sent[a] < Length[a]
    /\ vol' = [vol EXCEPT ![file[a]] = Append(@, <<a, sent[a] + 1>>)]
    /\ sent' = [sent EXCEPT ![a] = @ + 1]
    /\ UNCHANGED <<at, mutex, path, synced, flushed, removed, file, offset, removals, crashes>>

\* file.Sync()
Sync(a) ==
    /\ synced' = [synced EXCEPT ![file[a]] = Len(vol[file[a]])]
    /\ flushed' = flushed \cup {file[a]}

\* The body has ended, at its declared size or before: Sync.
FinishCopy(a) ==
    /\ at[a] = "copying"
    /\ Sync(a)
    /\ at' = [at EXCEPT ![a] = "synced"]
    /\ UNCHANGED <<mutex, path, vol, removed, locals, removals, crashes>>

\* The bytes received are compared with X-Chunk-Size.  The answer carries the
\* offset, which the gateway puts in the catalog.
Acknowledge(a) ==
    /\ at[a] = "synced"
    /\ Leave(a, IF sent[a] = Length[a] THEN "acked" ELSE "failed")
    /\ UNCHANGED <<volume, locals, removals, crashes>>

\* Mutant: an error path without the deferred unlock.
FailLocked(a) ==
    /\ at[a] \in Holding
    /\ at' = [at EXCEPT ![a] = "failed"]
    /\ UNCHANGED <<mutex, volume, locals, removals, crashes>>

\* MkdirAll, OpenFile, Stat, a write or Sync fails, or the body breaks off:
\* the gateway gives up after 60 s, which closes the connection.
\* What was copied stays in the volume.
Fail(a) ==
    /\ at[a] \in Holding
    /\ Leave(a, "failed")
    /\ UNCHANGED <<volume, locals, removals, crashes>>

\* The reset of the cluster removes the directory.
Remove ==
    /\ removals < MaxRemovals
    /\ path' = NoFile
    /\ removed' = removed \cup ({path} \ {NoFile})
    /\ removals' = removals + 1
    /\ UNCHANGED <<at, mutex, vol, synced, flushed, locals, crashes>>

\* A host that dies may lose the bytes of the volume that were not synced.
LoseBytes ==
    /\ path # NoFile
    /\ \E n \in synced[path] .. Len(vol[path]) :
           vol' = [vol EXCEPT ![path] = SubSeq(@, 1, n)]
    /\ UNCHANGED path

\* Or the volume as a whole: nobody syncs the directory it was made in.
LoseName ==
    /\ ~(EntriesDurable /\ path \in flushed)
    /\ path' = NoFile
    /\ UNCHANGED vol

\* The daemon dies, and with it the handlers and the mutex; the host may die too.
Crash ==
    /\ crashes < MaxCrashes
    /\ crashes' = crashes + 1
    /\ at' = [a \in Appends |-> IF at[a] \in {"waiting"} \cup Holding THEN "failed" ELSE at[a]]
    /\ mutex' = NoAppend
    /\ UNCHANGED <<path, vol>> \/ LoseBytes \/ LoseName
    /\ UNCHANGED <<synced, flushed, removed, locals, removals>>

Init ==
    /\ at = [a \in Appends |-> "idle"]
    /\ mutex = NoAppend
    /\ path = NoFile
    /\ vol = [g \in Gens |-> <<>>]
    /\ synced = [g \in Gens |-> 0]
    /\ flushed = {}
    /\ removed = {}
    /\ file = [a \in Appends |-> NoFile]
    /\ offset = [a \in Appends |-> 0]
    /\ sent = [a \in Appends |-> 0]
    /\ removals = 0
    /\ crashes = 0

Handle(a) ==
    \/ Lock(a) \/ OpenAndStat(a) \/ Copy(a)
    \/ FinishCopy(a) \/ Acknowledge(a) \/ Fail(a)

Next ==
    \/ \E a \in Appends : Arrive(a) \/ Handle(a)
    \/ Remove
    \/ Crash

Spec == Init /\ [][Next]_vars

\* The holder of the mutex always goes on, if only because the gateway's
\* timeout ends the body; sync.Mutex serves its waiters in turn once they have
\* waited for a millisecond.
FairSpec == Spec /\ \A a \in Appends : WF_vars(Handle(a))

(***************************************************************************)
(* Properties                                                              *)
(***************************************************************************)
\* The type invariant; the mutex is held by the running handler and no other.
TypeOK ==
    /\ at \in [Appends -> Places]
    /\ mutex \in Appends \cup {NoAppend}
    /\ path \in Gens \cup {NoFile}
    /\ vol \in [Gens -> Seq(Appends \X Nat)]
    /\ synced \in [Gens -> Nat]
    /\ flushed \subseteq Gens
    /\ removed \subseteq Gens
    /\ file \in [Appends -> Gens \cup {NoFile}]
    /\ offset \in [Appends -> Nat]
    /\ sent \in [Appends -> Nat]
    /\ removals \in 0 .. MaxRemovals
    /\ crashes \in 0 .. MaxCrashes
    /\ \A a \in Appends : sent[a] <= Length[a]
    /\ \A a \in Appends : at[a] \in Open \cup {"acked"} => file[a] \in Gens
    /\ \A a \in Appends : at[a] \in Holding <=> mutex = a

\* ReadAt(data, physicalOffset), the k-th byte of data.
ByteAt(g, o, k) == vol[g][o + k]

\* An acknowledged append can be read back until a reset removes its file: at
\* the offset that was answered, the volume's path leads to exactly its bytes,
\* in order, whatever was appended, broken off or lost in a crash since.
AckedIntact ==
    \A a \in Appends : at[a] = "acked" /\ file[a] \notin removed =>
        /\ path = file[a]
        /\ offset[a] + Length[a] <= Len(vol[path])
        /\ \A k \in 1 .. Length[a] : ByteAt(path, offset[a], k) = <<a, k>>

\* Every request that asked for the mutex is answered or dies with the daemon.
AppendsEnd == \A a \in Appends : at[a] = "waiting" ~> at[a] \in Done
=============================================================================
