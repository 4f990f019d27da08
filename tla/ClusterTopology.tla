--------------------------- MODULE ClusterTopology --------------------------
(***************************************************************************)
(* Cluster management (management_service.go): the jobs that wipe and      *)
(* build the topology, one statement at a time and without a transaction,  *)
(* next to each other and to uploads.                                      *)
(*                                                                         *)
(* A job is a program: the sequence of its statements.  A statement that   *)
(* the constraints of the schema forbid fails, and the job with it.  The   *)
(* rows a job creates carry its name, as they carry fresh uuids and        *)
(* namespaces in the code: a worker is <<job, daemon>>, a machine, its     *)
(* disc and its directory are <<job, daemon, number>>.                     *)
(*                                                                         *)
(* An upload is seen through what it shares with the jobs: it places one   *)
(* chunk on a disc, writes it into the directory of that machine, and      *)
(* commits a blob with one row; the blob and the row are named after it.   *)
(***************************************************************************)
EXTENDS Integers, Sequences, SequencesExt

CONSTANTS
    MaxJobs,          \* bound on the jobs of a behaviour
    Kinds,            \* the kinds of job it may have
    MachineCount,     \* the machines of each daemon, in the order of the list
    Uploads,          \* the uploads of a behaviour
    OverlappingJobs,  \* may a job start while another runs?
    MaxErrors,        \* bound on statements that fail for no reason here
    MaxMishaps,       \* bound on restarts and lost status updates
    NoMachine

ASSUME TopologyAssumption ==
    /\ Kinds \subseteq {"bootstrap", "reset", "cli_reset"}
    /\ MachineCount \in Seq(Nat)
    /\ MaxJobs \in Nat
    /\ OverlappingJobs \in BOOLEAN
    /\ MaxErrors \in Nat
    /\ MaxMishaps \in Nat

\* Jobs are named in the order in which they are started.
Jobs == 1 .. MaxJobs

VARIABLES
    kind,     \* what each job is for
    status,   \* the status column of its row
    alive,    \* the jobs whose goroutine, or command, runs
    line,     \* the statement it has come to
    latest,   \* the job that was started last, or 0
    rows,     \* the rows of each table
    dirs,     \* the machines that have a directory
    files,    \* the uploads whose chunk is in a file
    upc,      \* where each upload is
    target,   \* the machine it was given
    errors,
    mishaps

jobVars    == <<kind, status, alive, line, latest>>
uploadVars == <<upc, target>>
vars       == <<jobVars, rows, dirs, files, uploadVars, errors, mishaps>>

Tables   == {"chunks", "blobs", "discs", "machines", "workers"}
Statuses == {"none", "pending", "running", "success", "failed"}

(***************************************************************************)
(* The programs                                                            *)
(***************************************************************************)
Delete(tables) == [n \in DOMAIN tables |-> [do |-> "delete", table |-> tables[n]]]

\* wipeTopology
WipeTopology == Delete(<<"chunks", "blobs", "discs", "machines", "workers">>)

\* The rows and the directory of one machine.
BuildMachine(d, n) ==
    <<[do |-> "insert", table |-> "machines", key |-> <<d, n>>],
      [do |-> "insert", table |-> "discs", key |-> <<d, n>>],
      [do |-> "mkdir", key |-> <<d, n>>]>>

BuildDaemon(d) ==
    <<[do |-> "insert", table |-> "workers", key |-> <<d>>]>>
    \o FlattenSeq([n \in 1 .. MachineCount[d] |-> BuildMachine(d, n)])

\* BuildTopology after the wipe.  The MkdirAll of the root that comes first makes
\* no directory of a machine, and the job it fails in ends where one ends whose
\* first insert fails: it is no statement of its own.
BuildTopology == FlattenSeq([d \in DOMAIN MachineCount |-> BuildDaemon(d)])

RemoveRoot == <<[do |-> "remove"]>>

\* Mutant: the directory is removed first.
RemoveThenWipe == RemoveRoot \o WipeTopology

\* runReset
Reset == WipeTopology \o RemoveRoot

\* scripts/reset_cluster/main.go
CliReset == Delete(<<"discs", "machines", "workers">>) \o RemoveRoot

Program(j) ==
    CASE kind[j] = "bootstrap" -> WipeTopology \o BuildTopology
      [] kind[j] = "reset"     -> Reset
      [] kind[j] = "cli_reset" -> CliReset

AtEnd(j) == line[j] = Len(Program(j)) + 1
Now(j)   == Program(j)[line[j]]
Working(j) == j \in alive /\ line[j] >= 1 /\ ~AtEnd(j)
IsAt(j, do) == Working(j) /\ Now(j).do = do

(***************************************************************************)
(* The schema                                                              *)
(***************************************************************************)
\* The tables whose rows refer to rows of a table.
Referrers ==
    [chunks |-> {}, blobs |-> {"chunks"}, discs |-> {"chunks"},
     machines |-> {"discs"}, workers |-> {"machines", "chunks"}]

\* Everything is deleted, or nothing when something refers to it.
MayDelete(table) == \A t \in Referrers[table] : rows[t] = {}

\* The unique name of a worker, and the foreign keys.
MayInsert(j, table, key) ==
    CASE table = "workers"  -> \A w \in rows["workers"] : w[2] # key[1]
      [] table = "machines" -> <<j, key[1]>> \in rows["workers"]
      [] table = "discs"    -> (<<j>> \o key) \in rows["machines"]

(***************************************************************************)
(* The jobs                                                                *)
(***************************************************************************)
\* The row of the job is created and its goroutine started.
StartJob(j) ==
    /\ j = latest + 1
    /\ OverlappingJobs \/ alive = {}
    /\ \E k \in Kinds : kind' = [kind EXCEPT ![j] = k]
    /\ status' = [status EXCEPT ![j] = "pending"]
    /\ alive' = alive \cup {j}
    /\ latest' = j
    /\ UNCHANGED <<line, rows, dirs, files, uploadVars, errors, mishaps>>

\* A status update is sent and its error not looked at.  The status of a
\* command is what it prints and exits with.
SetStatus(j, s) ==
    \/ status' = [status EXCEPT ![j] = s] /\ UNCHANGED mishaps
    \/ /\ kind[j] # "cli_reset"
       /\ mishaps < MaxMishaps
       /\ mishaps' = mishaps + 1
       /\ UNCHANGED status

MarkRunning(j) ==
    /\ j \in alive
    /\ line[j] = 0
    /\ SetStatus(j, "running")
    /\ line' = [line EXCEPT ![j] = 1]
    /\ UNCHANGED <<kind, alive, latest, rows, dirs, files, uploadVars, errors>>

\* Mutant: the loop tests its bound too late.
ContinuePast(j) ==
    /\ line' = [line EXCEPT ![j] = IF Now(j).do = "remove" THEN @ + 2 ELSE @ + 1]
    /\ UNCHANGED <<kind, status, alive, latest, mishaps>>

Continue(j) ==
    /\ line' = [line EXCEPT ![j] = @ + 1]
    /\ UNCHANGED <<kind, status, alive, latest, mishaps>>

\* Mutant: the job is left as it is.
StopSilently(j) ==
    /\ alive' = alive \ {j}
    /\ UNCHANGED <<kind, status, line, latest, mishaps>>

\* Mutant: the error is not looked at.
IgnoreError(j) == Continue(j)

\* failJob
FailJob(j) ==
    /\ SetStatus(j, "failed")
    /\ alive' = alive \ {j}
    /\ UNCHANGED <<kind, line, latest>>

DeleteRows(j) ==
    /\ IsAt(j, "delete")
    /\ IF MayDelete(Now(j).table)
       THEN rows' = [rows EXCEPT ![Now(j).table] = {}] /\ Continue(j)
       ELSE UNCHANGED rows /\ FailJob(j)
    /\ UNCHANGED <<dirs, files, uploadVars, errors>>

InsertRow(j) ==
    /\ IsAt(j, "insert")
    /\ LET s == Now(j)
       IN  IF MayInsert(j, s.table, s.key)
           THEN rows' = [rows EXCEPT ![s.table] = @ \cup {<<j>> \o s.key}] /\ Continue(j)
           ELSE UNCHANGED rows /\ FailJob(j)
    /\ UNCHANGED <<dirs, files, uploadVars, errors>>

MakeDir(j) ==
    /\ IsAt(j, "mkdir")
    /\ dirs' = dirs \cup {<<j>> \o Now(j).key}
    /\ Continue(j)
    /\ UNCHANGED <<rows, files, uploadVars, errors>>

\* os.RemoveAll(clusterRootDir)
RemoveAll(j) ==
    /\ IsAt(j, "remove")
    /\ dirs' = {}
    /\ files' = {}
    /\ Continue(j)
    /\ UNCHANGED <<rows, uploadVars, errors>>

\* A statement, or the file system, fails.  One that was done and whose answer
\* is lost is this step one line later.
StatementFails(j) ==
    /\ Working(j)
    /\ errors < MaxErrors
    /\ errors' = errors + 1
    /\ FailJob(j)
    /\ UNCHANGED <<rows, dirs, files, uploadVars>>

FinishJob(j) ==
    /\ j \in alive
    /\ line[j] >= 1 /\ AtEnd(j)
    /\ SetStatus(j, "success")
    /\ alive' = alive \ {j}
    /\ UNCHANGED <<kind, line, latest, rows, dirs, files, uploadVars, errors>>

(***************************************************************************)
(* Uploads                                                                 *)
(***************************************************************************)
\* The machines the joins of candidates find.
Candidates ==
    {m \in rows["discs"] : m \in rows["machines"] /\ <<m[1], m[2]>> \in rows["workers"]}

Place(u) ==
    /\ upc[u] = "idle"
    /\ \E m \in Candidates : target' = [target EXCEPT ![u] = m]
    /\ upc' = [upc EXCEPT ![u] = "placed"]
    /\ UNCHANGED <<jobVars, rows, dirs, files, errors, mishaps>>

\* The daemon makes the directory if it is not there.
Push(u) ==
    /\ upc[u] = "placed"
    /\ dirs' = dirs \cup {target[u]}
    /\ files' = files \cup {u}
    /\ upc' = [upc EXCEPT ![u] = "pushed"]
    /\ UNCHANGED <<jobVars, rows, target, errors, mishaps>>

\* The transaction; the row refers to a disc and a worker.
Commit(u) ==
    /\ upc[u] = "pushed"
    /\ IF target[u] \in rows["discs"] /\ <<target[u][1], target[u][2]>> \in rows["workers"]
       THEN /\ rows' = [rows EXCEPT !["blobs"] = @ \cup {u}, !["chunks"] = @ \cup {u}]
            /\ upc' = [upc EXCEPT ![u] = "stored"]
       ELSE /\ upc' = [upc EXCEPT ![u] = "failed"]
            /\ UNCHANGED rows
    /\ UNCHANGED <<jobVars, dirs, files, target, errors, mishaps>>

UploadFails(u) ==
    /\ upc[u] \in {"placed", "pushed"}
    /\ upc' = [upc EXCEPT ![u] = "failed"]
    /\ UNCHANGED <<jobVars, rows, dirs, files, target, errors, mishaps>>

\* The gateway restarts.  Nothing takes up the jobs that were running.
Restart ==
    /\ mishaps < MaxMishaps
    /\ mishaps' = mishaps + 1
    /\ alive' = {j \in alive : kind[j] = "cli_reset"}
    /\ upc' = [u \in Uploads |-> IF upc[u] \in {"placed", "pushed"} THEN "failed" ELSE upc[u]]
    /\ UNCHANGED <<kind, status, line, latest, rows, dirs, files, target, errors>>

(***************************************************************************)
(* The specification                                                       *)
(***************************************************************************)
\* The migrated database, before the first bootstrap.
Init ==
    /\ kind = [j \in Jobs |-> "none"]
    /\ status = [j \in Jobs |-> "none"]
    /\ alive = {}
    /\ line = [j \in Jobs |-> 0]
    /\ latest = 0
    /\ rows = [t \in Tables |-> {}]
    /\ dirs = {}
    /\ files = {}
    /\ upc = [u \in Uploads |-> "idle"]
    /\ target = [u \in Uploads |-> NoMachine]
    /\ errors = 0
    /\ mishaps = 0

JobStep(j) ==
    \/ MarkRunning(j) \/ DeleteRows(j) \/ InsertRow(j) \/ MakeDir(j)
    \/ RemoveAll(j) \/ StatementFails(j) \/ FinishJob(j)

UploadStep(u) == Place(u) \/ Push(u) \/ Commit(u) \/ UploadFails(u)

Next ==
    \/ \E j \in Jobs : StartJob(j) \/ JobStep(j)
    \/ \E u \in Uploads : UploadStep(u)
    \/ Restart

Spec == Init /\ [][Next]_vars

\* The goroutine of a job is never parked for good: each of its statements is
\* answered or fails.
FairSpec == Spec /\ \A j \in Jobs : WF_vars(JobStep(j))

(***************************************************************************)
(* Properties                                                              *)
(***************************************************************************)
\* What BuildTopology of a job builds.
Topology(j) ==
    UNION {{<<j, d, n>> : n \in 1 .. MachineCount[d]} : d \in DOMAIN MachineCount}

\* Its workers; a daemon may have no machine.
Daemons(j) == {<<j, d>> : d \in DOMAIN MachineCount}

AllMachines == UNION {Topology(j) : j \in Jobs}
AllDaemons  == UNION {Daemons(j) : j \in Jobs}

\* The type invariant.  A job never runs past the end of its program, and
\* only a job that was started runs.
TypeOK ==
    /\ kind \in [Jobs -> Kinds \cup {"none"}]
    /\ status \in [Jobs -> Statuses]
    /\ alive \subseteq {j \in Jobs : status[j] \in {"pending", "running"}}
    /\ \A j \in Jobs :
          IF status[j] = "none" THEN line[j] = 0 ELSE line[j] \in 0 .. Len(Program(j)) + 1
    /\ latest \in 0 .. MaxJobs
    /\ rows["workers"] \subseteq AllDaemons
    /\ rows["machines"] \cup rows["discs"] \cup dirs \subseteq AllMachines
    /\ rows["chunks"] \cup rows["blobs"] \cup files \subseteq Uploads
    /\ upc \in [Uploads -> {"idle", "placed", "pushed", "stored", "failed"}]
    /\ target \in [Uploads -> AllMachines \cup {NoMachine}]
    /\ errors \in 0 .. MaxErrors
    /\ mishaps \in 0 .. MaxMishaps

\* When jobs do not overlap and the last one says "success", the catalog is
\* what it promises whatever uploads did in between, statements that failed in
\* earlier jobs included: after a bootstrap exactly its own topology, each
\* machine with its directory; after a reset nothing at all.
LatestStands ==
    latest > 0 /\ status[latest] = "success" =>
        CASE kind[latest] = "bootstrap" ->
                /\ rows["workers"] = Daemons(latest)
                /\ rows["machines"] = Topology(latest)
                /\ rows["discs"] = Topology(latest)
                /\ Topology(latest) \subseteq dirs
          [] kind[latest] = "reset" -> \A t \in Tables : rows[t] = {}
          [] OTHER -> TRUE

\* A row of the catalog has its bytes: a wipe takes the rows before the
\* directory goes, and a chunk written before it is refused by the commit
\* after it (StoreFile's transaction, the foreign keys, runReset's order).
ChunksExist == rows["chunks"] \subseteq files

\* Every job is reported as ended, unless the gateway restarted or an update of
\* the status column was lost (runBootstrap, runReset, failJob).
JobsEnd ==
    \A j \in Jobs :
        status[j] \in {"pending", "running"}
            ~> status[j] \in {"success", "failed"} \/ mishaps > 0

Undisturbed == errors = 0 /\ mishaps = 0

\* "Bootstrap is idempotent": a bootstrap nothing disturbs does not fail.
BootstrapSucceeds ==
    Undisturbed => \A j \in Jobs : kind[j] = "bootstrap" => status[j] # "failed"

\* The job truncates the catalog with relational safety: once no job runs,
\* every blob that is listed still has its rows.
BlobsKeepTheirRows ==
    Undisturbed /\ alive = {} => rows["blobs"] = rows["chunks"]

\* The command wipes without violating a relation.
CliResetSucceeds ==
    Undisturbed => \A j \in Jobs : kind[j] = "cli_reset" => status[j] # "failed"
=============================================================================
