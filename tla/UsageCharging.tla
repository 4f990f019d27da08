---------------------------- MODULE UsageCharging ---------------------------
(***************************************************************************)
(* The transaction that ends an upload (StoreFile, chargeUsage), with the  *)
(* row locks that WritePath's atomic Commit hides.  It inserts the blob    *)
(* and its chunks, then adds their bytes to the discs, one UPDATE per key  *)
(* of a Go map, so in any order, then to the workers in the same way.      *)
(*                                                                         *)
(* PostgreSQL lets an UPDATE wait while another transaction has updated    *)
(* the row, then applies it to the row as it was committed; locks are kept *)
(* to the end.  Of transactions that wait for each other in a ring, it     *)
(* aborts one.  The share locks that the foreign keys of the chunks take   *)
(* on the same rows do not conflict with these.                            *)
(***************************************************************************)
EXTENDS Integers, FiniteSets, FiniteSetsExt

CONSTANTS
    Uploads,        \* the transactions of a behaviour
    Discs, Workers, \* the rows they charge
    Chunks,         \* the rows of blob_chunks each inserts
    BytesPerMB,
    MaxErrors,      \* bound on statements that fail for another reason
    NoUpload, NoRow

Rows == Discs \cup Workers

ASSUME ChargingAssumption ==
    /\ Discs \cap Workers = {} /\ NoRow \notin Rows
    /\ NoUpload \notin Uploads
    /\ \A u \in Uploads :
          /\ IsFiniteSet(Chunks[u])
          /\ \A c \in Chunks[u] : c.disc \in Discs /\ c.worker \in Workers /\ c.size \in Nat
    /\ BytesPerMB \in Nat \ {0}
    /\ MaxErrors \in Nat

VARIABLES
    pc,             \* where each transaction is
    left,           \* the keys its loop has not come to
    asks,           \* the row its UPDATE is for
    holder,         \* who has updated each row and not ended
    row,            \* used_bytes and used_mb as committed
    draft,          \* the rows as each transaction has updated them
    errors

vars == <<pc, left, asks, holder, row, draft, errors>>

Loops == {"discs", "workers"}
Ended == {"booked", "refused"}

\* perDisc and perWorker: the keys, and the sums.
PerDisc(u)   == {c.disc : c \in Chunks[u]}
PerWorker(u) == {c.worker : c \in Chunks[u]}

Uses(u)      == PerDisc(u) \cup PerWorker(u)

Charge(u, r) ==
    MapThenSumSet(LAMBDA c : c.size, {c \in Chunks[u] : r \in {c.disc, c.worker}})

\* Mutant: one loop over the keys of both maps.
BothAtOnce(u, loop) == IF loop = "discs" THEN Uses(u) ELSE {}

\* What each loop ranges over.
Keys(u, loop) == IF loop = "discs" THEN PerDisc(u) ELSE PerWorker(u)

\* The two Create: the blob and its chunks.
Insert(u) ==
    /\ pc[u] = "insert"
    /\ pc' = [pc EXCEPT ![u] = "discs"]
    /\ left' = [left EXCEPT ![u] = Keys(u, "discs")]
    /\ UNCHANGED <<asks, holder, row, draft, errors>>

\* The next key of the map: its UPDATE is sent.
Ask(u) ==
    /\ pc[u] \in Loops /\ asks[u] = NoRow
    /\ \E r \in left[u] :
          /\ asks' = [asks EXCEPT ![u] = r]
          /\ left' = [left EXCEPT ![u] = @ \ {r}]
    /\ UNCHANGED <<pc, holder, row, draft, errors>>

\* Mutant: the sign of the charge is lost.
Refunded(u, r) ==
    LET bytes == row[r].bytes - Charge(u, r)
    IN  [bytes |-> bytes, mb |-> bytes \div BytesPerMB]

\* Mutant: the old value is left out of the expression.
Overwritten(u, r) == [bytes |-> Charge(u, r), mb |-> Charge(u, r) \div BytesPerMB]

\* used_bytes + size, and (used_bytes + size) / bytesPerMB.
Updated(u, r) ==
    LET bytes == row[r].bytes + Charge(u, r)
    IN  [bytes |-> bytes, mb |-> bytes \div BytesPerMB]

\* The UPDATE gets the row.
Update(u) ==
    /\ asks[u] \in Rows /\ holder[asks[u]] = NoUpload
    /\ holder' = [holder EXCEPT ![asks[u]] = u]
    /\ draft' = [draft EXCEPT ![u][asks[u]] = Updated(u, asks[u])]
    /\ asks' = [asks EXCEPT ![u] = NoRow]
    /\ UNCHANGED <<pc, left, row, errors>>

\* The loop over the discs is done.
ChargeWorkers(u) ==
    /\ pc[u] = "discs" /\ left[u] = {} /\ asks[u] = NoRow
    /\ pc' = [pc EXCEPT ![u] = "workers"]
    /\ left' = [left EXCEPT ![u] = Keys(u, "workers")]
    /\ UNCHANGED <<asks, holder, row, draft, errors>>

\* Every lock of u is given back.
Release(u) == holder' = [r \in Rows |-> IF holder[r] = u THEN NoUpload ELSE holder[r]]

Commit(u) ==
    /\ pc[u] = "workers" /\ left[u] = {} /\ asks[u] = NoRow
    /\ pc' = [pc EXCEPT ![u] = "booked"]
    /\ row' = [r \in Rows |-> IF holder[r] = u THEN draft[u][r] ELSE row[r]]
    /\ Release(u)
    /\ UNCHANGED <<left, asks, draft, errors>>

\* Mutant: the connection goes back to the pool with the transaction open.
StopWithout(u) ==
    /\ pc' = [pc EXCEPT ![u] = "refused"]
    /\ asks' = [asks EXCEPT ![u] = NoRow]
    /\ UNCHANGED <<left, holder, row, draft>>

Rollback(u) ==
    /\ pc' = [pc EXCEPT ![u] = "refused"]
    /\ asks' = [asks EXCEPT ![u] = NoRow]
    /\ Release(u)
    /\ UNCHANGED <<left, row, draft>>

\* A statement or the connection fails, or the gateway restarts.
Fail(u) ==
    /\ pc[u] \notin Ended
    /\ errors < MaxErrors /\ errors' = errors + 1
    /\ Rollback(u)

(***************************************************************************)
(* Deadlock: in a ring everyone waits for another of the ring, and nobody  *)
(* can be left out.                                                        *)
(***************************************************************************)
WaitsFor(u, v) == u # v /\ asks[u] \in Rows /\ holder[asks[u]] = v

Stuck(S) == S # {} /\ \A u \in S : \E v \in S : WaitsFor(u, v)
Ring(S)  == Stuck(S) /\ \A R \in SUBSET S : Stuck(R) => R = S

\* The first of a ring to have waited for deadlock_timeout is aborted.
Abort(u) ==
    /\ \E S \in SUBSET Uploads : u \in S /\ Ring(S)
    /\ Rollback(u)
    /\ UNCHANGED errors

Init ==
    /\ pc = [u \in Uploads |-> "insert"]
    /\ left = [u \in Uploads |-> {}]
    /\ asks = [u \in Uploads |-> NoRow]
    /\ holder = [r \in Rows |-> NoUpload]
    /\ row = [r \in Rows |-> [bytes |-> 0, mb |-> 0]]
    /\ draft = [u \in Uploads |-> [r \in Rows |-> [bytes |-> 0, mb |-> 0]]]
    /\ errors = 0

Step(u) == Insert(u) \/ Ask(u) \/ Update(u) \/ ChargeWorkers(u) \/ Commit(u) \/ Abort(u)

Next == \E u \in Uploads : Step(u) \/ Fail(u)

Spec == Init /\ [][Next]_vars

\* Goroutines go on; an UPDATE that can have its row gets it; rings are found.
FairSpec == Spec /\ \A u \in Uploads : WF_vars(Step(u))

(***************************************************************************)
(* Properties                                                              *)
(***************************************************************************)
Amount == [bytes : Nat, mb : Nat]

\* The type invariant; only a loop asks for a row.
TypeOK ==
    /\ pc \in [Uploads -> {"insert"} \cup Loops \cup Ended]
    /\ left \in [Uploads -> SUBSET Rows]
    /\ asks \in [Uploads -> Rows \cup {NoRow}]
    /\ holder \in [Rows -> Uploads \cup {NoUpload}]
    /\ row \in [Rows -> Amount]
    /\ draft \in [Uploads -> [Rows -> Amount]]
    /\ errors \in 0 .. MaxErrors
    /\ \A u \in Uploads : pc[u] \notin Loops => asks[u] = NoRow

\* Deadlocks need two discs or two workers of every upload in them: because
\* the discs come before the workers, no ring runs through both, and an upload
\* of one chunk (every inline file) is never the victim, whatever the order of
\* the maps.
DeadlockNeedsTwo ==
    \A S \in SUBSET Uploads : Ring(S) =>
        \/ \A u \in S : asks[u] \in PerDisc(u) /\ PerDisc(u) # {asks[u]}
        \/ \A u \in S : asks[u] \in PerWorker(u) /\ PerWorker(u) # {asks[u]}

\* Every transaction ends: nobody waits for ever.
CommitsEnd == \A u \in Uploads : pc[u] \in Loops ~> pc[u] \in Ended

\* The transactions implement the ledger: what others see of an upload is
\* nothing until it is all booked, nothing ever of one that was refused, and
\* no addition is lost.
Verdict == [u \in Uploads |-> IF pc[u] \in Ended THEN pc[u] ELSE "open"]
Books   == INSTANCE Ledger WITH books <- row, verdict <- Verdict

ChargesOnce == Books!Spec
=============================================================================
