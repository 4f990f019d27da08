------------------------------ MODULE BlobStore -----------------------------
(***************************************************************************)
(* What R10 promises to its clients, without blocks, shards, machines or   *)
(* transactions:                                                           *)
(*                                                                         *)
(*   - an upload that is acknowledged is in the store; one that is refused *)
(*     is either in the store whole or not at all;                         *)
(*   - a deleted blob never comes back, and from then on is not found;     *)
(*   - a download that is answered with bytes is answered with exactly the *)
(*     bytes that were uploaded;                                           *)
(*   - a download is refused only when it was hindered: a query of it      *)
(*     failed, or more of the blob was out of its reach than the layout    *)
(*     tolerates.                                                          *)
(*                                                                         *)
(* ReadPath implements it.                                                 *)
(***************************************************************************)
CONSTANTS
    Blobs,     \* uploads, and the blobs they create
    Readers,   \* download requests
    NoBlob     \* no blob, no content

VARIABLES
    store,     \* "absent", "present" or "deleted"
    ack,       \* what the uploader was told: "pending", "stored", "failed"
    hindered,  \* readers kept from their blob, by faults or by the database
    reader,    \* where the download is
    target,    \* the blob it found
    answer     \* the content it was given; a blob stands for its own bytes

storeVars == <<store, ack, hindered, reader, target, answer>>

BlobStoreTypeOK ==
    /\ store \in [Blobs -> {"absent", "present", "deleted"}]
    /\ ack \in [Blobs -> {"pending", "stored", "failed"}]
    /\ hindered \subseteq Readers
    /\ reader \in [Readers -> {"idle", "reading", "ok", "missing", "error", "dropped"}]
    /\ target \in [Readers -> Blobs \cup {NoBlob}]
    /\ answer \in [Readers -> Blobs \cup {NoBlob}]

\* A reader may come to be hindered at any moment, and may get over it.
Hindrance == hindered' \in SUBSET Readers

\* The blob appears, and its uploader is told so, or is told that it failed.
Put(b) ==
    /\ store[b] = "absent"
    /\ ack[b] = "pending"
    /\ store' = [store EXCEPT ![b] = "present"]
    /\ \E told \in {"stored", "failed"} : ack' = [ack EXCEPT ![b] = told]
    /\ Hindrance
    /\ UNCHANGED <<reader, target, answer>>

\* Uploads that fail leave nothing.  A restart fails several at once.
Refuse(S) ==
    /\ \A b \in S : ack[b] = "pending"
    /\ ack' = [b \in Blobs |-> IF b \in S THEN "failed" ELSE ack[b]]
    /\ Hindrance
    /\ UNCHANGED <<store, target, answer>>

Delete(b) ==
    /\ store[b] = "present"
    /\ store' = [store EXCEPT ![b] = "deleted"]
    /\ Hindrance
    /\ UNCHANGED <<ack, reader, target, answer>>

Find(r, b) ==
    /\ reader[r] = "idle"
    /\ IF store[b] = "present"
       THEN /\ reader' = [reader EXCEPT ![r] = "reading"]
            /\ target' = [target EXCEPT ![r] = b]
       ELSE /\ reader' = [reader EXCEPT ![r] = "missing"]
            /\ UNCHANGED target
    /\ Hindrance
    /\ UNCHANGED <<store, ack, answer>>

Deliver(r) ==
    /\ reader[r] = "reading"
    /\ reader' = [reader EXCEPT ![r] = "ok"]
    /\ answer' = [answer EXCEPT ![r] = target[r]]
    /\ Hindrance
    /\ UNCHANGED <<store, ack, target>>

GiveUp(r) ==
    /\ reader[r] \in {"idle", "reading"}
    /\ Hindrance
    /\ r \in hindered'
    /\ reader' = [reader EXCEPT ![r] = "error"]
    /\ UNCHANGED <<store, ack, target, answer>>

\* The service restarts: what was under way is dropped.
Restart ==
    /\ \E S \in SUBSET Blobs : Refuse(S)
    /\ reader' = [r \in Readers |-> IF reader[r] = "reading" THEN "dropped" ELSE reader[r]]

Hinder == Hindrance /\ UNCHANGED <<store, ack, reader, target, answer>>

StoreInit ==
    /\ store = [b \in Blobs |-> "absent"]
    /\ ack = [b \in Blobs |-> "pending"]
    /\ hindered = {}
    /\ reader = [r \in Readers |-> "idle"]
    /\ target = [r \in Readers |-> NoBlob]
    /\ answer = [r \in Readers |-> NoBlob]

StoreNext ==
    \/ \E b \in Blobs : Put(b) \/ Delete(b) \/ (Refuse({b}) /\ UNCHANGED reader)
    \/ \E r \in Readers : Deliver(r) \/ GiveUp(r) \/ \E b \in Blobs : Find(r, b)
    \/ Restart
    \/ Hinder

StoreSpec == StoreInit /\ [][StoreNext]_storeVars
=============================================================================
