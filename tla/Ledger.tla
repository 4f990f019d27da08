------------------------------- MODULE Ledger -------------------------------
(***************************************************************************)
(* What the books of the discs and workers promise: an upload is charged   *)
(* to every row it uses, in bytes and in the megabytes they make, or to    *)
(* none; and it is charged once.  UsageCharging implements it.             *)
(***************************************************************************)
EXTENDS Integers

CONSTANTS
    Uploads,        \* the commits of a behaviour
    Rows,           \* the rows of infra.discs and infra.workers
    Uses(_),        \* the rows an upload has chunks on
    Charge(_, _),   \* the bytes it has there
    BytesPerMB

VARIABLES
    books,          \* used_bytes and used_mb of each row
    verdict         \* what became of each upload

vars == <<books, verdict>>

Init ==
    /\ books = [r \in Rows |-> [bytes |-> 0, mb |-> 0]]
    /\ verdict = [u \in Uploads |-> "open"]

After(u, r) ==
    LET bytes == books[r].bytes + Charge(u, r)
    IN  [bytes |-> bytes, mb |-> bytes \div BytesPerMB]

Book(u) ==
    /\ verdict[u] = "open"
    /\ verdict' = [verdict EXCEPT ![u] = "booked"]
    /\ books' = [r \in Rows |-> IF r \in Uses(u) THEN After(u, r) ELSE books[r]]

Refuse(u) ==
    /\ verdict[u] = "open"
    /\ verdict' = [verdict EXCEPT ![u] = "refused"]
    /\ books' = books

Next == \E u \in Uploads : Book(u) \/ Refuse(u)

Spec == Init /\ [][Next]_vars
=============================================================================
