---------------------------- MODULE OwnerLookup -----------------------------
(***************************************************************************)
(* defaultOwnerID (upload_controller.go): every completed upload finds the *)
(* system user, or creates it.  Calls run next to each other and meet in   *)
(* the table of users, whose e-mail is unique.                             *)
(*                                                                         *)
(* A call that means to create the user draws a fresh uuid: its own name.  *)
(***************************************************************************)
EXTENDS Integers

CONSTANTS
    Calls,
    MaxErrors,      \* bound on queries that fail
    NoUser

ASSUME OwnerAssumption == MaxErrors \in Nat /\ NoUser \notin Calls

VARIABLES
    users,      \* the ids of the rows with the system user's e-mail
    pc,         \* where each call is
    user,       \* the ID field of its variable user
    errors

ownerVars == <<users, pc, user, errors>>

Goto(c, at) == pc' = [pc EXCEPT ![c] = at]
QueryError  == errors < MaxErrors /\ errors' = errors + 1

Begin(c) ==
    /\ pc[c] = "idle"
    /\ Goto(c, "first")
    /\ user' = [user EXCEPT ![c] = NoUser]
    /\ UNCHANGED <<users, errors>>

\* Mutant: the row is found and not kept.
FoundOnly(c, row) == Goto(c, "answered") /\ UNCHANGED user

\* First(&user): GORM fills in the row it finds.
Found(c, row) ==
    /\ user' = [user EXCEPT ![c] = row]
    /\ Goto(c, "answered")

\* Mutant: the uuid is drawn before the first look.
FirstWithId(c) ==
    /\ pc[c] = "first"
    /\ \/ \E row \in users : row = c /\ Found(c, row)
       \/ c \notin users /\ Goto(c, "create") /\ user' = [user EXCEPT ![c] = c]
    /\ UNCHANGED <<users, errors>>

First(c) ==
    /\ pc[c] = "first"
    /\ \/ \E row \in users : Found(c, row)
       \/ users = {} /\ Goto(c, "create") /\ user' = [user EXCEPT ![c] = c]
    /\ UNCHANGED <<users, errors>>

FirstFails(c) ==
    /\ pc[c] = "first"
    /\ QueryError
    /\ Goto(c, "failed")
    /\ UNCHANGED <<users, user>>

\* Mutant: the e-mail has an index, but no unique one.
AnyEmail == TRUE

UniqueEmail == users = {}

Create(c) ==
    /\ pc[c] = "create"
    /\ IF UniqueEmail
       THEN users' = users \cup {user[c]} /\ Goto(c, "answered")
       ELSE UNCHANGED users /\ Goto(c, "reread")
    /\ UNCHANGED <<user, errors>>

\* The insert fails, or it is done and its answer is lost.
CreateFails(c) ==
    /\ pc[c] = "create"
    /\ QueryError
    /\ users' \in {users} \cup (IF UniqueEmail THEN {{user[c]}} ELSE {})
    /\ Goto(c, "reread")
    /\ UNCHANGED user

\* The second First(&user).  The variable has an ID by now, and GORM makes the
\* primary key of what it is given a part of the condition.
Reread(c) ==
    /\ pc[c] = "reread"
    /\ \/ \E row \in users : row = user[c] /\ Found(c, row)
       \/ user[c] \notin users /\ Goto(c, "failed") /\ UNCHANGED user
    /\ UNCHANGED <<users, errors>>

RereadFails(c) ==
    /\ pc[c] = "reread"
    /\ QueryError
    /\ Goto(c, "failed")
    /\ UNCHANGED <<users, user>>

\* The client tries a completion that failed again.
Retry(c) ==
    /\ pc[c] = "failed"
    /\ Goto(c, "idle")
    /\ UNCHANGED <<users, user, errors>>

\* The migrated database, before the first upload.
OwnerInit ==
    /\ users = {}
    /\ pc = [c \in Calls |-> "idle"]
    /\ user = [c \in Calls |-> NoUser]
    /\ errors = 0

Lookup(c) ==
    \/ Begin(c) \/ First(c) \/ FirstFails(c) \/ Create(c) \/ CreateFails(c)
    \/ Reread(c) \/ RereadFails(c)

OwnerNext == \E c \in Calls : Lookup(c) \/ Retry(c)

OwnerSpec == OwnerInit /\ [][OwnerNext]_ownerVars

\* Every query is answered or fails.  Nothing makes a client try again.
FairOwnerSpec == OwnerSpec /\ \A c \in Calls : WF_ownerVars(Lookup(c))

(***************************************************************************)
(* Properties                                                              *)
(***************************************************************************)
\* The type invariant.
OwnerTypeOK ==
    /\ users \subseteq Calls
    /\ pc \in [Calls -> {"idle", "first", "create", "reread", "answered", "failed"}]
    /\ user \in [Calls -> Calls \cup {NoUser}]
    /\ \A c \in Calls : pc[c] \in {"create", "reread", "answered"} => user[c] # NoUser
    /\ errors \in 0 .. MaxErrors

\* All blobs without a signed-in owner belong to one user, who exists: however
\* the first uploads race, and whichever insert loses its answer.
OwnersAreOne == \A c \in Calls : pc[c] = "answered" => users = {user[c]}

\* Trying again helps: a call that begins once the user exists, one that lost
\* the race included, is answered unless a query fails again.
RetryHelps ==
    \A c \in Calls :
        pc[c] = "first" /\ users # {} /\ errors = MaxErrors ~> pc[c] = "answered"

\* "Lost a race with a concurrent upload; re-read the winner": nobody fails
\* because of a race alone.
LoserIsServed == errors = 0 => \A c \in Calls : pc[c] # "failed"
=============================================================================
