--------------------------- MODULE ClusterActions ---------------------------
(***************************************************************************)
(* The dialog that starts management jobs (cluster-actions.component.ts):  *)
(* what the user clicks, the requests in flight, the polls, each a request *)
(* per second that cancels the one before, and the timers that close the   *)
(* dialog two seconds after a job has ended.                               *)
(*                                                                         *)
(* A patient user confirms once and follows a job to its end before the    *)
(* next.  Nothing on the page asks for that: until the first answer of a   *)
(* poll the dialog still offers to confirm and to cancel.                  *)
(***************************************************************************)
EXTENDS Integers, FiniteSets

CONSTANTS
    Jobs,           \* the jobs of a behaviour
    Patient,        \* is the user patient?
    MaxErrors,      \* bound on requests that fail
    Nothing

ASSUME ActionsAssumption ==
    /\ IsFiniteSet(Jobs) /\ Patient \in BOOLEAN /\ MaxErrors \in Nat
    /\ Nothing # "asked"

VARIABLES
    status,         \* the jobs of the gateway
    showModal,
    jobStatus,      \* the job the dialog shows, or None
    posting,        \* the POSTs without an answer yet
    polls,          \* the polls that go on, pollingSub among them or not
    pollingSub,
    answer,         \* the request of each poll: none, asked, or the answer to it
    timers,         \* the timers that run
    destroyed,      \* has the user left the page?
    errors

dialog == <<showModal, jobStatus>>
net    == <<posting, polls, pollingSub, answer>>
vars   == <<status, dialog, net, timers, destroyed, errors>>

Ended   == {"success", "failed"}
InWork  == {"pending", "running"}
Asked   == "asked"
None    == [job |-> Nothing, status |-> "none"]
Started == {j \in Jobs : status[j] # "none"}

(***************************************************************************)
(* The user                                                                *)
(***************************************************************************)
OpenModal ==
    /\ ~destroyed /\ ~showModal
    /\ showModal' = TRUE
    /\ UNCHANGED <<status, jobStatus, net, timers, destroyed, errors>>

Close == showModal' = FALSE /\ jobStatus' = None

\* Cancel, while nothing is shown, or Close, once a job has failed.
CloseModal ==
    /\ ~destroyed /\ showModal
    /\ jobStatus.status \in {"none", "failed"}
    /\ Patient => posting = {} /\ polls = {}
    /\ Close
    /\ UNCHANGED <<status, net, timers, destroyed, errors>>

Confirm(j) ==
    /\ ~destroyed /\ showModal /\ jobStatus = None
    /\ Patient => posting = {} /\ polls = {}
    /\ j \notin posting /\ status[j] = "none"
    /\ posting' = posting \cup {j}
    /\ UNCHANGED <<status, dialog, polls, pollingSub, answer, timers, destroyed, errors>>

\* ngOnDestroy: the poll that started last is stopped.
Destroy ==
    /\ ~destroyed
    /\ destroyed' = TRUE
    /\ polls' = polls \ {pollingSub}
    /\ answer' = [j \in Jobs |-> IF j = pollingSub THEN Nothing ELSE answer[j]]
    /\ UNCHANGED <<status, dialog, posting, pollingSub, timers, errors>>

(***************************************************************************)
(* The gateway                                                             *)
(***************************************************************************)
CreateJob(j) ==
    /\ j \in posting /\ status[j] = "none"
    /\ status' = [status EXCEPT ![j] = "pending"]
    /\ UNCHANGED <<dialog, net, timers, destroyed, errors>>

\* A job that runs, ends, or is left as it is for ever.
JobMoves(j) ==
    /\ \/ status[j] = "pending" /\ status' = [status EXCEPT ![j] = "running"]
       \/ status[j] \in InWork /\ \E s \in Ended : status' = [status EXCEPT ![j] = s]
    /\ UNCHANGED <<dialog, net, timers, destroyed, errors>>

(***************************************************************************)
(* The page                                                                *)
(***************************************************************************)
StartPolling(j) ==
    /\ j \in posting /\ j \in Started
    /\ posting' = posting \ {j}
    /\ polls' = polls \cup {j}
    /\ pollingSub' = j
    /\ UNCHANGED <<status, dialog, answer, timers, destroyed, errors>>

\* Nothing handles a POST that fails, whether the job was created or not.
PostFails(j) ==
    /\ j \in posting
    /\ errors < MaxErrors /\ errors' = errors + 1
    /\ posting' = posting \ {j}
    /\ UNCHANGED <<status, dialog, polls, pollingSub, answer, timers, destroyed>>

\* A tick asks for the job.  switchMap cancels the request before, answered by
\* the gateway or not.
Tick(j) ==
    /\ j \in polls
    /\ answer' = [answer EXCEPT ![j] = Asked]
    /\ UNCHANGED <<status, dialog, posting, polls, pollingSub, timers, destroyed, errors>>

\* GetJobStatus reads the row, and the answer is on its way.
ReadStatus(j) ==
    /\ answer[j] = Asked
    /\ answer' = [answer EXCEPT ![j] = status[j]]
    /\ UNCHANGED <<status, dialog, posting, polls, pollingSub, timers, destroyed, errors>>

\* Mutant: takeWhile without the status that ends it.
ShowInWork(j) ==
    /\ jobStatus' = IF answer[j] \in InWork THEN [job |-> j, status |-> answer[j]] ELSE jobStatus
    /\ timers' = timers

Show(j) ==
    /\ jobStatus' = [job |-> j, status |-> answer[j]]
    /\ timers' = IF answer[j] \in Ended THEN timers + 1 ELSE timers

\* Mutant: nothing ends the poll.
PollForEver(j) == polls

PollsAfter(j) == IF answer[j] \in Ended THEN polls \ {j} ELSE polls

Answer(j) ==
    /\ j \in polls /\ answer[j] \notin {Nothing, Asked}
    /\ Show(j)
    /\ polls' = PollsAfter(j)
    /\ answer' = [answer EXCEPT ![j] = Nothing]
    /\ UNCHANGED <<status, showModal, posting, pollingSub, destroyed, errors>>

\* Nothing handles an error of a poll, which ends it.
PollFails(j) ==
    /\ j \in polls /\ answer[j] # Nothing
    /\ errors < MaxErrors /\ errors' = errors + 1
    /\ polls' = polls \ {j}
    /\ answer' = [answer EXCEPT ![j] = Nothing]
    /\ UNCHANGED <<status, dialog, posting, pollingSub, timers, destroyed>>

\* Mutant: the timer closes whatever it finds.
CloseAnyway == Close

CloseOnSuccess ==
    IF jobStatus.status = "success" THEN Close ELSE UNCHANGED dialog

TimerFires ==
    /\ timers > 0
    /\ timers' = timers - 1
    /\ CloseOnSuccess
    /\ UNCHANGED <<status, net, destroyed, errors>>

Init ==
    /\ status = [j \in Jobs |-> "none"]
    /\ showModal = FALSE /\ jobStatus = None
    /\ posting = {} /\ polls = {} /\ pollingSub = Nothing
    /\ answer = [j \in Jobs |-> Nothing]
    /\ timers = 0 /\ destroyed = FALSE /\ errors = 0

Next ==
    \/ OpenModal \/ CloseModal \/ Destroy \/ TimerFires
    \/ \E j \in Jobs :
          \/ Confirm(j) \/ CreateJob(j) \/ JobMoves(j) \/ StartPolling(j)
          \/ PostFails(j) \/ Tick(j) \/ ReadStatus(j) \/ Answer(j) \/ PollFails(j)

Spec == Init /\ [][Next]_vars

\* The interval ticks, timers fire and the gateway reads rows.  That a poll of
\* which again and again the answer is on its way sees one, or fails, is an
\* assumption: answers that take more than the second between two ticks are
\* cancelled by it, every one.  Nothing is assumed of the user or the jobs.
FairSpec ==
    /\ Spec /\ WF_vars(TimerFires)
    /\ \A j \in Jobs :
          /\ WF_vars(Tick(j)) /\ WF_vars(ReadStatus(j))
          /\ SF_vars(Answer(j) \/ PollFails(j))

(***************************************************************************)
(* Properties                                                              *)
(***************************************************************************)
\* The type invariant.  A poll is of a job that was created, and a timer of a
\* job that has ended.
TypeOK ==
    /\ status \in [Jobs -> {"none"} \cup InWork \cup Ended]
    /\ showModal \in BOOLEAN /\ destroyed \in BOOLEAN
    /\ jobStatus = None \/ jobStatus \in [job : Jobs, status : InWork \cup Ended]
    /\ posting \subseteq Jobs /\ polls \subseteq Started
    /\ pollingSub \in Jobs \cup {Nothing}
    /\ \A j \in Jobs : answer[j] # Nothing => j \in polls /\ answer[j] \in {Asked} \cup InWork \cup Ended
    /\ timers \in 0 .. Cardinality({j \in Jobs : status[j] \in Ended})
    /\ errors \in 0 .. MaxErrors

\* A dialog that closes by itself leaves no job behind: with a patient user, no
\* timer, of this job or of an earlier one, closes it while the job that it
\* follows runs or is about to.
NoCloseInWork ==
    [][TimerFires /\ showModal /\ ~showModal' =>
          \A j \in posting \cup polls : status[j] \in Ended]_vars

\* A dialog that shows a job in work goes on when the job has ended, unless a
\* request failed or the user left.
DialogGoesOn ==
    \A j \in Jobs :
        jobStatus.job = j /\ jobStatus.status \in InWork /\ status[j] \in Ended
            ~> errors > 0 \/ destroyed \/ jobStatus.status \notin InWork
=============================================================================
