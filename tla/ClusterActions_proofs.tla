----------------------- MODULE ClusterActions_proofs -----------------------
(***************************************************************************)
(* The dialog of the management page, for any number of jobs and of        *)
(* requests that fail: it is well typed, and with a patient user its       *)
(* timers do not close it on a job in work.                                *)
(***************************************************************************)
EXTENDS ClusterActions, FiniteSetTheorems, TLAPS

\* The jobs that ended and that no request is about any more.
Reported == {j \in Jobs : status[j] \in Ended /\ j \notin posting \cup polls}

\* The types, but for the timers, and the answers that are late: what a poll was
\* told of the end of a job stays true.
Types ==
    /\ status \in [Jobs -> {"none"} \cup InWork \cup Ended]
    /\ showModal \in BOOLEAN /\ destroyed \in BOOLEAN
    /\ jobStatus = None
          \/ jobStatus \in [job : Jobs, status : InWork \cup Ended]
    /\ posting \subseteq Jobs /\ polls \subseteq Started /\ posting \cap polls = {}
    /\ pollingSub \in Jobs \cup {Nothing}
    /\ answer = [j \in Jobs |-> answer[j]]
    /\ \A j \in Jobs : answer[j] # Nothing =>
          /\ j \in polls /\ answer[j] \in {Asked} \cup InWork \cup Ended
          /\ answer[j] \in Ended => status[j] \in Ended
    /\ errors \in 0 .. MaxErrors

\* Each timer that runs was started by the last answer about a job.
TimersInv == timers \in Nat /\ timers <= Cardinality(Reported)

\* A patient user has one job in hand, and none while the dialog shows an end.
PatientInv ==
    /\ \A i, j \in posting \cup polls : i = j
    /\ jobStatus.status \in Ended => posting \cup polls = {}

LEMMA TypesInit == Init => Types
<1> SUFFICES ASSUME Init PROVE Types
  OBVIOUS
<1> USE DEF Init
<1>1. /\ status \in [Jobs -> {"none"} \cup InWork \cup Ended]
      /\ answer = [j \in Jobs |-> answer[j]] /\ \A j \in Jobs : answer[j] = Nothing
  OBVIOUS
<1>2. errors \in 0 .. MaxErrors
  BY ActionsAssumption
<1>3. jobStatus = None
  BY DEF None
<1> QED
  BY <1>1, <1>2, <1>3 DEF Types

LEMMA TypesNext == Types /\ [Next]_vars => Types'
<1> SUFFICES ASSUME Types, [Next]_vars PROVE Types'
  OBVIOUS
<1> USE DEF Types, Started, InWork, Ended, Asked
<1>1. OpenModal => Types'
  BY DEF OpenModal, net
<1>2. CloseModal => Types'
  BY DEF CloseModal, Close, net
<1>3. Destroy => Types'
  BY DEF Destroy, dialog
<1>4. TimerFires => Types'
  BY DEF TimerFires, CloseOnSuccess, Close, dialog, net
<1>5. ASSUME NEW j \in Jobs, Confirm(j)
      PROVE  Types'
  BY <1>5 DEF Confirm, dialog
<1>6. ASSUME NEW j \in Jobs, CreateJob(j)
      PROVE  Types'
  BY <1>6 DEF CreateJob, dialog, net
<1>7. ASSUME NEW j \in Jobs, JobMoves(j)
      PROVE  Types'
  BY <1>7 DEF JobMoves, dialog, net
<1>8. ASSUME NEW j \in Jobs, StartPolling(j)
      PROVE  Types'
  BY <1>8 DEF StartPolling, dialog
<1>9. ASSUME NEW j \in Jobs, PostFails(j)
      PROVE  Types'
  BY <1>9, ActionsAssumption DEF PostFails, dialog
<1>10. ASSUME NEW j \in Jobs, Tick(j) \/ ReadStatus(j)
       PROVE  Types'
  BY <1>10, ActionsAssumption DEF Tick, ReadStatus, dialog
<1>11. ASSUME NEW j \in Jobs, Answer(j)
       PROVE  Types'
  <2>1. /\ jobStatus' = [job |-> j, status |-> answer[j]]
        /\ polls' = IF answer[j] \in Ended THEN polls \ {j} ELSE polls
        /\ answer' = [answer EXCEPT ![j] = Nothing]
        /\ j \in polls /\ answer[j] \notin {Nothing, Asked}
        /\ UNCHANGED <<status, showModal, posting, pollingSub, destroyed, errors>>
    BY <1>11 DEF Answer, Show, PollsAfter
  <2>2. answer[j] \in InWork \cup Ended
    BY <2>1
  <2>3. jobStatus' \in [job : Jobs, status : InWork \cup Ended]
    BY <2>1, <2>2
  <2>4. /\ polls' \subseteq polls
        /\ answer' = [i \in Jobs |-> answer'[i]]
        /\ \A i \in Jobs : answer'[i] # Nothing => i # j /\ answer'[i] = answer[i]
    BY <2>1
  <2> QED
    BY <2>1, <2>3, <2>4
<1>12. ASSUME NEW j \in Jobs, PollFails(j)
       PROVE  Types'
  BY <1>12, ActionsAssumption DEF PollFails, dialog
<1>13. UNCHANGED vars => Types'
  BY DEF vars, dialog, net
<1> QED
  BY <1>1, <1>2, <1>3, <1>4, <1>5, <1>6, <1>7, <1>8, <1>9, <1>10, <1>11, <1>12, <1>13
  DEF Next

LEMMA TimersInit == Init => TimersInv
<1> SUFFICES ASSUME Init PROVE TimersInv
  OBVIOUS
<1>1. IsFiniteSet(Jobs)
  BY ActionsAssumption
<1>2. IsFiniteSet(Reported) /\ Cardinality(Reported) \in Nat
  BY <1>1, FS_Subset, FS_CardinalityType DEF Reported
<1> QED
  BY <1>2 DEF TimersInv, Init

LEMMA TimersNext ==
    ASSUME Types, TimersInv, [Next]_vars
    PROVE  TimersInv'
<1>1. IsFiniteSet(Jobs)
  BY ActionsAssumption
<1>2. /\ IsFiniteSet(Reported) /\ Cardinality(Reported) \in Nat
      /\ IsFiniteSet(Reported') /\ Cardinality(Reported') \in Nat
  <2>1. Reported \subseteq Jobs /\ Reported' \subseteq Jobs
    BY DEF Reported
  <2> QED
    BY <1>1, <2>1, FS_Subset, FS_CardinalityType
<1>3. ASSUME Reported \subseteq Reported', timers' \in Nat, timers' <= timers
      PROVE  TimersInv'
  <2>1. Cardinality(Reported) <= Cardinality(Reported')
    BY <1>2, <1>3, FS_Subset
  <2> QED
    BY <1>2, <1>3, <2>1 DEF TimersInv
<1>4. ASSUME NEW j \in Jobs, Answer(j)
      PROVE  TimersInv'
  <2>1. /\ timers' = IF answer[j] \in Ended THEN timers + 1 ELSE timers
        /\ polls' = IF answer[j] \in Ended THEN polls \ {j} ELSE polls
        /\ j \in polls /\ answer[j] # Nothing
        /\ UNCHANGED <<status, posting>>
    BY <1>4 DEF Answer, Show, PollsAfter
  <2>2. CASE answer[j] \in Ended
    <3>1. j \notin posting
      BY <2>1 DEF Types
    <3>2. Reported' = Reported \cup {j} /\ j \notin Reported
      BY <2>1, <2>2, <3>1 DEF Reported, Types, Ended
    <3>3. Cardinality(Reported') = Cardinality(Reported) + 1
      BY <1>2, <3>2, FS_AddElement
    <3> QED
      BY <1>2, <2>1, <2>2, <3>3 DEF TimersInv
  <2>3. CASE answer[j] \notin Ended
    <3>1. Reported' = Reported
      BY <2>1, <2>3 DEF Reported, Ended
    <3> QED
      BY <1>3, <2>1, <2>3, <3>1 DEF TimersInv
  <2> QED
    BY <2>2, <2>3
<1>5. ASSUME NEW j \in Jobs,
             \/ Confirm(j) \/ CreateJob(j) \/ JobMoves(j)
             \/ StartPolling(j) \/ PostFails(j) \/ Tick(j)
             \/ ReadStatus(j) \/ PollFails(j)
      PROVE  TimersInv'
  <2> USE DEF Reported, Types, Ended, InWork, dialog, net
  <2>1. timers' = timers
    BY <1>5 DEF Confirm, CreateJob, JobMoves, StartPolling,
                PostFails, Tick, ReadStatus, PollFails
  <2>2. Reported \subseteq Reported'
    <3>1. CASE Confirm(j)
      BY <3>1 DEF Confirm
    <3>2. CASE CreateJob(j)
      BY <3>2 DEF CreateJob
    <3>3. CASE JobMoves(j)
      BY <3>3 DEF JobMoves
    <3>4. CASE StartPolling(j)
      BY <3>4 DEF StartPolling
    <3>5. CASE PostFails(j) \/ Tick(j) \/ ReadStatus(j) \/ PollFails(j)
      BY <3>5 DEF PostFails, Tick, ReadStatus, PollFails
    <3> QED
      BY <1>5, <3>1, <3>2, <3>3, <3>4, <3>5
  <2> QED
    BY <1>3, <2>1, <2>2 DEF TimersInv
<1>6. ASSUME \/ OpenModal \/ CloseModal \/ Destroy \/ TimerFires
             \/ UNCHANGED vars
      PROVE  TimersInv'
  <2> USE DEF OpenModal, CloseModal, Destroy, TimerFires,
              vars, net, dialog
  <2>1. Reported \subseteq Reported'
    BY <1>6 DEF Reported
  <2>2. timers' \in Nat /\ timers' <= timers
    BY <1>6 DEF TimersInv
  <2> QED
    BY <1>3, <2>1, <2>2
<1> QED
  BY <1>4, <1>5, <1>6 DEF Next

\* A poll is of a job that was created, and a timer of a job that has ended:
\* what startPolling starts it starts once for each job.
THEOREM TypeCorrect == Spec => []TypeOK
<1>1. Init => Types /\ TimersInv
  BY TypesInit, TimersInit
<1>2. Types /\ TimersInv /\ [Next]_vars => (Types /\ TimersInv)'
  BY TypesNext, TimersNext
<1>3. Types /\ TimersInv => TypeOK
  <2> SUFFICES ASSUME Types, TimersInv PROVE TypeOK
    OBVIOUS
  <2> DEFINE ended == {j \in Jobs : status[j] \in Ended}
  <2>1. IsFiniteSet(ended) /\ Reported \subseteq ended
    <3>1. IsFiniteSet(Jobs)
      BY ActionsAssumption
    <3> QED
      BY <3>1, FS_Subset DEF Reported
  <2>2. /\ Cardinality(Reported) \in Nat /\ Cardinality(ended) \in Nat
        /\ Cardinality(Reported) <= Cardinality(ended)
    BY <2>1, FS_Subset, FS_CardinalityType
  <2>3. timers \in 0 .. Cardinality(ended)
    BY <2>2 DEF TimersInv
  <2>4. timers \in 0 .. Cardinality({j \in Jobs : status[j] \in Ended})
    BY <2>3
  <2> HIDE DEF ended
  <2>5. /\ status \in [Jobs -> {"none"} \cup InWork \cup Ended]
        /\ showModal \in BOOLEAN /\ destroyed \in BOOLEAN
    BY Zenon DEF Types
  <2>6. /\ jobStatus = None
             \/ jobStatus \in [job : Jobs, status : InWork \cup Ended]
        /\ posting \subseteq Jobs /\ polls \subseteq Started
        /\ pollingSub \in Jobs \cup {Nothing}
        /\ errors \in 0 .. MaxErrors
    BY Zenon DEF Types
  <2>7. \A j \in Jobs : answer[j] # Nothing
                        => j \in polls /\ answer[j] \in {Asked} \cup InWork \cup Ended
    BY DEF Types
  <2> QED
    BY <2>4, <2>5, <2>6, <2>7, Zenon DEF TypeOK
<1> QED
  BY <1>1, <1>2, <1>3, PTL DEF Spec

LEMMA PatientInit == Init => PatientInv
BY DEF Init, PatientInv, None, Ended

LEMMA PatientNext ==
    ASSUME Patient, Types, PatientInv, [Next]_vars
    PROVE  PatientInv'
<1> USE DEF PatientInv, None, Ended, dialog, net
<1>1. OpenModal => PatientInv'
  BY DEF OpenModal
<1>2. CloseModal => PatientInv'
  BY DEF CloseModal, Close
<1>3. Destroy => PatientInv'
  BY DEF Destroy
<1>4. TimerFires => PatientInv'
  BY DEF TimerFires, CloseOnSuccess, Close
<1>5. ASSUME NEW j \in Jobs, Confirm(j)
      PROVE  PatientInv'
  BY <1>5 DEF Confirm
<1>6. ASSUME NEW j \in Jobs, CreateJob(j) \/ JobMoves(j) \/ Tick(j) \/ ReadStatus(j)
      PROVE  PatientInv'
  BY <1>6 DEF CreateJob, JobMoves, Tick, ReadStatus
<1>7. ASSUME NEW j \in Jobs, StartPolling(j)
      PROVE  PatientInv'
  BY <1>7 DEF StartPolling
<1>8. ASSUME NEW j \in Jobs, PostFails(j) \/ PollFails(j)
      PROVE  PatientInv'
  BY <1>8 DEF PostFails, PollFails
<1>9. ASSUME NEW j \in Jobs, Answer(j)
      PROVE  PatientInv'
  <2>1. /\ jobStatus' = [job |-> j, status |-> answer[j]]
        /\ polls' = IF answer[j] \in Ended THEN polls \ {j} ELSE polls
        /\ j \in polls /\ posting' = posting
    BY <1>9 DEF Answer, Show, PollsAfter
  <2>2. j \notin posting
    BY <2>1 DEF Types
  <2> QED
    BY <2>1, <2>2
<1>10. UNCHANGED vars => PatientInv'
  BY DEF vars
<1> QED
  BY <1>1, <1>2, <1>3, <1>4, <1>5, <1>6, <1>7, <1>8, <1>9, <1>10 DEF Next

\* With a patient user no timer, of this job or of an earlier one, closes the
\* dialog while the job that it follows runs or is about to (setTimeout in
\* startPolling, closeModal).
THEOREM NoCloseOnWork == ASSUME Patient PROVE Spec => NoCloseInWork
<1>1. Init => Types /\ PatientInv
  BY TypesInit, PatientInit
<1>2. Types /\ PatientInv /\ [Next]_vars => (Types /\ PatientInv)'
  BY TypesNext, PatientNext
<1>3. PatientInv /\ [Next]_vars
        => [TimerFires /\ showModal /\ ~showModal' =>
              \A j \in posting \cup polls : status[j] \in Ended]_vars
  BY DEF PatientInv, TimerFires, CloseOnSuccess, Close, dialog,
         Ended
<1> QED
  BY <1>1, <1>2, <1>3, PTL DEF Spec, NoCloseInWork
=============================================================================
