------------------------- MODULE Bracketing_proofs --------------------------
(***************************************************************************)
(* The checkups find every damage and refuse nothing that is right.        *)
(***************************************************************************)
EXTENDS Bracketing, FiniteSetTheorems, TLAPS

USE BracketingAssumption

\* A checkup keeps exactly as many shards as a block has data shards: with one
\* fewer nothing could be rebuilt, with one more nothing would be tested.
THEOREM KeptEnough ==
    ASSUME NEW n \in Checkups
    PROVE  /\ Kept(n) \subseteq Indexes
           /\ IsFiniteSet(Kept(n))
           /\ Cardinality(Kept(n)) = DataShards
<1>1. IsFiniteSet(ParityAndTail) /\ Cardinality(ParityAndTail) = DataShards - 1
  <2>1. ParityShards + 1 \in Int /\ DataShards + ParityShards - 1 \in Int
    OBVIOUS
  <2>2. ParityShards + 1 <= DataShards + ParityShards - 1
        \/ DataShards + ParityShards - 1 < ParityShards + 1
    OBVIOUS
  <2>3. Cardinality(ParityAndTail) =
            IF ParityShards + 1 > DataShards + ParityShards - 1 THEN 0
            ELSE (DataShards + ParityShards - 1) - (ParityShards + 1) + 1
    BY <2>1, FS_Interval DEF ParityAndTail
  <2>4. IsFiniteSet(ParityAndTail)
    BY <2>1, FS_Interval DEF ParityAndTail
  <2> QED
    BY <2>3, <2>4
<1>2. ParityShards - n \notin ParityAndTail
  BY DEF Checkups, ParityAndTail
<1>3. IsFiniteSet(Kept(n)) /\ Cardinality(Kept(n)) = DataShards
  <2>1. Kept(n) = ParityAndTail \cup {ParityShards - n}
    BY DEF Kept
  <2>2. IsFiniteSet(ParityAndTail \cup {ParityShards - n})
        /\ Cardinality(ParityAndTail \cup {ParityShards - n}) = Cardinality(ParityAndTail) + 1
    BY <1>1, <1>2, FS_AddElement
  <2> QED
    BY <1>1, <2>1, <2>2
<1>4. Kept(n) \subseteq Indexes
  BY DEF Kept, ParityAndTail, Checkups, Indexes
<1> QED
  BY <1>3, <1>4

\* Every shard is kept by some checkup: the first ParityShards + 1 by one each,
\* the others by all.
THEOREM EveryShardIsKept ==
    ASSUME NEW i \in Indexes
    PROVE  \E n \in Checkups : i \in Kept(n)
<1>1. CASE i <= ParityShards
  <2>1. ParityShards - i \in Checkups /\ i \in Kept(ParityShards - i)
    BY <1>1 DEF Indexes, Checkups, Kept
  <2> QED
    BY <2>1
<1>2. CASE i > ParityShards
  <2>1. 0 \in Checkups /\ i \in Kept(0)
    BY <1>2 DEF Indexes, Checkups, Kept, ParityAndTail
  <2> QED
    BY <2>1
<1> QED
  BY <1>1, <1>2 DEF Indexes

\* A checkup that passes has seen the right bytes in every shard it keeps.
LEMMA MatchesAgree ==
    ASSUME NEW n, Matches(n)
    PROVE  Agree(Encode[data], shards, Kept(n))
<1>1. \E b \in Blocks : Agree(Encode[b], shards, Kept(n))
  BY DEF Matches, Rebuilds
<1>2. Agree(Encode[Rebuilt(Kept(n))], shards, Kept(n))
  BY <1>1 DEF Rebuilt
<1> QED
  BY <1>2 DEF Matches

\* The inductive invariant: the checkups so far have passed, and they are run
\* from the first to the last.
PassedSoFar ==
    outcome \in {"checking", "passed"} =>
        \A n \in Checkups : n < checkup => Agree(Encode[data], shards, Kept(n))

ToTheEnd ==
    /\ outcome = "encoding" => checkup = 0
    /\ outcome = "passed" => checkup = ParityShards + 1

BracketInv == TypeOK /\ PassedSoFar /\ ToTheEnd

\* The invariant holds of every state, whatever word the encoder gave.
LEMMA BracketInvariant == Spec => []BracketInv
<1>1. Init => BracketInv
  BY DEF Init, BracketInv, TypeOK, PassedSoFar, ToTheEnd, Checkups
<1>2. BracketInv /\ [Next]_vars => BracketInv'
  <2> SUFFICES ASSUME BracketInv, [Next]_vars
               PROVE  BracketInv'
    OBVIOUS
  <2> USE DEF BracketInv, TypeOK
  <2>1. CASE EncodeBlock
    BY <2>1 DEF EncodeBlock, PassedSoFar, ToTheEnd, Checkups
  <2>2. CASE EncodeErrs
    BY <2>2 DEF EncodeErrs, PassedSoFar, ToTheEnd
  <2>3. CASE CheckupPasses
    <3>1. Agree(Encode[data], shards, Kept(checkup))
      BY <2>3, MatchesAgree DEF CheckupPasses
    <3>2. \A n \in Checkups : n < checkup + 1 => n < checkup \/ n = checkup
      BY DEF Checkups
    <3>3. PassedSoFar'
      BY <2>3, <3>1, <3>2 DEF CheckupPasses, PassedSoFar, Agree, Kept
    <3>4. TypeOK' /\ ToTheEnd'
      BY <2>3 DEF CheckupPasses, Checkups, ToTheEnd
    <3> QED
      BY <3>3, <3>4
  <2>4. CASE CheckupFails
    BY <2>4 DEF CheckupFails, PassedSoFar, ToTheEnd
  <2>5. CASE Return
    <3>1. checkup = ParityShards + 1
      BY <2>5 DEF Return, Checkups
    <3> QED
      BY <2>5, <3>1 DEF Return, PassedSoFar, ToTheEnd, Agree, Kept
  <2>6. CASE UNCHANGED vars
    BY <2>6 DEF vars, PassedSoFar, ToTheEnd, Agree, Kept
  <2> QED
    BY <2>1, <2>2, <2>3, <2>4, <2>5, <2>6 DEF Next
<1> QED
  BY <1>1, <1>2, PTL DEF Spec

\* The type invariant: the loop ends after the last checkup, and only shards
\* that EncodeAndBracket got from the library are checked.
THEOREM TypeCorrect == Spec => []TypeOK
BY BracketInvariant, PTL DEF BracketInv

\* What SimulateDisasterAndVerify lets through is the encoding of the block,
\* whatever went wrong before it and whatever the encoder is.
THEOREM PassedShardsAreIntact == Spec => []PassedIsIntact
<1>1. BracketInv => PassedIsIntact
  <2> SUFFICES ASSUME BracketInv, outcome = "passed"
               PROVE  shards = Encode[data]
    BY DEF PassedIsIntact
  <2>1. shards \in Words /\ Encode[data] \in Words
    BY DEF BracketInv, TypeOK
  <2>2. \A i \in Indexes : shards[i] = Encode[data][i]
    <3> SUFFICES ASSUME NEW i \in Indexes
                 PROVE  shards[i] = Encode[data][i]
      OBVIOUS
    <3>1. PICK n \in Checkups : i \in Kept(n)
      BY EveryShardIsKept
    <3>2. n < checkup
      BY DEF BracketInv, ToTheEnd, Checkups
    <3>3. Agree(Encode[data], shards, Kept(n))
      BY <3>2 DEF BracketInv, PassedSoFar
    <3> QED
      BY <3>1, <3>3 DEF Agree
  <2> QED
    BY <2>1, <2>2 DEF Words
<1> QED
  BY <1>1, BracketInvariant, PTL

\* With a code that keeps what Reed-Solomon codes promise, shards that are right
\* are never refused: an upload does not fail here for no reason.
THEOREM IntactShardsPass == ASSUME MDS PROVE Spec => []IntactIsPassed
<1> DEFINE NoAlarm == outcome = "failed" => shards # Encode[data]
<1>1. Init => NoAlarm
  BY DEF Init
<1>2. BracketInv /\ NoAlarm /\ [Next]_vars => NoAlarm'
  <2> SUFFICES ASSUME BracketInv, NoAlarm, [Next]_vars
               PROVE  NoAlarm'
    OBVIOUS
  <2>1. CASE CheckupFails
    <3> SUFFICES ASSUME shards = Encode[data]
                 PROVE  FALSE
      BY <2>1 DEF CheckupFails
    <3> DEFINE K == Kept(checkup)
    <3>1. data \in Blocks /\ shards \in Words /\ checkup \in Checkups
      BY <2>1 DEF CheckupFails, BracketInv, TypeOK
    <3>2. K \in SUBSET Indexes /\ Cardinality(K) = DataShards
      BY <3>1, KeptEnough
    <3>3. PICK b \in Blocks :
              /\ Agree(Encode[b], shards, K)
              /\ \A c \in Blocks : Agree(Encode[c], shards, K) => c = b
      BY <3>1, <3>2 DEF MDS
    <3>4. Agree(Encode[data], shards, K)
      BY DEF Agree
    <3>5. Rebuilt(K) \in Blocks /\ Agree(Encode[Rebuilt(K)], shards, K)
      BY <3>3 DEF Rebuilt
    <3>6. Rebuilt(K) = data
      BY <3>1, <3>3, <3>4, <3>5
    <3>7. Matches(checkup)
      BY <3>3, <3>6 DEF Matches, Rebuilds
    <3> QED
      BY <2>1, <3>7 DEF CheckupFails
  <2>2. CASE EncodeBlock \/ EncodeErrs \/ CheckupPasses \/ Return
    BY <2>2 DEF EncodeBlock, EncodeErrs, CheckupPasses, Return
  <2>3. CASE UNCHANGED vars
    BY <2>3 DEF vars
  <2> QED
    BY <2>1, <2>2, <2>3 DEF Next
<1>3. NoAlarm => IntactIsPassed
  BY DEF IntactIsPassed
<1> QED
  BY <1>1, <1>2, <1>3, BracketInvariant, PTL DEF Spec
=============================================================================
