------------------------ MODULE UsageCharging_proofs ------------------------
(***************************************************************************)
(* Proofs about UsageCharging, for any uploads, discs, workers and chunks. *)
(* Of the sums of chargeUsage the locks and the ledger use nothing but     *)
(* that they are sums of the same chunks in the UPDATE and in the ledger;  *)
(* that the counters stay natural numbers needs that the sums are.         *)
(***************************************************************************)
EXTENDS UsageCharging, FoldLemmas

(***************************************************************************)
(* The inductive invariant.  Shape is what it needs of TypeOK.  Locks says *)
(* that a transaction holds and wants only rows it uses, those of the      *)
(* workers only in the second loop, and that a row is held, wanted or left *)
(* until the loop is done.  Drafts says that a held row is, in the draft   *)
(* of its holder, the committed row and the charge: nobody can have        *)
(* committed it since.                                                     *)
(***************************************************************************)
Shape ==
    /\ pc \in [Uploads -> {"insert"} \cup Loops \cup Ended]
    /\ left \in [Uploads -> SUBSET Rows]
    /\ asks \in [Uploads -> Rows \cup {NoRow}]
    /\ holder \in [Rows -> Uploads \cup {NoUpload}]
    /\ row = [r \in Rows |-> row[r]]
    /\ draft = [u \in Uploads |-> [r \in Rows |-> draft[u][r]]]

Held(u)   == {r \in Rows : holder[r] = u}
Wanted(u) == {asks[u]} \ {NoRow}

LocksOf(u) ==
    /\ pc[u] \notin Loops => Held(u) = {} /\ Wanted(u) = {}
    /\ Held(u) \cap (Wanted(u) \cup left[u]) = {} /\ Wanted(u) \cap left[u] = {}
    /\ pc[u] = "discs" => Held(u) \cup Wanted(u) \cup left[u] = PerDisc(u)
    /\ pc[u] = "workers" =>
          /\ Wanted(u) \cup left[u] \subseteq PerWorker(u)
          /\ Held(u) \cup Wanted(u) \cup left[u] = Uses(u)

Locks == \A u \in Uploads : LocksOf(u)

Drafts == \A u \in Uploads : \A r \in Held(u) : draft[u][r] = Updated(u, r)

IInv == Shape /\ Locks /\ Drafts

LEMMA KeysTyped ==
    ASSUME NEW u \in Uploads
    PROVE  PerDisc(u) \subseteq Discs /\ PerWorker(u) \subseteq Workers
  BY ChargingAssumption DEF PerDisc, PerWorker

LEMMA ShapeInit == Init => Shape
  BY DEF Init, Shape, Loops, Ended

LEMMA ShapeStep == Shape /\ [Next]_vars => Shape'
  <1> SUFFICES ASSUME Shape, [Next]_vars PROVE Shape'
    OBVIOUS
  <1> USE DEF Shape, Loops, Ended
  <1>1. ASSUME NEW u \in Uploads, Insert(u) PROVE Shape'
    BY <1>1, KeysTyped DEF Insert, Keys, Rows
  <1>2. ASSUME NEW u \in Uploads, Ask(u) PROVE Shape'
    BY <1>2 DEF Ask
  <1>3. ASSUME NEW u \in Uploads, Update(u) PROVE Shape'
    BY <1>3 DEF Update
  <1>4. ASSUME NEW u \in Uploads, ChargeWorkers(u) PROVE Shape'
    BY <1>4, KeysTyped DEF ChargeWorkers, Keys, Rows
  <1>5. ASSUME NEW u \in Uploads, Commit(u) PROVE Shape'
    BY <1>5 DEF Commit, Release
  <1>6. ASSUME NEW u \in Uploads, Rollback(u) PROVE Shape'
    BY <1>6 DEF Rollback, Release
  <1>7. CASE UNCHANGED vars
    BY <1>7 DEF vars
  <1>8. QED
    BY <1>1, <1>2, <1>3, <1>4, <1>5, <1>6, <1>7 DEF Next, Step, Fail, Abort

(***************************************************************************)
(* Locks.  Every action changes the locks of one transaction; the step for *)
(* an action shows that LocksOf holds of it afterwards, and Others that it *)
(* holds of the rest.                                                      *)
(***************************************************************************)
LEMMA Others ==
    ASSUME NEW w \in Uploads, LocksOf(w),
           UNCHANGED <<pc[w], asks[w], left[w]>>, Held(w)' = Held(w)
    PROVE  LocksOf(w)'
  BY DEF LocksOf, Wanted

LEMMA LocksInit == Init => Locks
  BY ChargingAssumption DEF Init, Locks, LocksOf, Held, Wanted, Loops

LEMMA LocksStep == IInv /\ [Next]_vars => Locks'
  <1> SUFFICES ASSUME IInv, [Next]_vars PROVE Locks'
    OBVIOUS
  <1>0. \A w \in Uploads : LocksOf(w)
    BY DEF IInv, Locks, LocksOf
  <1>1. ASSUME NEW u \in Uploads, Insert(u), NEW w \in Uploads PROVE LocksOf(w)'
    <2>1. CASE w = u
      BY <1>0, <1>1, <2>1, KeysTyped DEF Insert, LocksOf, IInv, Shape, Held, Wanted, Keys, Loops
    <2>2. CASE w # u
      BY <1>0, <1>1, <2>2, Others DEF Insert, IInv, Shape, Held
    <2> QED BY <2>1, <2>2
  <1>2. ASSUME NEW u \in Uploads, Ask(u), NEW w \in Uploads PROVE LocksOf(w)'
    <2>1. CASE w = u
      <3>1. PICK r \in left[u] : /\ asks' = [asks EXCEPT ![u] = r]
                                 /\ left' = [left EXCEPT ![u] = @ \ {r}]
        BY <1>2 DEF Ask
      <3>2. r \in Rows /\ r # NoRow
        BY <3>1, ChargingAssumption DEF IInv, Shape
      <3>3. Wanted(u) = {} /\ Wanted(u)' = {r} /\ left[u]' = left[u] \ {r}
            /\ Held(u)' = Held(u) /\ pc' = pc /\ pc[u] \in Loops
        BY <1>2, <3>1, <3>2 DEF Ask, Wanted, Held, IInv, Shape
      <3> QED BY <1>0, <2>1, <3>1, <3>3 DEF LocksOf
    <2>2. CASE w # u
      BY <1>0, <1>2, <2>2, Others DEF Ask, IInv, Shape, Held
    <2> QED BY <2>1, <2>2
  <1>3. ASSUME NEW u \in Uploads, Update(u), NEW w \in Uploads PROVE LocksOf(w)'
    <2>1. CASE w = u
      <3>1. /\ Wanted(u) = {asks[u]} /\ Wanted(u)' = {}
            /\ Held(u)' = Held(u) \cup {asks[u]}
            /\ UNCHANGED <<pc, left>>
        BY <1>3, ChargingAssumption DEF Update, Wanted, Held, IInv, Shape
      <3>2. asks[u] \notin left[u]
        BY <1>0, <3>1 DEF LocksOf
      <3> QED BY <1>0, <2>1, <3>1, <3>2 DEF LocksOf
    <2>2. CASE w # u
      BY <1>0, <1>3, <2>2, Others, ChargingAssumption DEF Update, IInv, Shape, Held
    <2> QED BY <2>1, <2>2
  <1>4. ASSUME NEW u \in Uploads, ChargeWorkers(u), NEW w \in Uploads PROVE LocksOf(w)'
    <2>1. CASE w = u
      <3>1. Wanted(u) = {} /\ Held(u) = PerDisc(u)
        BY <1>0, <1>4 DEF ChargeWorkers, LocksOf, Wanted
      <3>2. /\ pc[u]' = "workers" /\ left[u]' = PerWorker(u)
            /\ Wanted(u)' = {} /\ Held(u)' = PerDisc(u)
        BY <1>4, <3>1 DEF ChargeWorkers, Keys, Wanted, Held, IInv, Shape
      <3>3. PerDisc(u) \cap PerWorker(u) = {}
        BY KeysTyped, ChargingAssumption
      <3> QED BY <2>1, <3>2, <3>3 DEF LocksOf, Uses, Loops
    <2>2. CASE w # u
      BY <1>0, <1>4, <2>2, Others DEF ChargeWorkers, IInv, Shape, Held
    <2> QED BY <2>1, <2>2
  <1>5. ASSUME NEW u \in Uploads, Release(u), NEW s \in Ended,
               pc' = [pc EXCEPT ![u] = s], asks' = [asks EXCEPT ![u] = NoRow],
               left' = left, NEW w \in Uploads
        PROVE  LocksOf(w)'
    <2>1. CASE w = u
      BY <1>5, <2>1, ChargingAssumption DEF Release, LocksOf, Held, Wanted, IInv, Shape, Loops, Ended
    <2>2. CASE w # u
      BY <1>0, <1>5, <2>2, Others, ChargingAssumption DEF Release, IInv, Shape, Held
    <2> QED BY <2>1, <2>2
  <1>6. ASSUME NEW u \in Uploads, Commit(u), NEW w \in Uploads PROVE LocksOf(w)'
    BY <1>5, <1>6 DEF Commit, Ended, IInv, Shape
  <1>7. ASSUME NEW u \in Uploads, Rollback(u), NEW w \in Uploads PROVE LocksOf(w)'
    BY <1>5, <1>7 DEF Rollback, Ended
  <1>8. ASSUME UNCHANGED vars, NEW w \in Uploads PROVE LocksOf(w)'
    BY <1>0, <1>8, Others DEF vars, Held
  <1>9. \A w \in Uploads : LocksOf(w)'
    BY <1>1, <1>2, <1>3, <1>4, <1>6, <1>7, <1>8 DEF Next, Step, Fail, Abort
  <1> QED BY <1>9 DEF Locks, LocksOf

(***************************************************************************)
(* Drafts.  A row that is committed was held by the one who commits it, so *)
(* the rows others hold stay as they are.                                  *)
(***************************************************************************)
LEMMA DraftsStep == IInv /\ [Next]_vars => Drafts'
  <1> SUFFICES ASSUME IInv, [Next]_vars, NEW w \in Uploads, NEW r \in Rows, holder'[r] = w
               PROVE  (draft[w][r] = Updated(w, r))'
    BY DEF Drafts, Held
  <1>0. \A u \in Uploads, s \in Rows : holder[s] = u => draft[u][s] = Updated(u, s)
    BY DEF IInv, Drafts, Held
  <1> USE DEF IInv, Shape, Updated
  <1>1. CASE UNCHANGED <<holder, row, draft>>
    BY <1>0, <1>1
  <1>2. ASSUME NEW u \in Uploads, Update(u) PROVE (draft[w][r] = Updated(w, r))'
    <2>1. CASE r = asks[u]
      BY <1>2, <2>1 DEF Update
    <2>2. CASE r # asks[u]
      BY <1>0, <1>2, <2>2 DEF Update
    <2> QED BY <2>1, <2>2
  <1>3. ASSUME NEW u \in Uploads, Release(u),
               \A s \in Rows : holder[s] # u => row'[s] = row[s], draft' = draft
        PROVE  (draft[w][r] = Updated(w, r))'
    <2>1. holder[r] = w /\ w # u
      BY <1>3, ChargingAssumption DEF Release
    <2> QED BY <1>0, <1>3, <2>1
  <1>4. ASSUME NEW u \in Uploads, Commit(u) PROVE (draft[w][r] = Updated(w, r))'
    BY <1>3, <1>4 DEF Commit
  <1>5. ASSUME NEW u \in Uploads, Rollback(u) PROVE (draft[w][r] = Updated(w, r))'
    BY <1>3, <1>5 DEF Rollback
  <1> QED
    BY <1>1, <1>2, <1>4, <1>5 DEF Next, Step, Insert, Ask, ChargeWorkers, Fail, Abort, vars

LEMMA Invariant == Spec => []IInv
  <1>1. Init => IInv
    <2>1. Init => Drafts
      BY ChargingAssumption DEF Init, Drafts, Held
    <2> QED BY <2>1, ShapeInit, LocksInit DEF IInv
  <1>2. IInv /\ [Next]_vars => IInv'
    BY ShapeStep, LocksStep, DraftsStep DEF IInv
  <1> QED BY <1>1, <1>2, PTL DEF Spec

(***************************************************************************)
(* Types.  A counter is a natural number because every charge is one.      *)
(***************************************************************************)
LEMMA ChargeNat ==
    ASSUME NEW u \in Uploads, NEW r
    PROVE  Charge(u, r) \in Nat
  <1> DEFINE S == {c \in Chunks[u] : r \in {c.disc, c.worker}}
  <1>1. IsFiniteSet(S)
    BY ChargingAssumption, FS_Subset
  <1>2. Sized(S)
    BY ChargingAssumption DEF Sized
  <1> HIDE DEF S
  <1>3. SizeSum(S) \in Nat
    BY <1>1, <1>2, SizeSumNat
  <1> QED BY <1>3 DEF Charge, SizeSum, S

LEMMA UpdatedAmount ==
    ASSUME NEW u \in Uploads, NEW r \in Rows, row[r] \in Amount
    PROVE  Updated(u, r) \in Amount
  <1> DEFINE bytes == row[r].bytes + Charge(u, r)
  <1>1. bytes \in Nat
    BY ChargeNat DEF Amount
  <1>2. bytes \div BytesPerMB \in Nat
    BY <1>1, ChargingAssumption
  <1> QED BY <1>1, <1>2 DEF Updated, Amount

Amounts ==
    /\ \A r \in Rows : row[r] \in Amount
    /\ \A u \in Uploads, r \in Rows : draft[u][r] \in Amount
    /\ errors \in 0 .. MaxErrors

LEMMA AmountsStep == IInv /\ Amounts /\ [Next]_vars => Amounts'
  <1> SUFFICES ASSUME IInv, Amounts, [Next]_vars PROVE Amounts'
    OBVIOUS
  <1> USE DEF Amounts, IInv, Shape
  <1>1. ASSUME NEW u \in Uploads, Update(u) PROVE Amounts'
    <2>1. Updated(u, asks[u]) \in Amount
      BY <1>1, UpdatedAmount DEF Update
    <2> QED BY <1>1, <2>1 DEF Update
  <1>2. ASSUME NEW u \in Uploads, Commit(u) PROVE Amounts'
    BY <1>2 DEF Commit
  <1>3. ASSUME NEW u \in Uploads, Fail(u) PROVE Amounts'
    BY <1>3, ChargingAssumption DEF Fail, Rollback
  <1>4. ASSUME NEW u \in Uploads, Abort(u) PROVE Amounts'
    BY <1>4 DEF Abort, Rollback
  <1>5. ASSUME NEW u \in Uploads, Insert(u) \/ Ask(u) \/ ChargeWorkers(u) PROVE Amounts'
    BY <1>5 DEF Insert, Ask, ChargeWorkers
  <1>6. CASE UNCHANGED vars
    BY <1>6 DEF vars
  <1> QED BY <1>1, <1>2, <1>3, <1>4, <1>5, <1>6 DEF Next, Step

\* Counters stay natural numbers, errors stay within their bound, and only a
\* loop asks for a row.
THEOREM TypesHold == Spec => []TypeOK
  <1>1. Init => Amounts
    BY ChargingAssumption DEF Init, Amounts, Amount
  <1>2. Spec => []Amounts
    BY <1>1, Invariant, AmountsStep, PTL DEF Spec
  <1>3. IInv /\ Amounts => TypeOK
    <2> SUFFICES ASSUME IInv, Amounts PROVE TypeOK
      OBVIOUS
    <2>1. row \in [Rows -> Amount] /\ draft \in [Uploads -> [Rows -> Amount]]
      BY DEF IInv, Shape, Amounts
    <2>2. \A u \in Uploads : pc[u] \notin Loops => asks[u] = NoRow
      BY DEF IInv, Locks, LocksOf, Wanted
    <2> QED BY <2>1, <2>2 DEF IInv, Shape, Amounts, TypeOK
  <1> QED BY <1>2, <1>3, Invariant, PTL

(***************************************************************************)
(* Deadlocks                                                               *)
(***************************************************************************)
\* In a ring, each holds a row that another of it wants, besides the one it
\* wants itself: without it the rest would be stuck.
LEMMA RingIsTight ==
    ASSUME IInv, NEW S \in SUBSET Uploads, Ring(S), NEW u \in S
    PROVE  \E v \in S : asks[v] \in Rows /\ holder[asks[v]] = u /\ asks[v] # asks[u]
  <1> DEFINE R == S \ {u}
  <1>1. PICK w \in S : WaitsFor(u, w)
    BY DEF Ring, Stuck
  <1>2. R # {} /\ R \in SUBSET S /\ R # S
    BY <1>1 DEF WaitsFor
  <1>3. ~ Stuck(R)
    BY <1>2 DEF Ring
  <1>4. PICK v \in R : \A x \in R : ~ WaitsFor(v, x)
    BY <1>2, <1>3 DEF Stuck
  <1>5. WaitsFor(v, u)
    BY <1>4 DEF Ring, Stuck
  <1> QED BY <1>1, <1>5 DEF WaitsFor

\* Deadlocks need two discs or two workers of every upload in them.
THEOREM DeadlocksNeedTwo == Spec => []DeadlockNeedsTwo
  <1>1. IInv => DeadlockNeedsTwo
    <2> SUFFICES ASSUME IInv, NEW S \in SUBSET Uploads, Ring(S)
                 PROVE  \/ \A u \in S : asks[u] \in PerDisc(u) /\ PerDisc(u) # {asks[u]}
                        \/ \A u \in S : asks[u] \in PerWorker(u) /\ PerWorker(u) # {asks[u]}
      BY DEF DeadlockNeedsTwo
    <2> DEFINE W == {u \in S : asks[u] \in Workers}
    <2>1. \A u \in S : asks[u] \in Rows /\ asks[u] \in Wanted(u) /\ pc[u] \in Loops
      BY ChargingAssumption DEF Ring, Stuck, WaitsFor, IInv, Locks, LocksOf, Wanted
    <2>2. \A u \in S : pc[u] = "discs" => Held(u) \subseteq Discs /\ asks[u] \in PerDisc(u)
                                        /\ Held(u) \subseteq PerDisc(u)
      BY <2>1, KeysTyped DEF IInv, Locks, LocksOf
    <2>3. \A u \in S : pc[u] = "workers" => asks[u] \in PerWorker(u) /\ Held(u) \subseteq Uses(u)
      BY <2>1 DEF IInv, Locks, LocksOf
    <2>4. \A u \in S : Held(u) \cap Workers \subseteq PerWorker(u)
      BY <2>1, <2>2, <2>3, KeysTyped, ChargingAssumption DEF Uses, Loops
    <2>5. \A u \in S : asks[u] \in Workers <=> pc[u] = "workers"
      BY <2>1, <2>2, <2>3, KeysTyped, ChargingAssumption DEF Loops
    <2>6. CASE W = {}
      <3> SUFFICES ASSUME NEW u \in S
                   PROVE  asks[u] \in PerDisc(u) /\ PerDisc(u) # {asks[u]}
        OBVIOUS
      <3>1. PICK v \in S : asks[v] \in Rows /\ holder[asks[v]] = u /\ asks[v] # asks[u]
        BY RingIsTight
      <3>2. pc[u] = "discs" /\ asks[v] \in Held(u)
        BY <2>1, <2>5, <2>6, <3>1 DEF Loops, Held
      <3> QED BY <2>2, <3>1, <3>2
    <2>7. CASE W # {}
      <3>1. ASSUME NEW u \in W PROVE \E v \in W : WaitsFor(u, v)
        <4>1. PICK v \in S : WaitsFor(u, v)
          BY DEF Ring, Stuck
        <4>2. asks[u] \in Held(v) /\ asks[u] \in Workers
          BY <4>1 DEF WaitsFor, Held
        <4>3. pc[v] = "workers"
          BY <2>1, <2>2, <4>2, ChargingAssumption DEF Loops
        <4> QED BY <2>5, <4>1, <4>3
      <3>2. W = S
        BY <2>7, <3>1 DEF Ring, Stuck
      <3> SUFFICES ASSUME NEW u \in S
                   PROVE  asks[u] \in PerWorker(u) /\ PerWorker(u) # {asks[u]}
        OBVIOUS
      <3>3. PICK v \in S : asks[v] \in Rows /\ holder[asks[v]] = u /\ asks[v] # asks[u]
        BY RingIsTight
      <3>4. asks[v] \in PerWorker(u)
        BY <2>4, <3>2, <3>3 DEF Held
      <3> QED BY <2>3, <2>5, <3>2, <3>3, <3>4
    <2> QED BY <2>6, <2>7
  <1> QED BY <1>1, Invariant, PTL

(***************************************************************************)
(* The ledger                                                              *)
(***************************************************************************)
\* The transactions implement the ledger.
THEOREM Implements == Spec => ChargesOnce
  <1>1. Init => Books!Init
    BY DEF Init, Books!Init, Verdict, Ended
  <1>2. IInv /\ [Next]_vars => [Books!Next]_(Books!vars)
    <2> SUFFICES ASSUME IInv, [Next]_vars PROVE [Books!Next]_(Books!vars)
      OBVIOUS
    <2>1. ASSUME NEW u \in Uploads, Commit(u) PROVE Books!Book(u)
      <3>1. Held(u) = Uses(u)
        <4>1. Wanted(u) = {} /\ left[u] = {} /\ pc[u] = "workers"
          BY <2>1 DEF Commit, Wanted
        <4>2. Held(u) \cup Wanted(u) \cup left[u] = Uses(u)
          BY <4>1 DEF IInv, Locks, LocksOf
        <4> QED BY <4>1, <4>2
      <3>2. row' = [r \in Rows |-> IF r \in Uses(u) THEN Updated(u, r) ELSE row[r]]
        BY <2>1, <3>1 DEF Commit, IInv, Drafts, Held
      <3>3. Verdict[u] = "open" /\ Verdict' = [Verdict EXCEPT ![u] = "booked"]
        BY <2>1 DEF Commit, Verdict, IInv, Shape, Ended
      <3> QED BY <3>2, <3>3 DEF Books!Book, Books!After, Updated
    <2>2. ASSUME NEW u \in Uploads, Rollback(u), pc[u] \notin Ended PROVE Books!Refuse(u)
      BY <2>2 DEF Rollback, Books!Refuse, Verdict, IInv, Shape, Ended
    <2>3. ASSUME NEW u \in Uploads, Abort(u) PROVE pc[u] \notin Ended
      BY <2>3, ChargingAssumption DEF Abort, Ring, Stuck, WaitsFor, IInv, Locks, LocksOf, Wanted, Loops, Ended
    <2>4. ASSUME NEW u \in Uploads, Insert(u) \/ Ask(u) \/ Update(u) \/ ChargeWorkers(u)
          PROVE  UNCHANGED Books!vars
      BY <2>4 DEF Insert, Ask, Update, ChargeWorkers, Books!vars, Verdict, IInv, Shape, Loops, Ended
    <2>5. CASE UNCHANGED vars
      BY <2>5 DEF vars, Books!vars, Verdict
    <2> QED
      BY <2>1, <2>2, <2>3, <2>4, <2>5 DEF Next, Step, Fail, Abort, Books!Next
  <1> QED BY <1>1, <1>2, Invariant, PTL DEF Spec, ChargesOnce, Books!Spec
=============================================================================
