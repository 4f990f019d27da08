------------------------ MODULE UploadStaging_proofs ------------------------
(***************************************************************************)
(* Proofs about UploadStaging, for files and parts of any size, any number *)
(* of requests and restarts, and a client that sends one request at a time *)
(* for each part and for the completion, as those of the repository do.    *)
(* The last part is about OwnerLookup, the other half of a completion.     *)
(***************************************************************************)
EXTENDS UploadStaging, OwnerLookup, TLAPS

Alone == ~OverlappingPuts /\ ~OverlappingCompletes

(***************************************************************************)
(* Arithmetic: where a part lies in the file                               *)
(***************************************************************************)
\* The bytes before part k + 1.
Upto(k) == IF k * SliceSize <= TotalSize THEN k * SliceSize ELSE TotalSize

\* Every part starts before the end of the file.
LEMMA PartStarts ==
    ASSUME NEW p \in Parts
    PROVE  p \in Nat \ {0} /\ (p - 1) * SliceSize < TotalSize
<1> DEFINE n == TotalSize + SliceSize - 1
<1>1. n \in Nat /\ SliceSize \in Nat \ {0}
  BY StagingAssumption
<1>2. (n \div SliceSize) \in Nat /\ (n \div SliceSize) * SliceSize <= n
  BY <1>1
<1>3. p \in Nat \ {0} /\ p <= n \div SliceSize
  BY <1>2 DEF Parts
<1>4. p * SliceSize <= (n \div SliceSize) * SliceSize
  BY <1>1, <1>2, <1>3
<1>5. p * SliceSize = (p - 1) * SliceSize + SliceSize
  BY <1>1, <1>3
<1> QED
  BY <1>1, <1>2, <1>3, <1>4, <1>5, StagingAssumption

\* No part starts after the end of the file.
LEMMA UptoNat ==
    ASSUME NEW k \in Nat
    PROVE  Upto(k) \in Nat /\ Upto(k) <= TotalSize
BY StagingAssumption DEF Upto

\* A part begins where the parts before it end, and ends where the next begins.
LEMMA UptoPart ==
    ASSUME NEW p \in Parts
    PROVE  /\ PartLen(p) \in 1 .. SliceSize
           /\ Upto(p - 1) = (p - 1) * SliceSize
           /\ Upto(p) = Upto(p - 1) + PartLen(p)
<1>1. p \in Nat \ {0} /\ (p - 1) * SliceSize < TotalSize
  BY PartStarts
<1>2. p * SliceSize = (p - 1) * SliceSize + SliceSize /\ (p - 1) * SliceSize \in Nat
  BY <1>1, StagingAssumption
<1> QED
  BY <1>1, <1>2, StagingAssumption DEF Upto, PartLen

\* Leaving out a part leaves out bytes.
LEMMA UptoGrows ==
    ASSUME NEW p \in Parts, NEW k \in Nat, k < p - 1
    PROVE  Upto(k) < Upto(p - 1)
<1>1. p \in Nat \ {0} /\ (p - 1) * SliceSize < TotalSize
  BY PartStarts
<1>2. PICK d \in Nat \ {0} : p - 1 = k + d
  <2>1. (p - 1) - k \in Nat \ {0} /\ p - 1 = k + ((p - 1) - k)
    BY <1>1
  <2> QED
    BY <2>1
<1>3. (p - 1) * SliceSize = k * SliceSize + d * SliceSize
  BY <1>2, StagingAssumption
<1>4. d * SliceSize >= SliceSize /\ k * SliceSize \in Nat /\ d * SliceSize \in Nat
  BY <1>2, StagingAssumption
<1>5. k * SliceSize < (p - 1) * SliceSize
  BY <1>3, <1>4, StagingAssumption
<1> QED
  BY <1>1, <1>4, <1>5, UptoPart, StagingAssumption DEF Upto

\* The byte of the file at each position of a part.
LEMMA WholeAt ==
    ASSUME NEW p \in Parts, NEW i \in 1 .. PartLen(p)
    PROVE  Upto(p - 1) + i \in 1 .. TotalSize /\ Whole[Upto(p - 1) + i] = <<p, i>>
<1>1. p \in Nat \ {0} /\ PartLen(p) \in 1 .. SliceSize /\ i \in Nat \ {0} /\ i <= SliceSize
  BY PartStarts, UptoPart, StagingAssumption
<1>2. Upto(p - 1) = (p - 1) * SliceSize /\ Upto(p) = Upto(p - 1) + PartLen(p)
  BY UptoPart
<1>3. Upto(p) <= TotalSize /\ Upto(p - 1) \in Nat
  BY <1>1, UptoNat
<1>4. Upto(p - 1) + i \in 1 .. TotalSize
  BY <1>1, <1>2, <1>3, StagingAssumption
<1>5. ((p - 1) * SliceSize + (i - 1)) \div SliceSize = p - 1
  BY <1>1, StagingAssumption
<1>6. ((p - 1) * SliceSize + (i - 1)) % SliceSize = i - 1
  BY <1>1, <1>5, StagingAssumption
<1>7. (Upto(p - 1) + i) - 1 = (p - 1) * SliceSize + (i - 1)
  BY <1>1, <1>2, <1>3, StagingAssumption
<1> QED
  BY <1>1, <1>4, <1>5, <1>6, <1>7 DEF Whole

(***************************************************************************)
(* write(2)                                                                *)
(***************************************************************************)
LEMMA MaxOfTwo ==
    ASSUME NEW a \in Nat, NEW b \in Nat
    PROVE  Max({a, b}) = IF a >= b THEN a ELSE b
<1>1. \E x \in {a, b} : \A y \in {a, b} : x >= y
  BY SMT
<1>2. Max({a, b}) \in {a, b} /\ \A y \in {a, b} : Max({a, b}) >= y
  BY <1>1 DEF Max
<1> QED
  BY <1>2

\* A write at the end of a file appends to it.
LEMMA WriteAtEnd ==
    ASSUME NEW S, NEW f \in Seq(S), NEW data \in Seq(S)
    PROVE  /\ WriteAt(f, Len(f), data) \in Seq(S)
           /\ Len(WriteAt(f, Len(f), data)) = Len(f) + Len(data)
           /\ \A i \in 1 .. Len(f) + Len(data) :
                 WriteAt(f, Len(f), data)[i] =
                     IF i <= Len(f) THEN f[i] ELSE data[i - Len(f)]
<1> DEFINE w == WriteAt(f, Len(f), data)
           n == Len(f) + Len(data)
<1>1. Len(f) \in Nat /\ Len(data) \in Nat /\ n \in Nat
  OBVIOUS
<1>2. Max({Len(f), n}) = n
  BY <1>1, MaxOfTwo
<1>3. w = [i \in 1 .. n |-> IF i \in (Len(f) + 1) .. n THEN data[i - Len(f)]
                            ELSE IF i <= Len(f) THEN f[i] ELSE Zero]
  BY <1>2 DEF WriteAt
<1>4. \A i \in 1 .. n : w[i] = IF i <= Len(f) THEN f[i] ELSE data[i - Len(f)]
  BY <1>1, <1>3
<1>5. \A i \in 1 .. n : w[i] \in S
  BY <1>1, <1>4
<1>6. w = [i \in 1 .. n |-> w[i]]
  BY <1>3
<1>7. w \in Seq(S) /\ Len(w) = n
  BY <1>1, <1>5, <1>6
<1> QED
  BY <1>4, <1>7

(***************************************************************************)
(* The inductive invariant.  Apart says which requests may run at once,    *)
(* and that no part that is being written counts as acknowledged; Sent     *)
(* that a part file is a beginning of the part; Swept what is left of an   *)
(* upload that was answered.  Staged says of a completion that what it has *)
(* copied is short of the parts up to some k, or is just those parts: k is *)
(* the last part it copied, and every part it has still to copy is behind  *)
(* it.  The size of the manifest then leaves only the whole file.          *)
(***************************************************************************)
Begins(f) == \A i \in 1 .. Len(f) : f[i] = Whole[i]

Apart ==
    /\ \A c, d \in Completes : CompRunning(c) /\ CompRunning(d) => c = d
    /\ \A c \in Completes, q \in Puts : ~(CompRunning(c) /\ PutRunning(q))
    /\ \A q, r \in Puts :
          PutRunning(q) /\ PutRunning(r) /\ PartOf[q] = PartOf[r] => q = r
    /\ \A q, r \in Puts : PutRunning(q) /\ put[r] = "ok" => PartOf[q] # PartOf[r]

Sent ==
    /\ \A p \in Parts : /\ Len(part[p]) <= PartLen(p)
                        /\ \A i \in 1 .. Len(part[p]) : part[p][i] = <<p, i>>
    /\ \A q \in Puts : put[q] = "idle" => pos[q] = 0
    /\ \A q \in Puts : PutRunning(q) => PartOf[q] \in made

Copied(c, k) ==
    /\ \A p \in todo[c] : k < p
    /\ total[c] <= Upto(k)
    /\ total[c] = Upto(k) => Begins(assembled)

StagedOf(c) ==
    /\ comp[c] \in {"idle", "opened", "listed"} => total[c] = 0
    /\ comp[c] = "assembling" =>
          Len(assembled) = total[c] /\ \E k \in Nat : Copied(c, k)
    /\ comp[c] \in {"staged", "hashed"} => assembled = Whole
    /\ comp[c] = "hashed" => sum[c] = Whole
    /\ comp[c] = "stored" => \E b \in blobs : b.bytes = Whole

Staged == \A c \in Completes : StagedOf(c)

Answered == \E c \in Completes \ unswept : comp[c] = "done"

Swept ==
    /\ (\E c \in Completes : comp[c] # "idle") => init # "idle"
    /\ Answered => ~dir /\ \A c \in Completes : ~CompRunning(c)

IInv == TypeOK /\ Apart /\ Sent /\ Staged /\ StoredExact /\ KeptUntilStored /\ Swept

LEMMA WholeTyped == Whole \in Seq(Byte) /\ Len(Whole) = TotalSize
<1> TotalSize \in Nat \ {0} /\ SliceSize \in Nat \ {0}
  BY StagingAssumption
<1>1. ASSUME NEW i \in 1 .. TotalSize
      PROVE  Whole[i] \in Byte
  <2> DEFINE p == ((i - 1) \div SliceSize) + 1
  <2>1. p \in Nat \ {0} /\ (p - 1) * SliceSize <= i - 1
    OBVIOUS
  <2>2. p * SliceSize <= TotalSize + SliceSize - 1
    BY <2>1
  <2>3. p <= (TotalSize + SliceSize - 1) \div SliceSize
    BY <2>1, <2>2
  <2>4. p \in Parts /\ ((i - 1) % SliceSize) + 1 \in 1 .. SliceSize
    BY <2>1, <2>3 DEF Parts
  <2> QED
    BY <2>4 DEF Whole, Byte
<1> QED
  BY <1>1 DEF Whole

LEMMA InitHolds == Init => IInv
<1> SUFFICES ASSUME Init PROVE IInv
  OBVIOUS
<1> USE DEF Init
<1>1. \A p \in Parts : PartLen(p) \in Nat
  BY UptoPart
<1>2. \A q \in Puts : pos[q] <= PartLen(PartOf[q])
  BY <1>1, PartOfAssumption, UptoPart, StagingAssumption
<1>3. <<>> \in Seq(Byte)
  OBVIOUS
<1>4. TypeOK
  <2>1. part \in [Parts -> Seq(Byte)] /\ sum \in [Completes -> Seq(Byte)]
    BY <1>3
  <2>2. todo \in [Completes -> SUBSET Parts] /\ made \subseteq Parts
    OBVIOUS
  <2>3. init \in InitPlaces /\ put \in [Puts -> PutPlaces] /\ comp \in [Completes -> CompPlaces]
    BY DEF InitPlaces, PutPlaces, CompPlaces
  <2>4. \A q \in Puts : ~PutRunning(q)
    BY DEF PutRunning
  <2>5. restarts \in 0 .. MaxRestarts
    BY StagingAssumption
  <2> QED
    BY <1>2, <1>3, <2>1, <2>2, <2>3, <2>4, <2>5 DEF TypeOK
<1>5. Apart
  BY DEF Apart, CompRunning, PutRunning
<1>6. Sent
  BY <1>1 DEF Sent, PutRunning
<1>7. Staged
  BY DEF Staged, StagedOf
<1>8. StoredExact /\ KeptUntilStored /\ Swept
  BY DEF StoredExact, KeptUntilStored, Swept, Answered
<1> QED
  BY <1>4, <1>5, <1>6, <1>7, <1>8 DEF IInv
\* Requests that start wait for those they must not run beside.
LEMMA ApartStep == ASSUME Alone, IInv, [Next]_vars PROVE Apart'
<1> USE DEF IInv, putVars, compVars, dirVars
<1>1. CASE MakeDir
  BY <1>1 DEF MakeDir, Apart, TypeOK, PutRunning, CompRunning
<1>2. CASE WriteManifest
  BY <1>2 DEF WriteManifest, Apart, TypeOK, PutRunning, CompRunning
<1>3. CASE InitFails
  BY <1>3 DEF InitFails, Apart, TypeOK, PutRunning, CompRunning
<1>4. CASE Restart
  BY <1>4 DEF Restart, Apart, TypeOK, PutRunning, CompRunning
<1>5. CASE UNCHANGED vars
  BY <1>5 DEF vars, Apart, TypeOK, PutRunning, CompRunning
<1>6. ASSUME NEW q \in Puts, CreatePart(q) PROVE Apart'
  BY <1>6 DEF CreatePart, Replaced, Apart, TypeOK, Alone, MayPut, PutRunning, CompRunning
<1>7. ASSUME NEW q \in Puts, WritePart(q) PROVE Apart'
  BY <1>7 DEF WritePart, Apart, TypeOK, PutRunning, CompRunning
<1>8. ASSUME NEW q \in Puts, AnswerPut(q) PROVE Apart'
  BY <1>8 DEF AnswerPut, Apart, TypeOK, PutRunning, CompRunning
<1>9. ASSUME NEW q \in Puts, BreakPut(q) PROVE Apart'
  BY <1>9 DEF BreakPut, Apart, TypeOK, PutRunning, CompRunning
<1>10. ASSUME NEW c \in Completes, OpenUpload(c) PROVE Apart'
  <2>1. (\A q \in Puts : ~PutRunning(q)) /\ \A d \in Completes : ~CompRunning(d)
    BY <1>10 DEF OpenUpload, MayComplete, Alone
  <2>2. put' = put /\ \A d \in Completes : d # c => comp'[d] = comp[d]
    BY <1>10 DEF OpenUpload, CompleteFails, TypeOK
  <2> QED
    BY <2>1, <2>2 DEF Apart, CompRunning, PutRunning
<1>11. ASSUME NEW c \in Completes, AppendPart(c) PROVE Apart'
  BY <1>11 DEF AppendPart, Apart, TypeOK, CopyPart, PutRunning, CompRunning,
     CompleteFails
<1>12. ASSUME NEW c \in Completes, CheckSize(c) PROVE Apart'
  BY <1>12 DEF CheckSize, Apart, TypeOK, PutRunning, CompRunning
<1>13. ASSUME NEW c \in Completes, HashFile(c) PROVE Apart'
  BY <1>13 DEF HashFile, Apart, TypeOK, PutRunning, CompRunning
<1>14. ASSUME NEW c \in Completes, StoreBlob(c) PROVE Apart'
  BY <1>14 DEF StoreBlob, Apart, TypeOK, PutRunning, CompRunning
<1>15. ASSUME NEW c \in Completes, StoreFails(c) PROVE Apart'
  BY <1>15 DEF StoreFails, Apart, TypeOK, PutRunning, CompRunning, CompleteFails
<1>16. ASSUME NEW c \in Completes, RemovePart(c) PROVE Apart'
  BY <1>16 DEF RemovePart, Apart, TypeOK, PutRunning, CompRunning
<1>17. ASSUME NEW c \in Completes, RemoveManifest(c) PROVE Apart'
  BY <1>17 DEF RemoveManifest, Apart, TypeOK, PutRunning, CompRunning
<1>18. ASSUME NEW c \in Completes, Release(c) PROVE Apart'
  BY <1>18 DEF Release, Apart, TypeOK, PutRunning, CompRunning
<1>19. ASSUME NEW c \in Completes, ReleaseFails(c) PROVE Apart'
  BY <1>19 DEF ReleaseFails, Apart, TypeOK, PutRunning, CompRunning
<1>20. ASSUME NEW c \in Completes, ListParts(c) PROVE Apart'
  BY <1>20 DEF ListParts, Apart, TypeOK, PutRunning, CompRunning
<1>21. ASSUME NEW c \in Completes, CreateAssembled(c) PROVE Apart'
  BY <1>21 DEF CreateAssembled, Apart, TypeOK, PutRunning, CompRunning
<1>22. ASSUME NEW c \in Completes, RefuseComplete(c) PROVE Apart'
  BY <1>22 DEF RefuseComplete, Apart, TypeOK, PutRunning, CompRunning, CompleteFails
<1>23. ASSUME NEW c \in Completes, AssembleFails(c) PROVE Apart'
  BY <1>23 DEF AssembleFails, Apart, TypeOK, PutRunning, CompRunning, CompleteFails
<1>24. ASSUME NEW q \in Puts, RefusePut(q) PROVE Apart'
  BY <1>24 DEF RefusePut, Apart, TypeOK, PutRunning, CompRunning
<1> QED
  BY <1>1, <1>2, <1>3, <1>4, <1>5, <1>6, <1>7, <1>8, <1>9, <1>10, <1>11, <1>12,
     <1>13, <1>14, <1>15, <1>16, <1>17, <1>18, <1>19, <1>20, <1>21, <1>22, <1>23,
     <1>24 DEF Next, PutStep, CompleteStep

\* Every action keeps the types.
LEMMA TypeStep == ASSUME Alone, IInv, [Next]_vars PROVE TypeOK'
<1> USE DEF IInv, putVars, compVars, dirVars
<1>1. CASE MakeDir
  BY <1>1, StagingAssumption, PartOfAssumption DEF MakeDir, TypeOK, Alone,
     InitPlaces, PutRunning, CompRunning
<1>2. CASE WriteManifest
  BY <1>2, StagingAssumption, PartOfAssumption DEF WriteManifest, TypeOK, Alone,
     InitPlaces, PutRunning, CompRunning
<1>3. CASE InitFails
  BY <1>3, StagingAssumption, PartOfAssumption DEF InitFails, TypeOK, Alone,
     InitPlaces, PutRunning, CompRunning
<1>4. CASE Restart
  BY <1>4, StagingAssumption, PartOfAssumption DEF Restart, TypeOK, Alone,
     InitPlaces, PutPlaces, CompPlaces, PutRunning, CompRunning
<1>5. CASE UNCHANGED vars
  BY <1>5, StagingAssumption, PartOfAssumption DEF vars, TypeOK, Alone, InitPlaces,
     PutPlaces, CompPlaces, PutRunning, CompRunning
<1>6. ASSUME NEW q \in Puts, CreatePart(q) PROVE TypeOK'
  <2> PartOf[q] \in Parts /\ <<>> \in Seq(Byte)
    BY PartOfAssumption
  <2>1. part' \in [Parts -> Seq(Byte)] /\ made' \subseteq Parts
    <3>1. part' = [part EXCEPT ![PartOf[q]] = <<>>] /\ made' = made \cup {PartOf[q]}
      BY <1>6 DEF CreatePart, TruncatePart
    <3> QED
      BY <3>1 DEF TypeOK
  <2>2. put' \in [Puts -> PutPlaces] /\ pos' = pos
    BY <1>6 DEF CreatePart, Replaced, TypeOK, PutPlaces
  <2>3. ASSUME NEW r \in Puts, PutRunning(r)'
        PROVE  Len(part'[PartOf[r]]) = pos[r]
    <3>1. CASE r = q
      BY <1>6, <2>3, <3>1, PartOfAssumption DEF CreatePart, TruncatePart, TypeOK,
         Sent, PutRunning
    <3>2. CASE r # q
      <4>1. PutRunning(r)
        BY <1>6, <2>3, <3>2 DEF CreatePart, Replaced, PutRunning, TypeOK
      <4>2. PartOf[r] # PartOf[q]
        BY <1>6, <4>1 DEF CreatePart, MayPut, Alone
      <4> QED
        BY <1>6, <4>1, <4>2, PartOfAssumption DEF CreatePart, TruncatePart, TypeOK,
           Alone
    <3> QED
      BY <3>1, <3>2
  <2> QED
    BY <1>6, <2>1, <2>2, <2>3 DEF CreatePart, TypeOK
<1>7. ASSUME NEW q \in Puts, WritePart(q) PROVE TypeOK'
  <2> DEFINE p == PartOf[q]
              b == <<(<<p, pos[q] + 1>>)>>
  <2> p \in Parts
    BY PartOfAssumption
  <2>1. pos[q] \in Nat /\ PartLen(p) \in 1 .. SliceSize /\ pos[q] + 1 <= PartLen(p)
    <3>1. PartLen(p) \in 1 .. SliceSize
      BY UptoPart
    <3>2. pos[q] \in Nat /\ pos[q] < PartLen(p)
      BY <1>7 DEF WritePart, TypeOK
    <3> QED
      BY <3>1, <3>2, StagingAssumption
  <2>2. b \in Seq(Byte) /\ Len(b) = 1 /\ part[p] \in Seq(Byte) /\ Len(part[p]) = pos[q]
    BY <1>7, <2>1, StagingAssumption DEF WritePart, TypeOK, Alone, Byte
  <2>3. part' = [part EXCEPT ![p] = WriteAt(part[p], Len(part[p]), b)]
    BY <1>7, <2>2 DEF WritePart
  <2>4. WriteAt(part[p], Len(part[p]), b) \in Seq(Byte)
        /\ Len(WriteAt(part[p], Len(part[p]), b)) = pos[q] + 1
    <3> HIDE DEF b, p
    <3>1. part[p] \in Seq(Byte) /\ b \in Seq(Byte) /\ Len(b) = 1 /\ Len(part[p]) = pos[q]
      BY <2>2
    <3>2. /\ WriteAt(part[p], Len(part[p]), b) \in Seq(Byte)
          /\ Len(WriteAt(part[p], Len(part[p]), b)) = Len(part[p]) + Len(b)
      BY <3>1, WriteAtEnd
    <3> QED
      BY <3>1, <3>2
  <2>5. part' \in [Parts -> Seq(Byte)] /\ Len(part'[p]) = pos[q] + 1
    BY <2>1, <2>3, <2>4 DEF TypeOK
  <2>6. pos' \in [Puts -> Nat] /\ \A r \in Puts : pos'[r] <= PartLen(PartOf[r])
    BY <1>7, <2>1 DEF WritePart, TypeOK
  <2>7. ASSUME NEW r \in Puts, PutRunning(r)'
        PROVE  Len(part'[PartOf[r]]) = pos'[r]
    <3>1. CASE r = q
      BY <1>7, <2>5, <3>1 DEF WritePart, TypeOK
    <3>2. CASE r # q
      <4>1. PutRunning(r) /\ PartOf[r] # p
        BY <1>7, <2>7, <3>2 DEF WritePart, PutRunning, Apart
      <4> QED
        BY <1>7, <2>3, <3>2, <4>1, PartOfAssumption DEF WritePart, TypeOK, Alone
    <3> QED
      BY <3>1, <3>2
  <2> QED
    BY <1>7, <2>5, <2>6, <2>7 DEF WritePart, TypeOK
<1>8. ASSUME NEW q \in Puts, AnswerPut(q) PROVE TypeOK'
  BY <1>8, StagingAssumption, PartOfAssumption DEF AnswerPut, TypeOK, Alone,
     PutPlaces, PutRunning, CompRunning
<1>9. ASSUME NEW q \in Puts, BreakPut(q) PROVE TypeOK'
  BY <1>9, StagingAssumption, PartOfAssumption DEF BreakPut, TypeOK, Alone,
     PutPlaces, PutRunning, CompRunning
<1>10. ASSUME NEW c \in Completes, OpenUpload(c) PROVE TypeOK'
  BY <1>10, StagingAssumption, PartOfAssumption DEF OpenUpload, TypeOK, Alone,
     CompPlaces, PutRunning, CompRunning
<1>11. ASSUME NEW c \in Completes, AppendPart(c) PROVE TypeOK'
  <2>1. PICK p \in todo[c] : CopyPart(c, p)
    BY <1>11 DEF AppendPart
  <2>2. total[c] = Len(assembled)
    BY <1>11 DEF AppendPart, Staged, StagedOf
  <2>3. p \in Parts /\ part[p] \in Seq(Byte) /\ assembled \in Seq(Byte)
    BY <2>1 DEF TypeOK
  <2>4. WriteAt(assembled, Len(assembled), part[p]) \in Seq(Byte)
    BY <2>3, WriteAtEnd
  <2>5. assembled' \in Seq(Byte)
    BY <2>1, <2>2, <2>3, <2>4 DEF CopyPart
  <2>6. total' \in [Completes -> Nat]
    <3>1. Len(part[p]) \in Nat
      BY <2>3
    <3>2. total \in [Completes -> Nat] /\ total[c] + Len(part[p]) \in Nat
      BY <3>1 DEF TypeOK
    <3> QED
      BY <2>1, <3>2 DEF CopyPart
  <2>7. todo' \in [Completes -> SUBSET Parts]
    BY <2>1 DEF CopyPart, TypeOK
  <2>8. part' = part /\ put' = put /\ pos' = pos
    BY <1>11 DEF AppendPart
  <2> QED
    BY <1>11, <2>5, <2>6, <2>7, <2>8 DEF AppendPart, TypeOK, PutRunning
<1>12. ASSUME NEW c \in Completes, CheckSize(c) PROVE TypeOK'
  BY <1>12, StagingAssumption, PartOfAssumption DEF CheckSize, TypeOK, Alone,
     CompPlaces, PutRunning, CompRunning
<1>13. ASSUME NEW c \in Completes, HashFile(c) PROVE TypeOK'
  BY <1>13, StagingAssumption, PartOfAssumption DEF HashFile, TypeOK, Alone,
     CompPlaces, PutRunning, CompRunning, CompleteFails
<1>14. ASSUME NEW c \in Completes, StoreBlob(c) PROVE TypeOK'
  BY <1>14, StagingAssumption, PartOfAssumption DEF StoreBlob, TypeOK, Alone,
     CompPlaces, PutRunning, CompRunning
<1>15. ASSUME NEW c \in Completes, StoreFails(c) PROVE TypeOK'
  BY <1>15, StagingAssumption, PartOfAssumption DEF StoreFails, TypeOK, Alone,
     CompPlaces, PutRunning, CompRunning, CompleteFails
<1>16. ASSUME NEW c \in Completes, RemovePart(c) PROVE TypeOK'
  <2>1. \A q \in Puts : ~PutRunning(q)
    BY <1>16 DEF RemovePart, ReleaseAfter, Apart, CompRunning
  <2>2. part' \in [Parts -> Seq(Byte)] /\ made' \subseteq Parts
    BY <1>16 DEF RemovePart, TypeOK
  <2>3. put' = put /\ pos' = pos
    BY <1>16 DEF RemovePart
  <2> QED
    BY <1>16, <2>1, <2>2, <2>3 DEF RemovePart, TypeOK, PutRunning
<1>17. ASSUME NEW c \in Completes, RemoveManifest(c) PROVE TypeOK'
  BY <1>17, StagingAssumption, PartOfAssumption DEF RemoveManifest, TypeOK, Alone,
     CompPlaces, PutRunning, CompRunning
<1>18. ASSUME NEW c \in Completes, Release(c) PROVE TypeOK'
  BY <1>18, StagingAssumption, PartOfAssumption DEF Release, TypeOK, Alone,
     CompPlaces, PutRunning, CompRunning
<1>19. ASSUME NEW c \in Completes, ReleaseFails(c) PROVE TypeOK'
  BY <1>19, StagingAssumption, PartOfAssumption DEF ReleaseFails, TypeOK, Alone,
     CompPlaces, PutRunning, CompRunning
<1>20. ASSUME NEW c \in Completes, ListParts(c) PROVE TypeOK'
  <2>1. todo' \in [Completes -> SUBSET Parts] /\ comp' \in [Completes -> CompPlaces]
    BY <1>20 DEF ListParts, TypeOK, CompPlaces
  <2> QED
    BY <1>20, <2>1 DEF ListParts, TypeOK, PutRunning
<1>21. ASSUME NEW c \in Completes, CreateAssembled(c) PROVE TypeOK'
  <2>1. assembled' \in Seq(Byte) /\ comp' \in [Completes -> CompPlaces]
    BY <1>21 DEF CreateAssembled, TypeOK, CompPlaces
  <2> QED
    BY <1>21, <2>1 DEF CreateAssembled, TypeOK, PutRunning
<1>22. ASSUME NEW c \in Completes, RefuseComplete(c) PROVE TypeOK'
  BY <1>22, StagingAssumption, PartOfAssumption DEF RefuseComplete, TypeOK, Alone,
     CompPlaces, PutRunning, CompRunning, CompleteFails
<1>23. ASSUME NEW c \in Completes, AssembleFails(c) PROVE TypeOK'
  <2>1. comp' \in [Completes -> CompPlaces]
    BY <1>23 DEF AssembleFails, CompleteFails, TypeOK, CompPlaces
  <2>2. total[c] = Len(assembled)
    BY <1>23 DEF AssembleFails, Staged, StagedOf
  <2>3. ASSUME NEW p \in todo[c], NEW n \in 1 .. Len(part[p])
        PROVE  WriteAt(assembled, total[c], SubSeq(part[p], 1, n)) \in Seq(Byte)
    <3>1. p \in Parts /\ part[p] \in Seq(Byte) /\ assembled \in Seq(Byte)
      BY DEF TypeOK
    <3>2. SubSeq(part[p], 1, n) \in Seq(Byte)
      BY <3>1
    <3> QED
      BY <2>2, <3>1, <3>2, WriteAtEnd
  <2>4. assembled' \in Seq(Byte)
    BY <1>23, <2>3 DEF AssembleFails, TypeOK
  <2> QED
    BY <1>23, <2>1, <2>4 DEF AssembleFails, TypeOK, PutRunning
<1>24. ASSUME NEW q \in Puts, RefusePut(q) PROVE TypeOK'
  BY <1>24, StagingAssumption, PartOfAssumption DEF RefusePut, TypeOK, Alone,
     PutPlaces, PutRunning, CompRunning
<1> QED
  BY <1>1, <1>2, <1>3, <1>4, <1>5, <1>6, <1>7, <1>8, <1>9, <1>10, <1>11, <1>12,
     <1>13, <1>14, <1>15, <1>16, <1>17, <1>18, <1>19, <1>20, <1>21, <1>22, <1>23,
     <1>24 DEF Next, PutStep, CompleteStep

\* A part file is a beginning of its part, whoever writes it.
LEMMA SentStep == ASSUME Alone, IInv, [Next]_vars PROVE Sent'
<1> USE DEF IInv, putVars, compVars, dirVars
<1>1. CASE MakeDir
  BY <1>1 DEF MakeDir, Sent, TypeOK, PutRunning, CompRunning
<1>2. CASE WriteManifest
  BY <1>2 DEF WriteManifest, Sent, TypeOK, PutRunning, CompRunning
<1>3. CASE InitFails
  BY <1>3 DEF InitFails, Sent, TypeOK, PutRunning, CompRunning
<1>4. CASE Restart
  BY <1>4 DEF Restart, Sent, TypeOK, PutRunning, CompRunning
<1>5. CASE UNCHANGED vars
  BY <1>5 DEF vars, Sent, TypeOK, PutRunning, CompRunning
<1>6. ASSUME NEW q \in Puts, CreatePart(q) PROVE Sent'
  <2>1. PartOf[q] \in Parts /\ PartLen(PartOf[q]) \in Nat
    BY PartOfAssumption, UptoPart, StagingAssumption
  <2>2. part' = [part EXCEPT ![PartOf[q]] = <<>>] /\ made' = made \cup {PartOf[q]}
    BY <1>6 DEF CreatePart, TruncatePart
  <2>3. \A r \in Puts : /\ put'[r] = "idle" => put[r] = "idle"
                        /\ PutRunning(r)' => r = q \/ PutRunning(r)
    BY <1>6 DEF CreatePart, Replaced, PutRunning
  <2>4. pos' = pos
    BY <1>6 DEF CreatePart
  <2>5. \A p \in Parts : /\ Len(part'[p]) <= PartLen(p)
                          /\ \A i \in 1 .. Len(part'[p]) : part'[p][i] = <<p, i>>
    <3>1. \A p \in Parts : part'[p] \in {part[p], <<>>}
      BY <2>1, <2>2 DEF TypeOK
    <3>2. \A p \in Parts : PartLen(p) \in Nat
      BY UptoPart, StagingAssumption
    <3> QED
      BY <3>1, <3>2 DEF Sent
  <2>6. \A r \in Puts : put'[r] = "idle" => pos'[r] = 0
    BY <2>3, <2>4 DEF Sent
  <2>7. \A r \in Puts : PutRunning(r)' => PartOf[r] \in made'
    BY <2>2, <2>3 DEF Sent
  <2> QED
    BY <2>5, <2>6, <2>7 DEF Sent, PutRunning
<1>7. ASSUME NEW q \in Puts, WritePart(q) PROVE Sent'
  <2> DEFINE p == PartOf[q]
              f == part[p]
              b == <<(<<p, pos[q] + 1>>)>>
  <2> p \in Parts
    BY PartOfAssumption
  <2>1. pos[q] \in Nat /\ PartLen(p) \in 1 .. SliceSize /\ pos[q] + 1 <= PartLen(p)
    <3>1. PartLen(p) \in 1 .. SliceSize
      BY UptoPart
    <3>2. pos[q] \in Nat /\ pos[q] < PartLen(p)
      BY <1>7 DEF WritePart, TypeOK
    <3> QED
      BY <3>1, <3>2, StagingAssumption
  <2>2. b \in Seq(Byte) /\ Len(b) = 1 /\ b[1] = <<p, pos[q] + 1>>
    BY <2>1, StagingAssumption DEF Byte
  <2>3. f \in Seq(Byte) /\ Len(f) = pos[q]
    BY <1>7 DEF WritePart, TypeOK, Alone
  <2>4. part' = [part EXCEPT ![p] = WriteAt(f, Len(f), b)]
    BY <1>7, <2>3 DEF WritePart
  <2>5. part'[p] = WriteAt(f, Len(f), b) /\ \A r \in Parts \ {p} : part'[r] = part[r]
    BY <2>4 DEF TypeOK
  <2> HIDE DEF b, f
  <2>6. /\ Len(part'[p]) = Len(f) + Len(b)
        /\ \A i \in 1 .. Len(f) + Len(b) :
              part'[p][i] = IF i <= Len(f) THEN f[i] ELSE b[i - Len(f)]
    <3>1. /\ Len(WriteAt(f, Len(f), b)) = Len(f) + Len(b)
          /\ \A i \in 1 .. Len(f) + Len(b) :
                WriteAt(f, Len(f), b)[i] = IF i <= Len(f) THEN f[i] ELSE b[i - Len(f)]
      BY <2>2, <2>3, WriteAtEnd
    <3> QED
      BY <2>5, <3>1
  <2>7. Len(part'[p]) = pos[q] + 1
    BY <2>2, <2>3, <2>6
  <2>8. \A i \in 1 .. Len(f) : f[i] = <<p, i>>
    BY DEF Sent, f
  <2>9. \A i \in 1 .. pos[q] + 1 : part'[p][i] = <<p, i>>
    <3> SUFFICES ASSUME NEW i \in 1 .. pos[q] + 1
                 PROVE  part'[p][i] = <<p, i>>
      OBVIOUS
    <3>1. CASE i <= pos[q]
      <4>1. i \in 1 .. Len(f) + Len(b) /\ i \in 1 .. Len(f)
        BY <2>1, <2>2, <2>3, <3>1
      <4> QED
        BY <2>6, <2>8, <4>1
    <3>2. CASE i = pos[q] + 1
      <4>1. part'[p][i] = b[1]
        BY <2>1, <2>2, <2>3, <2>6, <3>2
      <4> QED
        BY <2>2, <3>2, <4>1
    <3> QED
      BY <2>1, <3>1, <3>2
  <2>10. put' = put /\ made' = made /\ pos' = [pos EXCEPT ![q] = @ + 1]
    BY <1>7 DEF WritePart
  <2>11. \A r \in Puts : put[r] = "idle" => pos'[r] = 0
    BY <1>7, <2>10 DEF Sent, WritePart, PutRunning
  <2>12. \A r \in Parts : Len(part'[r]) <= PartLen(r)
    BY <2>1, <2>5, <2>7 DEF Sent
  <2>13. \A r \in Parts : \A i \in 1 .. Len(part'[r]) : part'[r][i] = <<r, i>>
    BY <2>5, <2>7, <2>9 DEF Sent
  <2> QED
    BY <2>10, <2>11, <2>12, <2>13 DEF Sent, PutRunning
<1>8. ASSUME NEW q \in Puts, AnswerPut(q) PROVE Sent'
  BY <1>8 DEF AnswerPut, Sent, TypeOK, PutRunning, CompRunning
<1>9. ASSUME NEW q \in Puts, BreakPut(q) PROVE Sent'
  BY <1>9 DEF BreakPut, Sent, TypeOK, PutRunning, CompRunning
<1>10. ASSUME NEW c \in Completes, OpenUpload(c) PROVE Sent'
  BY <1>10 DEF OpenUpload, Sent, TypeOK, PutRunning, CompRunning
<1>11. ASSUME NEW c \in Completes, AppendPart(c) PROVE Sent'
  BY <1>11 DEF AppendPart, Sent, TypeOK, CopyPart, PutRunning, CompRunning,
     CompleteFails
<1>12. ASSUME NEW c \in Completes, CheckSize(c) PROVE Sent'
  BY <1>12 DEF CheckSize, Sent, TypeOK, PutRunning, CompRunning
<1>13. ASSUME NEW c \in Completes, HashFile(c) PROVE Sent'
  BY <1>13 DEF HashFile, Sent, TypeOK, PutRunning, CompRunning, CompleteFails
<1>14. ASSUME NEW c \in Completes, StoreBlob(c) PROVE Sent'
  BY <1>14 DEF StoreBlob, Sent, TypeOK, PutRunning, CompRunning
<1>15. ASSUME NEW c \in Completes, StoreFails(c) PROVE Sent'
  BY <1>15 DEF StoreFails, Sent, TypeOK, PutRunning, CompRunning, CompleteFails
<1>16. ASSUME NEW c \in Completes, RemovePart(c) PROVE Sent'
  <2>1. \A q \in Puts : ~PutRunning(q)
    BY <1>16 DEF RemovePart, ReleaseAfter, Apart, CompRunning
  <2>2. PICK p \in made : part' = [part EXCEPT ![p] = <<>>]
    BY <1>16 DEF RemovePart
  <2>3. \A r \in Parts : PartLen(r) \in Nat
    BY UptoPart, StagingAssumption
  <2>4. put' = put /\ pos' = pos
    BY <1>16 DEF RemovePart
  <2> QED
    BY <2>1, <2>2, <2>3, <2>4 DEF Sent, TypeOK, PutRunning
<1>17. ASSUME NEW c \in Completes, RemoveManifest(c) PROVE Sent'
  BY <1>17 DEF RemoveManifest, Sent, TypeOK, PutRunning, CompRunning
<1>18. ASSUME NEW c \in Completes, Release(c) PROVE Sent'
  BY <1>18 DEF Release, Sent, TypeOK, PutRunning, CompRunning
<1>19. ASSUME NEW c \in Completes, ReleaseFails(c) PROVE Sent'
  BY <1>19 DEF ReleaseFails, Sent, TypeOK, PutRunning, CompRunning
<1>20. ASSUME NEW c \in Completes, ListParts(c) PROVE Sent'
  BY <1>20 DEF ListParts, Sent, TypeOK, PutRunning, CompRunning
<1>21. ASSUME NEW c \in Completes, CreateAssembled(c) PROVE Sent'
  BY <1>21 DEF CreateAssembled, Sent, TypeOK, PutRunning, CompRunning
<1>22. ASSUME NEW c \in Completes, RefuseComplete(c) PROVE Sent'
  BY <1>22 DEF RefuseComplete, Sent, TypeOK, PutRunning, CompRunning, CompleteFails
<1>23. ASSUME NEW c \in Completes, AssembleFails(c) PROVE Sent'
  BY <1>23 DEF AssembleFails, Sent, TypeOK, PutRunning, CompRunning, CompleteFails
<1>24. ASSUME NEW q \in Puts, RefusePut(q) PROVE Sent'
  BY <1>24 DEF RefusePut, Sent, TypeOK, PutRunning, CompRunning
<1> QED
  BY <1>1, <1>2, <1>3, <1>4, <1>5, <1>6, <1>7, <1>8, <1>9, <1>10, <1>11, <1>12,
     <1>13, <1>14, <1>15, <1>16, <1>17, <1>18, <1>19, <1>20, <1>21, <1>22, <1>23,
     <1>24 DEF Next, PutStep, CompleteStep

LEMMA WriteBytes ==
    \A f, data \in Seq(Byte) :
        /\ Len(WriteAt(f, Len(f), data)) = Len(f) + Len(data)
        /\ \A i \in 1 .. Len(f) + Len(data) :
              WriteAt(f, Len(f), data)[i] =
                  IF i <= Len(f) THEN f[i] ELSE data[i - Len(f)]
BY WriteAtEnd

\* The part that is copied next either follows those that were copied, or it
\* leaves the copy short of it.
LEMMA CopyKeeps ==
    ASSUME IInv,
           NEW c \in Completes, NEW k \in Nat, NEW p \in todo[c],
           Copied(c, k), NextPart(todo[c], p), Len(assembled) = total[c],
           assembled' = WriteAt(assembled, total[c], part[p]),
           total'[c] = total[c] + Len(part[p]),
           todo'[c] = todo[c] \ {p}
    PROVE  Len(assembled') = total'[c] /\ Copied(c, p)'
<1> DEFINE f == part[p]
<1>1. p \in Parts /\ p \in Nat \ {0} /\ k <= p - 1
  BY PartStarts DEF IInv, TypeOK, Copied
<1>2. /\ PartLen(p) \in Nat /\ Upto(p - 1) \in Nat
      /\ Upto(p) = Upto(p - 1) + PartLen(p)
  BY <1>1, UptoPart, UptoNat, StagingAssumption
<1>3. assembled \in Seq(Byte) /\ f \in Seq(Byte) /\ total[c] \in Nat
  BY <1>1 DEF IInv, TypeOK
<1>4. Len(f) \in Nat /\ Len(f) <= PartLen(p) /\ \A i \in 1 .. Len(f) : f[i] = <<p, i>>
  BY <1>1, <1>3 DEF IInv, Sent
<1> HIDE DEF f
<1>5. assembled' = WriteAt(assembled, Len(assembled), f)
  BY DEF f
<1>6. /\ Len(assembled') = Len(assembled) + Len(f)
      /\ \A i \in 1 .. Len(assembled) + Len(f) :
            assembled'[i] = IF i <= Len(assembled) THEN assembled[i] ELSE f[i - Len(assembled)]
  <2>1. /\ Len(WriteAt(assembled, Len(assembled), f)) = Len(assembled) + Len(f)
        /\ \A i \in 1 .. Len(assembled) + Len(f) :
              WriteAt(assembled, Len(assembled), f)[i] =
                  IF i <= Len(assembled) THEN assembled[i] ELSE f[i - Len(assembled)]
    BY <1>3, WriteBytes, Zenon
  <2> QED
    BY <1>5, <2>1, Zenon
<1>7. Len(assembled') = total'[c] /\ total'[c] = total[c] + Len(f)
  BY <1>6 DEF f
<1>8. \A r \in todo'[c] : p < r
  <2>1. \A r \in todo[c] : r \in Nat /\ p <= r
    BY PartStarts DEF IInv, TypeOK, NextPart
  <2> QED
    BY <1>1, <2>1
<1>9. total[c] <= Upto(p - 1) /\ (total[c] = Upto(p - 1) => Begins(assembled))
  <2>1. CASE k = p - 1
    BY <2>1 DEF Copied
  <2>2. CASE k < p - 1
    <3>1. Upto(k) < Upto(p - 1) /\ Upto(k) \in Nat
      BY <1>1, <2>2, UptoGrows, UptoNat
    <3> QED
      BY <1>2, <1>3, <3>1 DEF Copied
  <2> QED
    BY <1>1, <2>1, <2>2
<1>10. total'[c] <= Upto(p)
  BY <1>2, <1>3, <1>4, <1>7, <1>9
<1>11. ASSUME total'[c] = Upto(p)
       PROVE  Begins(assembled')
  <2>1. total[c] = Upto(p - 1) /\ Len(f) = PartLen(p) /\ Begins(assembled)
    BY <1>2, <1>3, <1>4, <1>7, <1>9, <1>11
  <2> SUFFICES ASSUME NEW i \in 1 .. Len(assembled) + Len(f)
               PROVE  assembled'[i] = Whole[i]
    BY <1>6 DEF Begins
  <2>2. CASE i <= Len(assembled)
    BY <1>3, <1>4, <1>6, <2>1, <2>2 DEF Begins
  <2>3. CASE i > Len(assembled)
    <3> DEFINE j == i - Len(assembled)
    <3>1. j \in 1 .. PartLen(p) /\ i = Upto(p - 1) + j
      BY <1>2, <1>3, <1>4, <2>1, <2>3
    <3>2. Whole[i] = <<p, j>>
      BY <1>1, <3>1, WholeAt
    <3>3. assembled'[i] = f[j]
      BY <1>3, <1>4, <1>6, <2>3
    <3>4. f[j] = <<p, j>>
      BY <1>4, <2>1, <3>1
    <3> QED
      BY <3>2, <3>3, <3>4
  <2> QED
    BY <1>3, <1>4, <2>2, <2>3
<1> QED
  BY <1>7, <1>8, <1>10, <1>11 DEF Copied

\* What a completion has staged stays what it is until it is stored.
LEMMA StagedStep == ASSUME Alone, IInv, [Next]_vars PROVE Staged'
<1> USE DEF IInv, putVars, compVars, dirVars
<1>1. CASE MakeDir
  BY <1>1 DEF MakeDir, Staged, StagedOf, Copied, Apart, TypeOK, PutRunning, CompRunning
<1>2. CASE WriteManifest
  BY <1>2 DEF WriteManifest, Staged, StagedOf, Copied, Apart, TypeOK, PutRunning,
     CompRunning
<1>3. CASE InitFails
  BY <1>3 DEF InitFails, Staged, StagedOf, Copied, Apart, TypeOK, PutRunning,
     CompRunning
<1>4. CASE Restart
  BY <1>4 DEF Restart, Staged, StagedOf, Copied, Apart, TypeOK, PutRunning, CompRunning
<1>5. CASE UNCHANGED vars
  BY <1>5 DEF vars, Staged, StagedOf, Copied, Apart, TypeOK, PutRunning, CompRunning
<1>6. ASSUME NEW q \in Puts, CreatePart(q) PROVE Staged'
  <2>1. \A d \in Completes : ~CompRunning(d)
    BY <1>6 DEF CreatePart, MayPut, Apart
  <2>2. comp' = comp /\ total' = total
    BY <1>6 DEF CreatePart
  <2> QED
    BY <2>1, <2>2 DEF Staged, StagedOf, CompRunning
<1>7. ASSUME NEW q \in Puts, WritePart(q) PROVE Staged'
  <2>1. \A d \in Completes : ~CompRunning(d)
    BY <1>7 DEF WritePart, MayPut, Apart
  <2>2. comp' = comp /\ total' = total
    BY <1>7 DEF WritePart
  <2> QED
    BY <2>1, <2>2 DEF Staged, StagedOf, CompRunning
<1>8. ASSUME NEW q \in Puts, AnswerPut(q) PROVE Staged'
  BY <1>8 DEF AnswerPut, Staged, StagedOf, Copied, Apart, TypeOK, PutRunning,
     CompRunning
<1>9. ASSUME NEW q \in Puts, BreakPut(q) PROVE Staged'
  BY <1>9 DEF BreakPut, Staged, StagedOf, Copied, Apart, TypeOK, PutRunning, CompRunning
<1>10. ASSUME NEW c \in Completes, OpenUpload(c) PROVE Staged'
  BY <1>10 DEF OpenUpload, Staged, StagedOf, Copied, TypeOK
<1>11. ASSUME NEW c \in Completes, AppendPart(c) PROVE Staged'
  <2>1. \A d \in Completes \ {c} : ~CompRunning(d)
    BY <1>11 DEF AppendPart, Apart, CompRunning
  <2>2. PICK p \in todo[c] : NextPart(todo[c], p) /\ CopyPart(c, p)
    BY <1>11 DEF AppendPart
  <2>3. \A d \in Completes \ {c} : comp'[d] = comp[d] /\ total'[d] = total[d]
    BY <1>11, <2>2 DEF AppendPart, CopyPart, TypeOK
  <2>4. \A d \in Completes \ {c} : StagedOf(d)'
    BY <2>1, <2>3 DEF Staged, StagedOf, CompRunning
  <2>5. /\ comp' = comp
        /\ assembled' = WriteAt(assembled, total[c], part[p])
        /\ total'[c] = total[c] + Len(part[p])
        /\ todo'[c] = todo[c] \ {p}
    BY <1>11, <2>2 DEF AppendPart, CopyPart, TypeOK
  <2>6. comp[c] = "assembling" /\ Len(assembled) = total[c]
    BY <1>11 DEF AppendPart, Staged, StagedOf
  <2>7. PICK k \in Nat : Copied(c, k)
    BY <1>11 DEF AppendPart, Staged, StagedOf
  <2>8. Len(assembled') = total'[c] /\ Copied(c, p)'
    BY <2>2, <2>5, <2>6, <2>7, CopyKeeps
  <2>9. p \in Nat
    BY PartStarts DEF TypeOK
  <2>10. StagedOf(c)'
    BY <2>5, <2>6, <2>8, <2>9 DEF StagedOf
  <2> QED
    BY <2>4, <2>10 DEF Staged
<1>12. ASSUME NEW c \in Completes, CheckSize(c) PROVE Staged'
  <2>1. \A d \in Completes \ {c} : ~CompRunning(d)
    BY <1>12 DEF CheckSize, Apart, CompRunning
  <2>2. total' = total /\ \A d \in Completes \ {c} : comp'[d] = comp[d]
    BY <1>12 DEF CheckSize, CompleteFails, TypeOK
  <2>3. \A d \in Completes \ {c} : StagedOf(d)'
    BY <2>1, <2>2 DEF Staged, StagedOf, CompRunning
  <2>4. StagedOf(c)'
    <3>1. assembled' = assembled /\ sum' = sum /\ comp'[c] \in {"staged", "failed"}
      BY <1>12 DEF CheckSize, TypeOK
    <3>2. ASSUME comp'[c] = "staged"
          PROVE  assembled = Whole
      <4>1. total[c] = TotalSize /\ Len(assembled) = total[c]
        BY <1>12, <3>2, StagingAssumption DEF CheckSize, SizeExpected, TypeOK, Staged, StagedOf
      <4>2. PICK k \in Nat : Copied(c, k)
        BY <1>12 DEF CheckSize, Staged, StagedOf
      <4>3. Upto(k) \in Nat /\ Upto(k) <= TotalSize /\ TotalSize \in Nat
        BY UptoNat, StagingAssumption
      <4>4. total[c] = Upto(k)
        BY <4>1, <4>2, <4>3 DEF Copied
      <4>5. Begins(assembled)
        BY <4>2, <4>4 DEF Copied
      <4>6. assembled \in Seq(Byte) /\ Whole \in Seq(Byte) /\ Len(Whole) = Len(assembled)
        BY <4>1, WholeTyped DEF TypeOK
      <4> QED
        BY <4>5, <4>6 DEF Begins
    <3> QED
      BY <3>1, <3>2 DEF StagedOf
  <2> QED
    BY <2>3, <2>4 DEF Staged
<1>13. ASSUME NEW c \in Completes, HashFile(c) PROVE Staged'
  BY <1>13 DEF HashFile, Staged, StagedOf, Copied, Apart, TypeOK, PutRunning,
     CompRunning, CompleteFails
<1>14. ASSUME NEW c \in Completes, StoreBlob(c) PROVE Staged'
  <2>1. \A d \in Completes \ {c} : ~CompRunning(d)
    BY <1>14 DEF StoreBlob, Apart, CompRunning
  <2>2. total' = total /\ \A d \in Completes \ {c} : comp'[d] = comp[d]
    BY <1>14 DEF StoreBlob, CompleteFails, TypeOK
  <2>3. \A d \in Completes \ {c} : StagedOf(d)'
    BY <2>1, <2>2 DEF Staged, StagedOf, CompRunning
  <2>4. StagedOf(c)'
    <3>1. comp'[c] = "stored"
      BY <1>14 DEF StoreBlob, TypeOK
    <3>2. [by |-> c, sum |-> sum[c], bytes |-> assembled] \in blobs' /\ assembled = Whole
      BY <1>14 DEF StoreBlob, Staged, StagedOf
    <3> QED
      BY <3>1, <3>2 DEF StagedOf
  <2> QED
    BY <2>3, <2>4 DEF Staged
<1>15. ASSUME NEW c \in Completes, StoreFails(c) PROVE Staged'
  BY <1>15 DEF StoreFails, Staged, StagedOf, Copied, Apart, TypeOK, PutRunning,
     CompRunning, CompleteFails
<1>16. ASSUME NEW c \in Completes, RemovePart(c) PROVE Staged'
  BY <1>16 DEF RemovePart, Staged, StagedOf, Copied, Apart, TypeOK, PutRunning,
     CompRunning
<1>17. ASSUME NEW c \in Completes, RemoveManifest(c) PROVE Staged'
  BY <1>17 DEF RemoveManifest, Staged, StagedOf, Copied, Apart, TypeOK, PutRunning,
     CompRunning
<1>18. ASSUME NEW c \in Completes, Release(c) PROVE Staged'
  BY <1>18 DEF Release, Staged, StagedOf, Copied, Apart, TypeOK, PutRunning, CompRunning
<1>19. ASSUME NEW c \in Completes, ReleaseFails(c) PROVE Staged'
  BY <1>19 DEF ReleaseFails, Staged, StagedOf, Copied, Apart, TypeOK, PutRunning,
     CompRunning
<1>20. ASSUME NEW c \in Completes, ListParts(c) PROVE Staged'
  <2>1. \A d \in Completes \ {c} : ~CompRunning(d)
    BY <1>20 DEF ListParts, Apart, CompRunning
  <2>2. /\ total' = total /\ comp'[c] = "listed" /\ comp[c] = "opened"
        /\ \A d \in Completes \ {c} : comp'[d] = comp[d]
    BY <1>20 DEF ListParts, TypeOK
  <2> QED
    BY <2>1, <2>2 DEF Staged, StagedOf, CompRunning
<1>21. ASSUME NEW c \in Completes, CreateAssembled(c) PROVE Staged'
  <2>1. \A d \in Completes \ {c} : ~CompRunning(d)
    BY <1>21 DEF CreateAssembled, Apart, CompRunning
  <2>2. /\ total' = total /\ comp'[c] = "assembling" /\ comp[c] = "listed"
        /\ todo' = todo /\ assembled' = <<>>
        /\ \A d \in Completes \ {c} : comp'[d] = comp[d]
    BY <1>21 DEF CreateAssembled, TypeOK
  <2>3. \A d \in Completes \ {c} : StagedOf(d)'
    BY <2>1, <2>2 DEF Staged, StagedOf, CompRunning
  <2>4. total'[c] = 0 /\ Len(assembled') = 0
    BY <2>2 DEF Staged, StagedOf
  <2>5. \A p \in todo[c] : 0 < p
    BY PartStarts DEF TypeOK
  <2>6. Copied(c, 0)'
    BY <2>2, <2>4, <2>5, UptoNat DEF Copied, Begins
  <2>7. StagedOf(c)'
    BY <2>2, <2>4, <2>6 DEF StagedOf
  <2> QED
    BY <2>3, <2>7 DEF Staged
<1>22. ASSUME NEW c \in Completes, RefuseComplete(c) PROVE Staged'
  BY <1>22 DEF RefuseComplete, Staged, StagedOf, Copied, TypeOK, CompleteFails
<1>23. ASSUME NEW c \in Completes, AssembleFails(c) PROVE Staged'
  <2>1. \A d \in Completes \ {c} : ~CompRunning(d)
    BY <1>23 DEF AssembleFails, Apart, CompRunning
  <2>2. /\ total' = total /\ comp'[c] = "failed"
        /\ \A d \in Completes \ {c} : comp'[d] = comp[d]
    BY <1>23 DEF AssembleFails, CompleteFails, TypeOK
  <2> QED
    BY <2>1, <2>2 DEF Staged, StagedOf, CompRunning
<1>24. ASSUME NEW q \in Puts, RefusePut(q) PROVE Staged'
  BY <1>24 DEF RefusePut, Staged, StagedOf, Copied, TypeOK
<1> QED
  BY <1>1, <1>2, <1>3, <1>4, <1>5, <1>6, <1>7, <1>8, <1>9, <1>10, <1>11, <1>12,
     <1>13, <1>14, <1>15, <1>16, <1>17, <1>18, <1>19, <1>20, <1>21, <1>22, <1>23,
     <1>24 DEF Next, PutStep, CompleteStep

\* Only StoreBlob stores.
LEMMA Stores ==
    ASSUME [Next]_vars
    PROVE  UNCHANGED blobs \/ \E c \in Completes : StoreBlob(c)
<1> USE DEF compVars
<1>1. CASE MakeDir \/ WriteManifest \/ InitFails \/ Restart
  BY <1>1 DEF MakeDir, WriteManifest, InitFails, Restart
<1>2. ASSUME NEW q \in Puts, PutStep(q) PROVE UNCHANGED blobs
  BY <1>2 DEF PutStep, CreatePart, RefusePut, WritePart, AnswerPut, BreakPut
<1>3. ASSUME NEW c \in Completes, CompleteStep(c), ~StoreBlob(c) PROVE UNCHANGED blobs
  BY <1>3 DEF CompleteStep, OpenUpload, ListParts, CreateAssembled, RefuseComplete,
              AppendPart, AssembleFails, CheckSize, HashFile, StoreFails, RemovePart,
              RemoveManifest, Release, ReleaseFails
<1>4. CASE UNCHANGED vars
  BY <1>4 DEF vars
<1> QED
  BY <1>1, <1>2, <1>3, <1>4 DEF Next

\* Nothing but the file is stored.
LEMMA ExactStep == ASSUME IInv, [Next]_vars PROVE StoredExact'
<1>1. CASE UNCHANGED blobs
  BY <1>1 DEF IInv, StoredExact
<1>2. ASSUME NEW c \in Completes, StoreBlob(c)
      PROVE  StoredExact'
  <2>1. assembled = Whole /\ sum[c] = Whole
    BY <1>2 DEF StoreBlob, IInv, Staged, StagedOf
  <2> QED
    BY <1>2, <2>1 DEF StoreBlob, IInv, StoredExact
<1> QED
  BY Stores, <1>1, <1>2

\* No completion stores where another was answered.
LEMMA OnceStep == ASSUME IInv, [Next]_vars, Answered PROVE UNCHANGED blobs
<1>1. ASSUME NEW c \in Completes, StoreBlob(c)
      PROVE  FALSE
  BY <1>1 DEF StoreBlob, IInv, Swept, CompRunning
<1> QED
  BY Stores, <1>1

\* A part that was acknowledged is removed only after its blob was stored.
LEMMA KeptStep == ASSUME Alone, IInv, [Next]_vars PROVE KeptUntilStored'
<1> USE DEF IInv, putVars, compVars, dirVars
<1>1. CASE MakeDir
  BY <1>1 DEF MakeDir, KeptUntilStored, TypeOK, PutRunning, CompRunning
<1>2. CASE WriteManifest
  BY <1>2 DEF WriteManifest, KeptUntilStored, TypeOK, PutRunning, CompRunning
<1>3. CASE InitFails
  BY <1>3 DEF InitFails, KeptUntilStored, TypeOK, PutRunning, CompRunning
<1>4. CASE Restart
  BY <1>4 DEF Restart, KeptUntilStored, TypeOK, PutRunning, CompRunning
<1>5. CASE UNCHANGED vars
  BY <1>5 DEF vars, KeptUntilStored, TypeOK, PutRunning, CompRunning
<1>6. ASSUME NEW q \in Puts, CreatePart(q) PROVE KeptUntilStored'
  <2>1. PartOf[q] \in Parts
    BY PartOfAssumption
  <2>2. part' = [part EXCEPT ![PartOf[q]] = <<>>] /\ made' = made \cup {PartOf[q]}
    BY <1>6 DEF CreatePart, TruncatePart
  <2>3. \A r \in Puts : put'[r] = "ok" => put[r] = "ok" /\ PartOf[r] # PartOf[q]
    BY <1>6 DEF CreatePart, Replaced
  <2>4. \A r \in Puts : put'[r] = "ok" => part'[PartOf[r]] = part[PartOf[r]]
    BY <2>1, <2>2, <2>3, PartOfAssumption DEF TypeOK
  <2> QED
    BY <1>6, <2>2, <2>3, <2>4 DEF CreatePart, KeptUntilStored
<1>7. ASSUME NEW q \in Puts, WritePart(q) PROVE KeptUntilStored'
  <2>1. \A r \in Puts : put[r] = "ok" => PartOf[r] # PartOf[q]
    BY <1>7 DEF WritePart, Apart
  <2>2. \A p \in Parts : p # PartOf[q] => part'[p] = part[p]
    BY <1>7 DEF WritePart, TypeOK
  <2> QED
    BY <1>7, <2>1, <2>2, PartOfAssumption DEF WritePart, KeptUntilStored
<1>8. ASSUME NEW q \in Puts, AnswerPut(q) PROVE KeptUntilStored'
  <2> DEFINE p == PartOf[q]
  <2>1. p \in made /\ p \in Parts
    BY <1>8, PartOfAssumption DEF AnswerPut, Sent
  <2>2. part[p] \in Seq(Byte) /\ Len(part[p]) = PartLen(p)
    BY <1>8, <2>1 DEF AnswerPut, TypeOK, Alone
  <2>3. \A i \in 1 .. PartLen(p) : part[p][i] = <<p, i>>
    BY <2>1, <2>2 DEF Sent
  <2>4. part[p] = Slice(p)
    <3> HIDE DEF p
    <3>1. part[p] = [i \in 1 .. PartLen(p) |-> part[p][i]]
      BY <2>2
    <3> QED
      BY <2>3, <3>1 DEF Slice
  <2>5. \A r \in Puts \ {q} : put'[r] = put[r]
    BY <1>8 DEF AnswerPut, TypeOK
  <2> QED
    BY <1>8, <2>1, <2>4, <2>5 DEF AnswerPut, KeptUntilStored
<1>9. ASSUME NEW q \in Puts, BreakPut(q) PROVE KeptUntilStored'
  BY <1>9 DEF BreakPut, KeptUntilStored, TypeOK, PutRunning, CompRunning
<1>10. ASSUME NEW c \in Completes, OpenUpload(c) PROVE KeptUntilStored'
  BY <1>10 DEF OpenUpload, KeptUntilStored, TypeOK, PutRunning, CompRunning
<1>11. ASSUME NEW c \in Completes, AppendPart(c) PROVE KeptUntilStored'
  BY <1>11 DEF AppendPart, KeptUntilStored, TypeOK, CopyPart, PutRunning,
     CompRunning, CompleteFails
<1>12. ASSUME NEW c \in Completes, CheckSize(c) PROVE KeptUntilStored'
  BY <1>12 DEF CheckSize, KeptUntilStored, TypeOK, PutRunning, CompRunning
<1>13. ASSUME NEW c \in Completes, HashFile(c) PROVE KeptUntilStored'
  BY <1>13 DEF HashFile, KeptUntilStored, TypeOK, PutRunning, CompRunning, CompleteFails
<1>14. ASSUME NEW c \in Completes, StoreBlob(c) PROVE KeptUntilStored'
  BY <1>14 DEF StoreBlob, KeptUntilStored, TypeOK, PutRunning, CompRunning
<1>15. ASSUME NEW c \in Completes, StoreFails(c) PROVE KeptUntilStored'
  BY <1>15 DEF StoreFails, KeptUntilStored, TypeOK, PutRunning, CompRunning,
     CompleteFails
<1>16. ASSUME NEW c \in Completes, RemovePart(c) PROVE KeptUntilStored'
  <2>1. \E b \in blobs : b.bytes = Whole
    BY <1>16 DEF RemovePart, ReleaseAfter, Staged, StagedOf
  <2> QED
    BY <1>16, <2>1 DEF RemovePart, KeptUntilStored
<1>17. ASSUME NEW c \in Completes, RemoveManifest(c) PROVE KeptUntilStored'
  BY <1>17 DEF RemoveManifest, KeptUntilStored, TypeOK, PutRunning, CompRunning
<1>18. ASSUME NEW c \in Completes, Release(c) PROVE KeptUntilStored'
  BY <1>18 DEF Release, KeptUntilStored, TypeOK, PutRunning, CompRunning
<1>19. ASSUME NEW c \in Completes, ReleaseFails(c) PROVE KeptUntilStored'
  BY <1>19 DEF ReleaseFails, KeptUntilStored, TypeOK, PutRunning, CompRunning
<1>20. ASSUME NEW c \in Completes, ListParts(c) PROVE KeptUntilStored'
  BY <1>20 DEF ListParts, KeptUntilStored, TypeOK
<1>21. ASSUME NEW c \in Completes, CreateAssembled(c) PROVE KeptUntilStored'
  BY <1>21 DEF CreateAssembled, KeptUntilStored, TypeOK
<1>22. ASSUME NEW c \in Completes, RefuseComplete(c) PROVE KeptUntilStored'
  BY <1>22 DEF RefuseComplete, KeptUntilStored, TypeOK, CompleteFails
<1>23. ASSUME NEW c \in Completes, AssembleFails(c) PROVE KeptUntilStored'
  BY <1>23 DEF AssembleFails, KeptUntilStored, TypeOK, CompleteFails
<1>24. ASSUME NEW q \in Puts, RefusePut(q) PROVE KeptUntilStored'
  BY <1>24 DEF RefusePut, KeptUntilStored, TypeOK
<1> QED
  BY <1>1, <1>2, <1>3, <1>4, <1>5, <1>6, <1>7, <1>8, <1>9, <1>10, <1>11, <1>12,
     <1>13, <1>14, <1>15, <1>16, <1>17, <1>18, <1>19, <1>20, <1>21, <1>22, <1>23,
     <1>24 DEF Next, PutStep, CompleteStep

\* No completion begins where another has removed the directory.
LEMMA SweptStep == ASSUME Alone, IInv, [Next]_vars PROVE Swept'
<1> USE DEF IInv, putVars, compVars, dirVars
<1>1. CASE MakeDir
  BY <1>1 DEF MakeDir, Swept, Answered, Apart, TypeOK, PutRunning, CompRunning
<1>2. CASE WriteManifest
  BY <1>2 DEF WriteManifest, Swept, Answered, Apart, TypeOK, PutRunning, CompRunning
<1>3. CASE InitFails
  BY <1>3 DEF InitFails, Swept, Answered, Apart, TypeOK, PutRunning, CompRunning
<1>4. CASE Restart
  BY <1>4 DEF Restart, Swept, Answered, Apart, TypeOK, PutRunning, CompRunning
<1>5. CASE UNCHANGED vars
  BY <1>5 DEF vars, Swept, Answered, Apart, TypeOK, PutRunning, CompRunning
<1>6. ASSUME NEW q \in Puts, CreatePart(q) PROVE Swept'
  BY <1>6 DEF CreatePart, Swept, Answered, Apart, TypeOK, PutRunning, CompRunning
<1>7. ASSUME NEW q \in Puts, WritePart(q) PROVE Swept'
  BY <1>7 DEF WritePart, Swept, Answered, Apart, TypeOK, PutRunning, CompRunning
<1>8. ASSUME NEW q \in Puts, AnswerPut(q) PROVE Swept'
  BY <1>8 DEF AnswerPut, Swept, Answered, Apart, TypeOK, PutRunning, CompRunning
<1>9. ASSUME NEW q \in Puts, BreakPut(q) PROVE Swept'
  BY <1>9 DEF BreakPut, Swept, Answered, Apart, TypeOK, PutRunning, CompRunning
<1>10. ASSUME NEW c \in Completes, OpenUpload(c) PROVE Swept'
  <2>1. init # "idle" /\ init' = init /\ dir /\ unswept' = unswept
    BY <1>10 DEF OpenUpload, MayComplete
  <2>2. comp' = [comp EXCEPT ![c] = "opened"]
    BY <1>10 DEF OpenUpload
  <2>3. ~Answered /\ (Answered' => Answered)
    BY <2>1, <2>2 DEF Swept, Answered, TypeOK
  <2> QED
    BY <2>1, <2>3 DEF Swept
<1>11. ASSUME NEW c \in Completes, AppendPart(c) PROVE Swept'
  BY <1>11 DEF AppendPart, Swept, Answered, Apart, TypeOK, CopyPart, PutRunning,
     CompRunning, CompleteFails
<1>12. ASSUME NEW c \in Completes, CheckSize(c) PROVE Swept'
  BY <1>12 DEF CheckSize, Swept, Answered, Apart, TypeOK, PutRunning, CompRunning
<1>13. ASSUME NEW c \in Completes, HashFile(c) PROVE Swept'
  BY <1>13 DEF HashFile, Swept, Answered, Apart, TypeOK, PutRunning, CompRunning,
     CompleteFails
<1>14. ASSUME NEW c \in Completes, StoreBlob(c) PROVE Swept'
  BY <1>14 DEF StoreBlob, Swept, Answered, Apart, TypeOK, PutRunning, CompRunning
<1>15. ASSUME NEW c \in Completes, StoreFails(c) PROVE Swept'
  BY <1>15 DEF StoreFails, Swept, Answered, Apart, TypeOK, PutRunning, CompRunning,
     CompleteFails
<1>16. ASSUME NEW c \in Completes, RemovePart(c) PROVE Swept'
  BY <1>16 DEF RemovePart, Swept, Answered, Apart, TypeOK, ReleaseAfter, PutRunning,
     CompRunning
<1>17. ASSUME NEW c \in Completes, RemoveManifest(c) PROVE Swept'
  BY <1>17 DEF RemoveManifest, Swept, Answered, Apart, TypeOK, ReleaseAfter,
     PutRunning, CompRunning
<1>18. ASSUME NEW c \in Completes, Release(c) PROVE Swept'
  BY <1>18 DEF Release, Swept, Answered, Apart, TypeOK, ReleaseAfter, PutRunning,
     CompRunning
<1>19. ASSUME NEW c \in Completes, ReleaseFails(c) PROVE Swept'
  BY <1>19 DEF ReleaseFails, Swept, Answered, Apart, TypeOK, ReleaseAfter,
     PutRunning, CompRunning
<1>20. ASSUME NEW c \in Completes, ListParts(c) PROVE Swept'
  BY <1>20 DEF ListParts, Swept, Answered, TypeOK, CompRunning
<1>21. ASSUME NEW c \in Completes, CreateAssembled(c) PROVE Swept'
  BY <1>21 DEF CreateAssembled, Swept, Answered, TypeOK, CompRunning
<1>22. ASSUME NEW c \in Completes, RefuseComplete(c) PROVE Swept'
  BY <1>22 DEF RefuseComplete, MayComplete, Swept, Answered, TypeOK, CompRunning,
     CompleteFails
<1>23. ASSUME NEW c \in Completes, AssembleFails(c) PROVE Swept'
  BY <1>23 DEF AssembleFails, Swept, Answered, TypeOK, CompRunning, CompleteFails
<1>24. ASSUME NEW q \in Puts, RefusePut(q) PROVE Swept'
  BY <1>24 DEF RefusePut, Swept, Answered, TypeOK, CompRunning
<1> QED
  BY <1>1, <1>2, <1>3, <1>4, <1>5, <1>6, <1>7, <1>8, <1>9, <1>10, <1>11, <1>12,
     <1>13, <1>14, <1>15, <1>16, <1>17, <1>18, <1>19, <1>20, <1>21, <1>22, <1>23,
     <1>24 DEF Next, PutStep, CompleteStep

LEMMA Invariant == ASSUME Alone PROVE Spec => []IInv
<1>1. IInv /\ [Next]_vars => IInv'
  BY ApartStep, TypeStep, SentStep, StagedStep, ExactStep, KeptStep, SweptStep DEF IInv
<1> QED
  BY InitHolds, <1>1, PTL DEF Spec

(***************************************************************************)
(* Theorems                                                                *)
(***************************************************************************)
\* The type invariant, for files and parts of any size.
THEOREM TypeCorrect == ASSUME Alone PROVE Spec => []TypeOK
BY Invariant, PTL DEF IInv

\* What CompleteUpload stores is the file of the client, for files and parts of
\* any size and any number of PUTs, completions and restarts of a client that
\* sends one at a time: the names that sort and the size that is compared are
\* enough to tell every incomplete upload from a complete one.
THEOREM StoredIsExact == ASSUME Alone PROVE Spec => []StoredExact
BY Invariant, PTL DEF IInv

\* UploadPart's answer is kept: the bytes of the part stay in its file, however
\* completions fail or are cut short, until a blob has them, unless the client
\* itself sends the part again, which truncates it.
THEOREM AcknowledgedIsKept == ASSUME Alone PROVE Spec => []KeptUntilStored
BY Invariant, PTL DEF IInv

\* After CompleteUpload has answered and removed the directory, no repetition
\* of it stores the file again.
THEOREM AnsweredIsFinal == ASSUME Alone PROVE Spec => StoredOnce
<1>1. IInv /\ [Next]_vars => [Answered => blobs' = blobs]_vars
  BY OnceStep
<1>2. StoredOnce <=> [][Answered => blobs' = blobs]_vars
  BY DEF StoredOnce, Answered
<1> QED
  BY Invariant, <1>1, <1>2, PTL DEF Spec

(***************************************************************************)
(* The owner of what is stored: the system user is one, for any number of  *)
(* calls and errors (OwnerLookup, which shares no state with the staging)  *)
(***************************************************************************)
USE OwnerAssumption

\* The variables of defaultOwnerID are well typed, and a call that creates or
\* answers has an id to do it with.
THEOREM OwnerTypeCorrect == OwnerSpec => []OwnerTypeOK
<1>1. OwnerInit => OwnerTypeOK
  BY DEF OwnerInit, OwnerTypeOK
<1>2. OwnerTypeOK /\ [OwnerNext]_ownerVars => OwnerTypeOK'
  <2> SUFFICES ASSUME OwnerTypeOK, [OwnerNext]_ownerVars
               PROVE  OwnerTypeOK'
    OBVIOUS
  <2> USE DEF OwnerTypeOK, Goto
  <2>1. ASSUME NEW c \in Calls, Begin(c)
        PROVE  OwnerTypeOK'
    BY <2>1 DEF Begin
  <2>2. ASSUME NEW c \in Calls, First(c)
        PROVE  OwnerTypeOK'
    BY <2>2 DEF First, Found
  <2>3. ASSUME NEW c \in Calls, FirstFails(c)
        PROVE  OwnerTypeOK'
    BY <2>3 DEF FirstFails, QueryError
  <2>4. ASSUME NEW c \in Calls, Create(c)
        PROVE  OwnerTypeOK'
    BY <2>4 DEF Create
  <2>5. ASSUME NEW c \in Calls, CreateFails(c)
        PROVE  OwnerTypeOK'
    <3>1. users' \subseteq Calls
      BY <2>5 DEF CreateFails
    <3> QED
      BY <2>5, <3>1 DEF CreateFails, QueryError
  <2>6. ASSUME NEW c \in Calls, Reread(c)
        PROVE  OwnerTypeOK'
    BY <2>6 DEF Reread, Found
  <2>7. ASSUME NEW c \in Calls, RereadFails(c) \/ Retry(c)
        PROVE  OwnerTypeOK'
    BY <2>7 DEF RereadFails, QueryError, Retry
  <2>8. CASE UNCHANGED ownerVars
    BY <2>8 DEF ownerVars
  <2> QED
    BY <2>1, <2>2, <2>3, <2>4, <2>5, <2>6, <2>7, <2>8 DEF OwnerNext, Lookup
<1> QED
  BY <1>1, <1>2, PTL DEF OwnerSpec

\* The unique index: there is at most one row.
OneRow == \A r, s \in users : r = s

\* A call that was answered holds the id of a row.
AnsweredExist == \A c \in Calls : pc[c] = "answered" => user[c] \in users

\* However the first uploads race, and whichever insert or answer is lost, all
\* calls of defaultOwnerID that are answered are answered with the id of the one
\* system user.
THEOREM OneOwner == OwnerSpec => []OwnersAreOne
<1> DEFINE Inv == OneRow /\ AnsweredExist
<1>1. OwnerInit => Inv
  BY DEF OwnerInit, OneRow, AnsweredExist
<1>2. OwnerTypeOK /\ Inv /\ [OwnerNext]_ownerVars => Inv'
  <2> SUFFICES ASSUME OwnerTypeOK, Inv, [OwnerNext]_ownerVars
               PROVE  Inv'
    OBVIOUS
  <2> USE DEF OwnerTypeOK, OneRow, AnsweredExist, Goto
  <2>1. ASSUME NEW c \in Calls, Begin(c) \/ FirstFails(c) \/ RereadFails(c) \/ Retry(c)
        PROVE  Inv'
    BY <2>1 DEF Begin, FirstFails, RereadFails, Retry
  <2>2. ASSUME NEW c \in Calls, First(c)
        PROVE  Inv'
    BY <2>2 DEF First, Found
  <2>3. ASSUME NEW c \in Calls, Create(c)
        PROVE  Inv'
    BY <2>3 DEF Create, UniqueEmail
  <2>4. ASSUME NEW c \in Calls, CreateFails(c)
        PROVE  Inv'
    <3>1. users' = users \/ (users = {} /\ users' = {user[c]})
      BY <2>4 DEF CreateFails, UniqueEmail
    <3> QED
      BY <2>4, <3>1 DEF CreateFails
  <2>5. ASSUME NEW c \in Calls, Reread(c)
        PROVE  Inv'
    BY <2>5 DEF Reread, Found
  <2>6. CASE UNCHANGED ownerVars
    BY <2>6 DEF ownerVars
  <2> QED
    BY <2>1, <2>2, <2>3, <2>4, <2>5, <2>6 DEF OwnerNext, Lookup
<1>3. Inv => OwnersAreOne
  BY DEF OneRow, AnsweredExist, OwnersAreOne
<1> QED
  BY <1>1, <1>2, <1>3, OwnerTypeCorrect, PTL DEF OwnerSpec
=============================================================================
