------------------------- MODULE InlineEngine_proofs ------------------------
(***************************************************************************)
(* Proofs about the inline engine, for any number of appends of any        *)
(* length, of resets and of crashes; that a daemon that also writes block  *)
(* chunks and answers reads still is that engine; and that what it         *)
(* acknowledged it keeps and answers.                                      *)
(***************************************************************************)
EXTENDS Worker, TLAPS

(***************************************************************************)
(* Types and mutual exclusion                                              *)
(***************************************************************************)
LEMMA TypeInit == Init => TypeOK
BY InlineAssumption DEF Init, TypeOK, Gens, NoFile, Places, Holding, Open, Done

LEMMA OpenedIsGeneration == TypeOK => Opened \in Gens
BY InlineAssumption DEF TypeOK, Opened, Gens, NoFile

LEMMA TypeNext == TypeOK /\ [Next]_vars => TypeOK'
<1> SUFFICES ASSUME TypeOK, [Next]_vars
             PROVE  TypeOK'
  OBVIOUS
<1> USE InlineAssumption DEF TypeOK, Places, Holding, Open, Done
<1>1. ASSUME NEW a \in Appends, Arrive(a) \/ Lock(a)
      PROVE  TypeOK'
  BY <1>1 DEF Arrive, Lock, MutexFree, locals, volume
<1>2. ASSUME NEW a \in Appends, OpenAndStat(a)
      PROVE  TypeOK'
  <2>1. Opened \in Gens
    BY OpenedIsGeneration
  <2>2. StatSize(Opened) \in Nat
    BY <2>1 DEF StatSize
  <2>3. \A b \in Appends : at'[b] \in Holding <=> mutex' = b
    BY <1>2 DEF OpenAndStat
  <2>4. \A b \in Appends : sent'[b] <= Length[b]
    BY <1>2 DEF OpenAndStat
  <2>5. \A b \in Appends : at'[b] \in Open \cup {"acked"} => file'[b] \in Gens
    BY <1>2, <2>1 DEF OpenAndStat
  <2> QED
    BY <1>2, <2>1, <2>2, <2>3, <2>4, <2>5 DEF OpenAndStat
<1>3. ASSUME NEW a \in Appends, Copy(a)
      PROVE  TypeOK'
  <2>0. /\ file[a] \in Gens /\ vol[file[a]] \in Seq(Appends \X Nat)
        /\ <<a, sent[a] + 1>> \in Appends \X Nat
    BY <1>3 DEF Copy
  <2>1. vol' \in [Gens -> Seq(Appends \X Nat)]
    BY <1>3, <2>0 DEF Copy
  <2>2. \A b \in Appends : sent'[b] \in Nat /\ sent'[b] <= Length[b]
    BY <1>3 DEF Copy
  <2> QED
    BY <1>3, <2>1, <2>2 DEF Copy
<1>4. ASSUME NEW a \in Appends, FinishCopy(a)
      PROVE  TypeOK'
  <2>0. file[a] \in Gens /\ Len(vol[file[a]]) \in Nat
    BY <1>4 DEF FinishCopy
  <2>1. synced' \in [Gens -> Nat] /\ flushed' \subseteq Gens
    BY <1>4, <2>0 DEF FinishCopy, Sync
  <2> QED
    BY <1>4, <2>1 DEF FinishCopy, locals
<1>5. ASSUME NEW a \in Appends, Acknowledge(a) \/ Fail(a)
      PROVE  TypeOK'
  <2>1. /\ at[a] \in Holding
        /\ \E outcome \in Done : Leave(a, outcome) /\ (outcome = "acked" => at[a] \in Open)
        /\ UNCHANGED <<volume, locals, removals, crashes>>
    BY <1>5 DEF Acknowledge, Fail
  <2>2. PICK outcome \in Done : /\ at' = [at EXCEPT ![a] = outcome]
                                /\ mutex' = NoAppend
                                /\ outcome = "acked" => at[a] \in Open
    BY <2>1 DEF Leave
  <2>3. \A b \in Appends : at'[b] \in Holding <=> mutex' = b
    BY <2>1, <2>2
  <2>4. at' \in [Appends -> Places]
    BY <2>2
  <2>5. \A b \in Appends : at'[b] \in Open \cup {"acked"} => file'[b] \in Gens
    BY <2>1, <2>2 DEF locals
  <2>6. UNCHANGED <<path, vol, synced, flushed, removed, file, offset, sent, removals, crashes>>
    BY <2>1 DEF locals, volume
  <2>7. mutex' \in Appends \cup {NoAppend}
    BY <2>2
  <2> QED
    BY <2>3, <2>4, <2>5, <2>6, <2>7
<1>6. ASSUME Remove
      PROVE  TypeOK'
  BY <1>6 DEF Remove, locals, NoFile
<1>7. ASSUME Crash
      PROVE  TypeOK'
  <2>5. path' \in Gens \cup {NoFile} /\ vol' \in [Gens -> Seq(Appends \X Nat)]
    <3>1. CASE UNCHANGED <<path, vol>> \/ LoseName
      BY <3>1 DEF LoseName
    <3>2. CASE LoseBytes
      <4>1. path \in Gens /\ path' = path
        BY <3>2 DEF LoseBytes
      <4>2. PICK n \in synced[path] .. Len(vol[path]) :
                vol' = [vol EXCEPT ![path] = SubSeq(@, 1, n)]
        BY <3>2 DEF LoseBytes
      <4>3. SubSeq(vol[path], 1, n) \in Seq(Appends \X Nat)
        BY <4>1, <4>2
      <4> QED
        BY <4>1, <4>2, <4>3
    <3> QED
      BY <1>7, <3>1, <3>2 DEF Crash
  <2>6. at' \in [Appends -> Places] /\ \A b \in Appends : at'[b] \in Holding <=> mutex' = b
    BY <1>7 DEF Crash
  <2>7. crashes' \in 0 .. MaxCrashes
    BY <1>7 DEF Crash
  <2> QED
    BY <1>7, <2>5, <2>6, <2>7 DEF Crash, locals
<1>8. CASE UNCHANGED vars
  BY <1>8 DEF vars, locals, volume
<1> QED
  BY <1>1, <1>2, <1>3, <1>4, <1>5, <1>6, <1>7, <1>8 DEF Next, Handle

\* Every variable keeps its type, and the mutex is held by a running handler
\* and by no other.
THEOREM TypeCorrect == Spec => []TypeOK
BY TypeInit, TypeNext, PTL DEF Spec

(***************************************************************************)
(* What was acknowledged stays readable                                    *)
(***************************************************************************)
\* The first n bytes of the append are in its file, from its offset on.
Holds(a, n) ==
    /\ file[a] \in Gens
    /\ offset[a] + n <= Len(vol[file[a]])
    /\ \A k \in 1 .. n : ByteAt(file[a], offset[a], k) = <<a, k>>

\* The holder of the mutex writes at the end of its file, so that what it
\* copied follows its offset.
Writing(a) ==
    at[a] \in Open =>
        /\ Holds(a, sent[a])
        /\ offset[a] + sent[a] = Len(vol[file[a]])

\* What is acknowledged was synced, so that a crash spares it.
Kept(a) ==
    at[a] \in {"synced", "acked"} =>
        /\ Holds(a, sent[a])
        /\ offset[a] + sent[a] <= synced[file[a]]
        /\ file[a] \in flushed
        /\ at[a] = "acked" => sent[a] = Length[a]

\* The bytes of AckedIntact, made inductive.
IInv ==
    /\ \A g \in Gens : synced[g] <= Len(vol[g])
    /\ \A a \in Appends : Writing(a) /\ Kept(a)

\* Bytes in front of the end of a volume survive what the step does to it.
LEMMA HoldsStable ==
    ASSUME TypeOK, NEW a \in Appends, NEW n \in Nat, Holds(a, n),
           file'[a] = file[a], offset'[a] = offset[a],
           offset[a] + n <= Len(vol'[file[a]]),
           \A i \in 1 .. (offset[a] + n) : vol'[file[a]][i] = vol[file[a]][i]
    PROVE  Holds(a, n)'
<1>1. offset[a] \in Nat /\ \A k \in 1 .. n : offset[a] + k \in 1 .. (offset[a] + n)
  BY DEF TypeOK
<1> QED
  BY <1>1 DEF Holds, ByteAt

LEMMA NextIInv == TypeOK /\ TypeOK' /\ IInv /\ [Next]_vars => IInv'
<1> SUFFICES ASSUME TypeOK, TypeOK', IInv, [Next]_vars
             PROVE  IInv'
  OBVIOUS
\* Steps that leave the volumes and an append alone, or end it.
<1>a. ASSUME UNCHANGED <<vol, synced, flushed>>,
             NEW b \in Appends,
             file'[b] = file[b], offset'[b] = offset[b], sent'[b] = sent[b],
             at'[b] = at[b] \/ at'[b] \in {"waiting", "locked", "failed"}
                \/ (at[b] = "synced" /\ at'[b] = "acked" /\ sent[b] = Length[b])
      PROVE  Writing(b)' /\ Kept(b)'
  BY <1>a DEF IInv, Writing, Kept, Holds, ByteAt, Open
<1>1. ASSUME NEW a \in Appends, Arrive(a) \/ Lock(a) \/ Acknowledge(a) \/ Fail(a)
      PROVE  IInv'
  <2>1. /\ \E place \in {"waiting", "locked", "failed", "acked"} :
              /\ at' = [at EXCEPT ![a] = place]
              /\ place = "acked" => at[a] = "synced" /\ sent[a] = Length[a]
        /\ UNCHANGED <<vol, synced, flushed, locals>>
    BY <1>1 DEF Arrive, Lock, Acknowledge, Fail, Leave, volume
  <2>2. \A b \in Appends : Writing(b)' /\ Kept(b)'
    BY <2>1, <1>a DEF locals, TypeOK
  <2> QED
    BY <2>1, <2>2 DEF IInv
<1>2. ASSUME NEW a \in Appends, OpenAndStat(a)
      PROVE  IInv'
  <2>1. Opened \in Gens
    BY OpenedIsGeneration
  <2>2. /\ file'[a] = Opened /\ offset'[a] = Len(vol[Opened]) /\ sent'[a] = 0
        /\ at'[a] = "copying" /\ UNCHANGED <<vol, synced, flushed>>
    BY <1>2 DEF OpenAndStat, StatSize, TypeOK
  <2>3. Writing(a)' /\ Kept(a)'
    BY <2>1, <2>2 DEF Writing, Kept, Holds, TypeOK
  <2>4. ASSUME NEW b \in Appends \ {a}
        PROVE  Writing(b)' /\ Kept(b)'
    <3>1. /\ file'[b] = file[b] /\ offset'[b] = offset[b] /\ sent'[b] = sent[b]
          /\ at'[b] = at[b]
      BY <1>2 DEF OpenAndStat, TypeOK
    <3> QED
      BY <2>2, <3>1, <1>a
  <2> QED
    BY <2>2, <2>3, <2>4 DEF IInv
<1>3. ASSUME NEW a \in Appends, Copy(a)
      PROVE  IInv'
  <2> DEFINE g == file[a]
             byte == <<a, sent[a] + 1>>
  <2>1. /\ at[a] = "copying" /\ sent[a] < Length[a]
        /\ vol' = [vol EXCEPT ![g] = Append(@, byte)]
        /\ sent' = [sent EXCEPT ![a] = @ + 1]
        /\ UNCHANGED <<at, synced, flushed, file, offset>>
    BY <1>3 DEF Copy
  <2>2. /\ Holds(a, sent[a]) /\ offset[a] + sent[a] = Len(vol[g])
        /\ g \in Gens /\ offset[a] \in Nat /\ sent[a] \in Nat
        /\ vol[g] \in Seq(Appends \X Nat) /\ byte \in Appends \X Nat
    BY <2>1 DEF IInv, Writing, Holds, Open, TypeOK
  <2>3. /\ Len(vol'[g]) = Len(vol[g]) + 1
        /\ vol'[g][Len(vol[g]) + 1] = byte
        /\ \A i \in 1 .. Len(vol[g]) : vol'[g][i] = vol[g][i]
        /\ \A h \in Gens \ {g} : vol'[h] = vol[h]
    BY <2>1, <2>2 DEF TypeOK
  <2>4. sent'[a] = sent[a] + 1
    BY <2>1, <2>2 DEF TypeOK
  <2>5. Holds(a, sent[a])'
    <3>1. Len(vol[g]) \in Nat
      BY <2>2
    <3>2. \A k \in 1 .. sent[a] : vol'[g][offset[a] + k] = <<a, k>>
      <4>1. ASSUME NEW k \in 1 .. sent[a]
            PROVE  offset[a] + k \in 1 .. Len(vol[g]) /\ vol[g][offset[a] + k] = <<a, k>>
        <5>1. offset[a] \in Nat /\ sent[a] \in Nat /\ offset[a] + sent[a] = Len(vol[g])
          BY <2>2
        <5>2. offset[a] + k \in 1 .. Len(vol[g])
          BY <5>1
        <5>3. Holds(a, sent[a])
          BY <2>2
        <5>4. vol[g][offset[a] + k] = <<a, k>>
          BY <5>3 DEF Holds, ByteAt
        <5> QED
          BY <5>2, <5>4
      <4> QED
        BY <4>1, <2>3
    <3>3. vol'[g][offset[a] + (sent[a] + 1)] = <<a, sent[a] + 1>>
      <4>1. offset[a] \in Nat /\ sent[a] \in Nat /\ offset[a] + sent[a] = Len(vol[g])
        BY <2>2
      <4>2. offset[a] + (sent[a] + 1) = Len(vol[g]) + 1
        BY <4>1
      <4> QED
        BY <4>2, <2>3
    <3>4. ASSUME NEW k \in 1 .. (sent[a] + 1)
          PROVE  vol'[g][offset[a] + k] = <<a, k>>
      <4>1. k \in 1 .. sent[a] \/ k = sent[a] + 1
        BY <2>2
      <4> QED
        BY <4>1, <3>2, <3>3
    <3>5. offset[a] + (sent[a] + 1) <= Len(vol'[g])
      BY <2>2, <2>3, <3>1
    <3> QED
      BY <2>1, <2>2, <2>4, <3>4, <3>5 DEF Holds, ByteAt
  <2>6. Writing(a)' /\ Kept(a)'
    <3>1. offset'[a] + sent'[a] = Len(vol'[file'[a]])
      <4>1. offset'[a] = offset[a] /\ sent'[a] = sent[a] + 1 /\ file'[a] = g
        BY <2>1, <2>4 DEF TypeOK
      <4>2. offset[a] \in Nat /\ sent[a] \in Nat /\ offset[a] + sent[a] = Len(vol[g])
        BY <2>2
      <4>3. Len(vol'[g]) = Len(vol[g]) + 1
        BY <2>3
      <4> QED
        BY <4>1, <4>2, <4>3
    <3>2. at'[a] = "copying"
      BY <2>1
    <3> QED
      BY <2>5, <3>1, <3>2 DEF Writing, Kept
  <2>7. ASSUME NEW b \in Appends \ {a}
        PROVE  Writing(b)' /\ Kept(b)'
    <3>1. at[b] \notin Holding
      BY <2>1 DEF TypeOK, Holding, Open
    <3>2. ASSUME at[b] = "acked"
          PROVE  Kept(b)'
      <4>1. /\ Holds(b, sent[b]) /\ file[b] \in Gens /\ file[b] \in flushed
            /\ offset[b] + sent[b] <= synced[file[b]] /\ sent[b] = Length[b]
        BY <3>2 DEF IInv, Kept, Holds
      <4>2. /\ offset[b] \in Nat /\ sent[b] \in Nat /\ sent'[b] = sent[b]
            /\ Len(vol[file[b]]) \in Nat
            /\ offset[b] + sent[b] <= Len(vol[file[b]])
        BY <2>1, <4>1 DEF TypeOK, Holds
      <4>3. /\ Len(vol[file[b]]) <= Len(vol'[file[b]])
            /\ \A i \in 1 .. Len(vol[file[b]]) : vol'[file[b]][i] = vol[file[b]][i]
        <5>1. CASE file[b] = g
          BY <2>3, <4>2, <5>1
        <5>2. CASE file[b] # g
          BY <2>3, <4>1, <4>2, <5>2
        <5> QED
          BY <5>1, <5>2
      <4>4. Len(vol'[file[b]]) \in Nat
        BY <4>1 DEF TypeOK
      <4>5. Holds(b, sent[b])'
        <5>1. \A n \in Nat : n = sent[b] => Holds(b, n)'
          BY <2>1, <4>1, <4>2, <4>3, <4>4, HoldsStable
        <5> QED
          BY <4>2, <5>1 DEF Holds
      <4> QED
        BY <2>1, <4>1, <4>2, <4>5 DEF Kept
    <3>3. at'[b] = at[b]
      BY <2>1
    <3> QED
      BY <3>1, <3>2, <3>3 DEF Writing, Kept, Holding, Open
  <2>8. \A h \in Gens : synced'[h] <= Len(vol'[h])
    <3>1. ASSUME NEW h \in Gens
          PROVE  synced[h] \in Nat /\ synced[h] <= Len(vol[h]) /\ Len(vol[h]) \in Nat
      BY DEF IInv, TypeOK
    <3> QED
      BY <2>1, <2>2, <2>3, <3>1
  <2> QED
    BY <2>6, <2>7, <2>8 DEF IInv
<1>4. ASSUME NEW a \in Appends, FinishCopy(a)
      PROVE  IInv'
  <2>1. /\ at[a] = "copying"
        /\ synced' = [synced EXCEPT ![file[a]] = Len(vol[file[a]])]
        /\ flushed' = flushed \cup {file[a]}
        /\ at' = [at EXCEPT ![a] = "synced"]
        /\ UNCHANGED <<vol, file, offset, sent>>
    BY <1>4 DEF FinishCopy, Sync, locals
  <2>2. /\ Holds(a, sent[a]) /\ file[a] \in Gens
        /\ offset[a] + sent[a] = Len(vol[file[a]])
    BY <2>1 DEF IInv, Writing, Holds, Open
  <2>3. ASSUME NEW h \in Gens
        PROVE  /\ synced[h] <= synced'[h] /\ synced'[h] <= Len(vol[h])
               /\ synced[h] \in Nat /\ synced'[h] \in Nat
               /\ h = file[a] => synced'[h] = Len(vol[h])
    <3>1. synced[h] \in Nat /\ Len(vol[h]) \in Nat /\ synced[h] <= Len(vol[h])
      BY DEF IInv, TypeOK
    <3>2. synced'[h] = IF h = file[a] THEN Len(vol[h]) ELSE synced[h]
      BY <2>1 DEF TypeOK
    <3> QED
      BY <3>1, <3>2
  <2>4. ASSUME NEW b \in Appends, Holds(b, sent[b])
        PROVE  Holds(b, sent[b])'
    BY <2>1, <2>4 DEF Holds, ByteAt
  <2>5. Writing(a)' /\ Kept(a)'
    <3>1. Holds(a, sent[a])'
      BY <2>2, <2>4
    <3>2. Len(vol[file[a]]) \in Nat
      BY <2>2 DEF TypeOK
    <3> QED
      BY <2>1, <2>2, <2>3, <3>1, <3>2 DEF Writing, Kept
  <2>6. ASSUME NEW b \in Appends \ {a}
        PROVE  Writing(b)' /\ Kept(b)'
    <3>1. at'[b] = at[b] /\ at[b] \notin Holding
      BY <2>1 DEF TypeOK, Holding, Open
    <3>2. ASSUME at[b] = "acked"
          PROVE  Kept(b)'
      <4>1. /\ Holds(b, sent[b]) /\ file[b] \in Gens /\ file[b] \in flushed
            /\ offset[b] + sent[b] <= synced[file[b]] /\ sent[b] = Length[b]
        BY <3>2 DEF IInv, Kept, Holds
      <4>2. offset[b] \in Nat /\ sent[b] \in Nat
        BY DEF TypeOK
      <4>3. offset[b] + sent[b] <= synced'[file[b]]
        BY <2>3, <4>1, <4>2
      <4> QED
        BY <2>1, <2>4, <4>1, <4>3 DEF Kept
    <3> QED
      BY <3>1, <3>2 DEF Writing, Kept, Holding, Open
  <2> QED
    BY <2>1, <2>3, <2>5, <2>6 DEF IInv
<1>5. ASSUME Remove
      PROVE  IInv'
  <2>1. UNCHANGED <<at, vol, synced, flushed, locals>>
    BY <1>5 DEF Remove
  <2>2. \A b \in Appends : Writing(b)' /\ Kept(b)'
    BY <2>1, <1>a DEF locals
  <2> QED
    BY <2>1, <2>2 DEF IInv
<1>6. ASSUME Crash
      PROVE  IInv'
  <2>3. UNCHANGED <<synced, flushed, file, offset, sent>>
    BY <1>6 DEF Crash, locals
  <2>5. \A h \in Gens : /\ synced[h] <= Len(vol'[h])
                        /\ \A i \in 1 .. Len(vol'[h]) : vol'[h][i] = vol[h][i]
    <3>1. CASE UNCHANGED <<path, vol>> \/ LoseName
      BY <3>1 DEF LoseName, IInv
    <3>2. CASE LoseBytes
      <4>1. path \in Gens
        BY <3>2 DEF LoseBytes, TypeOK
      <4>2. PICK n \in synced[path] .. Len(vol[path]) :
                vol' = [vol EXCEPT ![path] = SubSeq(@, 1, n)]
        BY <3>2 DEF LoseBytes
      <4>3. /\ vol[path] \in Seq(Appends \X Nat) /\ synced[path] \in Nat
            /\ n \in Nat /\ synced[path] <= n /\ n <= Len(vol[path])
        BY <4>1, <4>2 DEF TypeOK
      <4>4. vol'[path] = SubSeq(vol[path], 1, n) /\ \A h \in Gens \ {path} : vol'[h] = vol[h]
        BY <4>1, <4>2 DEF TypeOK
      <4>5. /\ Len(SubSeq(vol[path], 1, n)) = n
            /\ \A i \in 1 .. n : SubSeq(vol[path], 1, n)[i] = vol[path][i]
        BY <4>3
      <4> QED
        BY <4>3, <4>4, <4>5 DEF IInv
    <3> QED
      BY <1>6, <3>1, <3>2 DEF Crash
  <2>6. \A h \in Gens : synced'[h] <= Len(vol'[h])
    BY <2>3, <2>5
  <2>7. ASSUME NEW b \in Appends
        PROVE  /\ at'[b] \notin Open /\ at'[b] # "synced"
               /\ at'[b] = "acked" => at[b] = "acked"
    BY <1>6 DEF Crash, Holding, Open, TypeOK
  <2>8. ASSUME NEW b \in Appends, at[b] = "acked"
        PROVE  Kept(b)'
    <3>1. /\ Holds(b, sent[b]) /\ file[b] \in Gens /\ file[b] \in flushed
          /\ offset[b] + sent[b] <= synced[file[b]] /\ sent[b] = Length[b]
      BY <2>8 DEF IInv, Kept, Holds
    <3>2. /\ offset[b] \in Nat /\ sent[b] \in Nat /\ synced[file[b]] \in Nat
          /\ Len(vol'[file[b]]) \in Nat
      BY <3>1 DEF TypeOK
    <3>3. offset[b] + sent[b] <= Len(vol'[file[b]])
      BY <2>3, <2>6, <3>1, <3>2
    <3>4. \A i \in 1 .. (offset[b] + sent[b]) : vol'[file[b]][i] = vol[file[b]][i]
      BY <2>5, <3>1, <3>2, <3>3
    <3>5. Holds(b, sent[b])'
      <4>1. \A n \in Nat : n = sent[b] => Holds(b, n)'
        BY <2>3, <3>1, <3>2, <3>3, <3>4, HoldsStable
      <4> QED
        BY <2>3, <3>2, <4>1 DEF Holds
    <3> QED
      BY <2>3, <3>1, <3>5 DEF Kept
  <2>9. ASSUME NEW b \in Appends
        PROVE  Writing(b)' /\ Kept(b)'
    BY <2>7, <2>8 DEF Writing, Kept
  <2> QED
    BY <2>6, <2>9 DEF IInv
<1>7. CASE UNCHANGED vars
  <2>1. UNCHANGED <<at, vol, synced, flushed, locals>>
    BY <1>7 DEF vars, volume
  <2>2. \A b \in Appends : Writing(b)' /\ Kept(b)'
    BY <2>1, <1>a DEF locals
  <2> QED
    BY <2>1, <2>2 DEF IInv
<1> QED
  BY <1>1, <1>2, <1>3, <1>4, <1>5, <1>6, <1>7 DEF Next, Handle

LEMMA BytesStay == Spec => []IInv
<1>1. Init => IInv
  BY DEF Init, IInv, Writing, Kept, Open, Gens
<1> QED
  BY <1>1, NextIInv, TypeCorrect, PTL DEF Spec

\* The volume's path leads to the file an append has open or was acknowledged
\* for, unless a reset has removed it.
Placed(a) ==
    at[a] \in Open \cup {"acked"} => file[a] \in removed \/ file[a] = path

PlacedInv == \A a \in Appends : Placed(a)

\* A crash does not take the name of a file that was synced.
LEMMA NextPlaced ==
    ASSUME EntriesDurable, TypeOK, IInv, PlacedInv, [Next]_vars
    PROVE  PlacedInv'
<1> SUFFICES ASSUME NEW b \in Appends, at'[b] \in Open \cup {"acked"}
             PROVE  file'[b] \in removed' \/ file'[b] = path'
  BY DEF PlacedInv, Placed
<1> USE DEF Open
<1>0. at[b] \in Open \cup {"acked"} => file[b] \in removed \/ file[b] = path
  BY DEF PlacedInv, Placed
<1>1. ASSUME NEW a \in Appends,
             Arrive(a) \/ Lock(a) \/ Acknowledge(a) \/ Fail(a) \/ Copy(a) \/ FinishCopy(a)
      PROVE  at[b] \in Open \cup {"acked"} /\ UNCHANGED <<file, path, removed>>
  <2>1. UNCHANGED <<file, path, removed>>
    BY <1>1 DEF Arrive, Lock, Acknowledge, Fail, Copy, FinishCopy, volume, locals
  <2>2. at[b] \in Open \cup {"acked"}
    BY <1>1 DEF Arrive, Lock, Acknowledge, Fail, Copy, FinishCopy, Leave, TypeOK
  <2> QED
    BY <2>1, <2>2
<1>2. ASSUME NEW a \in Appends, OpenAndStat(a)
      PROVE  file'[b] \in removed' \/ file'[b] = path'
  <2>1. CASE b = a
    BY <1>2, <2>1 DEF OpenAndStat, TypeOK
  <2>2. CASE b # a
    <3>1. at[b] \in Open \cup {"acked"} /\ file'[b] = file[b] /\ removed' = removed
      BY <1>2, <2>2 DEF OpenAndStat, TypeOK
    <3>2. file[b] # NoFile
      BY <3>1 DEF TypeOK, Gens, NoFile
    <3> QED
      BY <1>0, <1>2, <3>1, <3>2 DEF OpenAndStat, Opened
  <2> QED
    BY <2>1, <2>2
<1>3. ASSUME Remove
      PROVE  file'[b] \in removed'
  <2>1. at[b] \in Open \cup {"acked"} /\ file'[b] = file[b]
    BY <1>3 DEF Remove, locals
  <2>2. file[b] # NoFile
    BY <2>1 DEF TypeOK, Gens, NoFile
  <2> QED
    BY <1>0, <1>3, <2>1, <2>2 DEF Remove
<1>4. ASSUME Crash
      PROVE  file'[b] \in removed' \/ file'[b] = path'
  <2>1. at[b] = "acked" /\ file'[b] = file[b] /\ removed' = removed
    BY <1>4 DEF Crash, Holding, locals
  <2>2. file[b] \in flushed
    BY <2>1 DEF IInv, Kept
  <2> QED
    BY <1>0, <1>4, <2>1, <2>2 DEF Crash, LoseBytes, LoseName
<1>5. CASE UNCHANGED vars
  BY <1>0, <1>5 DEF vars, volume, locals
<1> QED
  BY <1>0, <1>1, <1>2, <1>3, <1>4, <1>5 DEF Next, Handle

\* An acknowledged append stays readable at the offset that was answered,
\* whatever is appended, broken off or lost in a crash, until a reset removes
\* the volume, where fsync of a new file keeps the file's name.
THEOREM AckedStaysIntact == ASSUME EntriesDurable PROVE Spec => []AckedIntact
<1>1. Init => PlacedInv
  BY DEF Init, PlacedInv, Placed, Open
<1>2. TypeOK /\ IInv /\ PlacedInv => AckedIntact
  BY DEF IInv, Kept, Holds, PlacedInv, Placed, AckedIntact
<1>3. TypeOK /\ IInv /\ PlacedInv /\ [Next]_vars => PlacedInv'
  BY NextPlaced
<1> QED
  BY <1>1, <1>2, <1>3, BytesStay, TypeCorrect, PTL DEF Spec

(***************************************************************************)
(* The worker                                                              *)
(***************************************************************************)
\* Block chunks and reads of the volume change nothing of the inline engine:
\* ChunkHandler gives them no lock to take and only files of their own to write.
LEMMA EngineSteps == [NextAll]_allVars => [Next]_vars
<1> SUFFICES ASSUME NextAll
             PROVE  [Next]_vars
  BY DEF allVars
<1>1. ASSUME NEW a \in Appends, Arrive(a) \/ HandleAppend(a)
      PROVE  Next
  BY <1>1 DEF HandleAppend, Next
<1>2. ASSUME NEW w \in Writes,
             CreateFile(w) \/ CopyBlock(w) \/ SyncBlock(w) \/ AnswerBlock(w) \/ FailBlock(w)
      PROVE  UNCHANGED vars
  BY <1>2 DEF CreateFile, CopyBlock, SyncBlock, AnswerBlock, FailBlock
<1>3. ASSUME NEW r \in Reads, OpenChunk(r) \/ FinishRead(r) \/ FailRead(r)
      PROVE  UNCHANGED vars
  BY <1>3 DEF OpenChunk, FinishRead, FailRead
<1>4. CASE RemoveAll \/ CrashAll
  BY <1>4 DEF RemoveAll, CrashAll, Next
<1> QED
  BY <1>1, <1>2, <1>3, <1>4 DEF NextAll

\* A machine that also writes block chunks and answers reads is an inline engine.
THEOREM ImplementsEngine == WorkerSpec => Spec
<1>1. InitAll => Init
  BY DEF InitAll
<1> QED
  BY <1>1, EngineSteps, PTL DEF WorkerSpec, Spec

\* So an acknowledged append stays intact next to block chunks and reads.
THEOREM AckedStaysIntactInWorker == ASSUME EntriesDurable PROVE WorkerSpec => []AckedIntact
BY ImplementsEngine, AckedStaysIntact, PTL

(***************************************************************************)
(* Block chunks and reads                                                  *)
(***************************************************************************)
\* A volume that lost its path never gets it back: the file that is made next
\* is a new one.
PathInv ==
    /\ path <= removals + crashes + 1
    /\ \A a \in Appends : at[a] \in Open \cup {"acked"} /\ file[a] # path => file[a] < Opened

\* What is answered is as long as it was declared.
FileInv == \A w \in Writes : wrote[w] = "acked" => disk[w] = Body[w]

\* Only a read that has ended has bytes.
Fresh ==
    /\ data = [r \in Reads |-> data[r]]
    /\ \A r \in Reads : read[r] # "done" => data[r] = NoRead

\* A read is for an acknowledged chunk, and has the chunk's file open unless
\* another volume has its path.
Opens(r) ==
    /\ read[r] \notin {"idle", "failed"} => chunk[r] \in Chunks /\ Acked(chunk[r])
    /\ read[r] = "open" =>
          fd[r] = Home(chunk[r]) \/ (chunk[r] \in Appends /\ Gone(chunk[r]))

Exact(r) ==
    /\ read[r] = "done" =>
          IF fd[r] = Home(chunk[r]) THEN data[r] = Bytes(chunk[r])
          ELSE chunk[r] \in Appends /\ Gone(chunk[r])
    /\ read[r] \in {"missing", "short"} => Gone(chunk[r])

ReadInv == \A r \in Reads : Opens(r) /\ Exact(r)

WInv == WorkerTypeOK /\ Fresh /\ PathInv /\ FileInv /\ ReadInv

LEMMA MinOfTwo ==
    ASSUME NEW m \in Nat, NEW n \in Nat
    PROVE  Min({m, n}) = IF m <= n THEN m ELSE n
<1>1. \E x \in {m, n} : \A y \in {m, n} : x =< y
  BY SMT
<1>2. Min({m, n}) \in {m, n} /\ \A y \in {m, n} : Min({m, n}) =< y
  BY <1>1 DEF Min
<1> QED
  BY <1>2

\* The bytes of an acknowledged chunk are where its file has them.
LEMMA AckedBytes ==
    ASSUME TypeOK, IInv, WorkerTypeOK, FileInv,
           NEW c \in Chunks, Acked(c)
    PROVE  ReadAt(c, Home(c)) = Bytes(c)
<1>1. CASE c \in Appends
  <2>1. at[c] = "acked" /\ file[c] \in Gens
    BY <1>1 DEF Acked, TypeOK
  <2>2. /\ vol[file[c]] \in Seq(Appends \X Nat) /\ offset[c] \in Nat /\ Length[c] \in Nat
        /\ offset[c] + Length[c] <= Len(vol[file[c]])
        /\ \A k \in 1 .. Length[c] : vol[file[c]][offset[c] + k] = <<c, k>>
    BY <1>1, <2>1, InlineAssumption DEF TypeOK, IInv, Kept, Holds, ByteAt
  <2>3. Min({offset[c] + Length[c], Len(vol[file[c]])}) = offset[c] + Length[c]
    <3>1. offset[c] + Length[c] \in Nat /\ Len(vol[file[c]]) \in Nat
      BY <2>2
    <3> QED
      BY <2>2, <3>1, MinOfTwo
  <2>4. ReadAt(c, Home(c)) = SubSeq(vol[file[c]], offset[c] + 1, offset[c] + Length[c])
    BY <1>1, <2>3 DEF ReadAt, Home, Offset, Size
  <2>5. SubSeq(vol[file[c]], offset[c] + 1, offset[c] + Length[c]) = [k \in 1 .. Length[c] |-> <<c, k>>]
    <3> DEFINE s == vol[file[c]]  o == offset[c]  n == Length[c]
    <3>1. o \in Nat /\ n \in Nat /\ \A k \in 1 .. n : s[o + k] = <<c, k>>
      BY <2>2
    <3> HIDE DEF s, o, n
    <3>2. SubSeq(s, o + 1, o + n) = [k \in 1 .. n |-> SubSeq(s, o + 1, o + n)[k]]
      BY <3>1
    <3>3. \A k \in 1 .. n : SubSeq(s, o + 1, o + n)[k] = <<c, k>>
      BY <3>1
    <3>4. SubSeq(s, o + 1, o + n) = [k \in 1 .. n |-> <<c, k>>]
      BY <3>2, <3>3
    <3> QED
      BY <3>4 DEF s, o, n
  <2> QED
    BY <1>1, <2>4, <2>5 DEF Bytes, Size
<1>2. CASE c \notin Appends
  <2>1. c \in Writes /\ wrote[c] = "acked" /\ disk[c] = Body[c] /\ Body[c] \in Nat
    BY <1>2, WorkerAssumption DEF Chunks, Acked, FileInv
  <2>2. Bytes(c) = [k \in 1 .. Body[c] |-> <<c, k>>] /\ Size(c) = Body[c] /\ Offset(c) = 0
    BY <1>2 DEF Bytes, Size, Offset
  <2>3. Bytes(c) \in Seq({c} \X Nat) /\ Len(Bytes(c)) = Body[c]
    BY <2>1, <2>2
  <2>4. SubSeq(Bytes(c), 1, Body[c]) = Bytes(c)
    BY <2>1, <2>3
  <2>5. Min({0 + Body[c], Body[c]}) = Body[c]
    BY <2>1, MinOfTwo
  <2>6. ReadAt(c, Home(c)) = SubSeq(Bytes(c), 0 + 1, Min({0 + Body[c], Body[c]}))
    BY <1>2, <2>1, <2>2, <2>3, <2>4 DEF ReadAt
  <2>7. 0 + 1 = 1
    OBVIOUS
  <2> QED
    BY <2>4, <2>5, <2>6, <2>7
<1> QED
  BY <1>1, <1>2

\* What the engine does to its volume while others read: an acknowledged
\* append stays where it is, and a path that led elsewhere does not come back.
LEMMA EngineStep ==
    ASSUME TypeOK, PathInv, [Next]_vars
    PROVE  /\ PathInv'
           /\ \A a \in Appends : at[a] = "acked" =>
                 /\ at'[a] = "acked" /\ file'[a] = file[a]
                 /\ file[a] # path => file[a] # path'
<1> USE DEF Open
<1>0. /\ removals \in Nat /\ crashes \in Nat /\ path \in Nat
      /\ Opened \in Nat \ {0} /\ Opened <= removals + crashes + 1
  BY InlineAssumption DEF TypeOK, PathInv, Opened, Gens, NoFile
<1>1. \A b \in Appends : at[b] \in Open \cup {"acked"} =>
          file[b] \in Nat \ {0} /\ (file[b] # path => file[b] < Opened)
  BY InlineAssumption DEF TypeOK, PathInv, Gens
\* A step that leaves the path, and opens nothing.
<1>2. ASSUME UNCHANGED <<path, file, removals, crashes>>,
             \A b \in Appends : at'[b] \in Open \cup {"acked"} => at[b] \in Open \cup {"acked"}
      PROVE  PathInv'
  BY <1>2 DEF PathInv, Opened
<1>3. ASSUME NEW a \in Appends,
             Arrive(a) \/ Lock(a) \/ Copy(a) \/ FinishCopy(a) \/ Acknowledge(a) \/ Fail(a)
      PROVE  /\ PathInv' /\ UNCHANGED <<path, file>>
             /\ \A b \in Appends : at[b] = "acked" => at'[b] = "acked"
  <2>1. UNCHANGED <<path, file, removals, crashes>>
    BY <1>3 DEF Arrive, Lock, Copy, FinishCopy, Acknowledge, Fail, volume, locals
  <2>2. \A b \in Appends :
            /\ at'[b] \in Open \cup {"acked"} => at[b] \in Open \cup {"acked"}
            /\ at[b] = "acked" => at'[b] = "acked"
    BY <1>3 DEF Arrive, Lock, Copy, FinishCopy, Acknowledge, Fail, Leave, Holding, TypeOK
  <2> QED
    BY <1>2, <2>1, <2>2
<1>4. ASSUME NEW a \in Appends, OpenAndStat(a)
      PROVE  /\ PathInv'
             /\ \A b \in Appends : at[b] = "acked" =>
                   /\ at'[b] = "acked" /\ file'[b] = file[b]
                   /\ file[b] # path => file[b] # path'
  <2>1. path' = Opened /\ UNCHANGED <<removals, crashes>> /\ at[a] = "locked"
    BY <1>4 DEF OpenAndStat
  <2>2. Opened' = Opened
    BY <1>0, <2>1 DEF Opened, NoFile
  <2>3. file'[a] = path'
    BY <1>4 DEF OpenAndStat, TypeOK
  <2>4. \A b \in Appends : b # a => at'[b] = at[b] /\ file'[b] = file[b]
    BY <1>4 DEF OpenAndStat, TypeOK
  <2>5. ASSUME NEW b \in Appends, b # a, at[b] \in Open \cup {"acked"}
        PROVE  /\ file[b] # path => file[b] < Opened
               /\ file[b] = path => file[b] = Opened
    BY <1>1, <2>5 DEF Opened, NoFile
  <2>6. PathInv'
    <3>1. path' <= removals' + crashes' + 1
      BY <1>0, <2>1
    <3>2. ASSUME NEW b \in Appends, at'[b] \in Open \cup {"acked"}, file'[b] # path'
          PROVE  file'[b] < Opened'
      BY <2>1, <2>2, <2>3, <2>4, <2>5, <3>2
    <3> QED
      BY <3>1, <3>2 DEF PathInv
  <2>7. ASSUME NEW b \in Appends, at[b] = "acked"
        PROVE  /\ at'[b] = "acked" /\ file'[b] = file[b]
               /\ file[b] # path => file[b] # path'
    BY <1>0, <1>1, <2>1, <2>4, <2>5, <2>7
  <2> QED
    BY <2>6, <2>7
\* A step that takes the volume's name, or counts a crash and leaves it.
<1>5. ASSUME path' \in {path, NoFile}, UNCHANGED file,
             \/ removals' = removals + 1 /\ crashes' = crashes
             \/ removals' = removals /\ crashes' = crashes + 1,
             \A b \in Appends : at'[b] \in Open \cup {"acked"} => at[b] \in Open \cup {"acked"}
      PROVE  /\ PathInv'
             /\ \A b \in Appends : at[b] = "acked" /\ file[b] # path => file[b] # path'
  <2>0. /\ path \in Nat /\ removals \in Nat /\ crashes \in Nat
        /\ path <= removals + crashes + 1
    BY <1>0, <1>1 DEF PathInv, Gens, NoFile, TypeOK
  <2>1. path' <= removals' + crashes' + 1
    BY <2>0, <1>5 DEF NoFile
  <2>2. Opened' = IF path' = NoFile THEN removals + crashes + 2 ELSE path
    <3>1. Opened' = IF path' = NoFile THEN removals' + crashes' + 1 ELSE path'
      BY DEF Opened
    <3>2. removals' + crashes' + 1 = removals + crashes + 2
      BY <2>0, <1>5
    <3> QED
      BY <3>1, <3>2, <1>5
  <2>3. ASSUME NEW b \in Appends, at'[b] \in Open \cup {"acked"}, file'[b] # path'
        PROVE  file'[b] < Opened'
    <3>1. file[b] \in Nat \ {0} /\ file'[b] = file[b] /\ (file[b] # path => file[b] < Opened)
      BY <1>1, <1>5, <2>3
    <3>2. CASE path' = NoFile
      <4>1. file[b] <= removals + crashes + 1
        BY <1>0, <3>1 DEF PathInv
      <4> QED
        BY <1>0, <2>2, <3>1, <3>2, <4>1
    <3>3. CASE path' # NoFile
      BY <1>5, <2>2, <2>3, <3>1, <3>3 DEF Opened
    <3> QED
      BY <3>2, <3>3
  <2>4. PathInv'
    BY <2>1, <2>3 DEF PathInv
  <2> QED
    BY <1>1, <1>5, <2>4 DEF NoFile
<1>6. ASSUME Remove
      PROVE  /\ PathInv' /\ UNCHANGED <<at, file>>
             /\ \A b \in Appends : at[b] = "acked" /\ file[b] # path => file[b] # path'
  <2>1. UNCHANGED <<at, file>> /\ path' = NoFile
        /\ removals' = removals + 1 /\ crashes' = crashes
    BY <1>6 DEF Remove, locals
  <2> QED
    BY <1>0, <1>5, <2>1
<1>7. ASSUME Crash
      PROVE  /\ PathInv' /\ UNCHANGED file
             /\ \A b \in Appends : at[b] = "acked" => at'[b] = "acked"
             /\ \A b \in Appends : at[b] = "acked" /\ file[b] # path => file[b] # path'
  <2>1. UNCHANGED file /\ removals' = removals /\ crashes' = crashes + 1
    BY <1>7 DEF Crash, locals
  <2>2. \A b \in Appends :
            /\ at'[b] \in Open \cup {"acked"} => at[b] \in Open \cup {"acked"}
            /\ at[b] = "acked" => at'[b] = "acked"
    BY <1>7 DEF Crash, Holding
  <2>3. path' \in {path, NoFile}
    BY <1>7 DEF Crash, LoseBytes, LoseName
  <2> QED
    BY <1>0, <1>5, <2>1, <2>2, <2>3
<1>8. CASE UNCHANGED vars
  BY <1>2, <1>8 DEF vars, volume, locals
<1> QED
  BY <1>3, <1>4, <1>6, <1>7, <1>8 DEF Next, Handle

LEMMA AckedStays ==
    ASSUME TypeOK, PathInv, WorkerTypeOK, [NextAll]_allVars,
           NEW c \in Chunks, Acked(c)
    PROVE  Acked(c)' /\ Home(c)' = Home(c)
<1>1. CASE c \in Appends
  <2>1. [Next]_vars
    BY EngineSteps
  <2> QED
    BY <1>1, <2>1, EngineStep DEF Acked, Home
<1>2. CASE c \notin Appends
  <2>1. c \in Writes /\ wrote[c] = "acked" /\ c \notin Appends
    BY <1>2 DEF Chunks, Acked
  <2>2. ASSUME NEW w \in Writes,
               CreateFile(w) \/ CopyBlock(w) \/ SyncBlock(w) \/ AnswerBlock(w) \/ FailBlock(w)
        PROVE  wrote'[c] = "acked"
    BY <2>1, <2>2 DEF CreateFile, CopyBlock, SyncBlock, AnswerBlock, FailBlock, Open, WorkerTypeOK
  <2>3. ASSUME CrashAll
        PROVE  wrote'[c] = "acked"
    BY <2>1, <2>3 DEF CrashAll, Open
  <2>4. ASSUME \/ \E a \in Appends : (Arrive(a) /\ UNCHANGED <<block, reading>>) \/ HandleAppend(a)
               \/ \E r \in Reads : OpenChunk(r) \/ FinishRead(r) \/ FailRead(r)
               \/ RemoveAll
               \/ UNCHANGED allVars
        PROVE  wrote'[c] = "acked"
    BY <2>1, <2>4 DEF HandleAppend, OpenChunk, FinishRead, FailRead, RemoveAll, allVars, block
  <2>5. wrote'[c] = "acked"
    BY <2>2, <2>3, <2>4 DEF NextAll
  <2> QED
    BY <2>1, <2>5 DEF Acked, Home
<1> QED
  BY <1>1, <1>2

LEMMA TypeNextAll ==
    ASSUME TypeOK, TypeOK', WorkerTypeOK, Fresh, [NextAll]_allVars
    PROVE  WorkerTypeOK' /\ Fresh'
<1> USE DEF WorkerTypeOK, Fresh
<1>1. ASSUME NEW w \in Writes,
             CreateFile(w) \/ CopyBlock(w) \/ SyncBlock(w) \/ AnswerBlock(w) \/ FailBlock(w)
      PROVE  WorkerTypeOK' /\ Fresh'
  <2>0. Body[w] \in Nat /\ disk[w] \in Nat /\ UNCHANGED reading
    BY <1>1, WorkerAssumption DEF CreateFile, CopyBlock, SyncBlock, AnswerBlock, FailBlock
  <2>1. CASE CreateFile(w)
    BY <2>0, <2>1 DEF CreateFile, reading, Open, Done, Entries
  <2>2. CASE CopyBlock(w)
    <3>1. disk'[w] \in Nat /\ disk'[w] <= Body[w]
      BY <2>0, <2>2 DEF CopyBlock
    <3> QED
      BY <2>0, <2>2, <3>1 DEF CopyBlock, reading
  <2>3. CASE SyncBlock(w) \/ AnswerBlock(w) \/ FailBlock(w)
    BY <2>0, <2>3 DEF SyncBlock, AnswerBlock, FailBlock, reading, Open, Done
  <2> QED
    BY <1>1, <2>1, <2>2, <2>3
<1>2. ASSUME NEW r \in Reads, OpenChunk(r)
      PROVE  WorkerTypeOK' /\ Fresh'
  <2>1. PICK c \in Chunks : /\ Acked(c)
                            /\ chunk' = [chunk EXCEPT ![r] = c]
                            /\ fd' = [fd EXCEPT ![r] = Named(c)]
                            /\ read' = [read EXCEPT ![r] = IF Named(c) = NoFile THEN "missing" ELSE "open"]
    BY <1>2 DEF OpenChunk
  <2>2. Named(c) \in Gens \cup {NoFile}
    BY InlineAssumption DEF Named, TypeOK, Gens
  <2>3. UNCHANGED <<wrote, disk, name, data>> /\ data[r] = NoRead
    BY <1>2 DEF OpenChunk, block
  <2> QED
    BY <2>1, <2>2, <2>3
<1>3. ASSUME NEW r \in Reads, FinishRead(r) \/ FailRead(r)
      PROVE  WorkerTypeOK' /\ Fresh'
  BY <1>3 DEF FinishRead, FailRead, FullLength, block
<1>4. CASE CrashAll
  <2>1. /\ wrote' = [w \in Writes |-> IF wrote[w] \in Open THEN "failed" ELSE wrote[w]]
        /\ disk' \in [Writes -> 0 .. Longest] /\ name' \in [Writes -> Entries]
        /\ \A w \in Writes : Survives(w, disk'[w], name'[w])
        /\ read' = [r \in Reads |-> IF read[r] = "open" THEN "failed" ELSE read[r]]
        /\ UNCHANGED <<chunk, fd, data>>
    BY <1>4 DEF CrashAll
  <2>2. \A w \in Writes : disk'[w] \in Nat /\ disk'[w] <= Body[w]
    <3> SUFFICES ASSUME NEW w \in Writes
                 PROVE  disk'[w] \in Nat /\ disk'[w] <= Body[w]
      OBVIOUS
    <3>1. disk[w] \in Nat /\ Body[w] \in Nat /\ disk[w] <= Body[w]
      BY WorkerAssumption
    <3>2. disk'[w] \in (IF w \in Synced THEN disk[w] ELSE 0) .. disk[w]
      BY <2>1 DEF Survives
    <3> QED
      BY <3>1, <3>2
  <2>3. disk' \in [Writes -> Nat]
    BY <2>1, <2>2
  <2>4. wrote' \in [Writes -> {"idle"} \cup Open \cup Done]
    BY <2>1 DEF Open, Done
  <2>5. /\ read' \in [Reads -> {"idle", "open", "done", "missing", "short", "failed"}]
        /\ chunk' \in [Reads -> Chunks \cup {NoRead}]
        /\ fd' \in [Reads -> Gens \cup {NoFile}]
    BY <2>1
  <2> QED
    BY <2>1, <2>2, <2>3, <2>4, <2>5
<1>5. CASE RemoveAll
  BY <1>5 DEF RemoveAll, reading, Entries
<1>6. CASE (\E a \in Appends : (Arrive(a) /\ UNCHANGED <<block, reading>>) \/ HandleAppend(a))
               \/ UNCHANGED allVars
  BY <1>6 DEF HandleAppend, allVars, block, reading
<1> QED
  BY <1>1, <1>2, <1>3, <1>4, <1>5, <1>6 DEF NextAll

LEMMA FileStep ==
    ASSUME TypeOK, WorkerTypeOK, FileInv, [NextAll]_allVars
    PROVE  FileInv'
<1>1. ASSUME NEW w \in Writes,
             CreateFile(w) \/ CopyBlock(w) \/ SyncBlock(w) \/ AnswerBlock(w) \/ FailBlock(w)
      PROVE  FileInv'
  <2>1. CASE CreateFile(w)
    BY <2>1 DEF CreateFile, FileInv, WorkerTypeOK, Open
  <2>2. CASE CopyBlock(w)
    BY <2>2 DEF CopyBlock, FileInv, WorkerTypeOK
  <2>3. CASE SyncBlock(w)
    BY <2>3 DEF SyncBlock, FileInv, WorkerTypeOK, Open
  <2>4. CASE AnswerBlock(w)
    BY <2>4 DEF AnswerBlock, FileInv, WorkerTypeOK, Open, Whole
  <2>5. CASE FailBlock(w)
    BY <2>5 DEF FailBlock, FileInv, WorkerTypeOK, Open
  <2> QED
    BY <1>1, <2>1, <2>2, <2>3, <2>4, <2>5
<1>2. CASE CrashAll
  <2>1. /\ wrote' = [w \in Writes |-> IF wrote[w] \in Open THEN "failed" ELSE wrote[w]]
        /\ disk' \in [Writes -> 0 .. Longest]
        /\ \A w \in Writes : Survives(w, disk'[w], name'[w])
    BY <1>2 DEF CrashAll
  <2> SUFFICES ASSUME NEW w \in Writes, wrote'[w] = "acked"
               PROVE  disk'[w] = Body[w]
    BY DEF FileInv
  <2>2. disk'[w] \in (IF w \in Synced THEN disk[w] ELSE 0) .. disk[w] /\ disk[w] \in Nat
    BY <2>1 DEF Survives, WorkerTypeOK
  <2>3. wrote[w] = "acked"
    BY <2>1
  <2> QED
    BY <2>2, <2>3 DEF Synced, FileInv
<1>3. CASE RemoveAll
  BY <1>3 DEF RemoveAll, FileInv
<1>4. CASE \/ \E a \in Appends : (Arrive(a) /\ UNCHANGED <<block, reading>>) \/ HandleAppend(a)
           \/ \E r \in Reads : OpenChunk(r) \/ FinishRead(r) \/ FailRead(r)
           \/ UNCHANGED allVars
  BY <1>4 DEF HandleAppend, OpenChunk, FinishRead, FailRead, allVars, FileInv, block
<1> QED
  BY <1>1, <1>2, <1>3, <1>4 DEF NextAll

\* Where the path of an acknowledged chunk leads: a block chunk to its own file
\* or to none.
LEMMA NamedIsHome ==
    ASSUME TypeOK, NEW c \in Chunks, Acked(c)
    PROVE  /\ Home(c) # NoFile
           /\ c \in Appends \/ Named(c) \in {Home(c), NoFile}
BY InlineAssumption DEF Acked, Home, Named, TypeOK, Gens, NoFile

\* A chunk that its path does not lead to is gone for good.
LEMMA GoneStays ==
    ASSUME TypeOK, PathInv, WorkerTypeOK, [NextAll]_allVars,
           NEW c \in Chunks, Acked(c), Gone(c)
    PROVE  Gone(c)'
<1>1. CASE c \in Appends
  <2>1. [Next]_vars
    BY EngineSteps
  <2> QED
    BY <1>1, <2>1, EngineStep DEF Acked, Gone, Named, Home
<1>2. CASE c \notin Appends
  <2>1. c \in Writes /\ wrote[c] = "acked" /\ name[c] # "there"
    BY <1>2 DEF Chunks, Acked, Gone, Named, Home
  <2>2. ASSUME NEW w \in Writes,
               CreateFile(w) \/ CopyBlock(w) \/ SyncBlock(w) \/ AnswerBlock(w) \/ FailBlock(w)
        PROVE  name'[c] # "there"
    BY <2>1, <2>2 DEF CreateFile, CopyBlock, SyncBlock, AnswerBlock, FailBlock, WorkerTypeOK
  <2>3. ASSUME CrashAll
        PROVE  name'[c] # "there"
    BY <2>1, <2>3 DEF CrashAll, Survives
  <2>4. ASSUME \/ \E a \in Appends : (Arrive(a) /\ UNCHANGED <<block, reading>>) \/ HandleAppend(a)
               \/ \E r \in Reads : OpenChunk(r) \/ FinishRead(r) \/ FailRead(r)
               \/ RemoveAll
               \/ UNCHANGED allVars
        PROVE  name'[c] # "there"
    BY <2>1, <2>4 DEF HandleAppend, OpenChunk, FinishRead, FailRead, RemoveAll, allVars, block
  <2>5. name'[c] # "there"
    BY <2>2, <2>3, <2>4 DEF NextAll
  <2> QED
    BY <1>2, <2>5 DEF Gone, Named, Home, NoFile
<1> QED
  BY <1>1, <1>2

LEMMA ReadStep ==
    ASSUME TypeOK, IInv, WorkerTypeOK, Fresh, PathInv, FileInv, ReadInv,
           [NextAll]_allVars
    PROVE  ReadInv'
<1> SUFFICES ASSUME NEW r \in Reads
             PROVE  (Opens(r) /\ Exact(r))'
  BY DEF ReadInv
<1>1. Opens(r) /\ Exact(r)
  BY DEF ReadInv
\* A step that leaves the read alone.
<1>2. ASSUME read'[r] = read[r], chunk'[r] = chunk[r], fd'[r] = fd[r], data'[r] = data[r]
      PROVE  (Opens(r) /\ Exact(r))'
  <2>1. CASE read[r] \in {"idle", "failed"}
    BY <1>2, <2>1 DEF Opens, Exact
  <2>2. CASE read[r] \notin {"idle", "failed"}
    <3>1. PICK c \in Chunks : c = chunk[r] /\ Acked(c)
      BY <1>1, <2>2 DEF Opens
    <3>2. Acked(c)' /\ Home(c)' = Home(c) /\ (Gone(c) => Gone(c)')
      BY <3>1, AckedStays, GoneStays
    <3>3. c = chunk'[r]
      BY <1>2, <3>1
    <3>4. /\ Acked(chunk[r])' /\ Home(chunk[r])' = Home(chunk[r])
          /\ Bytes(chunk[r])' = Bytes(chunk[r]) /\ (Gone(chunk[r]) => Gone(chunk[r])')
      BY <3>1, <3>2, <3>3 DEF Acked, Home, Bytes, Size, Gone, Named
    <3> QED
      BY <1>1, <1>2, <3>1, <3>3, <3>4 DEF Opens, Exact
  <2> QED
    BY <2>1, <2>2
<1>3. ASSUME OpenChunk(r)
      PROVE  (Opens(r) /\ Exact(r))'
  <2>1. PICK c \in Chunks : /\ Acked(c)
                            /\ chunk' = [chunk EXCEPT ![r] = c]
                            /\ fd' = [fd EXCEPT ![r] = Named(c)]
                            /\ read' = [read EXCEPT ![r] = IF Named(c) = NoFile THEN "missing" ELSE "open"]
    BY <1>3 DEF OpenChunk
  <2>2. Home(c) # NoFile /\ (c \in Appends \/ Named(c) \in {Home(c), NoFile})
    BY <2>1, NamedIsHome
  <2>3. /\ chunk'[r] = c /\ fd'[r] = Named(c)
        /\ read'[r] = IF Named(c) = NoFile THEN "missing" ELSE "open"
    BY <2>1 DEF WorkerTypeOK
  <2>4. UNCHANGED <<at, file, path, wrote, name>>
    BY <1>3 DEF OpenChunk, vars, volume, locals, block
  <2>5. /\ Acked(chunk[r])' /\ Home(chunk[r])' = Home(c)
        /\ Gone(chunk[r])' <=> Named(c) # Home(c)
    BY <2>1, <2>3, <2>4 DEF Acked, Home, Gone, Named
  <2> QED
    BY <2>1, <2>2, <2>3, <2>5 DEF Opens, Exact
<1>4. ASSUME FinishRead(r)
      PROVE  (Opens(r) /\ Exact(r))'
  <2> DEFINE c == chunk[r]
             bytes == ReadAt(c, fd[r])
  <2>1. c \in Chunks /\ Acked(c) /\ (fd[r] = Home(c) \/ (c \in Appends /\ Gone(c)))
    BY <1>1, <1>4 DEF FinishRead, Opens
  <2>2. /\ chunk'[r] = c /\ fd'[r] = fd[r]
        /\ UNCHANGED <<at, file, path, wrote, name>>
    BY <1>4 DEF FinishRead, vars, volume, locals, block
  <2>3. IF FullLength(c, bytes) THEN read'[r] = "done" /\ data'[r] = bytes
        ELSE read'[r] = "short"
    BY <1>4 DEF FinishRead, WorkerTypeOK, Fresh
  <2>4. /\ Acked(chunk[r])' /\ Home(chunk[r])' = Home(c) /\ Bytes(chunk[r])' = Bytes(c)
        /\ Gone(chunk[r])' <=> Gone(c)
    BY <2>1, <2>2 DEF Acked, Home, Gone, Named, Bytes, Size
  <2>5. CASE fd[r] = Home(c)
    <3>1. bytes = Bytes(c)
      BY <2>1, <2>5, AckedBytes
    <3>2. Size(c) \in Nat
      BY <2>1, InlineAssumption, WorkerAssumption DEF Chunks, Size
    <3>3. FullLength(c, Bytes(c))
      BY <3>2 DEF FullLength, Bytes
    <3>4. read'[r] = "done" /\ data'[r] = Bytes(c)
      BY <2>3, <3>1, <3>3
    <3> QED
      BY <2>1, <2>2, <2>4, <2>5, <3>4 DEF Opens, Exact
  <2>6. CASE fd[r] # Home(c)
    BY <2>1, <2>2, <2>3, <2>4, <2>6 DEF Opens, Exact
  <2> QED
    BY <2>5, <2>6
<1>5. ASSUME read'[r] = "failed"
      PROVE  (Opens(r) /\ Exact(r))'
  BY <1>5 DEF Opens, Exact
<1>6. ASSUME CrashAll
      PROVE  (Opens(r) /\ Exact(r))'
  <2>1. CASE read[r] = "open"
    BY <1>5, <1>6, <2>1 DEF CrashAll
  <2>2. CASE read[r] # "open"
    BY <1>2, <1>6, <2>2 DEF CrashAll, WorkerTypeOK
  <2> QED
    BY <2>1, <2>2
<1>7. ASSUME FailRead(r)
      PROVE  (Opens(r) /\ Exact(r))'
  BY <1>5, <1>7 DEF FailRead, WorkerTypeOK
<1>8. ASSUME ~(OpenChunk(r) \/ FinishRead(r) \/ FailRead(r) \/ CrashAll)
      PROVE  (Opens(r) /\ Exact(r))'
  <2>1. ASSUME NEW q \in Reads, q # r, OpenChunk(q) \/ FinishRead(q) \/ FailRead(q)
        PROVE  read'[r] = read[r] /\ chunk'[r] = chunk[r] /\ fd'[r] = fd[r] /\ data'[r] = data[r]
    BY <2>1 DEF OpenChunk, FinishRead, FailRead, WorkerTypeOK, Fresh
  <2>2. ASSUME \/ \E a \in Appends : (Arrive(a) /\ UNCHANGED <<block, reading>>) \/ HandleAppend(a)
               \/ \E w \in Writes :
                     CreateFile(w) \/ CopyBlock(w) \/ SyncBlock(w) \/ AnswerBlock(w) \/ FailBlock(w)
               \/ RemoveAll
               \/ UNCHANGED allVars
        PROVE  UNCHANGED reading
    BY <2>2 DEF HandleAppend, CreateFile, CopyBlock, SyncBlock, AnswerBlock, FailBlock, RemoveAll, allVars
  <2> QED
    BY <1>2, <1>8, <2>1, <2>2 DEF NextAll, reading
<1> QED
  BY <1>3, <1>4, <1>6, <1>7, <1>8

LEMMA WorkerInvariant == WorkerSpec => [](TypeOK /\ WInv)
<1>1. InitAll => WInv
  BY WorkerAssumption DEF InitAll, Init, WInv, WorkerTypeOK, Fresh, PathInv, FileInv, ReadInv,
     Opens, Exact, Entries, Open, NoFile
<1>2. TypeOK /\ IInv /\ WInv /\ [NextAll]_allVars => WInv'
  <2> SUFFICES ASSUME TypeOK, IInv, WInv, [NextAll]_allVars
               PROVE  WInv'
    OBVIOUS
  <2>1. [Next]_vars
    BY EngineSteps
  <2>2. TypeOK'
    BY <2>1, TypeNext
  <2>3. PathInv'
    BY <2>1, EngineStep DEF WInv
  <2>4. WorkerTypeOK' /\ Fresh' /\ FileInv' /\ ReadInv'
    BY <2>2, TypeNextAll, FileStep, ReadStep DEF WInv
  <2> QED
    BY <2>3, <2>4 DEF WInv
<1>3. WorkerSpec => []TypeOK /\ []IInv
  BY ImplementsEngine, TypeCorrect, BytesStay, PTL
<1> QED
  BY <1>1, <1>2, <1>3, PTL DEF WorkerSpec

\* Every variable of the worker keeps its type.
THEOREM WorkerTypeCorrect == WorkerSpec => []WorkerTypeOK
<1>1. WInv => WorkerTypeOK
  BY DEF WInv
<1> QED
  BY <1>1, WorkerInvariant, PTL

\* A read that is answered gets the acknowledged bytes, or a later volume has
\* its path; and no chunk is found missing or too short while its path leads to
\* it, whether or not the file system keeps new names.
THEOREM ReadsAreExact == WorkerSpec => []ReadsExact
<1>1. WInv => ReadsExact
  BY DEF WInv, ReadInv, Exact, ReadsExact
<1> QED
  BY <1>1, WorkerInvariant, PTL

(***************************************************************************)
(* Durability of block chunks                                              *)
(***************************************************************************)
\* A chunk whose write goes on or was acknowledged is under its name, unless a
\* reset took it.
NameInv == \A w \in Writes : wrote[w] \in Open \cup {"acked"} => name[w] \in {"there", "removed"}

LEMMA NameStep ==
    ASSUME EntriesDurable, WorkerTypeOK, NameInv, [NextAll]_allVars
    PROVE  NameInv'
<1>1. ASSUME NEW w \in Writes,
             CreateFile(w) \/ CopyBlock(w) \/ SyncBlock(w) \/ AnswerBlock(w) \/ FailBlock(w)
      PROVE  NameInv'
  <2>1. CASE CreateFile(w)
    BY <2>1 DEF CreateFile, NameInv, WorkerTypeOK
  <2>2. CASE CopyBlock(w)
    BY <2>2 DEF CopyBlock, NameInv
  <2>3. CASE SyncBlock(w)
    BY <2>3 DEF SyncBlock, NameInv, WorkerTypeOK, Open
  <2>4. CASE AnswerBlock(w)
    BY <2>4 DEF AnswerBlock, NameInv, WorkerTypeOK, Open
  <2>5. CASE FailBlock(w)
    BY <2>5 DEF FailBlock, NameInv, WorkerTypeOK, Open
  <2> QED
    BY <1>1, <2>1, <2>2, <2>3, <2>4, <2>5
<1>2. CASE CrashAll
  <2> SUFFICES ASSUME NEW w \in Writes, wrote'[w] \in Open \cup {"acked"}
               PROVE  name'[w] \in {"there", "removed"}
    BY DEF NameInv
  <2>1. wrote[w] = "acked"
    BY <1>2 DEF CrashAll, Open
  <2>2. Survives(w, disk'[w], name'[w])
    BY <1>2 DEF CrashAll
  <2>3. name'[w] = name[w]
    BY <2>1, <2>2 DEF Survives, Synced
  <2> QED
    BY <2>1, <2>3 DEF NameInv
<1>3. CASE RemoveAll
  BY <1>3 DEF RemoveAll, NameInv, WorkerTypeOK
<1>4. CASE \/ \E a \in Appends : (Arrive(a) /\ UNCHANGED <<block, reading>>) \/ HandleAppend(a)
           \/ \E r \in Reads : OpenChunk(r) \/ FinishRead(r) \/ FailRead(r)
           \/ UNCHANGED allVars
  BY <1>4 DEF HandleAppend, OpenChunk, FinishRead, FailRead, allVars, block, NameInv
<1> QED
  BY <1>1, <1>2, <1>3, <1>4 DEF NextAll

\* An acknowledged block chunk is whole and under its name, whatever crashes,
\* where fsync of a new file keeps the file's name.
THEOREM BlocksAreKept == ASSUME EntriesDurable PROVE WorkerSpec => []BlocksKept
<1>1. InitAll => NameInv
  BY DEF InitAll, NameInv, Open
<1>2. WInv /\ NameInv /\ [NextAll]_allVars => NameInv'
  BY NameStep DEF WInv
<1>3. WInv /\ NameInv => BlocksKept
  BY DEF WInv, FileInv, NameInv, BlocksKept
<1> QED
  BY <1>1, <1>2, <1>3, WorkerInvariant, PTL DEF WorkerSpec
=============================================================================
