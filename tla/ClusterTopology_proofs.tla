---------------------- MODULE ClusterTopology_proofs ------------------------
(***************************************************************************)
(* Proofs about ClusterTopology, for any list of daemons, kinds of job,    *)
(* jobs, uploads, errors and mishaps.                                      *)
(*                                                                         *)
(* The types hold whether jobs overlap or not. What the last job promises, *)
(* and that every chunk of the catalog is in a file, holds when they do    *)
(* not: the page of the web client waits for the running job before it     *)
(* offers another.                                                         *)
(***************************************************************************)
EXTENDS ClusterTopology, FoldLemmas, SequenceTheorems

(***************************************************************************)
(* What FlattenSeq computes, by the smallest length for which it would not *)
(***************************************************************************)

\* The recursion of FlattenSeq over the first n of seqs.
Joins(g, seqs, n) ==
    g = [i \in 1 .. n |-> IF i = 1 THEN seqs[i] ELSE g[i - 1] \o seqs[i]]

\* The elements of a sequence.
Elements(s) == {s[i] : i \in 1 .. Len(s)}

\* The elements of a concatenation whose first part has length k.
LEMMA ConcatAt ==
    ASSUME NEW S, NEW s \in Seq(S), NEW t \in Seq(S), NEW k, k = Len(s)
    PROVE  /\ Len(t) \in Nat
           /\ s \o t \in Seq(S) /\ Len(s \o t) = k + Len(t)
           /\ \A i \in 1 .. k : (s \o t)[i] = s[i]
           /\ \A i \in (k + 1) .. (k + Len(t)) : (s \o t)[i] = t[i - k] /\ i - k \in 1 .. Len(t)
<1>1. Len(t) \in Nat /\ Len(s) \in Nat /\ s \o t \in Seq(S) /\ Len(s \o t) = k + Len(t)
  OBVIOUS
<1>2. ASSUME NEW i \in 1 .. k
      PROVE  (s \o t)[i] = s[i]
  <2>1. i \in 1 .. Len(s)
    OBVIOUS
  <2> QED
    BY <2>1
<1>3. ASSUME NEW i \in (k + 1) .. (k + Len(t))
      PROVE  (s \o t)[i] = t[i - k] /\ i - k \in 1 .. Len(t)
  <2>1. i \in (Len(s) + 1) .. (Len(s) + Len(t))
    OBVIOUS
  <2>2. (s \o t)[i] = t[i - Len(s)] /\ i - Len(s) \in 1 .. Len(t)
    BY <2>1
  <2> QED
    BY <2>2
<1> QED
  BY <1>1, <1>2, <1>3

\* A concatenation has the elements of both.
LEMMA ElementsOfConcat ==
    ASSUME NEW S, NEW s \in Seq(S), NEW t \in Seq(S)
    PROVE  s \o t \in Seq(S) /\ Elements(s \o t) = Elements(s) \cup Elements(t)
<1>1. s \o t \in Seq(S) /\ Len(s \o t) = Len(s) + Len(t) /\ Len(s) \in Nat /\ Len(t) \in Nat
  OBVIOUS
<1>2. ASSUME NEW i \in 1 .. Len(s \o t)
      PROVE  (s \o t)[i] \in Elements(s) \cup Elements(t)
  <2>1. CASE i <= Len(s)
    BY <1>1, <2>1 DEF Elements
  <2>2. CASE i > Len(s)
    <3>1. (s \o t)[i] = t[i - Len(s)] /\ i - Len(s) \in 1 .. Len(t)
      BY <1>1, <2>2
    <3> QED
      BY <3>1 DEF Elements
  <2> QED
    BY <1>1, <2>1, <2>2
<1>3. ASSUME NEW i \in 1 .. Len(s)
      PROVE  s[i] \in Elements(s \o t)
  BY <1>1 DEF Elements
<1>4. ASSUME NEW i \in 1 .. Len(t)
      PROVE  t[i] \in Elements(s \o t)
  <2>1. (s \o t)[i + Len(s)] = t[i] /\ i + Len(s) \in 1 .. Len(s \o t)
    BY <1>1
  <2> QED
    BY <2>1 DEF Elements
<1>5. Elements(s \o t) \subseteq Elements(s) \cup Elements(t)
  BY <1>2 DEF Elements
<1>6. Elements(s) \subseteq Elements(s \o t) /\ Elements(t) \subseteq Elements(s \o t)
  BY <1>3, <1>4 DEF Elements
<1> QED
  BY <1>1, <1>5, <1>6

\* There is such a recursion for every length: the least one without it would be
\* the next of one that has it.
LEMMA JoinsExists ==
    ASSUME NEW seqs, NEW n \in Nat
    PROVE  \E g : Joins(g, seqs, n)
<1> DEFINE B == {m \in Nat : ~ \E g : Joins(g, seqs, m)}
<1>1. SUFFICES ASSUME B # {} PROVE FALSE
  OBVIOUS
<1>2. PICK m \in B : \A k \in B : m <= k
  <2> HIDE DEF B
  <2>1. B \subseteq Nat
    BY DEF B
  <2> QED
    BY <1>1, <2>1, LeastNat
<1>3. m \in Nat /\ ~ \E g : Joins(g, seqs, m)
  OBVIOUS
<1>4. CASE m = 0
  <2> DEFINE e == [i \in 1 .. 0 |-> seqs[i]]
  <2>1. Joins(e, seqs, 0)
    BY DEF Joins
  <2> QED
    BY <1>3, <1>4, <2>1
<1>5. CASE m # 0
  <2>1. m - 1 \in Nat /\ m - 1 \notin B
    BY <1>2, <1>3, <1>5
  <2>2. PICK h : Joins(h, seqs, m - 1)
    BY <2>1
  <2> DEFINE g == [i \in 1 .. m |-> IF i < m THEN h[i]
                                    ELSE IF i = 1 THEN seqs[i] ELSE h[i - 1] \o seqs[i]]
             k == [i \in 1 .. m |-> IF i = 1 THEN seqs[i] ELSE g[i - 1] \o seqs[i]]
  <2>3. ASSUME NEW i \in 1 .. m
        PROVE  g[i] = k[i]
    <3>1. CASE i < m
      <4>1. i \in 1 .. (m - 1)
        BY <1>3, <3>1
      <4>2. h[i] = IF i = 1 THEN seqs[i] ELSE h[i - 1] \o seqs[i]
        BY <2>2, <4>1 DEF Joins
      <4>3. i # 1 => g[i - 1] = h[i - 1]
        BY <1>3, <3>1
      <4> QED
        BY <3>1, <4>2, <4>3
    <3>2. CASE i = m
      <4>1. i # 1 => i - 1 \in 1 .. m /\ i - 1 < m
        BY <1>3, <3>2
      <4>2. i # 1 => g[i - 1] = h[i - 1]
        BY <4>1
      <4> QED
        BY <3>2, <4>2
    <3> QED
      BY <1>3, <3>1, <3>2
  <2>4. g = [i \in 1 .. m |-> g[i]] /\ k = [i \in 1 .. m |-> k[i]]
    OBVIOUS
  <2> HIDE DEF g, k
  <2>5. g = k
    BY <2>3, <2>4
  <2>6. Joins(g, seqs, m)
    BY <2>5 DEF Joins, k
  <2> QED
    BY <1>3, <2>6
<1> QED
  BY <1>4, <1>5

\* FlattenSeq is its last value.
LEMMA FlattenIs ==
    ASSUME NEW seqs, Len(seqs) \in Nat, Len(seqs) # 0
    PROVE  \E g : Joins(g, seqs, Len(seqs)) /\ FlattenSeq(seqs) = g[Len(seqs)]
<1>1. FlattenSeq(seqs) = (CHOOSE g : Joins(g, seqs, Len(seqs)))[Len(seqs)]
  BY DEF FlattenSeq, Joins
<1>2. \E g : Joins(g, seqs, Len(seqs))
  BY JoinsExists
<1> QED
  BY <1>1, <1>2

\* A flattened sequence has the elements of its parts, and no others.
LEMMA FlattenElements ==
    ASSUME NEW S, NEW seqs \in Seq(Seq(S))
    PROVE  /\ FlattenSeq(seqs) \in Seq(S)
           /\ Elements(FlattenSeq(seqs)) = UNION {Elements(seqs[k]) : k \in 1 .. Len(seqs)}
<1>1. Len(seqs) \in Nat /\ \A i \in 1 .. Len(seqs) : seqs[i] \in Seq(S)
  OBVIOUS
<1>2. CASE Len(seqs) = 0
  <2>1. FlattenSeq(seqs) = seqs /\ seqs = <<>>
    BY <1>2 DEF FlattenSeq
  <2>2. Elements(seqs) = {} /\ UNION {Elements(seqs[k]) : k \in 1 .. Len(seqs)} = {}
    BY <1>2 DEF Elements
  <2> QED
    BY <2>1, <2>2
<1>3. CASE Len(seqs) # 0
  <2> DEFINE n == Len(seqs)
             U(i) == UNION {Elements(seqs[k]) : k \in 1 .. i}
  <2>1. PICK g : Joins(g, seqs, n) /\ FlattenSeq(seqs) = g[n]
    BY <1>1, <1>3, FlattenIs
  <2> DEFINE B == {i \in 1 .. n : ~ (g[i] \in Seq(S) /\ Elements(g[i]) = U(i))}
  <2>2. SUFFICES ASSUME B # {} PROVE FALSE
    <3>1. ASSUME B = {}
          PROVE  g[n] \in Seq(S) /\ Elements(g[n]) = U(n)
      <4>1. n \in 1 .. n /\ n \notin B
        <5>1. n \in 1 .. n
          BY <1>1, <1>3
        <5> HIDE DEF B
        <5> QED
          BY <3>1, <5>1
      <4> QED
        BY <4>1
    <3>2. CASE B = {}
      <4>1. g[n] \in Seq(S) /\ Elements(g[n]) = U(n)
        BY <3>1, <3>2
      <4> QED
        BY <2>1, <4>1
    <3> QED
      BY <3>2
  <2>3. PICK m \in B : \A k \in B : m <= k
    <3>1. B \subseteq Nat
      OBVIOUS
    <3> HIDE DEF B
    <3> QED
      BY <2>2, <3>1, LeastNat
  <2>4. m \in 1 .. n /\ ~ (g[m] \in Seq(S) /\ Elements(g[m]) = U(m))
    OBVIOUS
  <2>5. g[m] = IF m = 1 THEN seqs[m] ELSE g[m - 1] \o seqs[m]
    BY <2>1, <2>4 DEF Joins
  <2>6. CASE m = 1
    <3>1. 1 .. m = {1}
      BY <2>6
    <3>2. U(m) = Elements(seqs[m])
      BY <2>6, <3>1
    <3> QED
      BY <1>1, <2>4, <2>5, <2>6, <3>2
  <2>7. CASE m # 1
    <3>1. m - 1 \in 1 .. n /\ m - 1 \notin B
      <4>1. m - 1 \in 1 .. n /\ ~ (m <= m - 1)
        BY <1>1, <2>4, <2>7
      <4> HIDE DEF B
      <4> QED
        BY <2>3, <4>1
    <3>2. g[m - 1] \in Seq(S) /\ Elements(g[m - 1]) = U(m - 1)
      BY <3>1
    <3>3. seqs[m] \in Seq(S)
      BY <1>1, <2>4
    <3>4. g[m] \in Seq(S) /\ Elements(g[m]) = U(m - 1) \cup Elements(seqs[m])
      BY <2>5, <2>7, <3>2, <3>3, ElementsOfConcat
    <3>5. 1 .. m = (1 .. (m - 1)) \cup {m}
      BY <1>1, <2>4
    <3>6. U(m) = U(m - 1) \cup Elements(seqs[m])
      BY <3>5
    <3> QED
      BY <2>4, <3>4, <3>6
  <2> QED
    BY <2>6, <2>7
<1> QED
  BY <1>2, <1>3

\* A sequence after one element.
LEMMA Prefixed ==
  ASSUME NEW S, NEW s \in Seq(S), NEW t \in Seq(S), NEW r \in Seq(S), 1 = Len(s),
         Len(r) = 1 + Len(t), r[1] = s[1], \A i \in 1 .. Len(t) : r[i + 1] = t[i]
  PROVE s \o t = r
<1>1. /\ Len(t) \in Nat
      /\ s \o t \in Seq(S) /\ Len(s \o t) = 1 + Len(t)
      /\ \A i \in 1 .. 1 : (s \o t)[i] = s[i]
      /\ \A i \in (1 + 1) .. (1 + Len(t)) : (s \o t)[i] = t[i - 1] /\ i - 1 \in 1 .. Len(t)
  BY ConcatAt, Zenon
<1>2. ASSUME NEW i \in 1 .. Len(r)
      PROVE (s \o t)[i] = r[i]
  <2>1. CASE i = 1
    BY <1>1, <2>1
  <2>2. CASE i # 1
    <3>1. i \in (1+1) .. (1 + Len(t)) /\ i - 1 \in 1 .. Len(t)
      BY <1>1, <2>2
    <3>2. (s \o t)[i] = t[i - 1] /\ r[(i - 1) + 1] = t[i - 1]
      BY <1>1, <3>1
    <3> QED BY <3>1, <3>2
  <2> QED BY <2>1, <2>2
<1> QED BY <1>1, <1>2, SeqEqual

\* The keys of the rows.
LEMMA JoinOneOne == ASSUME NEW a, NEW b PROVE <<a>> \o <<b>> = <<a, b>>
<1> DEFINE s == <<a>>
           t == <<b>>
           r == <<a, b>>
           S == {a, b}
<1>1. /\ s \in Seq(S) /\ t \in Seq(S) /\ r \in Seq(S) /\ 1 = Len(s) /\ Len(t) = 1 /\ Len(r) = 2
      /\ s[1] = a /\ t[1] = b /\ r[1] = a /\ r[2] = b
  OBVIOUS
<1> HIDE DEF s, t, r, S
<1>2. Len(r) = 1 + Len(t) /\ r[1] = s[1] /\ \A i \in 1 .. Len(t) : r[i + 1] = t[i]
  BY <1>1
<1>3. s \o t = r
  BY <1>1, <1>2, Prefixed
<1> QED BY <1>3 DEF s, t, r

\* The keys of machines, discs and directories.
LEMMA JoinOneTwo == ASSUME NEW a, NEW b, NEW c PROVE <<a>> \o <<b, c>> = <<a, b, c>>
<1> DEFINE s == <<a>>
           t == <<b, c>>
           r == <<a, b, c>>
           S == {a, b, c}
<1>1. /\ s \in Seq(S) /\ t \in Seq(S) /\ r \in Seq(S) /\ 1 = Len(s) /\ Len(t) = 2 /\ Len(r) = 3
      /\ s[1] = a /\ t[1] = b /\ t[2] = c /\ r[1] = a /\ r[2] = b /\ r[3] = c
  OBVIOUS
<1> HIDE DEF s, t, r, S
<1>2. Len(r) = 1 + Len(t) /\ r[1] = s[1] /\ \A i \in 1 .. Len(t) : r[i + 1] = t[i]
  BY <1>1
<1>3. s \o t = r
  BY <1>1, <1>2, Prefixed
<1> QED BY <1>3 DEF s, t, r

(***************************************************************************)
(* The programs: what their statements are, and where                      *)
(***************************************************************************)

\* Serial numbers of the machines of the list.
Slots == UNION {{<<d, n>> : n \in 1 .. MachineCount[d]} : d \in DOMAIN MachineCount}

\* The statements of a bootstrap.
WorkerRow(d)  == [do |-> "insert", table |-> "workers", key |-> <<d>>]
MachineRow(k) == [do |-> "insert", table |-> "machines", key |-> k]
DiscRow(k)    == [do |-> "insert", table |-> "discs", key |-> k]
Directory(k)  == [do |-> "mkdir", key |-> k]

\* What a bootstrap does after its wipe.
BuildStatements ==
    {WorkerRow(d) : d \in DOMAIN MachineCount}
    \cup {MachineRow(k) : k \in Slots}
    \cup {DiscRow(k) : k \in Slots}
    \cup {Directory(k) : k \in Slots}

DeleteStatements == {[do |-> "delete", table |-> t] : t \in Tables}

Statements == DeleteStatements \cup BuildStatements \cup {[do |-> "remove"]}

\* The program of a kind of job.
ProgramOf(k) ==
    CASE k = "bootstrap" -> WipeTopology \o BuildTopology
      [] k = "reset"     -> Reset
      [] k = "cli_reset" -> CliReset

\* The statements of one machine.
LEMMA MachineElements ==
    ASSUME NEW d, NEW n
    PROVE  LET k == <<d, n>>
           IN  /\ BuildMachine(d, n) \in Seq({MachineRow(k), DiscRow(k), Directory(k)})
               /\ Elements(BuildMachine(d, n)) = {MachineRow(k), DiscRow(k), Directory(k)}
<1> DEFINE k == <<d, n>>
           s == BuildMachine(d, n)
<1>1. s = <<MachineRow(k), DiscRow(k), Directory(k)>>
  BY DEF BuildMachine, MachineRow, DiscRow, Directory
<1> HIDE DEF s, k
<1>2. s \in Seq({MachineRow(k), DiscRow(k), Directory(k)}) /\ Len(s) = 3
      /\ s[1] = MachineRow(k) /\ s[2] = DiscRow(k) /\ s[3] = Directory(k)
  BY <1>1
<1>3. 1 .. 3 = {1, 2, 3}
  OBVIOUS
<1>4. Elements(s) = {s[1], s[2], s[3]}
  BY <1>2, <1>3 DEF Elements
<1> QED
  BY <1>2, <1>4 DEF s, k

\* The statements of one daemon.
LEMMA DaemonElements ==
    ASSUME NEW d \in DOMAIN MachineCount
    PROVE  /\ BuildDaemon(d) \in Seq(BuildStatements)
           /\ Elements(BuildDaemon(d)) =
                {WorkerRow(d)}
                \cup UNION {{MachineRow(<<d, n>>), DiscRow(<<d, n>>), Directory(<<d, n>>)} :
                                n \in 1 .. MachineCount[d]}
<1> DEFINE B(n) == BuildMachine(d, n)
           E(n) == {MachineRow(<<d, n>>), DiscRow(<<d, n>>), Directory(<<d, n>>)}
           c == MachineCount[d]
           parts == [n \in 1 .. c |-> B(n)]
           first == <<WorkerRow(d)>>
<1>1. c \in Nat
  BY TopologyAssumption
<1>2. \A n \in 1 .. c : <<d, n>> \in Slots
  BY DEF Slots
<1>3. \A n \in 1 .. c : E(n) \subseteq BuildStatements
  BY <1>2 DEF BuildStatements
<1>4. \A n \in 1 .. c : B(n) \in Seq(BuildStatements) /\ Elements(B(n)) = E(n)
  <2> SUFFICES ASSUME NEW n \in 1 .. c
               PROVE  B(n) \in Seq(BuildStatements) /\ Elements(B(n)) = E(n)
    OBVIOUS
  <2>1. B(n) \in Seq(E(n)) /\ Elements(B(n)) = E(n)
    BY MachineElements
  <2>2. E(n) \subseteq BuildStatements
    BY <1>3
  <2> HIDE DEF B, E
  <2> QED
    BY <2>1, <2>2
<1>5. /\ parts \in Seq(Seq(BuildStatements)) /\ Len(parts) = c
      /\ \A n \in 1 .. c : Elements(parts[n]) = E(n)
  <2> HIDE DEF B, E, c
  <2> QED
    BY <1>1, <1>4
<1>6. /\ FlattenSeq(parts) \in Seq(BuildStatements)
      /\ Elements(FlattenSeq(parts)) = UNION {Elements(parts[n]) : n \in 1 .. Len(parts)}
  <2> HIDE DEF parts
  <2> QED
    BY <1>5, FlattenElements
<1>7. UNION {Elements(parts[n]) : n \in 1 .. Len(parts)} = UNION {E(n) : n \in 1 .. c}
  <2> HIDE DEF parts, E, c
  <2> QED
    BY <1>5
<1>8. first \in Seq(BuildStatements) /\ Elements(first) = {WorkerRow(d)}
  <2>1. WorkerRow(d) \in BuildStatements
    BY DEF BuildStatements
  <2> DEFINE w == WorkerRow(d)
  <2> HIDE DEF w
  <2>2. <<w>> \in Seq({w}) /\ Len(<<w>>) = 1 /\ <<w>>[1] = w /\ 1 .. 1 = {1}
    OBVIOUS
  <2>3. Elements(<<w>>) = {w}
    BY <2>2 DEF Elements
  <2> QED
    BY <2>1, <2>3 DEF w
<1>9. BuildDaemon(d) = first \o FlattenSeq(parts)
  BY DEF BuildDaemon, WorkerRow
<1> HIDE DEF parts, first
<1>10. /\ first \o FlattenSeq(parts) \in Seq(BuildStatements)
       /\ Elements(first \o FlattenSeq(parts)) = Elements(first) \cup Elements(FlattenSeq(parts))
  BY <1>6, <1>8, ElementsOfConcat
<1> QED
  BY <1>6, <1>7, <1>8, <1>9, <1>10

\* BuildTopology has a statement for each row and directory, and no others.
LEMMA BuildElements ==
    BuildTopology \in Seq(BuildStatements) /\ Elements(BuildTopology) = BuildStatements
<1> DEFINE D(d) == BuildDaemon(d)
           E(d) == {WorkerRow(d)}
                   \cup UNION {{MachineRow(<<d, n>>), DiscRow(<<d, n>>), Directory(<<d, n>>)} :
                                n \in 1 .. MachineCount[d]}
           c == Len(MachineCount)
           parts == [d \in DOMAIN MachineCount |-> D(d)]
<1>1. c \in Nat /\ DOMAIN MachineCount = 1 .. c
  BY TopologyAssumption
<1>2. \A d \in DOMAIN MachineCount : D(d) \in Seq(BuildStatements) /\ Elements(D(d)) = E(d)
  BY DaemonElements
<1>3. /\ parts \in Seq(Seq(BuildStatements)) /\ Len(parts) = c
      /\ \A d \in 1 .. c : Elements(parts[d]) = E(d)
  <2> HIDE DEF D, E, c
  <2> QED
    BY <1>1, <1>2
<1>4. /\ FlattenSeq(parts) \in Seq(BuildStatements)
      /\ Elements(FlattenSeq(parts)) = UNION {Elements(parts[d]) : d \in 1 .. Len(parts)}
  <2> HIDE DEF parts
  <2> QED
    BY <1>3, FlattenElements
<1>5. UNION {Elements(parts[d]) : d \in 1 .. Len(parts)} = UNION {E(d) : d \in 1 .. c}
  <2> HIDE DEF parts, E, c
  <2> QED
    BY <1>3
<1>6. UNION {E(d) : d \in 1 .. c} = BuildStatements
  <2>1. ASSUME NEW d \in DOMAIN MachineCount
        PROVE  E(d) \subseteq BuildStatements
    <3>1. \A n \in 1 .. MachineCount[d] : <<d, n>> \in Slots
      BY DEF Slots
    <3>2. \A n \in 1 .. MachineCount[d] :
             {MachineRow(<<d, n>>), DiscRow(<<d, n>>), Directory(<<d, n>>)} \subseteq BuildStatements
      BY <3>1 DEF BuildStatements
    <3>3. WorkerRow(d) \in BuildStatements
      BY DEF BuildStatements
    <3> HIDE DEF BuildStatements
    <3>4. \A x \in E(d) : x \in BuildStatements
      BY <3>2, <3>3
    <3> HIDE DEF E
    <3> QED
      BY <3>4
  <2>2. \A d \in DOMAIN MachineCount : WorkerRow(d) \in E(d)
    OBVIOUS
  <2>3. ASSUME NEW k \in Slots
        PROVE  \E d \in DOMAIN MachineCount :
                  MachineRow(k) \in E(d) /\ DiscRow(k) \in E(d) /\ Directory(k) \in E(d)
    <3>1. PICK d \in DOMAIN MachineCount : \E n \in 1 .. MachineCount[d] : k = <<d, n>>
      BY DEF Slots
    <3> QED
      BY <3>1
  <2> HIDE DEF E, c
  <2>4. BuildStatements \subseteq UNION {E(d) : d \in DOMAIN MachineCount}
    BY <2>2, <2>3 DEF BuildStatements
  <2> QED
    BY <1>1, <2>1, <2>4
<1> QED
  BY <1>4, <1>5, <1>6 DEF BuildTopology

\* The wipe, statement by statement.
LEMMA WipeIs ==
    /\ WipeTopology \in Seq(DeleteStatements) /\ Len(WipeTopology) = 5
    /\ WipeTopology[1] = [do |-> "delete", table |-> "chunks"]
    /\ WipeTopology[2] = [do |-> "delete", table |-> "blobs"]
    /\ WipeTopology[3] = [do |-> "delete", table |-> "discs"]
    /\ WipeTopology[4] = [do |-> "delete", table |-> "machines"]
    /\ WipeTopology[5] = [do |-> "delete", table |-> "workers"]
<1> DEFINE t == <<"chunks", "blobs", "discs", "machines", "workers">>
           del(n) == [do |-> "delete", table |-> t[n]]
<1>1. /\ t \in Seq(Tables) /\ Len(t) = 5 /\ DOMAIN t = 1 .. 5
      /\ t[1] = "chunks" /\ t[2] = "blobs" /\ t[3] = "discs" /\ t[4] = "machines"
      /\ t[5] = "workers"
  BY DEF Tables
<1>2. WipeTopology = [n \in DOMAIN t |-> del(n)]
  BY DEF WipeTopology, Delete
<1>3. \A n \in 1 .. 5 : t[n] \in Tables
  BY <1>1
<1>4. \A n \in 1 .. 5 : del(n) \in DeleteStatements
  BY <1>3 DEF DeleteStatements
<1> HIDE DEF t
<1>5. WipeTopology = [n \in 1 .. 5 |-> del(n)]
  BY <1>1, <1>2
<1>6. WipeTopology[1] = del(1) /\ WipeTopology[2] = del(2) /\ WipeTopology[3] = del(3)
      /\ WipeTopology[4] = del(4) /\ WipeTopology[5] = del(5)
  BY <1>5
<1>7. WipeTopology \in Seq(DeleteStatements) /\ Len(WipeTopology) = 5
  <2> HIDE DEF del
  <2> QED
    BY <1>4, <1>5
<1> QED
  BY <1>1, <1>6, <1>7

\* The wipe of the command.
LEMMA CliWipeIs ==
    LET p == Delete(<<"discs", "machines", "workers">>)
    IN  /\ p \in Seq(DeleteStatements) /\ Len(p) = 3
        /\ p[1] = [do |-> "delete", table |-> "discs"]
        /\ p[2] = [do |-> "delete", table |-> "machines"]
        /\ p[3] = [do |-> "delete", table |-> "workers"]
<1> DEFINE t == <<"discs", "machines", "workers">>
           del(n) == [do |-> "delete", table |-> t[n]]
           p == Delete(t)
<1>1. /\ t \in Seq(Tables) /\ Len(t) = 3 /\ DOMAIN t = 1 .. 3
      /\ t[1] = "discs" /\ t[2] = "machines" /\ t[3] = "workers"
  BY DEF Tables
<1>2. p = [n \in DOMAIN t |-> del(n)]
  BY DEF Delete
<1>3. \A n \in 1 .. 3 : t[n] \in Tables
  BY <1>1
<1>4. \A n \in 1 .. 3 : del(n) \in DeleteStatements
  BY <1>3 DEF DeleteStatements
<1> SUFFICES p \in Seq(DeleteStatements) /\ Len(p) = 3
             /\ p[1] = [do |-> "delete", table |-> "discs"]
             /\ p[2] = [do |-> "delete", table |-> "machines"]
             /\ p[3] = [do |-> "delete", table |-> "workers"]
  OBVIOUS
<1> HIDE DEF t, p
<1>5. p = [n \in 1 .. 3 |-> del(n)]
  BY <1>1, <1>2
<1>6. p[1] = del(1) /\ p[2] = del(2) /\ p[3] = del(3)
  BY <1>5
<1>7. p \in Seq(DeleteStatements) /\ Len(p) = 3
  <2> HIDE DEF del
  <2> QED
    BY <1>4, <1>5
<1> QED
  BY <1>1, <1>6, <1>7

\* Every statement of a program is a row of it or a step on the directories.
LEMMA ProgramType ==
    ASSUME NEW k \in {"bootstrap", "reset", "cli_reset"}
    PROVE  ProgramOf(k) \in Seq(Statements)
<1>1. DeleteStatements \subseteq Statements /\ BuildStatements \subseteq Statements
      /\ [do |-> "remove"] \in Statements
  BY DEF Statements
<1>2. RemoveRoot \in Seq(Statements)
  <2> DEFINE r == [do |-> "remove"]
  <2>1. r \in Statements
    BY <1>1
  <2> HIDE DEF r
  <2>2. <<r>> \in Seq(Statements)
    BY <2>1
  <2> QED
    BY <2>2 DEF RemoveRoot, r
<1>3. /\ WipeTopology \in Seq(Statements) /\ BuildTopology \in Seq(Statements)
      /\ Delete(<<"discs", "machines", "workers">>) \in Seq(Statements)
  BY <1>1, WipeIs, CliWipeIs, BuildElements
<1>4. /\ WipeTopology \o BuildTopology \in Seq(Statements)
      /\ Reset \in Seq(Statements) /\ CliReset \in Seq(Statements)
  BY <1>2, <1>3 DEF Reset, CliReset
<1> QED
  BY <1>4 DEF ProgramOf

\* A bootstrap wipes with its first five statements, and builds after them.
LEMMA BootstrapProgram ==
    LET p == ProgramOf("bootstrap")
    IN  /\ Len(p) \in Nat /\ Len(p) >= 5
        /\ \A q \in 1 .. 5 : p[q] = WipeTopology[q]
        /\ \A q \in 6 .. Len(p) : p[q] \in BuildStatements
        /\ Elements(p) = Elements(WipeTopology) \cup BuildStatements
<1> DEFINE p == ProgramOf("bootstrap")
<1>1. p = WipeTopology \o BuildTopology
  BY DEF ProgramOf
<1>2. /\ WipeTopology \in Seq(Statements) /\ BuildTopology \in Seq(Statements)
      /\ BuildTopology \in Seq(BuildStatements) /\ Len(WipeTopology) = 5
      /\ Len(BuildTopology) \in Nat
  BY WipeIs, BuildElements DEF Statements
<1> SUFFICES /\ Len(p) \in Nat /\ Len(p) >= 5
             /\ \A q \in 1 .. 5 : p[q] = WipeTopology[q]
             /\ \A q \in 6 .. Len(p) : p[q] \in BuildStatements
             /\ Elements(p) = Elements(WipeTopology) \cup BuildStatements
  OBVIOUS
<1> HIDE DEF p
<1> DEFINE w == WipeTopology
           b == BuildTopology
<1>3. /\ Len(p) = 5 + Len(b)
      /\ \A q \in 1 .. 5 : p[q] = w[q]
      /\ \A q \in 6 .. Len(p) : p[q] = b[q - 5] /\ q - 5 \in 1 .. Len(b)
  <2> HIDE DEF w, b
  <2>1. w \in Seq(Statements) /\ b \in Seq(Statements) /\ Len(w) = 5 /\ p = w \o b
    BY <1>1, <1>2 DEF w, b
  <2>2. 5 = Len(w)
    BY <2>1
  <2>3. /\ Len(b) \in Nat
        /\ w \o b \in Seq(Statements) /\ Len(w \o b) = 5 + Len(b)
        /\ \A i \in 1 .. 5 : (w \o b)[i] = w[i]
        /\ \A i \in (5 + 1) .. (5 + Len(b)) : (w \o b)[i] = b[i - 5] /\ i - 5 \in 1 .. Len(b)
    BY <2>1, <2>2, ConcatAt, Zenon
  <2> QED
    BY <2>1, <2>3
<1>4. \A q \in 1 .. 5 : p[q] = WipeTopology[q]
  BY <1>3
<1>5. \A q \in 6 .. Len(p) : p[q] \in BuildStatements
  BY <1>2, <1>3
<1>6. Elements(p) = Elements(WipeTopology) \cup Elements(BuildTopology)
  BY <1>1, <1>2, ElementsOfConcat
<1>7. Len(p) \in Nat /\ Len(p) >= 5
  BY <1>2, <1>3
<1> QED
  BY <1>4, <1>5, <1>6, <1>7, BuildElements

\* A reset removes the directory once it has wiped.
LEMMA ResetProgram ==
    LET p == ProgramOf("reset")
    IN  /\ Len(p) = 6
        /\ \A q \in 1 .. 5 : p[q] = WipeTopology[q]
        /\ p[6] = [do |-> "remove"]
<1> DEFINE w == WipeTopology
           r == [do |-> "remove"]
<1>1. ProgramOf("reset") = w \o <<r>>
  BY DEF ProgramOf, Reset, RemoveRoot
<1>2. w \in Seq(Statements) /\ 5 = Len(w)
  BY WipeIs DEF Statements
<1>3. r \in Statements
  BY DEF Statements
<1> HIDE DEF r, w
<1>4. <<r>> \in Seq(Statements) /\ Len(<<r>>) = 1 /\ <<r>>[1] = r
  BY <1>3
<1> DEFINE t == <<r>>
<1>5. t \in Seq(Statements) /\ Len(t) = 1 /\ t[1] = r
  BY <1>4
<1> HIDE DEF t
<1>6. /\ Len(t) \in Nat
      /\ w \o t \in Seq(Statements) /\ Len(w \o t) = 5 + Len(t)
      /\ \A i \in 1 .. 5 : (w \o t)[i] = w[i]
      /\ \A i \in (5 + 1) .. (5 + Len(t)) : (w \o t)[i] = t[i - 5] /\ i - 5 \in 1 .. Len(t)
  BY <1>2, <1>5, ConcatAt, Zenon
<1>7. Len(w \o t) = 6 /\ (w \o t)[6] = r
  BY <1>5, <1>6
<1> QED
  BY <1>1, <1>6, <1>7 DEF r, w, t

\* The command leaves chunks and blobs to the constraints.
LEMMA CliResetProgram ==
    LET p == ProgramOf("cli_reset")
    IN  /\ Len(p) = 4
        /\ p[1] = [do |-> "delete", table |-> "discs"]
        /\ p[2] = [do |-> "delete", table |-> "machines"]
        /\ p[3] = [do |-> "delete", table |-> "workers"]
        /\ p[4] = [do |-> "remove"]
<1> DEFINE w == Delete(<<"discs", "machines", "workers">>)
           r == [do |-> "remove"]
<1>1. ProgramOf("cli_reset") = w \o <<r>>
  BY DEF ProgramOf, CliReset, RemoveRoot
<1>2. /\ w \in Seq(Statements) /\ 3 = Len(w)
      /\ w[1] = [do |-> "delete", table |-> "discs"]
      /\ w[2] = [do |-> "delete", table |-> "machines"]
      /\ w[3] = [do |-> "delete", table |-> "workers"]
  BY CliWipeIs DEF Statements
<1>3. r \in Statements
  BY DEF Statements
<1> HIDE DEF r, w
<1>4. <<r>> \in Seq(Statements) /\ Len(<<r>>) = 1 /\ <<r>>[1] = r
  BY <1>3
<1> DEFINE t == <<r>>
<1>5. t \in Seq(Statements) /\ Len(t) = 1 /\ t[1] = r
  BY <1>4
<1> HIDE DEF t
<1>6. /\ Len(t) \in Nat
      /\ w \o t \in Seq(Statements) /\ Len(w \o t) = 3 + Len(t)
      /\ \A i \in 1 .. 3 : (w \o t)[i] = w[i]
      /\ \A i \in (3 + 1) .. (3 + Len(t)) : (w \o t)[i] = t[i - 3] /\ i - 3 \in 1 .. Len(t)
  BY <1>2, <1>5, ConcatAt, Zenon
<1>7. /\ Len(w \o t) = 4 /\ (w \o t)[4] = r
      /\ (w \o t)[1] = w[1] /\ (w \o t)[2] = w[2] /\ (w \o t)[3] = w[3]
  BY <1>5, <1>6
<1> QED
  BY <1>1, <1>2, <1>7 DEF r, t

(***************************************************************************)
(* The types                                                               *)
(***************************************************************************)

\* The jobs that started.
Started == {j \in Jobs : j <= latest}

\* Jobs start one after the other, and a job that started has a kind, a status
\* and a line of its program.
JobInv ==
    /\ latest \in 0 .. MaxJobs
    /\ kind \in [Jobs -> Kinds \cup {"none"}]
    /\ status \in [Jobs -> Statuses]
    /\ line \in [Jobs -> Nat]
    /\ alive \subseteq {j \in Jobs : status[j] \in {"pending", "running"}}
    /\ \A j \in Jobs : j <= latest =>
          /\ kind[j] \in Kinds /\ status[j] # "none"
          /\ line[j] <= Len(ProgramOf(kind[j])) + 1
    /\ \A j \in Jobs : j > latest => kind[j] = "none" /\ status[j] = "none" /\ line[j] = 0

\* Rows and directories are those of jobs that started.
RowInv ==
    /\ rows = [t \in Tables |-> rows[t]]
    /\ rows["workers"] \subseteq UNION {Daemons(j) : j \in Started}
    /\ rows["machines"] \cup rows["discs"] \cup dirs \subseteq UNION {Topology(j) : j \in Started}
    /\ rows["chunks"] \cup rows["blobs"] \cup files \subseteq Uploads

UploadInv ==
    /\ upc \in [Uploads -> {"idle", "placed", "pushed", "stored", "failed"}]
    /\ target \in [Uploads -> AllMachines \cup {NoMachine}]
    /\ \A u \in Uploads : upc[u] # "idle" => target[u] \in UNION {Topology(j) : j \in Started}

\* The bounds.
BoundInv == errors \in 0 .. MaxErrors /\ mishaps \in 0 .. MaxMishaps

\* Every kind of job has an end.
LEMMA ProgramLen ==
    ASSUME NEW k \in Kinds
    PROVE  Len(ProgramOf(k)) \in Nat
<1>1. k \in {"bootstrap", "reset", "cli_reset"}
  BY TopologyAssumption
<1>2. ProgramOf(k) \in Seq(Statements)
  BY <1>1, ProgramType
<1> QED
  BY <1>2

\* What a statement is about.
LEMMA StatementKinds ==
    ASSUME NEW s \in Statements
    PROVE  /\ s.do = "delete" => s.table \in Tables
           /\ s.do = "insert" => \/ \E d \in DOMAIN MachineCount : s = WorkerRow(d)
                                 \/ \E k \in Slots : s = MachineRow(k)
                                 \/ \E k \in Slots : s = DiscRow(k)
           /\ s.do = "mkdir" => \E k \in Slots : s = Directory(k)
<1>1. CASE s \in DeleteStatements
  <2>1. PICK t \in Tables : s = [do |-> "delete", table |-> t]
    BY <1>1 DEF DeleteStatements
  <2>2. s.do = "delete" /\ s.table = t
    BY <2>1
  <2> QED
    BY <2>2
<1>2. CASE s \in BuildStatements
  <2>1. CASE \E d \in DOMAIN MachineCount : s = WorkerRow(d)
    BY <2>1 DEF WorkerRow
  <2>2. CASE \E k \in Slots : s = MachineRow(k)
    BY <2>2 DEF MachineRow
  <2>3. CASE \E k \in Slots : s = DiscRow(k)
    BY <2>3 DEF DiscRow
  <2>4. CASE \E k \in Slots : s = Directory(k)
    BY <2>4 DEF Directory
  <2> QED
    BY <1>2, <2>1, <2>2, <2>3, <2>4 DEF BuildStatements
<1>3. CASE s = [do |-> "remove"]
  BY <1>3
<1> QED
  BY <1>1, <1>2, <1>3 DEF Statements

\* The job that works is at a statement of its program.
LEMMA AtStatement ==
    ASSUME JobInv, NEW j \in Jobs, Working(j)
    PROVE  /\ j \in alive /\ j <= latest /\ kind[j] \in Kinds
           /\ Program(j) = ProgramOf(kind[j])
           /\ line[j] \in 1 .. Len(ProgramOf(kind[j]))
           /\ Now(j) = ProgramOf(kind[j])[line[j]]
           /\ Now(j) \in Statements
<1>1. j \in alive /\ line[j] >= 1 /\ line[j] # Len(Program(j)) + 1
  BY DEF Working, AtEnd
<1>2. j <= latest
  BY <1>1 DEF JobInv, Jobs
<1>3. kind[j] \in Kinds /\ line[j] <= Len(ProgramOf(kind[j])) + 1 /\ line[j] \in Nat
  BY <1>2 DEF JobInv
<1>4. Program(j) = ProgramOf(kind[j])
  BY DEF Program, ProgramOf
<1>5. line[j] \in 1 .. Len(ProgramOf(kind[j]))
  BY <1>1, <1>3, <1>4, ProgramLen
<1>6. kind[j] \in {"bootstrap", "reset", "cli_reset"}
  BY <1>3, TopologyAssumption
<1>7. ProgramOf(kind[j]) \in Seq(Statements)
  BY <1>6, ProgramType
<1> QED
  BY <1>1, <1>2, <1>3, <1>4, <1>5, <1>7 DEF Now

\* What a step of a job does to its goroutine.
LEMMA JobSteps ==
    ASSUME NEW j \in Jobs, JobStep(j)
    PROVE  \/ MarkRunning(j)
           \/ Working(j) /\ Continue(j)
           \/ j \in alive /\ FailJob(j)
           \/ FinishJob(j)
BY DEF JobStep, DeleteRows, InsertRow, MakeDir, RemoveAll, StatementFails, IsAt, Working

\* It holds in the beginning.
LEMMA JobInit == Init => JobInv
BY TopologyAssumption DEF Init, JobInv, Jobs, Statuses

\* It is kept by every step.
LEMMA JobNext ==
    ASSUME JobInv, [Next]_vars
    PROVE  JobInv'
<1> USE DEF Jobs
<1>1. latest \in Nat /\ MaxJobs \in Nat
  BY TopologyAssumption DEF JobInv
<1>2. ASSUME NEW j \in Jobs, StartJob(j)
      PROVE  JobInv'
  <2>1. /\ j = latest + 1 /\ latest' = j /\ line' = line
        /\ \E k \in Kinds : kind' = [kind EXCEPT ![j] = k]
        /\ status' = [status EXCEPT ![j] = "pending"]
        /\ alive' = alive \cup {j}
    BY <1>2 DEF StartJob
  <2>2. PICK k \in Kinds : kind' = [kind EXCEPT ![j] = k]
    BY <2>1
  <2>3. kind' \in [Jobs -> Kinds \cup {"none"}] /\ status' \in [Jobs -> Statuses]
        /\ latest' \in 0 .. MaxJobs /\ line' \in [Jobs -> Nat]
    BY <1>1, <2>1, <2>2 DEF JobInv, Statuses
  <2>4. alive' \subseteq {i \in Jobs : status'[i] \in {"pending", "running"}}
    BY <2>1 DEF JobInv
  <2>5. \A i \in Jobs : i <= latest' =>
          /\ kind'[i] \in Kinds /\ status'[i] # "none"
          /\ line'[i] <= Len(ProgramOf(kind'[i])) + 1
    <3>1. SUFFICES ASSUME NEW i \in Jobs, i <= latest'
                   PROVE  /\ kind'[i] \in Kinds /\ status'[i] # "none"
                          /\ line'[i] <= Len(ProgramOf(kind'[i])) + 1
      OBVIOUS
    <3>2. CASE i = j
      <4>1. kind'[i] = k /\ status'[i] = "pending" /\ line'[i] = 0
        BY <1>1, <2>1, <2>2, <3>2 DEF JobInv
      <4> QED
        BY <4>1, ProgramLen
    <3>3. CASE i # j
      BY <1>1, <2>1, <2>2, <3>1, <3>3 DEF JobInv
    <3> QED
      BY <3>2, <3>3
  <2>6. \A i \in Jobs : i > latest' => kind'[i] = "none" /\ status'[i] = "none" /\ line'[i] = 0
    BY <1>1, <2>1, <2>2 DEF JobInv
  <2> QED
    BY <2>3, <2>4, <2>5, <2>6 DEF JobInv
<1>3. ASSUME NEW j \in Jobs, JobStep(j)
      PROVE  JobInv'
  <2>1. CASE MarkRunning(j)
    <3>1. /\ j \in alive /\ line[j] = 0 /\ line' = [line EXCEPT ![j] = 1]
          /\ kind' = kind /\ alive' = alive /\ latest' = latest
          /\ status' = [status EXCEPT ![j] = "running"] \/ status' = status
      BY <2>1 DEF MarkRunning, SetStatus
    <3>2. j <= latest /\ Len(ProgramOf(kind[j])) \in Nat
      BY <1>1, <3>1, ProgramLen DEF JobInv
    <3>3. status' \in [Jobs -> Statuses] /\ line' \in [Jobs -> Nat]
      BY <3>1 DEF JobInv, Statuses
    <3>4. alive' \subseteq {i \in Jobs : status'[i] \in {"pending", "running"}}
      BY <3>1 DEF JobInv
    <3>5. \A i \in Jobs : i <= latest' =>
            /\ kind'[i] \in Kinds /\ status'[i] # "none"
            /\ line'[i] <= Len(ProgramOf(kind'[i])) + 1
      <4>1. line'[j] = 1 /\ 1 <= Len(ProgramOf(kind[j])) + 1 /\ kind[j] \in Kinds
        BY <3>1, <3>2 DEF JobInv
      <4>2. \A i \in Jobs : i # j => line'[i] = line[i]
        BY <3>1 DEF JobInv
      <4>3. \A i \in Jobs : i <= latest => status'[i] # "none"
        BY <3>1 DEF JobInv
      <4> QED
        BY <3>1, <4>1, <4>2, <4>3 DEF JobInv
    <3>6. \A i \in Jobs : i > latest' => kind'[i] = "none" /\ status'[i] = "none" /\ line'[i] = 0
      BY <1>1, <3>1, <3>2 DEF JobInv
    <3> QED
      BY <3>1, <3>3, <3>4, <3>5, <3>6 DEF JobInv
  <2>2. CASE Working(j) /\ Continue(j)
    <3>1. line' = [line EXCEPT ![j] = @ + 1] /\ UNCHANGED <<kind, status, alive, latest>>
      BY <2>2 DEF Continue
    <3>2. j <= latest /\ line[j] \in 1 .. Len(ProgramOf(kind[j])) /\ Len(ProgramOf(kind[j])) \in Nat
      BY <2>2, AtStatement, ProgramLen
    <3> QED
      BY <1>1, <3>1, <3>2 DEF JobInv
  <2>3. CASE j \in alive /\ FailJob(j)
    <3>1. /\ alive' = alive \ {j} /\ UNCHANGED <<kind, line, latest>>
          /\ status' = [status EXCEPT ![j] = "failed"] \/ status' = status
      BY <2>3 DEF FailJob, SetStatus
    <3>2. j <= latest
      BY <1>1, <2>3 DEF JobInv
    <3> QED
      BY <1>1, <3>1, <3>2 DEF JobInv, Statuses
  <2>4. CASE FinishJob(j)
    <3>1. /\ j \in alive /\ alive' = alive \ {j} /\ UNCHANGED <<kind, line, latest>>
          /\ status' = [status EXCEPT ![j] = "success"] \/ status' = status
      BY <2>4 DEF FinishJob, SetStatus
    <3>2. j <= latest
      BY <1>1, <3>1 DEF JobInv
    <3> QED
      BY <1>1, <3>1, <3>2 DEF JobInv, Statuses
  <2> QED
    BY <1>3, <2>1, <2>2, <2>3, <2>4, JobSteps
<1>4. CASE Restart
  BY <1>4 DEF Restart, JobInv
<1>5. CASE UNCHANGED jobVars
  BY <1>5 DEF jobVars, JobInv
<1>6. ASSUME NEW u \in Uploads, UploadStep(u)
      PROVE  UNCHANGED jobVars
  BY <1>6 DEF UploadStep, Place, Push, Commit, UploadFails
<1>7. UNCHANGED vars => UNCHANGED jobVars
  BY DEF vars
<1> QED
  BY <1>2, <1>3, <1>4, <1>5, <1>6, <1>7 DEF Next

\* The rows and the directory of a slot of job j.
LEMMA Keys ==
    ASSUME NEW j \in Jobs
    PROVE  /\ \A d \in DOMAIN MachineCount : <<j>> \o <<d>> \in Daemons(j)
           /\ \A k \in Slots : <<j>> \o k \in Topology(j)
           /\ Daemons(j) = {<<j>> \o <<d>> : d \in DOMAIN MachineCount}
           /\ Topology(j) = {<<j>> \o k : k \in Slots}
           /\ \A m \in Topology(j) : m[1] = j
<1>1. \A d \in DOMAIN MachineCount : <<j>> \o <<d>> = <<j, d>>
  BY JoinOneOne, Zenon
<1>2. \A d \in DOMAIN MachineCount :
         \A n \in 1 .. MachineCount[d] : <<j>> \o <<d, n>> = <<j, d, n>>
  BY JoinOneTwo, Zenon
<1>3. Daemons(j) = {<<j>> \o <<d>> : d \in DOMAIN MachineCount}
  BY <1>1 DEF Daemons
<1>4. ASSUME NEW k \in Slots
      PROVE  <<j>> \o k \in Topology(j)
  <2>1. PICK d \in DOMAIN MachineCount : \E n \in 1 .. MachineCount[d] : k = <<d, n>>
    BY DEF Slots
  <2>2. PICK n \in 1 .. MachineCount[d] : k = <<d, n>>
    BY <2>1
  <2>3. <<j>> \o k = <<j, d, n>>
    BY <1>2, <2>2
  <2> QED
    BY <2>3 DEF Topology
<1>5. ASSUME NEW m \in Topology(j)
      PROVE  m[1] = j /\ \E k \in Slots : m = <<j>> \o k
  <2>1. PICK d \in DOMAIN MachineCount : \E n \in 1 .. MachineCount[d] : m = <<j, d, n>>
    BY DEF Topology
  <2>2. PICK n \in 1 .. MachineCount[d] : m = <<j, d, n>>
    BY <2>1
  <2>3. <<d, n>> \in Slots
    BY DEF Slots
  <2>4. m = <<j>> \o <<d, n>>
    BY <1>2, <2>2
  <2>5. m[1] = j
    BY <2>2
  <2> QED
    BY <2>3, <2>4, <2>5, Zenon
<1>6. Topology(j) = {<<j>> \o k : k \in Slots}
  BY <1>4, <1>5, Zenon
<1>7. \A d \in DOMAIN MachineCount : <<j>> \o <<d>> \in Daemons(j)
  BY <1>3, Zenon
<1> QED
  BY <1>3, <1>4, <1>5, <1>6, <1>7, Zenon

\* They hold in the beginning.
LEMMA RowInit == Init => RowInv /\ UploadInv /\ BoundInv
BY TopologyAssumption DEF Init, RowInv, UploadInv, BoundInv, Tables

\* A job that started has started for good.
LEMMA StartedGrows ==
    ASSUME JobInv, [Next]_vars
    PROVE  latest <= latest' /\ Started \subseteq Started'
<1>1. latest \in Nat
  BY TopologyAssumption DEF JobInv
<1>2. latest' = latest \/ latest' = latest + 1
  BY DEF Next, StartJob, JobStep, MarkRunning, DeleteRows, InsertRow, MakeDir, RemoveAll,
         StatementFails, FinishJob, Continue, FailJob, UploadStep, Place, Push, Commit,
         UploadFails, Restart, vars, jobVars
<1> QED
  BY <1>1, <1>2 DEF Started, Jobs

\* The machines and the daemons of the jobs that started.
StartedMachines == UNION {Topology(j) : j \in Started}
StartedDaemons  == UNION {Daemons(j) : j \in Started}

\* So have its machines and its daemons.
LEMMA StartedNext ==
    ASSUME JobInv, [Next]_vars
    PROVE  /\ StartedMachines \subseteq StartedMachines'
           /\ StartedDaemons \subseteq StartedDaemons'
<1>1. Started \subseteq Started'
  BY StartedGrows
<1> QED
  BY <1>1 DEF StartedMachines, StartedDaemons, Topology, Daemons

\* There are no others.
LEMMA StartedAreAll ==
    StartedMachines \subseteq AllMachines /\ StartedDaemons \subseteq AllDaemons
BY DEF StartedMachines, StartedDaemons, AllMachines, AllDaemons, Started

\* A job that started is one of them.
LEMMA OfStarted ==
    ASSUME NEW j \in Jobs, j <= latest
    PROVE  Topology(j) \subseteq StartedMachines /\ Daemons(j) \subseteq StartedDaemons
BY DEF StartedMachines, StartedDaemons, Started

\* What an insert adds to a table.
LEMMA InsertIs ==
    ASSUME JobInv, NEW j \in Jobs, IsAt(j, "insert")
    PROVE  /\ j \in alive /\ j <= latest
           /\ \/ Now(j).table = "workers" /\ <<j>> \o Now(j).key \in Daemons(j)
              \/ Now(j).table \in {"machines", "discs"} /\ <<j>> \o Now(j).key \in Topology(j)
<1>1. Working(j) /\ Now(j).do = "insert"
  BY DEF IsAt
<1>2. Now(j) \in Statements /\ j \in alive /\ j <= latest
  BY <1>1, AtStatement
<1> DEFINE s == Now(j)
<1>3. s \in Statements /\ s.do = "insert"
  BY <1>1, <1>2
<1> HIDE DEF s
<1>4. \/ \E d \in DOMAIN MachineCount : s = WorkerRow(d)
      \/ \E k \in Slots : s = MachineRow(k)
      \/ \E k \in Slots : s = DiscRow(k)
  BY <1>3, StatementKinds
<1>5. CASE \E d \in DOMAIN MachineCount : s = WorkerRow(d)
  <2>1. PICK d \in DOMAIN MachineCount : s = WorkerRow(d)
    BY <1>5
  <2>2. s.table = "workers" /\ s.key = <<d>>
    BY <2>1 DEF WorkerRow
  <2>3. <<j>> \o <<d>> \in Daemons(j)
    BY Keys
  <2> QED
    BY <1>2, <2>2, <2>3 DEF s
<1>6. CASE \E k \in Slots : s = MachineRow(k)
  <2>1. PICK k \in Slots : s = MachineRow(k)
    BY <1>6
  <2>2. s.table = "machines" /\ s.key = k
    BY <2>1 DEF MachineRow
  <2>3. <<j>> \o k \in Topology(j)
    BY Keys
  <2> QED
    BY <1>2, <2>2, <2>3 DEF s
<1>7. CASE \E k \in Slots : s = DiscRow(k)
  <2>1. PICK k \in Slots : s = DiscRow(k)
    BY <1>7
  <2>2. s.table = "discs" /\ s.key = k
    BY <2>1 DEF DiscRow
  <2>3. <<j>> \o k \in Topology(j)
    BY Keys
  <2> QED
    BY <1>2, <2>2, <2>3 DEF s
<1> QED
  BY <1>4, <1>5, <1>6, <1>7

\* What a mkdir adds to the directories.
LEMMA DirIs ==
    ASSUME JobInv, NEW j \in Jobs, IsAt(j, "mkdir")
    PROVE  j \in alive /\ j <= latest /\ <<j>> \o Now(j).key \in Topology(j)
<1>1. Working(j) /\ Now(j).do = "mkdir"
  BY DEF IsAt
<1>2. Now(j) \in Statements /\ j \in alive /\ j <= latest
  BY <1>1, AtStatement
<1>3. PICK k \in Slots : Now(j) = Directory(k)
  BY <1>1, <1>2, StatementKinds
<1>4. Now(j).key = k
  BY <1>3 DEF Directory
<1>5. <<j>> \o k \in Topology(j)
  BY Keys
<1> QED
  BY <1>2, <1>4, <1>5

\* What a delete empties.
LEMMA DeleteIs ==
    ASSUME JobInv, NEW j \in Jobs, IsAt(j, "delete")
    PROVE  j \in alive /\ j <= latest /\ Now(j).table \in Tables
<1>1. Working(j) /\ Now(j).do = "delete"
  BY DEF IsAt
<1>2. Now(j) \in Statements /\ j \in alive /\ j <= latest
  BY <1>1, AtStatement
<1> QED
  BY <1>1, <1>2, StatementKinds

\* Rows stay rows of jobs that started when no statement adds others.
LEMMA RowsStay ==
    ASSUME JobInv, RowInv, [Next]_vars,
           rows' = [t \in Tables |-> rows'[t]],
           \A t \in Tables : rows'[t] \subseteq rows[t],
           dirs' \subseteq dirs, files' \subseteq files
    PROVE  RowInv'
<1>1. /\ StartedMachines \subseteq StartedMachines'
      /\ StartedDaemons \subseteq StartedDaemons'
  BY StartedNext
<1>2. {"workers", "machines", "discs", "chunks", "blobs"} \subseteq Tables
  BY DEF Tables
<1> QED
  BY <1>1, <1>2 DEF RowInv, StartedMachines, StartedDaemons

\* Every step leaves the rows those of jobs that started.
LEMMA RowNext ==
    ASSUME JobInv, RowInv, UploadInv, [Next]_vars
    PROVE  RowInv'
<1>1. /\ StartedMachines \subseteq StartedMachines'
      /\ StartedDaemons \subseteq StartedDaemons'
  BY StartedNext
<1>2. "workers" \in Tables /\ "machines" \in Tables /\ "discs" \in Tables
      /\ "chunks" \in Tables /\ "blobs" \in Tables
  BY DEF Tables
<1>3. /\ rows = [t \in Tables |-> rows[t]]
      /\ rows["workers"] \subseteq StartedDaemons
      /\ rows["machines"] \subseteq StartedMachines
      /\ rows["discs"] \subseteq StartedMachines
      /\ dirs \subseteq StartedMachines
      /\ rows["chunks"] \subseteq Uploads /\ rows["blobs"] \subseteq Uploads /\ files \subseteq Uploads
  BY DEF RowInv, StartedMachines, StartedDaemons
<1> DEFINE Goal == /\ rows' = [t \in Tables |-> rows'[t]]
                   /\ rows'["workers"] \subseteq StartedDaemons'
                   /\ rows'["machines"] \subseteq StartedMachines'
                   /\ rows'["discs"] \subseteq StartedMachines'
                   /\ dirs' \subseteq StartedMachines'
                   /\ rows'["chunks"] \subseteq Uploads /\ rows'["blobs"] \subseteq Uploads
                   /\ files' \subseteq Uploads
<1>4. RowInv' <=> Goal
  BY DEF RowInv, StartedMachines, StartedDaemons
<1>5. ASSUME UNCHANGED <<rows, dirs, files>>
      PROVE  Goal
  BY <1>1, <1>3, <1>5
<1>6. ASSUME NEW j \in Jobs, StartJob(j) \/ MarkRunning(j) \/ StatementFails(j) \/ FinishJob(j)
      PROVE  UNCHANGED <<rows, dirs, files>>
  BY <1>6 DEF StartJob, MarkRunning, StatementFails, FinishJob
<1>7. ASSUME NEW j \in Jobs, DeleteRows(j), ~ UNCHANGED <<rows, dirs, files>>
      PROVE  Goal
  <2>1. /\ rows' = [rows EXCEPT ![Now(j).table] = {}] /\ UNCHANGED <<dirs, files>>
    BY <1>7 DEF DeleteRows
  <2>2. rows' = [t \in Tables |-> rows'[t]] /\ \A t \in Tables : rows'[t] \subseteq rows[t]
    BY <1>3, <2>1
  <2> QED
    BY <1>4, <2>1, <2>2, RowsStay
<1>8. ASSUME NEW j \in Jobs, InsertRow(j), ~ UNCHANGED <<rows, dirs, files>>
      PROVE  Goal
  <2> DEFINE t == Now(j).table
             r == <<j>> \o Now(j).key
  <2>1. /\ rows' = [rows EXCEPT ![t] = @ \cup {r}] /\ UNCHANGED <<dirs, files>>
        /\ IsAt(j, "insert")
    BY <1>8 DEF InsertRow
  <2>2. /\ j <= latest
        /\ \/ t = "workers" /\ r \in Daemons(j)
           \/ t \in {"machines", "discs"} /\ r \in Topology(j)
    BY <2>1, InsertIs
  <2>3. \/ t = "workers" /\ r \in StartedDaemons
        \/ t \in {"machines", "discs"} /\ r \in StartedMachines
    <3> HIDE DEF t, r
    <3> QED
      BY <2>2, OfStarted
  <2> HIDE DEF t, r
  <2>4. /\ rows' = [x \in Tables |-> rows'[x]]
        /\ \A x \in Tables : rows'[x] \subseteq IF x = t THEN rows[x] \cup {r} ELSE rows[x]
    BY <1>2, <1>3, <2>1, <2>3
  <2>5. rows'["chunks"] \subseteq Uploads /\ rows'["blobs"] \subseteq Uploads
    BY <1>2, <1>3, <2>3, <2>4
  <2>6. rows'["workers"] \subseteq StartedDaemons
    BY <1>2, <1>3, <2>3, <2>4
  <2>7. rows'["machines"] \subseteq StartedMachines /\ rows'["discs"] \subseteq StartedMachines
    BY <1>2, <1>3, <2>3, <2>4
  <2> QED
    BY <1>1, <1>3, <2>1, <2>4, <2>5, <2>6, <2>7
<1>9. ASSUME NEW j \in Jobs, MakeDir(j)
      PROVE  Goal
  <2>1. /\ UNCHANGED <<rows, files>> /\ dirs' = dirs \cup {<<j>> \o Now(j).key}
        /\ IsAt(j, "mkdir")
    BY <1>9 DEF MakeDir
  <2>2. <<j>> \o Now(j).key \in StartedMachines
    BY <2>1, DirIs, OfStarted
  <2> QED
    BY <1>1, <1>3, <2>1, <2>2
<1>10. ASSUME NEW j \in Jobs, RemoveAll(j)
       PROVE  Goal
  BY <1>3, <1>4, <1>10, RowsStay DEF RemoveAll
<1>11. ASSUME NEW u \in Uploads, Push(u)
       PROVE  Goal
  <2>1. target[u] \in StartedMachines
    BY <1>11 DEF Push, UploadInv, StartedMachines
  <2> QED
    BY <1>1, <1>3, <1>11, <2>1 DEF Push
<1>12. ASSUME NEW u \in Uploads, Commit(u), ~ UNCHANGED <<rows, dirs, files>>
       PROVE  Goal
  <2>1. /\ rows' = [rows EXCEPT !["blobs"] = @ \cup {u}, !["chunks"] = @ \cup {u}]
        /\ UNCHANGED <<dirs, files>>
    BY <1>12 DEF Commit
  <2>2. /\ rows' = [x \in Tables |-> rows'[x]]
        /\ rows'["blobs"] = rows["blobs"] \cup {u} /\ rows'["chunks"] = rows["chunks"] \cup {u}
        /\ rows'["workers"] = rows["workers"] /\ rows'["machines"] = rows["machines"]
        /\ rows'["discs"] = rows["discs"]
    BY <1>2, <1>3, <2>1
  <2> QED
    BY <1>1, <1>3, <2>1, <2>2
<1>13. ASSUME NEW u \in Uploads, Place(u) \/ UploadFails(u)
       PROVE  UNCHANGED <<rows, dirs, files>>
  BY <1>13 DEF Place, UploadFails
<1>14. Restart \/ UNCHANGED vars => UNCHANGED <<rows, dirs, files>>
  BY DEF Restart, vars
<1> HIDE DEF Goal
<1>15. ASSUME NEW j \in Jobs, StartJob(j) \/ JobStep(j)
       PROVE  Goal
  BY <1>5, <1>6, <1>7, <1>8, <1>9, <1>10, <1>15 DEF JobStep
<1>16. ASSUME NEW u \in Uploads, UploadStep(u)
       PROVE  Goal
  BY <1>5, <1>11, <1>12, <1>13, <1>16 DEF UploadStep
<1>17. Goal
  BY <1>5, <1>14, <1>15, <1>16 DEF Next
<1> QED
  BY <1>4, <1>17

\* Every step leaves the targets machines of jobs that started.
LEMMA UploadNext ==
    ASSUME JobInv, RowInv, UploadInv, [Next]_vars
    PROVE  UploadInv'
<1>1. StartedMachines \subseteq StartedMachines' /\ StartedMachines \subseteq AllMachines
  BY StartedNext, StartedAreAll
<1>2. AllMachines' = AllMachines
  BY DEF AllMachines, Topology
<1>3. /\ upc \in [Uploads -> {"idle", "placed", "pushed", "stored", "failed"}]
      /\ target \in [Uploads -> AllMachines \cup {NoMachine}]
      /\ \A u \in Uploads : upc[u] # "idle" => target[u] \in StartedMachines
  BY DEF UploadInv, StartedMachines
<1> DEFINE Goal == /\ upc' \in [Uploads -> {"idle", "placed", "pushed", "stored", "failed"}]
                   /\ target' \in [Uploads -> AllMachines \cup {NoMachine}]
                   /\ \A u \in Uploads : upc'[u] # "idle" => target'[u] \in StartedMachines'
<1>4. UploadInv' <=> Goal
  BY <1>2 DEF UploadInv, StartedMachines
<1>5. ASSUME UNCHANGED uploadVars
      PROVE  Goal
  BY <1>1, <1>3, <1>5 DEF uploadVars
<1>6. ASSUME NEW u \in Uploads, Place(u)
      PROVE  Goal
  <2>1. PICK m \in Candidates : target' = [target EXCEPT ![u] = m]
    BY <1>6 DEF Place
  <2>2. m \in StartedMachines
    BY <2>1 DEF Candidates, RowInv, StartedMachines
  <2> QED
    BY <1>1, <1>3, <1>6, <2>1, <2>2 DEF Place
<1>7. ASSUME NEW u \in Uploads, Push(u) \/ Commit(u) \/ UploadFails(u)
      PROVE  Goal
  <2>1. \/ upc' = [upc EXCEPT ![u] = "pushed"]
        \/ upc' = [upc EXCEPT ![u] = "stored"]
        \/ upc' = [upc EXCEPT ![u] = "failed"]
    BY <1>7 DEF Push, Commit, UploadFails
  <2>2. target' = target /\ upc[u] # "idle"
    BY <1>7 DEF Push, Commit, UploadFails
  <2> QED
    BY <1>1, <1>3, <2>1, <2>2
<1>8. ASSUME Restart
      PROVE  Goal
  <2>1. /\ upc' = [u \in Uploads |-> IF upc[u] \in {"placed", "pushed"} THEN "failed" ELSE upc[u]]
        /\ target' = target
    BY <1>8 DEF Restart
  <2> QED
    BY <1>1, <1>3, <2>1
<1>9. ASSUME NEW j \in Jobs, StartJob(j) \/ JobStep(j)
      PROVE  UNCHANGED uploadVars
  BY <1>9 DEF StartJob, JobStep, MarkRunning, DeleteRows, InsertRow, MakeDir, RemoveAll,
              StatementFails, FinishJob
<1>10. UNCHANGED vars => UNCHANGED uploadVars
  BY DEF vars
<1> HIDE DEF Goal
<1>11. Goal
  BY <1>5, <1>6, <1>7, <1>8, <1>9, <1>10 DEF Next, UploadStep
<1> QED
  BY <1>4, <1>11

\* The bounds are kept.
LEMMA BoundNext ==
    ASSUME BoundInv, [Next]_vars
    PROVE  BoundInv'
<1>1. MaxErrors \in Nat /\ MaxMishaps \in Nat
  BY TopologyAssumption
<1>2. errors' = errors \/ (errors < MaxErrors /\ errors' = errors + 1)
  <2>1. ASSUME NEW j \in Jobs, StartJob(j) \/ JobStep(j)
        PROVE  errors' = errors \/ (errors < MaxErrors /\ errors' = errors + 1)
    BY <2>1 DEF StartJob, JobStep, MarkRunning, DeleteRows, InsertRow, MakeDir, RemoveAll,
                StatementFails, FinishJob
  <2>2. ASSUME NEW u \in Uploads, UploadStep(u)
        PROVE  errors' = errors
    BY <2>2 DEF UploadStep, Place, Push, Commit, UploadFails
  <2> QED
    BY <2>1, <2>2 DEF Next, Restart, vars
<1>3. mishaps' = mishaps \/ (mishaps < MaxMishaps /\ mishaps' = mishaps + 1)
  <2>1. ASSUME NEW j \in Jobs, NEW s, SetStatus(j, s)
        PROVE  mishaps' = mishaps \/ (mishaps < MaxMishaps /\ mishaps' = mishaps + 1)
    BY <2>1 DEF SetStatus
  <2>2. ASSUME NEW j \in Jobs, StartJob(j) \/ JobStep(j)
        PROVE  mishaps' = mishaps \/ (mishaps < MaxMishaps /\ mishaps' = mishaps + 1)
    BY <2>1, <2>2, JobSteps DEF StartJob, MarkRunning, Continue, FailJob, FinishJob
  <2>3. ASSUME NEW u \in Uploads, UploadStep(u)
        PROVE  mishaps' = mishaps
    BY <2>3 DEF UploadStep, Place, Push, Commit, UploadFails
  <2> QED
    BY <2>2, <2>3 DEF Next, Restart, vars
<1> QED
  BY <1>1, <1>2, <1>3 DEF BoundInv

TypeInv == JobInv /\ RowInv /\ UploadInv /\ BoundInv

\* The inductive invariant is as strong as the type invariant.
LEMMA TypeInvImplies == TypeInv => TypeOK
<1> SUFFICES ASSUME TypeInv PROVE TypeOK
  OBVIOUS
<1>1. StartedMachines \subseteq AllMachines /\ StartedDaemons \subseteq AllDaemons
  BY StartedAreAll
<1>2. \A j \in Jobs :
        IF status[j] = "none" THEN line[j] = 0 ELSE line[j] \in 0 .. Len(Program(j)) + 1
  <2>1. SUFFICES ASSUME NEW j \in Jobs
                 PROVE  IF status[j] = "none" THEN line[j] = 0
                        ELSE line[j] \in 0 .. Len(Program(j)) + 1
    OBVIOUS
  <2>2. Program(j) = ProgramOf(kind[j])
    BY DEF Program, ProgramOf
  <2>3. CASE j <= latest
    <3>1. kind[j] \in Kinds /\ status[j] # "none" /\ line[j] <= Len(ProgramOf(kind[j])) + 1
          /\ line[j] \in Nat
      BY <2>3 DEF TypeInv, JobInv
    <3>2. Len(ProgramOf(kind[j])) \in Nat
      BY <3>1, ProgramLen
    <3> QED
      BY <2>2, <3>1, <3>2
  <2>4. CASE ~ (j <= latest)
    BY <2>4, TopologyAssumption DEF TypeInv, JobInv, Jobs
  <2> QED
    BY <2>3, <2>4
<1> QED
  BY <1>1, <1>2 DEF TypeInv, JobInv, RowInv, UploadInv, BoundInv, TypeOK, StartedMachines, StartedDaemons

\* The types, for any list of daemons, jobs that overlap included: no job runs
\* past the end of its program, no row or directory is of a job that was never
\* started (BuildTopology, runReset).
THEOREM TypeCorrect == Spec => []TypeOK
<1>1. Init => TypeInv
  BY JobInit, RowInit DEF TypeInv
<1>2. TypeInv /\ [Next]_vars => TypeInv'
  BY JobNext, RowNext, UploadNext, BoundNext DEF TypeInv
<1> QED
  BY <1>1, <1>2, TypeInvImplies, PTL DEF Spec

(***************************************************************************)
(* What the latest job has done                                            *)
(***************************************************************************)

\* The statements before line n of a kind of job, and the rows and directories
\* of them.
DoneBy(k, n) == {ProgramOf(k)[q] : q \in 1 .. n - 1}
RowsIn(j, table, done) ==
    {<<j>> \o s.key : s \in {x \in done : x.do = "insert" /\ x.table = table}}
DirsIn(j, done) == {<<j>> \o s.key : s \in {x \in done : x.do = "mkdir"}}

\* Nothing was done before the first statement.
LEMMA DoneNone ==
    ASSUME NEW k, NEW n \in {0, 1}
    PROVE  DoneBy(k, n) = {}
<1>1. 1 .. n - 1 = {}
  OBVIOUS
<1> QED
  BY <1>1 DEF DoneBy

\* What was done after one more.
LEMMA DoneNext ==
    ASSUME NEW k, NEW n \in Nat, n >= 1
    PROVE  DoneBy(k, n + 1) = DoneBy(k, n) \cup {ProgramOf(k)[n]}
<1>1. 1 .. (n + 1) - 1 = (1 .. n - 1) \cup {n}
  OBVIOUS
<1> QED
  BY <1>1 DEF DoneBy

\* A mkdir adds its directory.
LEMMA DirAdded ==
    ASSUME NEW j, NEW done, NEW s, s.do = "mkdir"
    PROVE  DirsIn(j, done \cup {s}) = DirsIn(j, done) \cup {<<j>> \o s.key}
<1> DEFINE sel(d) == {x \in d : x.do = "mkdir"}
           f(x) == <<j>> \o x.key
<1>1. sel(done \cup {s}) = sel(done) \cup {s}
  OBVIOUS
<1>2. \A d : DirsIn(j, d) = {f(x) : x \in sel(d)}
  BY DEF DirsIn
<1>3. <<j>> \o s.key = f(s)
  OBVIOUS
<1> HIDE DEF sel, f
<1>4. {f(x) : x \in sel(done) \cup {s}} = {f(x) : x \in sel(done)} \cup {f(s)}
  OBVIOUS
<1> QED
  BY <1>1, <1>2, <1>3, <1>4

\* Other statements add none.
LEMMA NoDirAdded ==
    ASSUME NEW j, NEW done, NEW s, s.do # "mkdir"
    PROVE  DirsIn(j, done \cup {s}) = DirsIn(j, done)
<1>1. {x \in done \cup {s} : x.do = "mkdir"} = {x \in done : x.do = "mkdir"}
  OBVIOUS
<1> QED
  BY <1>1 DEF DirsIn

\* Where the statements of each kind are in the programs.
LEMMA Positions ==
    ASSUME NEW k \in Kinds, NEW n \in 1 .. Len(ProgramOf(k)), NEW s, s = ProgramOf(k)[n]
    PROVE  /\ s.do = "delete" =>
                \/ k \in {"bootstrap", "reset"} /\
                      \/ n = 1 /\ s.table = "chunks"
                      \/ n = 2 /\ s.table = "blobs"
                      \/ n = 3 /\ s.table = "discs"
                      \/ n = 4 /\ s.table = "machines"
                      \/ n = 5 /\ s.table = "workers"
                \/ k = "cli_reset" /\
                      \/ n = 1 /\ s.table = "discs"
                      \/ n = 2 /\ s.table = "machines"
                      \/ n = 3 /\ s.table = "workers"
           /\ s.do \in {"insert", "mkdir"} => k = "bootstrap" /\ n > 5
           /\ s.do = "remove" => (k = "reset" /\ n = 6) \/ (k = "cli_reset" /\ n = 4)
           /\ k \in {"bootstrap", "reset"} /\ n < 6 => s.do = "delete"
           /\ k = "reset" => n < 7
<1>1. k \in {"bootstrap", "reset", "cli_reset"} /\ Len(ProgramOf(k)) \in Nat
  BY TopologyAssumption, ProgramLen
<1>2. ASSUME k \in {"bootstrap", "reset"}, n < 6
      PROVE  /\ s.do = "delete"
             /\ \/ n = 1 /\ s.table = "chunks"
                \/ n = 2 /\ s.table = "blobs"
                \/ n = 3 /\ s.table = "discs"
                \/ n = 4 /\ s.table = "machines"
                \/ n = 5 /\ s.table = "workers"
  <2>1. s = WipeTopology[n] /\ n \in 1 .. 5
    BY <1>1, <1>2, BootstrapProgram, ResetProgram
  <2>2. n = 1 \/ n = 2 \/ n = 3 \/ n = 4 \/ n = 5
    BY <2>1
  <2> QED
    BY <2>1, <2>2, WipeIs
<1>3. ASSUME k = "bootstrap", n >= 6
      PROVE  s.do \in {"insert", "mkdir"}
  <2>1. s \in BuildStatements
    BY <1>1, <1>3, BootstrapProgram
  <2> QED
    BY <2>1 DEF BuildStatements, WorkerRow, MachineRow, DiscRow, Directory
<1>4. ASSUME k = "reset", n >= 6
      PROVE  n = 6 /\ s.do = "remove"
  BY <1>1, <1>4, ResetProgram
<1>5. ASSUME k = "cli_reset"
      PROVE  \/ n = 1 /\ s.do = "delete" /\ s.table = "discs"
             \/ n = 2 /\ s.do = "delete" /\ s.table = "machines"
             \/ n = 3 /\ s.do = "delete" /\ s.table = "workers"
             \/ n = 4 /\ s.do = "remove"
  <2>1. n \in 1 .. 4
    BY <1>5, CliResetProgram
  <2>2. n = 1 \/ n = 2 \/ n = 3 \/ n = 4
    BY <2>1
  <2> QED
    BY <1>5, <2>2, CliResetProgram
<1> QED
  BY <1>1, <1>2, <1>3, <1>4, <1>5

\* A wipe, and a reset to its end, builds nothing.
LEMMA NothingBuilt ==
    ASSUME NEW k \in Kinds, k \in {"bootstrap", "reset"}, NEW n \in Nat,
           n <= Len(ProgramOf(k)) + 1, n <= 6 \/ k = "reset",
           NEW j, NEW table
    PROVE  RowsIn(j, table, DoneBy(k, n)) = {} /\ DirsIn(j, DoneBy(k, n)) = {}
<1>1. Len(ProgramOf(k)) \in Nat
  BY ProgramLen
<1>2. ASSUME NEW q \in 1 .. n - 1
      PROVE  ProgramOf(k)[q].do \in {"delete", "remove"}
  <2>1. q \in 1 .. Len(ProgramOf(k)) /\ (q < 6 \/ k = "reset")
    BY <1>1
  <2>2. CASE q < 6
    BY <2>1, <2>2, Positions
  <2>3. CASE k = "reset" /\ ~ (q < 6)
    <3>1. q = 6
      BY <2>1, <2>3, Positions
    <3> QED
      BY <2>3, <3>1, ResetProgram
  <2> QED
    BY <2>1, <2>2, <2>3
<1>3. \A x \in DoneBy(k, n) : x.do \in {"delete", "remove"}
  BY <1>2 DEF DoneBy
<1>4. {x \in DoneBy(k, n) : x.do = "insert" /\ x.table = table} = {}
      /\ {x \in DoneBy(k, n) : x.do = "mkdir"} = {}
  BY <1>3
<1> QED
  BY <1>4 DEF RowsIn, DirsIn

\* A bootstrap at its end has built its topology.
LEMMA AllBuilt ==
    ASSUME NEW j \in Jobs, NEW n, n = Len(ProgramOf("bootstrap")) + 1
    PROVE  LET done == DoneBy("bootstrap", n)
           IN  /\ RowsIn(j, "workers", done) = Daemons(j)
               /\ RowsIn(j, "machines", done) = Topology(j)
               /\ RowsIn(j, "discs", done) = Topology(j)
               /\ DirsIn(j, done) = Topology(j)
<1> DEFINE done == DoneBy("bootstrap", n)
           sel(table) == {x \in done : x.do = "insert" /\ x.table = table}
<1>1. ProgramOf("bootstrap") \in Seq(Statements) /\ Len(ProgramOf("bootstrap")) \in Nat
  BY ProgramType
<1>2. done = Elements(ProgramOf("bootstrap"))
  BY <1>1 DEF DoneBy, Elements
<1>3. done = Elements(WipeTopology) \cup BuildStatements
  BY <1>2, BootstrapProgram
<1>4. \A x \in Elements(WipeTopology) : x.do = "delete"
  <2>1. WipeTopology \in Seq(DeleteStatements)
    BY WipeIs
  <2>2. \A q \in 1 .. Len(WipeTopology) : WipeTopology[q] \in DeleteStatements
    BY <2>1
  <2> QED
    BY <2>2 DEF Elements, DeleteStatements
<1>5. \A t : sel(t) = {x \in BuildStatements : x.do = "insert" /\ x.table = t}
  BY <1>3, <1>4
<1>6. /\ \A d \in DOMAIN MachineCount :
            WorkerRow(d).do = "insert" /\ WorkerRow(d).table = "workers" /\ WorkerRow(d).key = <<d>>
      /\ \A k \in Slots :
            /\ MachineRow(k).do = "insert" /\ MachineRow(k).table = "machines" /\ MachineRow(k).key = k
            /\ DiscRow(k).do = "insert" /\ DiscRow(k).table = "discs" /\ DiscRow(k).key = k
            /\ Directory(k).do = "mkdir" /\ Directory(k).key = k
  BY DEF WorkerRow, MachineRow, DiscRow, Directory
<1>7. /\ sel("workers") = {WorkerRow(d) : d \in DOMAIN MachineCount}
      /\ sel("machines") = {MachineRow(k) : k \in Slots}
      /\ sel("discs") = {DiscRow(k) : k \in Slots}
  <2> HIDE DEF sel
  <2> QED
    BY <1>5, <1>6 DEF BuildStatements
<1>8. {x \in done : x.do = "mkdir"} = {Directory(k) : k \in Slots}
  <2> HIDE DEF done
  <2> QED
    BY <1>3, <1>4, <1>6 DEF BuildStatements
<1> DEFINE f(x) == <<j>> \o x.key
<1>9. /\ \A t : RowsIn(j, t, done) = {f(s) : s \in sel(t)}
      /\ DirsIn(j, done) = {f(s) : s \in {x \in done : x.do = "mkdir"}}
  BY DEF RowsIn, DirsIn
<1>10. /\ Daemons(j) = {<<j>> \o <<d>> : d \in DOMAIN MachineCount}
       /\ Topology(j) = {<<j>> \o k : k \in Slots}
  BY Keys
<1>11. /\ \A d \in DOMAIN MachineCount : f(WorkerRow(d)) = <<j>> \o <<d>>
       /\ \A k \in Slots : /\ f(MachineRow(k)) = <<j>> \o k
                            /\ f(DiscRow(k)) = <<j>> \o k
                            /\ f(Directory(k)) = <<j>> \o k
  BY <1>6
<1> HIDE DEF sel, done, f
<1>12. RowsIn(j, "workers", done) = Daemons(j)
  <2>1. {f(s) : s \in sel("workers")} = {f(WorkerRow(d)) : d \in DOMAIN MachineCount}
    BY <1>7
  <2>2. {f(WorkerRow(d)) : d \in DOMAIN MachineCount} = {<<j>> \o <<d>> : d \in DOMAIN MachineCount}
    BY <1>11
  <2> QED
    BY <1>9, <1>10, <2>1, <2>2, Zenon
<1>13. RowsIn(j, "machines", done) = Topology(j)
  <2>1. {f(s) : s \in sel("machines")} = {f(MachineRow(k)) : k \in Slots}
    BY <1>7
  <2>2. {f(MachineRow(k)) : k \in Slots} = {<<j>> \o k : k \in Slots}
    BY <1>11
  <2> QED
    BY <1>9, <1>10, <2>1, <2>2, Zenon
<1>14. RowsIn(j, "discs", done) = Topology(j)
  <2>1. {f(s) : s \in sel("discs")} = {f(DiscRow(k)) : k \in Slots}
    BY <1>7
  <2>2. {f(DiscRow(k)) : k \in Slots} = {<<j>> \o k : k \in Slots}
    BY <1>11
  <2> QED
    BY <1>9, <1>10, <2>1, <2>2, Zenon
<1>15. DirsIn(j, done) = Topology(j)
  <2> DEFINE made == {x \in done : x.do = "mkdir"}
  <2>1. made = {Directory(k) : k \in Slots} /\ DirsIn(j, done) = {f(s) : s \in made}
    BY <1>8, <1>9
  <2> HIDE DEF made
  <2>2. {f(s) : s \in made} = {f(Directory(k)) : k \in Slots}
    BY <2>1
  <2>3. {f(Directory(k)) : k \in Slots} = {<<j>> \o k : k \in Slots}
    BY <1>11
  <2> QED
    BY <1>10, <2>1, <2>2, <2>3, Zenon
<1> QED
  BY <1>12, <1>13, <1>14, <1>15 DEF done

(***************************************************************************)
(* One job at a time                                                       *)
(***************************************************************************)

\* One job at a time, and "success" is said at the end of a program.
SerialInv ==
    /\ alive \subseteq {latest}
    /\ \A j \in Jobs : status[j] = "success" => line[j] = Len(ProgramOf(kind[j])) + 1

\* What the latest job has built so far.
DoneNow     == DoneBy(kind[latest], line[latest])
Built(table) == RowsIn(latest, table, DoneNow)
Made        == DirsIn(latest, DoneNow)

\* A table that was wiped has the rows the job has put there since.
WipeInv ==
    latest > 0 /\ kind[latest] \in {"bootstrap", "reset"} =>
        /\ line[latest] > 2 => rows["blobs"] \subseteq rows["chunks"]
        /\ line[latest] > 3 => rows["discs"] = Built("discs")
        /\ line[latest] > 4 => rows["machines"] = Built("machines")
        /\ line[latest] > 5 => rows["workers"] = Built("workers")
        /\ Made \subseteq dirs

\* Once a reset has no discs no chunk can be committed.
GoneInv ==
    latest > 0 /\ \/ kind[latest] = "reset" /\ line[latest] > 3
                  \/ kind[latest] = "cli_reset" /\ line[latest] > 1
        => rows["discs"] = {} /\ rows["chunks"] = {}

\* The discs of the latest job are there to stay, and so are the targets among
\* them.
OwnInv ==
    /\ rows["discs"] \cap Topology(latest) # {} => kind[latest] = "bootstrap" /\ line[latest] > 5
    /\ \A u \in Uploads :
          upc[u] # "idle" /\ target[u] \in Topology(latest) => target[u] \in rows["discs"]

\* A chunk that may still be committed has its bytes.
FilesInv ==
    /\ rows["chunks"] \subseteq files
    /\ \A u \in Uploads : upc[u] = "pushed" /\ target[u] \in rows["discs"] => u \in files

CoreInv == WipeInv /\ GoneInv /\ OwnInv /\ FilesInv

\* It holds in the beginning.
LEMMA SerialInit == Init => SerialInv
BY DEF Init, SerialInv

\* It is kept by every step as long as jobs wait for each other.
LEMMA SerialNext ==
    ASSUME ~OverlappingJobs, JobInv, SerialInv, [Next]_vars
    PROVE  SerialInv'
<1>1. \A i \in Jobs : /\ kind[i] \in Kinds \cup {"none"}
                      /\ i \in alive => status[i] # "success"
  BY DEF JobInv
<1>2. ASSUME NEW j \in Jobs, StartJob(j)
      PROVE  SerialInv'
  <2>1. /\ alive' = {j} /\ latest' = j /\ line' = line
        /\ status' = [status EXCEPT ![j] = "pending"]
        /\ \E k \in Kinds : kind' = [kind EXCEPT ![j] = k]
    BY <1>2 DEF StartJob
  <2>2. ASSUME NEW i \in Jobs, status'[i] = "success"
        PROVE  line'[i] = Len(ProgramOf(kind'[i])) + 1
    <3>1. i # j
      BY <2>1, <2>2 DEF JobInv
    <3>2. kind'[i] = kind[i] /\ status[i] = "success" /\ line'[i] = line[i]
      BY <2>1, <2>2, <3>1 DEF JobInv
    <3> QED
      BY <3>2 DEF SerialInv
  <2> QED
    BY <2>1, <2>2 DEF SerialInv
<1>3. ASSUME NEW j \in Jobs, JobStep(j)
      PROVE  SerialInv'
  <2>1. CASE MarkRunning(j)
    <3>1. /\ j \in alive /\ line' = [line EXCEPT ![j] = 1] /\ UNCHANGED <<kind, alive, latest>>
          /\ status' = [status EXCEPT ![j] = "running"] \/ status' = status
      BY <2>1 DEF MarkRunning, SetStatus
    <3> QED
      BY <1>1, <3>1 DEF SerialInv, JobInv
  <2>2. CASE Working(j) /\ Continue(j)
    <3>1. line' = [line EXCEPT ![j] = @ + 1] /\ UNCHANGED <<kind, status, alive, latest>>
      BY <2>2 DEF Continue
    <3>2. j \in alive
      BY <2>2 DEF Working
    <3> QED
      BY <1>1, <3>1, <3>2 DEF SerialInv, JobInv
  <2>3. CASE j \in alive /\ FailJob(j)
    <3>1. /\ alive' = alive \ {j} /\ UNCHANGED <<kind, line, latest>>
          /\ status' = [status EXCEPT ![j] = "failed"] \/ status' = status
      BY <2>3 DEF FailJob, SetStatus
    <3> QED
      BY <3>1 DEF SerialInv, JobInv
  <2>4. CASE FinishJob(j)
    <3>1. /\ AtEnd(j) /\ alive' = alive \ {j} /\ UNCHANGED <<kind, line, latest>>
          /\ status' = [status EXCEPT ![j] = "success"] \/ status' = status
      BY <2>4 DEF FinishJob, SetStatus
    <3>2. line[j] = Len(ProgramOf(kind[j])) + 1
      BY <3>1 DEF AtEnd, Program, ProgramOf
    <3> QED
      BY <3>1, <3>2 DEF SerialInv, JobInv
  <2> QED
    BY <1>3, <2>1, <2>2, <2>3, <2>4, JobSteps
<1>4. Restart => SerialInv'
  BY DEF Restart, SerialInv
<1>5. ASSUME NEW u \in Uploads, UploadStep(u)
      PROVE  UNCHANGED jobVars
  BY <1>5 DEF UploadStep, Place, Push, Commit, UploadFails
<1>6. UNCHANGED jobVars => SerialInv'
  BY DEF jobVars, SerialInv
<1>7. UNCHANGED vars => UNCHANGED jobVars
  BY DEF vars
<1> QED
  BY <1>2, <1>3, <1>4, <1>5, <1>6, <1>7 DEF Next

\* A step that leaves the jobs and the cluster alone, and lets uploads fail.
LEMMA CoreQuiet ==
    ASSUME CoreInv, UNCHANGED <<kind, line, latest, rows, dirs, files, target>>,
           \A u \in Uploads : upc'[u] = upc[u] \/ (upc'[u] = "failed" /\ upc[u] # "idle")
    PROVE  CoreInv'
<1>1. WipeInv' /\ GoneInv'
  BY DEF CoreInv, WipeInv, GoneInv, Built, Made, DoneNow
<1>2. OwnInv' /\ FilesInv'
  BY DEF CoreInv, OwnInv, FilesInv, Topology
<1> QED
  BY <1>1, <1>2 DEF CoreInv

\* The statement the latest job is at, and what doing it adds.
LEMMA LatestAt ==
    ASSUME JobInv, SerialInv, NEW j \in Jobs, Working(j)
    PROVE  LET k == kind[j]
               n == line[j]
               s == Now(j)
           IN  /\ j = latest /\ latest > 0 /\ latest \in Jobs
               /\ k \in Kinds /\ n \in Nat /\ n >= 1
               /\ n \in 1 .. Len(ProgramOf(k)) /\ s = ProgramOf(k)[n]
               /\ DoneBy(k, n + 1) = DoneBy(k, n) \cup {s}
<1>1. j \in alive /\ kind[j] \in Kinds /\ line[j] \in 1 .. Len(ProgramOf(kind[j]))
      /\ Now(j) = ProgramOf(kind[j])[line[j]]
  BY AtStatement
<1>2. j = latest /\ latest > 0 /\ latest \in Jobs
  BY <1>1 DEF SerialInv, Jobs
<1>3. line[j] \in Nat /\ line[j] >= 1
  BY <1>1
<1>4. DoneBy(kind[j], line[j] + 1) = DoneBy(kind[j], line[j]) \cup {Now(j)}
  BY <1>1, <1>3, DoneNext
<1> QED
  BY <1>1, <1>2, <1>3, <1>4

\* The discs of a job that starts are in no table yet.
LEMMA CoreStart ==
    ASSUME ~OverlappingJobs, TypeInv, CoreInv, NEW j \in Jobs, StartJob(j)
    PROVE  CoreInv'
<1>1. /\ j = latest + 1 /\ latest' = j /\ line' = line
      /\ UNCHANGED <<rows, dirs, files, upc, target>> /\ latest \in Nat
  BY TopologyAssumption DEF StartJob, uploadVars, TypeInv, JobInv
<1>2. line'[latest'] = 0
  BY <1>1 DEF TypeInv, JobInv
<1>3. Made' = {}
  <2>1. DoneNow' = DoneBy(kind'[latest'], 0)
    BY <1>2 DEF DoneNow
  <2>2. DoneNow' = {}
    BY <2>1, DoneNone
  <2> QED
    BY <2>2 DEF Made, DirsIn
<1>4. \A m \in StartedMachines : m \notin Topology(j)
  <2>1. ASSUME NEW i \in Started, NEW m \in Topology(i)
        PROVE  m \notin Topology(j)
    <3>1. i \in Jobs /\ i # j
      BY <1>1 DEF Started, Jobs
    <3> QED
      BY <3>1, Keys
  <2> QED
    BY <2>1 DEF StartedMachines
<1>5. WipeInv' /\ GoneInv'
  BY <1>2, <1>3 DEF WipeInv, GoneInv
<1>6. OwnInv'
  <2>1. Topology(latest)' = Topology(j)
    BY <1>1 DEF Topology
  <2>2. rows["discs"] \subseteq StartedMachines
        /\ \A u \in Uploads : upc[u] # "idle" => target[u] \in StartedMachines
    BY DEF TypeInv, RowInv, UploadInv, StartedMachines
  <2> QED
    BY <1>1, <1>4, <2>1, <2>2 DEF OwnInv
<1>7. FilesInv'
  BY <1>1 DEF CoreInv, FilesInv
<1> QED
  BY <1>5, <1>6, <1>7 DEF CoreInv

\* The job enters its program.
LEMMA CoreMarkRunning ==
    ASSUME TypeInv, SerialInv, CoreInv, NEW j \in Jobs, MarkRunning(j)
    PROVE  CoreInv'
<1>1. /\ j \in alive /\ line[j] = 0 /\ line' = [line EXCEPT ![j] = 1]
      /\ UNCHANGED <<kind, latest, rows, dirs, files, upc, target>>
  BY DEF MarkRunning, uploadVars
<1>2. j = latest
  BY <1>1 DEF SerialInv
<1>3. line'[latest'] = 1
  BY <1>1, <1>2 DEF TypeInv, JobInv
<1>4. Made' = {}
  <2>1. DoneNow' = DoneBy(kind'[latest'], 1)
    BY <1>3 DEF DoneNow
  <2>2. DoneNow' = {}
    BY <2>1, DoneNone
  <2> QED
    BY <2>2 DEF Made, DirsIn
<1>5. WipeInv' /\ GoneInv'
  BY <1>3, <1>4 DEF WipeInv, GoneInv
<1>6. OwnInv'
  BY <1>1, <1>2 DEF CoreInv, OwnInv, Topology
<1>7. FilesInv'
  BY <1>1 DEF CoreInv, FilesInv
<1> QED
  BY <1>5, <1>6, <1>7 DEF CoreInv

\* A statement was done: what Built and Made become.
LEMMA StatementDone ==
    ASSUME JobInv, SerialInv, NEW j \in Jobs, Working(j), Continue(j)
    PROVE  LET s == Now(j)
           IN  /\ j = latest /\ latest > 0 /\ latest' = latest /\ kind' = kind
               /\ line'[latest] = line[latest] + 1
               /\ DoneNow' = DoneNow \cup {s}
               /\ \A t \in Tables :
                    Built(t)' = IF s.do = "insert" /\ s.table = t
                                THEN Built(t) \cup {<<j>> \o s.key} ELSE Built(t)
               /\ Made' = IF s.do = "mkdir" THEN Made \cup {<<j>> \o s.key} ELSE Made
<1>1. /\ j = latest /\ latest > 0 /\ latest \in Jobs
      /\ DoneBy(kind[j], line[j] + 1) = DoneBy(kind[j], line[j]) \cup {Now(j)}
  BY LatestAt
<1>2. /\ latest' = latest /\ kind' = kind /\ line' = [line EXCEPT ![j] = @ + 1]
  BY DEF Continue
<1>3. line'[latest] = line[latest] + 1
  BY <1>1, <1>2 DEF JobInv
<1>4. DoneNow' = DoneNow \cup {Now(j)}
  BY <1>1, <1>2, <1>3 DEF DoneNow
<1> DEFINE s == Now(j)
           D == DoneNow
<1>5. /\ \A t \in Tables : Built(t)' = RowsIn(j, t, D \cup {s}) /\ Built(t) = RowsIn(j, t, D)
      /\ Made' = DirsIn(j, D \cup {s}) /\ Made = DirsIn(j, D)
  BY <1>1, <1>2, <1>4 DEF Built, Made
<1> HIDE DEF s, D
<1>8. PICK d : d = D
  OBVIOUS
<1>9. PICK z : z = s
  OBVIOUS
<1>6. \A t \in Tables : Built(t)' = IF s.do = "insert" /\ s.table = t
                                    THEN Built(t) \cup {<<j>> \o s.key} ELSE Built(t)
  <2>1. ASSUME NEW t \in Tables
        PROVE  Built(t)' = IF s.do = "insert" /\ s.table = t
                           THEN Built(t) \cup {<<j>> \o s.key} ELSE Built(t)
    <3>1. RowsIn(j, t, d \cup {z}) = RowsIn(j, t, d) \cup RowsIn(j, t, {z})
      <4> DEFINE sel(x) == {y \in x : y.do = "insert" /\ y.table = t}
                 f(x) == <<j>> \o x.key
      <4>1. sel(d \cup {z}) = sel(d) \cup sel({z})
        OBVIOUS
      <4>2. \A x : RowsIn(j, t, x) = {f(y) : y \in sel(x)}
        BY DEF RowsIn
      <4> HIDE DEF sel, f
      <4>3. {f(y) : y \in sel(d) \cup sel({z})}
              = {f(y) : y \in sel(d)} \cup {f(y) : y \in sel({z})}
        OBVIOUS
      <4> QED
        BY <4>1, <4>2, <4>3
    <3>2. ASSUME z.do = "insert", z.table = t
          PROVE  RowsIn(j, t, {z}) = {<<j>> \o z.key}
      <4>1. {x \in {z} : x.do = "insert" /\ x.table = t} = {z}
        BY <3>2
      <4> QED
        BY <4>1 DEF RowsIn
    <3>3. ASSUME ~ (z.do = "insert" /\ z.table = t)
          PROVE  RowsIn(j, t, {z}) = {}
      <4>1. {x \in {z} : x.do = "insert" /\ x.table = t} = {}
        BY <3>3
      <4> QED
        BY <4>1 DEF RowsIn
    <3> QED
      BY <1>5, <1>8, <1>9, <3>1, <3>2, <3>3
  <2> QED
    BY <2>1
<1>7. Made' = IF s.do = "mkdir" THEN Made \cup {<<j>> \o s.key} ELSE Made
  <2>1. ASSUME z.do = "mkdir"
        PROVE  DirsIn(j, d \cup {z}) = DirsIn(j, d) \cup {<<j>> \o z.key}
    BY <2>1, DirAdded, Zenon
  <2>2. ASSUME z.do # "mkdir"
        PROVE  DirsIn(j, d \cup {z}) = DirsIn(j, d)
    BY <2>2, NoDirAdded, Zenon
  <2> QED
    BY <1>5, <1>8, <1>9, <2>1, <2>2
<1> QED
  BY <1>1, <1>2, <1>3, <1>4, <1>6, <1>7 DEF s, D

\* A table is wiped: what it held before has no part in the rest.
LEMMA CoreDelete ==
    ASSUME TypeInv, SerialInv, CoreInv, NEW j \in Jobs, DeleteRows(j)
    PROVE  CoreInv'
<1>1. Working(j) /\ Now(j).do = "delete" /\ UNCHANGED <<dirs, files, upc, target>>
  BY DEF DeleteRows, IsAt, uploadVars
<1>2. CASE ~ MayDelete(Now(j).table)
  <2>1. UNCHANGED <<kind, line, latest, rows>>
    BY <1>2 DEF DeleteRows, FailJob
  <2> QED
    BY <1>1, <2>1, CoreQuiet
<1>3. CASE MayDelete(Now(j).table)
  <2>1. rows' = [rows EXCEPT ![Now(j).table] = {}] /\ Continue(j)
    BY <1>3 DEF DeleteRows
  <2> DEFINE k == kind[latest]
             n == line[latest]
             s == Now(j)
             t == s.table
  <2>2. /\ j = latest /\ latest > 0 /\ latest' = latest /\ kind' = kind
        /\ line'[latest] = n + 1
        /\ \A x \in Tables : Built(x)' = Built(x)
        /\ Made' = Made
    BY <1>1, <2>1, StatementDone DEF TypeInv
  <2>3. k \in Kinds /\ n \in 1 .. Len(ProgramOf(k)) /\ s = ProgramOf(k)[n]
        /\ n \in Nat /\ n >= 1
    BY <1>1, LatestAt DEF TypeInv
  <2> HIDE DEF k, n, s
  <2>4. \/ k \in {"bootstrap", "reset"} /\
              \/ n = 1 /\ t = "chunks"
              \/ n = 2 /\ t = "blobs"
              \/ n = 3 /\ t = "discs"
              \/ n = 4 /\ t = "machines"
              \/ n = 5 /\ t = "workers"
        \/ k = "cli_reset" /\
              \/ n = 1 /\ t = "discs"
              \/ n = 2 /\ t = "machines"
              \/ n = 3 /\ t = "workers"
    <3>1. s.do = "delete"
      BY <1>1 DEF s
    <3> QED
      BY <2>3, <3>1, Positions
  <2>5. /\ rows = [x \in Tables |-> rows[x]] /\ t \in Tables
        /\ {"chunks", "blobs", "discs", "machines", "workers"} \subseteq Tables
    BY <2>4 DEF TypeInv, RowInv, Tables
  <2>6. \A x \in Tables : rows'[x] = IF x = t THEN {} ELSE rows[x]
    BY <2>1, <2>5 DEF s
  <2>7. k \in {"bootstrap", "reset"} /\ n < 6 => \A x \in Tables : Built(x) = {}
    <3>1. ASSUME k \in {"bootstrap", "reset"}, n < 6, NEW x \in Tables
          PROVE  Built(x) = {}
      <4>1. RowsIn(latest, x, DoneBy(k, n)) = {}
        BY <2>3, <3>1, ProgramLen, NothingBuilt
      <4> QED
        BY <4>1 DEF Built, DoneNow, k, n
    <3> QED
      BY <3>1
  <2> DEFINE b(x) == Built(x)
             b2(x) == Built(x)'
  <2>8. WipeInv'
    <3>1. WipeInv
      BY DEF CoreInv
    <3>2. SUFFICES ASSUME k \in {"bootstrap", "reset"}
                   PROVE  /\ n + 1 > 2 => rows'["blobs"] \subseteq rows'["chunks"]
                          /\ n + 1 > 3 => rows'["discs"] = Built("discs")'
                          /\ n + 1 > 4 => rows'["machines"] = Built("machines")'
                          /\ n + 1 > 5 => rows'["workers"] = Built("workers")'
                          /\ Made' \subseteq dirs'
      BY <2>2 DEF WipeInv, k, n
    <3>3. /\ n > 2 => rows["blobs"] \subseteq rows["chunks"]
          /\ n > 3 => rows["discs"] = Built("discs")
          /\ n > 4 => rows["machines"] = Built("machines")
          /\ Made \subseteq dirs
      BY <2>2, <3>1, <3>2 DEF WipeInv, k, n
    <3>4. /\ Built("discs")' = {} /\ Built("machines")' = {} /\ Built("workers")' = {}
          /\ Built("discs") = {} /\ Built("machines") = {}
      BY <2>2, <2>4, <2>5, <2>7, <3>2
    <3>5. Made' \subseteq dirs'
      BY <1>1, <2>2, <3>3
    <3>6. n \in {1, 2, 3, 4, 5}
      BY <2>4, <3>2
    <3> QED
      BY <2>4, <2>5, <2>6, <3>2, <3>3, <3>4, <3>5, <3>6
  <2>9. GoneInv'
    <3>1. GoneInv
      BY DEF CoreInv
    <3>2. SUFFICES ASSUME (k = "reset" /\ n + 1 > 3) \/ (k = "cli_reset" /\ n + 1 > 1)
                   PROVE  rows'["discs"] = {} /\ rows'["chunks"] = {}
      BY <2>2 DEF GoneInv, k, n
    <3>3. CASE t = "discs"
      <4>1. rows["chunks"] = {}
        BY <1>3, <3>3 DEF MayDelete, Referrers, s
      <4> QED
        BY <2>5, <2>6, <3>3, <4>1
    <3>4. CASE t # "discs"
      <4>1. (k = "reset" /\ n > 3) \/ (k = "cli_reset" /\ n > 1)
        BY <2>3, <2>4, <3>2, <3>4
      <4>2. rows["discs"] = {} /\ rows["chunks"] = {}
        BY <2>2, <3>1, <4>1 DEF GoneInv, k, n
      <4> QED
        BY <2>5, <2>6, <4>2
    <3> QED
      BY <3>3, <3>4
  <2>10. OwnInv'
    <3>1. rows["discs"] \cap Topology(latest) = {}
      BY <2>4 DEF CoreInv, OwnInv, k, n
    <3>2. rows'["discs"] \subseteq rows["discs"]
      BY <2>5, <2>6
    <3>3. \A u \in Uploads : ~ (upc[u] # "idle" /\ target[u] \in Topology(latest))
      BY <3>1 DEF CoreInv, OwnInv
    <3> QED
      BY <1>1, <2>2, <3>1, <3>2, <3>3 DEF OwnInv, Topology
  <2>11. FilesInv'
    <3>1. rows'["discs"] \subseteq rows["discs"] /\ rows'["chunks"] \subseteq rows["chunks"]
      BY <2>5, <2>6
    <3> QED
      BY <1>1, <3>1 DEF CoreInv, FilesInv
  <2> QED
    BY <2>8, <2>9, <2>10, <2>11 DEF CoreInv
<1> QED
  BY <1>2, <1>3

\* A row is added to the table and to what the job has built.
LEMMA CoreInsert ==
    ASSUME TypeInv, SerialInv, CoreInv, NEW j \in Jobs, InsertRow(j)
    PROVE  CoreInv'
<1>1. /\ IsAt(j, "insert") /\ Working(j) /\ Now(j).do = "insert"
      /\ UNCHANGED <<dirs, files, upc, target>>
  BY DEF InsertRow, IsAt, uploadVars
<1>2. CASE ~ MayInsert(j, Now(j).table, Now(j).key)
  <2>1. UNCHANGED <<kind, line, latest, rows>>
    BY <1>2 DEF InsertRow, FailJob
  <2> QED
    BY <1>1, <2>1, CoreQuiet
<1>3. CASE MayInsert(j, Now(j).table, Now(j).key)
  <2> DEFINE k == kind[latest]
             n == line[latest]
             s == Now(j)
             t == s.table
             r == <<j>> \o s.key
  <2>1. rows' = [rows EXCEPT ![t] = @ \cup {r}] /\ Continue(j)
    BY <1>3 DEF InsertRow
  <2>2. /\ j = latest /\ latest > 0 /\ latest' = latest /\ kind' = kind
        /\ line'[latest] = n + 1
        /\ \A x \in Tables : Built(x)' = IF s.do = "insert" /\ t = x THEN Built(x) \cup {r} ELSE Built(x)
        /\ Made' = IF s.do = "mkdir" THEN Made \cup {r} ELSE Made
    BY <1>1, <2>1, StatementDone DEF TypeInv
  <2>3. k \in Kinds /\ n \in 1 .. Len(ProgramOf(k)) /\ s = ProgramOf(k)[n] /\ n \in Nat
    BY <1>1, LatestAt DEF TypeInv
  <2>4. \/ t = "workers" /\ r \in Daemons(j)
        \/ t \in {"machines", "discs"} /\ r \in Topology(j)
    BY <1>1, InsertIs DEF TypeInv
  <2>5. s.do = "insert"
    BY <1>1
  <2> HIDE DEF k, n, s, r
  <2>6. k = "bootstrap" /\ n > 5
    BY <2>3, <2>5, Positions
  <2>7. /\ rows = [x \in Tables |-> rows[x]] /\ t \in Tables
        /\ {"chunks", "blobs", "discs", "machines", "workers"} \subseteq Tables
    BY <2>4 DEF TypeInv, RowInv, Tables
  <2>8. \A x \in Tables : /\ rows'[x] = IF x = t THEN rows[x] \cup {r} ELSE rows[x]
                          /\ Built(x)' = IF x = t THEN Built(x) \cup {r} ELSE Built(x)
    BY <2>1, <2>2, <2>5, <2>7
  <2>9. Made' = Made
    BY <2>2, <2>5
  <2>10. WipeInv'
    <3>1. /\ rows["blobs"] \subseteq rows["chunks"]
          /\ rows["discs"] = Built("discs")
          /\ rows["machines"] = Built("machines")
          /\ rows["workers"] = Built("workers")
          /\ Made \subseteq dirs
      BY <2>2, <2>3, <2>6 DEF CoreInv, WipeInv, k, n
    <3>2. /\ rows'["discs"] = Built("discs")'
          /\ rows'["machines"] = Built("machines")'
          /\ rows'["workers"] = Built("workers")'
      BY <2>7, <2>8, <3>1
    <3>3. rows'["blobs"] \subseteq rows'["chunks"]
      BY <2>4, <2>7, <2>8, <3>1
    <3> QED
      BY <1>1, <2>9, <3>1, <3>2, <3>3 DEF WipeInv
  <2>11. GoneInv'
    BY <2>2, <2>6 DEF GoneInv, k
  <2>12. OwnInv'
    <3>1. k' = "bootstrap" /\ n' > 5
      BY <2>2, <2>3, <2>6 DEF k, n
    <3>2. rows["discs"] \subseteq rows'["discs"]
      BY <2>7, <2>8
    <3>3. Topology(latest)' = Topology(latest)
      BY <2>2 DEF Topology
    <3> QED
      BY <1>1, <3>1, <3>2, <3>3 DEF CoreInv, OwnInv, k, n
  <2>13. FilesInv'
    <3>1. rows'["chunks"] = rows["chunks"]
      BY <2>4, <2>7, <2>8
    <3>2. ASSUME NEW u \in Uploads, upc[u] = "pushed", target[u] \in rows'["discs"]
          PROVE  u \in files
      <4>1. target[u] \in rows["discs"]
        <5>1. CASE target[u] \in rows["discs"]
          BY <5>1
        <5>2. CASE t = "discs" /\ target[u] = r
          BY <2>2, <2>4, <3>2, <5>2 DEF CoreInv, OwnInv
        <5> QED
          BY <2>7, <2>8, <3>2, <5>1, <5>2
      <4> QED
        BY <3>2, <4>1 DEF CoreInv, FilesInv
    <3> QED
      BY <1>1, <3>1, <3>2 DEF CoreInv, FilesInv
  <2> QED
    BY <2>10, <2>11, <2>12, <2>13 DEF CoreInv
<1> QED
  BY <1>2, <1>3

\* A directory is added.
LEMMA CoreMakeDir ==
    ASSUME TypeInv, SerialInv, CoreInv, NEW j \in Jobs, MakeDir(j)
    PROVE  CoreInv'
<1> DEFINE k == kind[latest]
           n == line[latest]
           s == Now(j)
           r == <<j>> \o s.key
<1>1. /\ Working(j) /\ s.do = "mkdir" /\ dirs' = dirs \cup {r} /\ Continue(j)
      /\ UNCHANGED <<rows, files, upc, target>>
  BY DEF MakeDir, IsAt, uploadVars
<1>2. /\ j = latest /\ latest > 0 /\ latest' = latest /\ kind' = kind
      /\ line'[latest] = n + 1
      /\ \A x \in Tables : Built(x)' = IF s.do = "insert" /\ s.table = x
                                       THEN Built(x) \cup {r} ELSE Built(x)
      /\ Made' = IF s.do = "mkdir" THEN Made \cup {r} ELSE Made
  BY <1>1, StatementDone DEF TypeInv
<1>3. k \in Kinds /\ n \in 1 .. Len(ProgramOf(k)) /\ s = ProgramOf(k)[n] /\ n \in Nat
  BY <1>1, LatestAt DEF TypeInv
<1> HIDE DEF k, n, s, r
<1>4. k = "bootstrap" /\ n > 5
  BY <1>1, <1>3, Positions
<1>5. /\ \A x \in Tables : Built(x)' = Built(x)
      /\ Made' = Made \cup {r}
      /\ {"discs", "machines", "workers"} \subseteq Tables
  BY <1>1, <1>2 DEF Tables
<1>6. WipeInv'
  <2>1. /\ rows["blobs"] \subseteq rows["chunks"]
        /\ rows["discs"] = Built("discs")
        /\ rows["machines"] = Built("machines")
        /\ rows["workers"] = Built("workers")
        /\ Made \subseteq dirs
    BY <1>2, <1>3, <1>4 DEF CoreInv, WipeInv, k, n
  <2>2. /\ rows'["discs"] = Built("discs")'
        /\ rows'["machines"] = Built("machines")'
        /\ rows'["workers"] = Built("workers")'
    BY <1>1, <1>5, <2>1
  <2> QED
    BY <1>1, <1>5, <2>1, <2>2 DEF WipeInv
<1>7. GoneInv'
  BY <1>2, <1>4 DEF GoneInv, k
<1>8. OwnInv'
  <2>1. k' = "bootstrap" /\ n' > 5
    BY <1>2, <1>3, <1>4 DEF k, n
  <2>2. Topology(latest)' = Topology(latest)
    BY <1>2 DEF Topology
  <2> QED
    BY <1>1, <2>1, <2>2 DEF CoreInv, OwnInv, k, n
<1>9. FilesInv'
  BY <1>1 DEF CoreInv, FilesInv
<1> QED
  BY <1>6, <1>7, <1>8, <1>9 DEF CoreInv

\* The directory of the cluster goes when there is no chunk left to lose.
LEMMA CoreRemove ==
    ASSUME TypeInv, SerialInv, CoreInv, NEW j \in Jobs, RemoveAll(j)
    PROVE  CoreInv'
<1> DEFINE k == kind[latest]
           n == line[latest]
           s == Now(j)
<1>1. /\ Working(j) /\ s.do = "remove" /\ dirs' = {} /\ files' = {} /\ Continue(j)
      /\ UNCHANGED <<rows, upc, target>>
  BY DEF RemoveAll, IsAt, uploadVars
<1>2. /\ j = latest /\ latest > 0 /\ latest' = latest /\ kind' = kind
      /\ line'[latest] = n + 1
      /\ \A x \in Tables : Built(x)' = IF s.do = "insert" /\ s.table = x
                                       THEN Built(x) \cup {<<j>> \o s.key} ELSE Built(x)
      /\ Made' = IF s.do = "mkdir" THEN Made \cup {<<j>> \o s.key} ELSE Made
  BY <1>1, StatementDone DEF TypeInv
<1>3. k \in Kinds /\ n \in 1 .. Len(ProgramOf(k)) /\ s = ProgramOf(k)[n] /\ n \in Nat
  BY <1>1, LatestAt DEF TypeInv
<1> HIDE DEF k, n, s
<1>4. (k = "reset" /\ n = 6) \/ (k = "cli_reset" /\ n = 4)
  BY <1>1, <1>3, Positions
<1>5. rows["discs"] = {} /\ rows["chunks"] = {}
  BY <1>2, <1>4 DEF CoreInv, GoneInv, k, n
<1>6. k' = k /\ n' = n + 1
  BY <1>2 DEF k, n
<1>7. /\ \A x \in Tables : Built(x)' = Built(x)
      /\ Made' = Made
      /\ {"discs", "machines", "workers"} \subseteq Tables
  BY <1>1, <1>2 DEF Tables
<1>8. WipeInv'
  <2>1. CASE k = "reset" /\ n = 6
    <3>1. /\ rows["blobs"] \subseteq rows["chunks"]
          /\ rows["discs"] = Built("discs")
          /\ rows["machines"] = Built("machines")
          /\ rows["workers"] = Built("workers")
      BY <1>2, <2>1 DEF CoreInv, WipeInv, k, n
    <3>2. /\ rows'["discs"] = Built("discs")'
          /\ rows'["machines"] = Built("machines")'
          /\ rows'["workers"] = Built("workers")'
      BY <1>1, <1>7, <3>1
    <3>3. Made = {}
      <4>1. DirsIn(latest, DoneBy("reset", 6)) = {}
        <5>1. "reset" \in Kinds /\ 6 <= Len(ProgramOf("reset")) + 1
          BY <1>3, <2>1, ResetProgram
        <5>2. RowsIn(latest, "discs", DoneBy("reset", 6)) = {}
              /\ DirsIn(latest, DoneBy("reset", 6)) = {}
          BY <5>1, NothingBuilt
        <5> QED
          BY <5>2
      <4> QED
        BY <2>1, <4>1 DEF Made, DoneNow, k, n
    <3> QED
      BY <1>1, <1>7, <3>1, <3>2, <3>3 DEF WipeInv
  <2>2. CASE k = "cli_reset"
    BY <1>6, <2>2 DEF WipeInv, k
  <2> QED
    BY <1>4, <2>1, <2>2
<1>9. GoneInv'
  BY <1>1, <1>5 DEF GoneInv
<1>10. OwnInv'
  <2>1. Topology(latest)' = Topology(latest)
    BY <1>2 DEF Topology
  <2> QED
    BY <1>1, <1>5, <2>1 DEF CoreInv, OwnInv
<1>11. FilesInv'
  BY <1>1, <1>5 DEF FilesInv
<1> QED
  BY <1>8, <1>9, <1>10, <1>11 DEF CoreInv

\* An upload is given a disc that is there.
LEMMA CorePlace ==
    ASSUME TypeInv, CoreInv, NEW u \in Uploads, Place(u)
    PROVE  CoreInv'
<1>1. PICK m \in Candidates : target' = [target EXCEPT ![u] = m]
  BY DEF Place
<1>2. /\ upc' = [upc EXCEPT ![u] = "placed"] /\ UNCHANGED <<kind, line, latest, rows, dirs, files>>
  BY DEF Place, jobVars
<1>3. m \in rows["discs"]
  BY DEF Candidates
<1>4. \A v \in Uploads : IF v = u THEN target'[v] = m /\ upc'[v] = "placed"
                         ELSE target'[v] = target[v] /\ upc'[v] = upc[v]
  BY <1>1, <1>2 DEF TypeInv, UploadInv
<1>5. WipeInv' /\ GoneInv'
  BY <1>2 DEF CoreInv, WipeInv, GoneInv, Built, Made, DoneNow
<1>6. OwnInv'
  BY <1>2, <1>3, <1>4 DEF CoreInv, OwnInv, Topology
<1>7. FilesInv'
  BY <1>2, <1>4 DEF CoreInv, FilesInv
<1> QED
  BY <1>5, <1>6, <1>7 DEF CoreInv

\* A chunk is written.
LEMMA CorePush ==
    ASSUME TypeInv, CoreInv, NEW u \in Uploads, Push(u)
    PROVE  CoreInv'
<1>1. /\ upc[u] = "placed" /\ upc' = [upc EXCEPT ![u] = "pushed"]
      /\ dirs' = dirs \cup {target[u]} /\ files' = files \cup {u}
      /\ UNCHANGED <<kind, line, latest, rows, target>>
  BY DEF Push, jobVars
<1>2. \A v \in Uploads : upc'[v] = IF v = u THEN "pushed" ELSE upc[v]
  BY <1>1 DEF TypeInv, UploadInv
<1>3. WipeInv' /\ GoneInv'
  BY <1>1 DEF CoreInv, WipeInv, GoneInv, Built, Made, DoneNow
<1>4. OwnInv'
  BY <1>1, <1>2 DEF CoreInv, OwnInv, Topology
<1>5. FilesInv'
  BY <1>1, <1>2 DEF CoreInv, FilesInv
<1> QED
  BY <1>3, <1>4, <1>5 DEF CoreInv

\* A chunk is committed to a disc that is still there, so its bytes are.
LEMMA CoreCommit ==
    ASSUME TypeInv, CoreInv, NEW u \in Uploads, Commit(u)
    PROVE  CoreInv'
<1> DEFINE stands == target[u] \in rows["discs"] /\ <<target[u][1], target[u][2]>> \in rows["workers"]
<1>1. upc[u] = "pushed" /\ UNCHANGED <<kind, line, latest, dirs, files, target>>
  BY DEF Commit, jobVars
<1>2. CASE ~ stands
  <2>1. upc' = [upc EXCEPT ![u] = "failed"] /\ UNCHANGED rows
    BY <1>2 DEF Commit
  <2>2. \A v \in Uploads : upc'[v] = upc[v] \/ (upc'[v] = "failed" /\ upc[v] # "idle")
    BY <1>1, <2>1 DEF TypeInv, UploadInv
  <2> QED
    BY <1>1, <2>1, <2>2, CoreQuiet
<1>3. CASE stands
  <2>1. /\ rows' = [rows EXCEPT !["blobs"] = @ \cup {u}, !["chunks"] = @ \cup {u}]
        /\ upc' = [upc EXCEPT ![u] = "stored"]
    BY <1>3 DEF Commit
  <2>2. /\ rows = [x \in Tables |-> rows[x]]
        /\ {"chunks", "blobs", "discs", "machines", "workers"} \subseteq Tables
    BY DEF TypeInv, RowInv, Tables
  <2>3. /\ rows'["blobs"] = rows["blobs"] \cup {u} /\ rows'["chunks"] = rows["chunks"] \cup {u}
        /\ rows'["discs"] = rows["discs"] /\ rows'["machines"] = rows["machines"]
        /\ rows'["workers"] = rows["workers"]
    BY <2>1, <2>2
  <2>4. \A v \in Uploads : upc'[v] = IF v = u THEN "stored" ELSE upc[v]
    BY <2>1 DEF TypeInv, UploadInv
  <2>5. u \in files
    BY <1>1, <1>3 DEF CoreInv, FilesInv
  <2>6. WipeInv'
    <3>1. /\ \A x : Built(x)' = Built(x)
          /\ Made' = Made
      BY <1>1 DEF Built, Made, DoneNow
    <3> HIDE DEF stands
    <3> QED
      BY <1>1, <2>3, <3>1 DEF CoreInv, WipeInv
  <2>7. GoneInv'
    BY <1>1, <1>3, <2>3 DEF CoreInv, GoneInv
  <2>8. OwnInv'
    BY <1>1, <2>3, <2>4 DEF CoreInv, OwnInv, Topology
  <2>9. FilesInv'
    BY <1>1, <2>3, <2>4, <2>5 DEF CoreInv, FilesInv
  <2> QED
    BY <2>6, <2>7, <2>8, <2>9 DEF CoreInv
<1> QED
  BY <1>2, <1>3

\* They hold in the beginning.
LEMMA CoreInit == Init => CoreInv
<1> SUFFICES ASSUME Init PROVE CoreInv
  OBVIOUS
<1>1. {"chunks", "discs"} \subseteq Tables
  BY DEF Tables
<1> QED
  BY <1>1 DEF Init, CoreInv, WipeInv, GoneInv, OwnInv, FilesInv

\* Every step keeps them, one case for each action.
LEMMA CoreNext ==
    ASSUME ~OverlappingJobs, TypeInv, SerialInv, CoreInv, [Next]_vars
    PROVE  CoreInv'
<1>1. ASSUME NEW j \in Jobs, StartJob(j)
      PROVE  CoreInv'
  BY <1>1, CoreStart
<1>2. ASSUME NEW j \in Jobs, JobStep(j)
      PROVE  CoreInv'
  <2>1. CASE MarkRunning(j)
    BY <2>1, CoreMarkRunning
  <2>2. CASE DeleteRows(j)
    BY <2>2, CoreDelete
  <2>3. CASE InsertRow(j)
    BY <2>3, CoreInsert
  <2>4. CASE MakeDir(j)
    BY <2>4, CoreMakeDir
  <2>5. CASE RemoveAll(j)
    BY <2>5, CoreRemove
  <2>6. CASE StatementFails(j) \/ FinishJob(j)
    <3>1. UNCHANGED <<kind, line, latest, rows, dirs, files, target, upc>>
      BY <2>6 DEF StatementFails, FinishJob, FailJob, uploadVars
    <3> QED
      BY <3>1, CoreQuiet
  <2> QED
    BY <1>2, <2>1, <2>2, <2>3, <2>4, <2>5, <2>6 DEF JobStep
<1>3. ASSUME NEW u \in Uploads, UploadStep(u)
      PROVE  CoreInv'
  <2>1. CASE UploadFails(u)
    <3>1. /\ upc[u] \in {"placed", "pushed"} /\ upc' = [upc EXCEPT ![u] = "failed"]
          /\ UNCHANGED <<kind, line, latest, rows, dirs, files, target>>
      BY <2>1 DEF UploadFails, jobVars
    <3>2. \A v \in Uploads : upc'[v] = upc[v] \/ (upc'[v] = "failed" /\ upc[v] # "idle")
      BY <3>1 DEF TypeInv, UploadInv
    <3> QED
      BY <3>1, <3>2, CoreQuiet
  <2> QED
    BY <1>3, <2>1, CorePlace, CorePush, CoreCommit DEF UploadStep
<1>4. CASE Restart
  <2>1. UNCHANGED <<kind, line, latest, rows, dirs, files, target>>
    BY <1>4 DEF Restart
  <2>2. \A v \in Uploads : upc'[v] = upc[v] \/ (upc'[v] = "failed" /\ upc[v] # "idle")
    BY <1>4 DEF Restart, TypeInv, UploadInv
  <2> QED
    BY <2>1, <2>2, CoreQuiet
<1>5. CASE UNCHANGED vars
  <2>1. UNCHANGED <<kind, line, latest, rows, dirs, files, target, upc>>
    BY <1>5 DEF vars, jobVars, uploadVars
  <2> QED
    BY <2>1, CoreQuiet
<1> QED
  BY <1>1, <1>2, <1>3, <1>4, <1>5 DEF Next

\* The inductive invariant.
LEMMA TopologyInvariant ==
    ASSUME ~OverlappingJobs
    PROVE  Spec => [](TypeInv /\ SerialInv /\ CoreInv)
<1>1. Init => TypeInv /\ SerialInv /\ CoreInv
  BY JobInit, RowInit, SerialInit, CoreInit DEF TypeInv
<1>2. TypeInv /\ SerialInv /\ CoreInv /\ [Next]_vars => (TypeInv /\ SerialInv /\ CoreInv)'
  BY JobNext, RowNext, UploadNext, BoundNext, SerialNext, CoreNext DEF TypeInv
<1> QED
  BY <1>1, <1>2, PTL DEF Spec

\* When jobs do not overlap, a chunk that is in the catalog is in a file,
\* whatever a wipe, an upload or a restart comes between (runReset, StoreFile).
THEOREM ChunksStay ==
    ASSUME ~OverlappingJobs
    PROVE  Spec => []ChunksExist
<1>1. CoreInv => ChunksExist
  BY DEF CoreInv, FilesInv, ChunksExist
<1> QED
  BY <1>1, TopologyInvariant, PTL

\* When jobs do not overlap, "success" of the last one means that the catalog is
\* what the job promises (runBootstrap, runReset).
THEOREM LatestIsBuilt ==
    ASSUME ~OverlappingJobs
    PROVE  Spec => []LatestStands
<1>1. ASSUME TypeInv, SerialInv, CoreInv, latest > 0, status[latest] = "success"
      PROVE  CASE kind[latest] = "bootstrap" ->
                    /\ rows["workers"] = Daemons(latest)
                    /\ rows["machines"] = Topology(latest)
                    /\ rows["discs"] = Topology(latest)
                    /\ Topology(latest) \subseteq dirs
               [] kind[latest] = "reset" -> \A t \in Tables : rows[t] = {}
               [] OTHER -> TRUE
  <2> DEFINE k == kind[latest]
             n == line[latest]
  <2>1. latest \in Jobs /\ n = Len(ProgramOf(k)) + 1 /\ n \in Nat
    <3>1. latest \in Jobs
      BY <1>1, TopologyAssumption DEF TypeInv, JobInv, Jobs
    <3> QED
      BY <1>1, <3>1 DEF TypeInv, JobInv, SerialInv
  <2>2. ASSUME k = "bootstrap"
        PROVE  /\ rows["workers"] = Daemons(latest)
               /\ rows["machines"] = Topology(latest)
               /\ rows["discs"] = Topology(latest)
               /\ Topology(latest) \subseteq dirs
    <3>1. n > 5
      <4>1. n = Len(ProgramOf("bootstrap")) + 1
        BY <2>1, <2>2
      <4> QED
        BY <2>1, <4>1, BootstrapProgram
    <3>2. /\ rows["discs"] = Built("discs")
          /\ rows["machines"] = Built("machines")
          /\ rows["workers"] = Built("workers")
          /\ Made \subseteq dirs
      BY <1>1, <2>1, <2>2, <3>1 DEF CoreInv, WipeInv
    <3>3. /\ Built("workers") = Daemons(latest)
          /\ Built("machines") = Topology(latest)
          /\ Built("discs") = Topology(latest)
          /\ Made = Topology(latest)
      <4>1. DoneNow = DoneBy("bootstrap", n)
        BY <2>2 DEF DoneNow
      <4> HIDE DEF n
      <4>2. PICK i \in Jobs : i = latest
        BY <2>1
      <4>3. PICK q : q = n
        OBVIOUS
      <4>4. q = Len(ProgramOf("bootstrap")) + 1
        BY <2>1, <2>2, <4>3
      <4>5. /\ RowsIn(i, "workers", DoneBy("bootstrap", q)) = Daemons(i)
            /\ RowsIn(i, "machines", DoneBy("bootstrap", q)) = Topology(i)
            /\ RowsIn(i, "discs", DoneBy("bootstrap", q)) = Topology(i)
            /\ DirsIn(i, DoneBy("bootstrap", q)) = Topology(i)
        BY <4>4, AllBuilt
      <4> QED
        BY <4>1, <4>2, <4>3, <4>5 DEF Built, Made
    <3> QED
      BY <3>2, <3>3
  <2>3. ASSUME k = "reset"
        PROVE  \A t \in Tables : rows[t] = {}
    <3>1. n = 7
      <4>1. n = Len(ProgramOf("reset")) + 1
        BY <2>1, <2>3
      <4>2. Len(ProgramOf("reset")) = 6
        BY ResetProgram
      <4>3. n = 6 + 1
        BY <4>1, <4>2, Zenon
      <4> QED
        BY <4>3
    <3>2. /\ rows["blobs"] \subseteq rows["chunks"]
          /\ rows["discs"] = Built("discs")
          /\ rows["machines"] = Built("machines")
          /\ rows["workers"] = Built("workers")
      BY <1>1, <2>1, <2>3, <3>1 DEF CoreInv, WipeInv
    <3>3. rows["chunks"] = {}
      BY <1>1, <2>3, <3>1 DEF CoreInv, GoneInv
    <3>4. ASSUME NEW t \in Tables
          PROVE  Built(t) = {}
      <4>1. k \in Kinds
        BY <1>1, <2>1 DEF TypeInv, JobInv, Jobs
      <4>2. RowsIn(latest, t, DoneBy(k, n)) = {}
        BY <2>1, <2>3, <4>1, ProgramLen, NothingBuilt
      <4> QED
        BY <4>2 DEF Built, DoneNow
    <3> QED
      BY <3>2, <3>3, <3>4 DEF Tables
  <2> QED
    BY <2>2, <2>3
<1>2. TypeInv /\ SerialInv /\ CoreInv => LatestStands
  BY <1>1 DEF LatestStands
<1> QED
  BY <1>2, TopologyInvariant, PTL
=============================================================================
