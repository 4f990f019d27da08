---------------------------- MODULE FoldLemmas ------------------------------
(***************************************************************************)
(* What MapThenSumSet of the community modules computes, for every finite  *)
(* set.                                                                    *)
(*                                                                         *)
(* It is defined by a recursion over the set. The facts are proved by a    *)
(* smallest counterexample and not by an induction theorem, which would    *)
(* take the formula as a parameter.                                        *)
(***************************************************************************)
EXTENDS Integers, FiniteSetsExt, FiniteSetTheorems, TLAPS

\* Every set of natural numbers that is not empty has a least one.
LEMMA LeastNat ==
    ASSUME NEW T, T \subseteq Nat, T # {}
    PROVE  \E n \in T : \A m \in T : n <= m
<1>1. IsWellFoundedOn(OpToRel(<, Nat), Nat)
  BY NatLessThanWellFounded
<1>2. PICK n \in T : \A m \in T : <<m, n>> \notin OpToRel(<, Nat)
  BY <1>1, WFMin
<1>3. \A m \in T : ~ (m < n)
  BY <1>2 DEF OpToRel
<1> QED
  BY <1>3

\* Induction over the subsets of a finite set, by a smallest counterexample:
\* among some of them there is one that no other is a part of.
LEMMA MinimalSubset ==
    ASSUME NEW S, IsFiniteSet(S), NEW B \in SUBSET (SUBSET S), B # {}
    PROVE  \E m \in B : \A x \in B : x \subseteq m => x = m
<1>1. IsWellFoundedOn(StrictSubsetOrdering(S), FiniteSubsetsOf(S))
  BY FS_StrictSubsetOrderingWellFounded
<1>2. FiniteSubsetsOf(S) = SUBSET S
  BY FS_FiniteSubsetsOfFinite
<1>3. PICK m \in B : \A x \in B : ~ (<<x, m>> \in StrictSubsetOrdering(S))
  BY <1>1, <1>2, WFMin
<1>4. ASSUME NEW x \in B, x \subseteq m
      PROVE  x = m
  BY <1>3, <1>4 DEF StrictSubsetOrdering
<1> QED
  BY <1>4

\* What the sizes of the members of a set add up to.
SizeSum(S) == MapThenSumSet(LAMBDA c : c.size, S)

\* The member the fold takes first.
First(S) == CHOOSE c \in S : TRUE

\* The recursion of MapThenFoldSet.
Adds(g, S) ==
    g = [s \in SUBSET S |-> IF s = {} THEN 0 ELSE First(s).size + g[s \ {First(s)}]]

\* MapThenSumSet is such a recursion.
LEMMA SizeSumDef ==
    ASSUME NEW S
    PROVE  SizeSum(S) = (CHOOSE g : Adds(g, S))[S]
BY DEF SizeSum, MapThenSumSet, MapThenFoldSet, Adds, First

\* Its value at one set.
LEMMA AddsAt ==
    ASSUME NEW S, NEW g, Adds(g, S), NEW s \in SUBSET S
    PROVE  g[s] = IF s = {} THEN 0 ELSE First(s).size + g[s \ {First(s)}]
BY DEF Adds

\* Folds over two sets agree on the finite sets they have in common.
LEMMA AddsUnique ==
    ASSUME NEW S, NEW g, Adds(g, S), NEW T, NEW h, Adds(h, T),
           NEW s, IsFiniteSet(s), s \subseteq S, s \subseteq T
    PROVE  g[s] = h[s]
<1> DEFINE B == {x \in SUBSET s : g[x] # h[x]}
<1>1. SUFFICES ASSUME s \in B PROVE FALSE
  OBVIOUS
<1>2. PICK m \in B : \A x \in B : x \subseteq m => x = m
  <2>1. B \in SUBSET (SUBSET s) /\ B # {}
    BY <1>1
  <2> HIDE DEF B
  <2> QED
    BY <2>1, MinimalSubset
<1>3. m \subseteq S /\ m \subseteq T /\ m \subseteq s /\ g[m] # h[m]
  BY <1>2
<1>4. g[m] = IF m = {} THEN 0 ELSE First(m).size + g[m \ {First(m)}]
  BY <1>3, AddsAt
<1>5. h[m] = IF m = {} THEN 0 ELSE First(m).size + h[m \ {First(m)}]
  BY <1>3, AddsAt
<1>6. m # {} => First(m) \in m
  BY DEF First
<1>7. m # {} => g[m \ {First(m)}] = h[m \ {First(m)}]
  BY <1>2, <1>3, <1>6
<1> QED
  BY <1>3, <1>4, <1>5, <1>7

\* There is a fold over every finite set.
LEMMA AddsExists ==
    ASSUME NEW S, IsFiniteSet(S)
    PROVE  \E g : Adds(g, S)
<1> DEFINE B == {x \in SUBSET S : ~ \E g : Adds(g, x)}
<1>1. SUFFICES ASSUME S \in B PROVE FALSE
  OBVIOUS
<1>2. PICK T \in B : \A x \in B : x \subseteq T => x = T
  <2>1. B \in SUBSET (SUBSET S) /\ B # {}
    BY <1>1
  <2> HIDE DEF B
  <2> QED
    BY <2>1, MinimalSubset
<1>3. T \subseteq S /\ ~ \E g : Adds(g, T)
  BY <1>2
<1>4. \A x \in SUBSET T : x # T => \E g : Adds(g, x)
  BY <1>2, <1>3
<1>5. \A x \in SUBSET T : IsFiniteSet(x)
  BY <1>3, FS_Subset
<1> DEFINE H(x) == CHOOSE g : Adds(g, x)
           V(x) == H(x)[x]
           G == [x \in SUBSET T |->
                    IF x = {} THEN 0 ELSE First(x).size + V(x \ {First(x)})]
<1>6. \A x \in SUBSET T : x # T => Adds(H(x), x)
  BY <1>4
<1>7. ASSUME NEW x \in SUBSET T, x # {}
      PROVE  G[x \ {First(x)}] = V(x \ {First(x)})
  <2> DEFINE y == x \ {First(x)}
  <2>1. First(x) \in x
    BY <1>7 DEF First
  <2>2. y \in SUBSET T /\ y # T
    BY <2>1
  <2> HIDE DEF y
  <2>3. Adds(H(y), y)
    BY <1>6, <2>2
  <2>4. V(y) = IF y = {} THEN 0 ELSE First(y).size + H(y)[y \ {First(y)}]
    BY <2>3, AddsAt
  <2>5. CASE y = {}
    BY <2>2, <2>4, <2>5 DEF y
  <2>6. CASE y # {}
    <3> DEFINE z == y \ {First(y)}
    <3>1. First(y) \in y
      BY <2>6 DEF First
    <3>2. z \in SUBSET T /\ z # T /\ z \subseteq y /\ IsFiniteSet(z)
      BY <1>5, <2>2, <3>1
    <3> HIDE DEF z
    <3>3. Adds(H(z), z)
      BY <1>6, <3>2
    <3>4. H(y)[z] = H(z)[z]
      <4> HIDE DEF H
      <4> QED
        BY <2>3, <3>2, <3>3, AddsUnique
    <3>5. V(y) = First(y).size + V(z)
      BY <2>4, <2>6, <3>4 DEF z
    <3>6. G[y] = First(y).size + V(z)
      BY <2>2, <2>6 DEF z
    <3> QED
      BY <3>5, <3>6 DEF y
  <2> QED
    BY <2>5, <2>6
<1>8. Adds(G, T)
  <2>1. \A x \in SUBSET T : x # {} => G[x \ {First(x)}] = V(x \ {First(x)})
    BY <1>7
  <2> DEFINE K == [x \in SUBSET T |-> IF x = {} THEN 0 ELSE First(x).size + G[x \ {First(x)}]]
  <2>2. ASSUME NEW x \in SUBSET T
        PROVE  K[x] = G[x]
    <3> HIDE DEF V
    <3> QED
      BY <2>1
  <2>3. K = [x \in SUBSET T |-> K[x]] /\ G = [x \in SUBSET T |-> G[x]]
    OBVIOUS
  <2> HIDE DEF G, K
  <2>4. G = K
    BY <2>2, <2>3
  <2> QED
    BY <2>4 DEF Adds, K
<1> QED
  BY <1>3, <1>8

\* What the sum is at one set.
LEMMA SizeSumAt ==
    ASSUME NEW S, IsFiniteSet(S)
    PROVE  /\ S = {} => SizeSum(S) = 0
           /\ S # {} => /\ First(S) \in S
                        /\ SizeSum(S) = First(S).size + SizeSum(S \ {First(S)})
<1> DEFINE H(x) == CHOOSE g : Adds(g, x)
           z == S \ {First(S)}
<1>1. Adds(H(S), S)
  BY AddsExists
<1>2. S # {} => First(S) \in S
  BY DEF First
<1>3. IsFiniteSet(z) /\ z \subseteq S
  BY FS_Subset
<1>4. Adds(H(z), z)
  BY <1>3, AddsExists
<1>5. SizeSum(S) = H(S)[S] /\ SizeSum(z) = H(z)[z]
  BY SizeSumDef
<1> HIDE DEF z, H
<1>6. H(S)[z] = H(z)[z]
  BY <1>1, <1>3, <1>4, AddsUnique
<1>7. H(S)[S] = IF S = {} THEN 0 ELSE First(S).size + H(S)[z]
  BY <1>1, AddsAt DEF z
<1> QED
  BY <1>2, <1>5, <1>6, <1>7 DEF z

\* The sizes are natural numbers.
Sized(S) == \A c \in S : c.size \in Nat

\* The sum is a natural number.
LEMMA SizeSumNat ==
    ASSUME NEW S, IsFiniteSet(S), Sized(S)
    PROVE  SizeSum(S) \in Nat
<1> DEFINE B == {x \in SUBSET S : SizeSum(x) \notin Nat}
<1>1. SUFFICES ASSUME S \in B PROVE FALSE
  OBVIOUS
<1>2. PICK m \in B : \A x \in B : x \subseteq m => x = m
  <2>1. B \in SUBSET (SUBSET S) /\ B # {}
    BY <1>1
  <2> HIDE DEF B
  <2> QED
    BY <2>1, MinimalSubset
<1>3. IsFiniteSet(m) /\ m \subseteq S /\ SizeSum(m) \notin Nat
  BY <1>2, FS_Subset
<1>4. m # {}
  BY <1>3, SizeSumAt
<1>5. First(m) \in m /\ SizeSum(m) = First(m).size + SizeSum(m \ {First(m)})
  BY <1>3, <1>4, SizeSumAt
<1>6. SizeSum(m \ {First(m)}) \in Nat
  BY <1>2, <1>3, <1>5
<1> QED
  BY <1>3, <1>5, <1>6 DEF Sized

\* It does not matter which member is taken first.
LEMMA SizeSumRemove ==
    ASSUME NEW S, IsFiniteSet(S), Sized(S), NEW c \in S
    PROVE  SizeSum(S) = c.size + SizeSum(S \ {c})
<1> DEFINE P(x) == \A d \in x : SizeSum(x) = d.size + SizeSum(x \ {d})
           B == {x \in SUBSET S : ~ P(x)}
<1>1. SUFFICES ASSUME S \in B PROVE FALSE
  OBVIOUS
<1>2. PICK m \in B : \A x \in B : x \subseteq m => x = m
  <2>1. B \in SUBSET (SUBSET S) /\ B # {}
    BY <1>1
  <2> HIDE DEF B
  <2> QED
    BY <2>1, MinimalSubset
<1>3. IsFiniteSet(m) /\ m \subseteq S /\ Sized(m)
  BY <1>2, FS_Subset DEF Sized
<1>4. PICK d \in m : SizeSum(m) # d.size + SizeSum(m \ {d})
  BY <1>2
<1> DEFINE p == First(m)
<1>5. p \in m /\ SizeSum(m) = p.size + SizeSum(m \ {p})
  BY <1>3, <1>4, SizeSumAt
<1> HIDE DEF p
<1>6. p # d
  BY <1>4, <1>5
<1>7. P(m \ {p}) /\ P(m \ {d})
  BY <1>2, <1>3, <1>4, <1>5
<1>8. SizeSum(m \ {p}) = d.size + SizeSum((m \ {p}) \ {d})
  BY <1>4, <1>6, <1>7
<1>9. SizeSum(m \ {d}) = p.size + SizeSum((m \ {d}) \ {p})
  BY <1>5, <1>6, <1>7
<1>10. (m \ {p}) \ {d} = (m \ {d}) \ {p}
  OBVIOUS
<1>11. d.size \in Nat /\ p.size \in Nat /\ SizeSum((m \ {p}) \ {d}) \in Nat
  <2>1. IsFiniteSet((m \ {p}) \ {d}) /\ Sized((m \ {p}) \ {d})
    BY <1>3, FS_Subset DEF Sized
  <2> QED
    BY <1>3, <1>4, <1>5, <2>1, SizeSumNat DEF Sized
<1> DEFINE rest == SizeSum((m \ {p}) \ {d})
<1>12. SizeSum(m) = p.size + (d.size + rest) /\ SizeSum(m \ {d}) = p.size + rest
  BY <1>5, <1>8, <1>9, <1>10
<1>13. p.size + (d.size + rest) = d.size + (p.size + rest)
  BY <1>11
<1> QED
  BY <1>4, <1>12, <1>13

\* The sum over two sets that have nothing in common.
THEOREM SizeSumUnion ==
    ASSUME NEW S, IsFiniteSet(S), Sized(S), NEW T, IsFiniteSet(T), Sized(T), S \cap T = {}
    PROVE  SizeSum(S \cup T) = SizeSum(S) + SizeSum(T)
<1> DEFINE B == {x \in SUBSET T : SizeSum(S \cup x) # SizeSum(S) + SizeSum(x)}
<1>1. SUFFICES ASSUME T \in B PROVE FALSE
  OBVIOUS
<1>2. PICK m \in B : \A x \in B : x \subseteq m => x = m
  <2>1. B \in SUBSET (SUBSET T) /\ B # {}
    BY <1>1
  <2> HIDE DEF B
  <2> QED
    BY <2>1, MinimalSubset
<1>3. /\ IsFiniteSet(m) /\ m \subseteq T /\ Sized(m)
      /\ SizeSum(S \cup m) # SizeSum(S) + SizeSum(m)
  BY <1>2, FS_Subset DEF Sized
<1>4. SizeSum(S) \in Nat
  BY SizeSumNat
<1>5. m # {}
  <2>1. SizeSum({}) = 0
    BY SizeSumAt, FS_EmptySet
  <2>2. S \cup {} = S
    OBVIOUS
  <2> QED
    BY <1>3, <1>4, <2>1, <2>2
<1>6. PICK c \in m : TRUE
  BY <1>5
<1>7. SizeSum(m) = c.size + SizeSum(m \ {c})
  BY <1>3, SizeSumRemove
<1>8. SizeSum(S \cup (m \ {c})) = SizeSum(S) + SizeSum(m \ {c})
  BY <1>2, <1>3
<1>9. SizeSum(S \cup m) = c.size + SizeSum(S \cup (m \ {c}))
  <2>1. IsFiniteSet(S \cup m) /\ Sized(S \cup m) /\ c \in S \cup m
    BY <1>3, FS_Union DEF Sized
  <2>2. (S \cup m) \ {c} = S \cup (m \ {c})
    BY <1>3
  <2> QED
    BY <2>1, <2>2, SizeSumRemove
<1>10. c.size \in Nat /\ SizeSum(m \ {c}) \in Nat
  <2>1. IsFiniteSet(m \ {c}) /\ Sized(m \ {c})
    BY <1>3, FS_Subset DEF Sized
  <2> QED
    BY <1>3, <2>1, SizeSumNat DEF Sized
<1> QED
  BY <1>3, <1>4, <1>7, <1>8, <1>9, <1>10
=============================================================================
