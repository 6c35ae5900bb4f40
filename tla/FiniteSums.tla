----------------------------- MODULE FiniteSums -----------------------------
(***************************************************************************)
(* Facts about the sum of a function's values over a finite set            *)
(* (SumFunctionOnSet), such as what all collectors together have yet to    *)
(* add to the counter of kernel drops (Adding of module DropCounter).      *)
(*                                                                         *)
(* The sum is a fold, that is a recursive function over the subsets of the *)
(* set.  That such a function exists is shown by giving it: the number of  *)
(* units <<x, i>> with 1 <= i <= f[x].  The other facts follow from the    *)
(* recursion by induction over finite sets, which is stated here for a set *)
(* of good subsets.                                                        *)
(***************************************************************************)
EXTENDS Functions, FiniteSetTheorems, TLAPS

\* A non-empty set of subsets of a finite set has a minimal element.
LEMMA MinimalSubset ==
    ASSUME NEW S, IsFiniteSet(S), NEW B \in SUBSET (SUBSET S), B # {}
    PROVE  \E s \in B : \A t \in B : t \subseteq s => t = s
  <1> DEFINE R == StrictSubsetOrdering(S)
  <1>1. IsWellFoundedOn(R, FiniteSubsetsOf(S))
    BY FS_StrictSubsetOrderingWellFounded
  <1>2. FiniteSubsetsOf(S) = SUBSET S
    BY FS_FiniteSubsetsOfFinite
  <1>3. \E s \in B : \A t \in B : ~ (<<t, s>> \in R)
    <2> HIDE DEF R
    <2> QED
      BY <1>1, <1>2, WFMin
  <1>4. PICK s \in B : \A t \in B : ~ (<<t, s>> \in R)
    BY <1>3
  <1>5. ASSUME NEW t \in B, t \subseteq s, t # s PROVE FALSE
    <2>1. <<t, s>> \in R
      BY <1>5 DEF StrictSubsetOrdering
    <2> QED
      BY <1>4, <2>1
  <1> QED
    BY <1>5

\* Induction over a finite set, with the good subsets as a set.
LEMMA SubsetInduction ==
    ASSUME NEW S, IsFiniteSet(S), NEW G, {} \in G,
           \A T \in SUBSET S : \A x \in S \ T : T \in G => T \cup {x} \in G
    PROVE  S \in G
  <1> SUFFICES ASSUME S \notin G PROVE FALSE
    OBVIOUS
  <1> DEFINE B == {s \in SUBSET S : s \notin G}
  <1>1. B \in SUBSET (SUBSET S) /\ S \in B
    OBVIOUS
  <1>2. PICK s \in B : \A t \in B : t \subseteq s => t = s
    <2> HIDE DEF B
    <2> QED
      BY <1>1, MinimalSubset
  <1>3. PICK x \in s : TRUE
    BY <1>2, Zenon
  <1>4. s \ {x} \notin B
    BY <1>2, <1>3
  <1>5. s \ {x} \in SUBSET S /\ s \ {x} \in G /\ x \in S \ (s \ {x}) /\ (s \ {x}) \cup {x} = s
    BY <1>2, <1>3, <1>4
  <1>6. (s \ {x}) \cup {x} \in G
    BY <1>5, Zenon
  <1> QED
    BY <1>2, <1>5, <1>6

\* What the fold counts, and when it does.
NatValued(f, S) == \A x \in S : f[x] \in Nat

Units(f, S) == UNION {{x} \X (1 .. f[x]) : x \in S}

LEMMA UnitsOfOne ==
    ASSUME NEW x, NEW n \in Nat
    PROVE  IsFiniteSet({x} \X (1 .. n)) /\ Cardinality({x} \X (1 .. n)) = n
  <1>1. IsFiniteSet({x}) /\ Cardinality({x}) = 1
    BY FS_Singleton
  <1>2. IsFiniteSet(1 .. n) /\ Cardinality(1 .. n) = n
    BY FS_Interval
  <1>3. /\ IsFiniteSet({x} \X (1 .. n))
        /\ Cardinality({x} \X (1 .. n)) = Cardinality({x}) * Cardinality(1 .. n)
    BY <1>1, <1>2, FS_Product, Zenon
  <1> QED
    BY <1>1, <1>2, <1>3

\* One more element adds its units to those of the others.
LEMMA UnitsAdd ==
    ASSUME NEW f, NEW S, NEW x, x \notin S, f[x] \in Nat, IsFiniteSet(Units(f, S))
    PROVE  /\ IsFiniteSet(Units(f, S \cup {x}))
           /\ Cardinality(Units(f, S \cup {x})) = Cardinality(Units(f, S)) + f[x]
  <1> DEFINE U == Units(f, S)
             V == {x} \X (1 .. f[x])
  <1>1. Units(f, S \cup {x}) = U \cup V
    BY Zenon DEF Units
  <1>2. ASSUME NEW u \in U \cap V PROVE FALSE
    <2>1. PICK y \in S : u \in {y} \X (1 .. f[y])
      BY <1>2 DEF Units
    <2>2. u[1] = y /\ u[1] = x
      BY <1>2, <2>1
    <2> QED
      BY <2>1, <2>2
  <1>3. IsFiniteSet(V) /\ Cardinality(V) = f[x]
    BY UnitsOfOne, Zenon
  <1>4. /\ IsFiniteSet(U \cup V)
        /\ Cardinality(U \cup V) = Cardinality(U) + Cardinality(V) - Cardinality(U \cap V)
    BY <1>3, FS_Union
  <1>5. Cardinality(U \cap V) = 0 /\ Cardinality(U) \in Nat
    BY <1>2, FS_EmptySet, FS_CardinalityType, Zenon
  <1>6. Cardinality(U \cup V) = Cardinality(U) + f[x]
    <2> HIDE DEF U, V
    <2> QED
      BY <1>3, <1>4, <1>5, SMT
  <1> QED
    BY <1>1, <1>4, <1>6, Zenon

LEMMA UnitsFinite ==
    ASSUME NEW f, NEW S, IsFiniteSet(S), NatValued(f, S)
    PROVE  \A s \in SUBSET S : IsFiniteSet(Units(f, s)) /\ Cardinality(Units(f, s)) \in Nat
  <1> TAKE s \in SUBSET S
  <1>1. IsFiniteSet(s)
    BY FS_Subset
  <1> DEFINE G == {t \in SUBSET s : IsFiniteSet(Units(f, t))}
  <1>2. {} \in G
    <2>1. Units(f, {}) = {}
      BY DEF Units
    <2> QED
      BY <2>1, FS_EmptySet
  <1>3. ASSUME NEW t \in SUBSET s, NEW x \in s \ t, t \in G PROVE t \cup {x} \in G
    BY <1>3, UnitsAdd, Zenon DEF NatValued
  <1>4. s \in G
    <2> HIDE DEF G
    <2> QED
      BY <1>1, <1>2, <1>3, SubsetInduction, Zenon
  <1> QED
    BY <1>4, FS_CardinalityType

\* The fold counts the units.
LEMMA SumIsCardinality ==
    ASSUME NEW f, NEW S, IsFiniteSet(S), NatValued(f, S)
    PROVE  SumFunctionOnSet(f, S) = Cardinality(Units(f, S))
  <1> DEFINE One(s) == CHOOSE x \in s : TRUE
             Step(g, s) == IF s = {} THEN 0 ELSE f[One(s)] + g[s \ {One(s)}]
             iter[s \in SUBSET S] == IF s = {} THEN 0 ELSE LET x == CHOOSE x \in s : TRUE
                                                           IN f[x] + iter[s \ {x}]
             count == [s \in SUBSET S |-> Cardinality(Units(f, s))]
  <1>1. SumFunctionOnSet(f, S) = iter[S]
    BY DEF SumFunctionOnSet, FoldFunctionOnSet, MapThenFoldSet
  <1>2. iter = CHOOSE g : g = [s \in SUBSET S |-> Step(g, s)]
    BY DEF iter
  <1>3. ASSUME NEW s \in SUBSET S, s # {} PROVE One(s) \in s
    BY <1>3
  <1>4. count = [s \in SUBSET S |-> Step(count, s)]
    <2>1. Cardinality(Units(f, {})) = 0
      BY FS_EmptySet DEF Units
    <2>2. ASSUME NEW s \in SUBSET S, s # {}
          PROVE  Cardinality(Units(f, s)) = f[One(s)] + Cardinality(Units(f, s \ {One(s)}))
      <3> DEFINE x == One(s)
      <3>1. x \in s
        BY <1>3, <2>2
      <3> HIDE DEF x, One
      <3>2. (s \ {x}) \cup {x} = s /\ s \ {x} \in SUBSET S /\ x \in S
        BY <3>1
      <3>3. IsFiniteSet(Units(f, s \ {x})) /\ Cardinality(Units(f, s \ {x})) \in Nat /\ f[x] \in Nat
        BY <3>2, UnitsFinite DEF NatValued
      <3>4. Cardinality(Units(f, (s \ {x}) \cup {x})) = Cardinality(Units(f, s \ {x})) + f[x]
        BY <3>3, UnitsAdd, Zenon
      <3>5. Cardinality(Units(f, s)) = Cardinality(Units(f, s \ {x})) + f[x]
        BY <3>2, <3>4, Zenon
      <3>6. Cardinality(Units(f, s)) = f[x] + Cardinality(Units(f, s \ {x}))
        BY <3>3, <3>5, SMT
      <3> QED
        BY <3>6 DEF x
    <2>3. ASSUME NEW s \in SUBSET S PROVE count[s] = Step(count, s)
      <3> HIDE DEF One
      <3> QED
        BY <2>1, <2>2, Zenon
    <2> HIDE DEF Step
    <2> QED
      BY <2>3, Zenon
  <1>5. iter = [s \in SUBSET S |-> Step(iter, s)]
    <2> HIDE DEF iter, Step, count
    <2> QED
      BY <1>2, <1>4, Zenon
  <1>6. ASSUME NEW B, B = {s \in SUBSET S : iter[s] # count[s]}, B # {} PROVE FALSE
    <2> HIDE DEF iter, count, One
    <2>1. PICK s \in B : \A t \in B : t \subseteq s => t = s
      BY <1>6, MinimalSubset
    <2>2. s \in SUBSET S /\ iter[s] # count[s]
      BY <1>6, <2>1
    <2>3. s # {}
      BY <1>4, <1>5, <2>2
    <2>4. One(s) \in s
      BY <1>3, <2>2, <2>3
    <2>5. s \ {One(s)} \in SUBSET S /\ iter[s \ {One(s)}] = count[s \ {One(s)}]
      BY <1>6, <2>1, <2>2, <2>4
    <2> QED
      BY <1>4, <1>5, <2>2, <2>3, <2>5, Zenon
  <1>7. iter[S] = count[S]
    <2> HIDE DEF iter, count
    <2> QED
      BY <1>6, Zenon
  <1> QED
    <2> HIDE DEF iter
    <2> QED
      BY <1>1, <1>7

LEMMA SumNat ==
    ASSUME NEW f, NEW S, IsFiniteSet(S), NatValued(f, S)
    PROVE  SumFunctionOnSet(f, S) \in Nat
  BY SumIsCardinality, UnitsFinite

LEMMA SumEmpty == \A f : SumFunctionOnSet(f, {}) = 0
  <1> TAKE f
  <1>1. IsFiniteSet({}) /\ NatValued(f, {})
    BY FS_EmptySet DEF NatValued
  <1>2. Units(f, {}) = {}
    BY DEF Units
  <1> QED
    BY <1>1, <1>2, SumIsCardinality, FS_EmptySet

\* The sum depends on the values only.
LEMMA SumSame ==
    ASSUME NEW f, NEW g, NEW S, IsFiniteSet(S), NatValued(f, S), \A x \in S : f[x] = g[x]
    PROVE  SumFunctionOnSet(f, S) = SumFunctionOnSet(g, S)
  <1>1. NatValued(g, S)
    BY DEF NatValued
  <1>2. Units(f, S) = Units(g, S)
    BY Zenon DEF Units
  <1> QED
    BY <1>1, <1>2, SumIsCardinality

LEMMA SumAdd ==
    ASSUME NEW f, NEW S, IsFiniteSet(S), NatValued(f, S), NEW x, x \notin S, f[x] \in Nat
    PROVE  SumFunctionOnSet(f, S \cup {x}) = SumFunctionOnSet(f, S) + f[x]
  <1>1. IsFiniteSet(S \cup {x}) /\ NatValued(f, S \cup {x})
    BY FS_AddElement DEF NatValued
  <1>2. IsFiniteSet(Units(f, S))
    BY UnitsFinite
  <1>3. Cardinality(Units(f, S \cup {x})) = Cardinality(Units(f, S)) + f[x]
    BY <1>2, UnitsAdd
  <1>4. SumFunctionOnSet(f, S \cup {x}) = Cardinality(Units(f, S \cup {x}))
    BY <1>1, SumIsCardinality
  <1>5. SumFunctionOnSet(f, S) = Cardinality(Units(f, S))
    BY SumIsCardinality
  <1> QED
    BY <1>3, <1>4, <1>5, Zenon

LEMMA SumRemove ==
    ASSUME NEW f, NEW S, IsFiniteSet(S), NatValued(f, S), NEW x \in S
    PROVE  SumFunctionOnSet(f, S) = SumFunctionOnSet(f, S \ {x}) + f[x]
  <1>1. IsFiniteSet(S \ {x}) /\ NatValued(f, S \ {x}) /\ f[x] \in Nat /\ x \notin S \ {x}
    BY FS_RemoveElement DEF NatValued
  <1>2. SumFunctionOnSet(f, (S \ {x}) \cup {x}) = SumFunctionOnSet(f, S \ {x}) + f[x]
    BY <1>1, SumAdd
  <1>3. (S \ {x}) \cup {x} = S
    OBVIOUS
  <1> QED
    BY <1>2, <1>3, Zenon

\* One value changes.
LEMMA SumChange ==
    ASSUME NEW f, NEW g, NEW S, IsFiniteSet(S), NatValued(f, S), NEW c \in S, g[c] \in Nat,
           \A x \in S : x # c => g[x] = f[x]
    PROVE  /\ SumFunctionOnSet(g, S) = SumFunctionOnSet(f, S) - f[c] + g[c]
           /\ SumFunctionOnSet(f, S) \in Nat /\ SumFunctionOnSet(f, S) >= f[c]
  <1> DEFINE T == S \ {c}
  <1>1. IsFiniteSet(T) /\ NatValued(f, T) /\ NatValued(g, S) /\ f[c] \in Nat
    BY FS_RemoveElement DEF NatValued
  <1>2. SumFunctionOnSet(f, T) = SumFunctionOnSet(g, T) /\ SumFunctionOnSet(f, T) \in Nat
    BY <1>1, SumSame, SumNat
  <1>3. SumFunctionOnSet(f, S) = SumFunctionOnSet(f, T) + f[c]
    BY SumRemove
  <1>4. SumFunctionOnSet(g, S) = SumFunctionOnSet(g, T) + g[c]
    BY <1>1, SumRemove
  <1> HIDE DEF T
  <1> QED
    BY <1>1, <1>2, <1>3, <1>4, SMT

=============================================================================
