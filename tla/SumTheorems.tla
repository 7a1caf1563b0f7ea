----------------------------- MODULE SumTheorems -----------------------------
(***************************************************************************)
(* Sums of natural numbers over a finite set.  What SumFunctionOnSet       *)
(* computes is the number of units in all the terms, so that the facts     *)
(* about sums follow from those about cardinalities, in whatever order     *)
(* the elements are chosen.  Stock, capacity and sales are such sums in    *)
(* Checkout, Settlement, Catalog and Cart.                                 *)
(***************************************************************************)
EXTENDS Integers, Functions, FiniteSetTheorems, WellFoundedInduction, TLAPS

\* The terms are natural numbers.
Natural(f, S) == \A x \in S : f[x] \in Nat

\* The terms at the elements other than x are the same.
AgreeBut(f, g, S, x) == \A y \in S \ {x} : g[y] = f[y]

\* f[x] units for each x of S.
Units(f, S) == UNION {{x} \X (1..f[x]) : x \in S}

-----------------------------------------------------------------------------
(* Counting units                                                          *)

\* There are finitely many units.
LEMMA UnitsFinite ==
    ASSUME NEW S, NEW f, IsFiniteSet(S), Natural(f, S)
    PROVE  IsFiniteSet(Units(f, S))
  <1> DEFINE Part(x) == {x} \X (1..f[x])
  <1>1. IsFiniteSet({Part(x) : x \in S})
    <2> DEFINE T == {Part(x) : x \in S}
    <2>1. [x \in S |-> Part(x)] \in Surjection(S, T)
      BY DEF Surjection
    <2> QED
      BY <2>1, FS_Surjection
  <1>2. ASSUME NEW x \in S PROVE IsFiniteSet(Part(x))
    <2>1. IsFiniteSet({x})
      BY FS_Singleton
    <2>2. IsFiniteSet(1..f[x])
      BY FS_Interval DEF Natural
    <2> QED
      BY <2>1, <2>2, FS_Product
  <1>3. \A T \in {Part(x) : x \in S} : IsFiniteSet(T)
    BY <1>2
  <1>4. IsFiniteSet(UNION {Part(x) : x \in S})
    BY <1>1, <1>3, FS_UNION
  <1> QED
    BY <1>4 DEF Units

\* One more element brings its own units.
LEMMA UnitsAdd ==
    ASSUME NEW S, NEW f, NEW x, IsFiniteSet(S), x \notin S, Natural(f, S \cup {x})
    PROVE  Cardinality(Units(f, S \cup {x})) = f[x] + Cardinality(Units(f, S))
  <1> DEFINE new == {x} \X (1..f[x])
  <1>1. f[x] \in Nat /\ Natural(f, S)
    BY DEF Natural
  <1>2. IsFiniteSet(new) /\ Cardinality(new) = f[x]
    <2>1. IsFiniteSet({x}) /\ Cardinality({x}) = 1
      BY FS_Singleton
    <2>2. IsFiniteSet(1..f[x]) /\ Cardinality(1..f[x]) = f[x]
      BY <1>1, FS_Interval
    <2>3. IsFiniteSet(new) /\ Cardinality(new) = Cardinality({x}) * Cardinality(1..f[x])
      BY <2>1, <2>2, FS_Product
    <2> QED
      BY <1>1, <2>1, <2>2, <2>3
  <1>3. Units(f, S \cup {x}) = Units(f, S) \cup new
    BY DEF Units
  <1>4. Units(f, S) \cap new = {}
    BY DEF Units
  <1>5. IsFiniteSet(Units(f, S)) /\ Cardinality(Units(f, S)) \in Nat
    BY <1>1, UnitsFinite, FS_CardinalityType
  <1>6. Cardinality(Units(f, S) \cup new)
          = Cardinality(Units(f, S)) + Cardinality(new) - Cardinality({})
    BY <1>2, <1>4, <1>5, FS_Union
  <1>7. Cardinality(Units(f, S) \cup new) = Cardinality(Units(f, S)) + f[x]
    BY <1>1, <1>2, <1>5, <1>6, FS_EmptySet
  <1>8. Cardinality(Units(f, S \cup {x})) = Cardinality(Units(f, S)) + f[x]
    BY <1>3, <1>7, Zenon
  <1> QED
    BY <1>1, <1>5, <1>8

-----------------------------------------------------------------------------
(* The recursion behind the fold                                           *)

First(s) == CHOOSE x \in s : TRUE

\* h[s] adds up the terms of s, taking the first of what is left each time.
Adds(h, f, S) ==
    h = [s \in SUBSET S |-> IF s = {} THEN 0 ELSE f[First(s)] + h[s \ {First(s)}]]

\* The fold of the library is such an h.
LEMMA SumDef ==
    ASSUME NEW f, NEW S
    PROVE  SumFunctionOnSet(f, S) = (CHOOSE h : Adds(h, f, S))[S]
  BY DEF SumFunctionOnSet, FoldFunctionOnSet, MapThenFoldSet, Adds, First

\* Counting units is a solution.
LEMMA CountAdds ==
    ASSUME NEW S, NEW f, IsFiniteSet(S), Natural(f, S)
    PROVE  Adds([s \in SUBSET S |-> Cardinality(Units(f, s))], f, S)
  <1> DEFINE h == [s \in SUBSET S |-> Cardinality(Units(f, s))]
  <1>1. ASSUME NEW s \in SUBSET S, s = {} PROVE h[s] = 0
    <2>1. Units(f, {}) = {}
      BY DEF Units
    <2> QED
      BY <1>1, <2>1, FS_EmptySet
  <1>2. ASSUME NEW s \in SUBSET S, s # {}
        PROVE  h[s] = f[First(s)] + h[s \ {First(s)}]
    <2> DEFINE x == First(s)
               rest == s \ {x}
    <2>1. x \in s
      BY <1>2 DEF First
    <2> HIDE DEF x
    <2>2. IsFiniteSet(rest) /\ x \notin rest /\ s = rest \cup {x} /\ rest \in SUBSET S
      BY <2>1, FS_Subset
    <2>3. Natural(f, rest \cup {x})
      BY <2>2 DEF Natural
    <2>4. Cardinality(Units(f, s)) = f[x] + Cardinality(Units(f, rest))
      <3> HIDE DEF rest
      <3> QED
        BY <2>2, <2>3, UnitsAdd
    <2> QED
      BY <2>2, <2>4 DEF x
  <1>3. h = [s \in SUBSET S |-> IF s = {} THEN 0 ELSE f[First(s)] + h[s \ {First(s)}]]
    <2> HIDE DEF h
    <2>1. h = [s \in SUBSET S |-> h[s]]
      BY DEF h
    <2> QED
      BY <1>1, <1>2, <2>1
  <1> QED
    BY <1>3 DEF Adds

\* There is one solution: a smallest set on which two differ would be empty.
LEMMA AddsOnce ==
    ASSUME NEW S, NEW f, NEW g, NEW h, IsFiniteSet(S), Adds(g, f, S), Adds(h, f, S)
    PROVE  g = h
  <1> DEFINE differ == {s \in SUBSET S : g[s] # h[s]}
  <1>1. SUFFICES ASSUME differ # {} PROVE FALSE
    <2>1. g = [s \in SUBSET S |-> g[s]] /\ h = [s \in SUBSET S |-> h[s]]
      BY DEF Adds
    <2> QED
      BY <1>1, <2>1
  <1>2. IsWellFoundedOn(StrictSubsetOrdering(S), SUBSET S)
    BY FS_StrictSubsetOrderingWellFounded, FS_FiniteSubsetsOfFinite
  <1>3. PICK s \in differ : \A t \in differ : ~ <<t, s>> \in StrictSubsetOrdering(S)
    BY <1>1, <1>2, WFMin
  <1>4. s # {}
    BY <1>3 DEF Adds
  <1> DEFINE rest == s \ {First(s)}
  <1>5. First(s) \in s
    BY <1>4 DEF First
  <1>6. <<rest, s>> \in StrictSubsetOrdering(S)
    BY <1>3, <1>5 DEF StrictSubsetOrdering
  <1>7. g[rest] = h[rest]
    BY <1>3, <1>6
  <1> QED
    BY <1>3, <1>4, <1>7 DEF Adds

\* A sum is the number of its units.
THEOREM SumIsCount ==
    ASSUME NEW S, NEW f, IsFiniteSet(S), Natural(f, S)
    PROVE  /\ SumFunctionOnSet(f, S) = Cardinality(Units(f, S))
           /\ IsFiniteSet(Units(f, S))
  <1> DEFINE count == [s \in SUBSET S |-> Cardinality(Units(f, s))]
             sum == CHOOSE h : Adds(h, f, S)
  <1>1. Adds(count, f, S)
    BY CountAdds
  <1>2. Adds(sum, f, S)
    BY <1>1
  <1>3. sum = count
    <2> HIDE DEF sum, count
    <2> QED
      BY <1>1, <1>2, AddsOnce
  <1>4. SumFunctionOnSet(f, S) = count[S]
    BY <1>3, SumDef
  <1> QED
    BY <1>4, UnitsFinite

-----------------------------------------------------------------------------
(* What the proofs about the components use                                *)

\* A sum is a natural number.
THEOREM SumType ==
    ASSUME NEW S, NEW f, IsFiniteSet(S), Natural(f, S)
    PROVE  SumFunctionOnSet(f, S) \in Nat
  BY SumIsCount, FS_CardinalityType

\* The sum of nothing.
THEOREM SumEmpty ==
    ASSUME NEW f
    PROVE  SumFunctionOnSet(f, {}) = 0
  <1>1. Natural(f, {}) /\ Units(f, {}) = {}
    BY DEF Natural, Units
  <1> QED
    BY <1>1, SumIsCount, FS_EmptySet

\* The sum of noughts.
THEOREM SumZero ==
    ASSUME NEW S, NEW f, IsFiniteSet(S), \A x \in S : f[x] = 0
    PROVE  SumFunctionOnSet(f, S) = 0
  <1>1. Natural(f, S) /\ Units(f, S) = {}
    BY DEF Natural, Units
  <1> QED
    BY <1>1, SumIsCount, FS_EmptySet

\* One more term.
THEOREM SumAdd ==
    ASSUME NEW S, NEW f, NEW x, IsFiniteSet(S), x \notin S, Natural(f, S \cup {x})
    PROVE  SumFunctionOnSet(f, S \cup {x}) = f[x] + SumFunctionOnSet(f, S)
  <1>1. IsFiniteSet(S \cup {x}) /\ Natural(f, S)
    BY FS_AddElement DEF Natural
  <1>2. SumFunctionOnSet(f, S \cup {x}) = Cardinality(Units(f, S \cup {x}))
    BY <1>1, SumIsCount
  <1>3. SumFunctionOnSet(f, S) = Cardinality(Units(f, S))
    BY <1>1, SumIsCount
  <1> QED
    BY <1>2, <1>3, UnitsAdd

\* Only the terms matter.
THEOREM SumAgree ==
    ASSUME NEW S, NEW f, NEW g, IsFiniteSet(S), Natural(f, S), \A x \in S : g[x] = f[x]
    PROVE  SumFunctionOnSet(g, S) = SumFunctionOnSet(f, S)
  <1>1. Natural(g, S)
    BY DEF Natural
  <1>2. Units(g, S) = Units(f, S)
    BY DEF Units
  <1> QED
    BY <1>1, <1>2, SumIsCount

\* A part of the terms, each no larger.
THEOREM SumMonotone ==
    ASSUME NEW S, NEW T \in SUBSET S, NEW f, NEW g, IsFiniteSet(S),
           Natural(f, S), Natural(g, T), \A x \in T : g[x] <= f[x]
    PROVE  SumFunctionOnSet(g, T) <= SumFunctionOnSet(f, S)
  <1>1. IsFiniteSet(T)
    BY FS_Subset
  <1>2. Units(g, T) \subseteq Units(f, S)
    <2> SUFFICES ASSUME NEW x \in T, NEW i \in 1..g[x] PROVE i \in 1..f[x]
      BY DEF Units
    <2>1. g[x] \in Nat /\ f[x] \in Nat /\ g[x] <= f[x]
      BY DEF Natural
    <2> QED
      BY <2>1
  <1> QED
    BY <1>1, <1>2, SumIsCount, FS_Subset

\* One term replaced by another.
THEOREM SumReplace ==
    ASSUME NEW S, NEW f, NEW g, NEW x \in S, IsFiniteSet(S),
           Natural(f, S), Natural(g, S), AgreeBut(f, g, S, x)
    PROVE  SumFunctionOnSet(g, S) = SumFunctionOnSet(f, S) - f[x] + g[x]
  <1> DEFINE rest == S \ {x}
  <1>1. /\ IsFiniteSet(rest) /\ x \notin rest /\ S = rest \cup {x}
        /\ Natural(f, rest) /\ Natural(g, rest)
    BY FS_Subset DEF Natural
  <1>2. SumFunctionOnSet(g, rest) = SumFunctionOnSet(f, rest)
    BY <1>1, SumAgree DEF AgreeBut
  <1> HIDE DEF rest
  <1>3. /\ SumFunctionOnSet(f, S) = f[x] + SumFunctionOnSet(f, rest)
        /\ SumFunctionOnSet(g, S) = g[x] + SumFunctionOnSet(g, rest)
    BY <1>1, SumAdd
  <1>4. SumFunctionOnSet(f, rest) \in Nat /\ f[x] \in Nat /\ g[x] \in Nat
    BY <1>1, SumType DEF Natural
  <1> QED
    BY <1>2, <1>3, <1>4
=============================================================================
