---------------------------------- MODULE Sums ---------------------------------
(***************************************************************************)
(* What SumFunctionOnSet of the Functions module is, for finite sets of    *)
(* integers: the balance properties of WalletLedger and CardTransactions   *)
(* are sums over authorizations and transfers.  The sum is defined by a    *)
(* recursion over subsets that takes out one chosen element at a time; the *)
(* lemmas say that it does not matter which.                               *)
(*                                                                         *)
(* Arguments by induction are about a least counterexample, which there is *)
(* because < on Nat and inclusion on the subsets of a finite set are       *)
(* well-founded.                                                           *)
(***************************************************************************)
EXTENDS Integers, Functions, FiniteSetTheorems, TLAPS

\* The element the recursion takes out of s.
Pick(s) == CHOOSE x \in s : TRUE

\* it adds up f over every subset of S, one element after the other.
Adds(it, f, S) ==
  it = [s \in SUBSET S |-> IF s = {} THEN 0 ELSE f[Pick(s)] + it[s \ {Pick(s)}]]

\* ... with integers as the result, as one value for each subset.
Tabulates(it, f, S) ==
  /\ it \in [SUBSET S -> Int]
  /\ \A s \in SUBSET S : it[s] = IF s = {} THEN 0 ELSE f[Pick(s)] + it[s \ {Pick(s)}]

\* The definition, without the folds it is written with.
LEMMA SumUnfolded ==
  ASSUME NEW f, NEW S
  PROVE  SumFunctionOnSet(f, S) = (CHOOSE it : Adds(it, f, S))[S]
  BY DEF SumFunctionOnSet, FoldFunctionOnSet, MapThenFoldSet, Adds, Pick

\* Natural numbers that have a property include a least one.
LEMMA LeastNatural ==
  ASSUME NEW T \in SUBSET Nat, T # {}
  PROVE  \E n \in T : \A m \in T : n <= m
<1> DEFINE R == {ss \in Nat \X Nat : ss[1] < ss[2]}
<1>1. IsWellFoundedOn(R, Nat)
  BY NatLessThanWellFounded, Zenon DEF OpToRel
<1> HIDE DEF R
<1>2. PICK n \in T : \A m \in T : <<m, n>> \notin R
  BY <1>1, WFMin
<1>3. \A m \in T : m < n => <<m, n>> \in R
  BY DEF R
<1>4. \A m \in T : ~(m < n)
  BY <1>2, <1>3
<1> QED
  BY <1>4

\* Subsets of a finite set that have a property include a minimal one.
LEMMA SmallestSubset ==
  ASSUME NEW S, IsFiniteSet(S), NEW T \in SUBSET (SUBSET S), T # {}
  PROVE  \E A \in T : \A B \in T : B \subseteq A => B = A
<1>1. T \subseteq FiniteSubsetsOf(S)
  BY FS_FiniteSubsetsOfFinite
<1>2. PICK A \in T : \A B \in T : ~(<<B, A>> \in StrictSubsetOrdering(S))
  BY <1>1, FS_StrictSubsetOrderingWellFounded, WFMin
<1> QED
  BY <1>2 DEF StrictSubsetOrdering

-----------------------------------------------------------------------------
(* A sum obeys its recursion                                               *)

\* it adds up f over the subsets of S that have at most n elements.
AddsUpTo(it, f, S, n) ==
  /\ it \in [SUBSET S -> Int]
  /\ \A s \in SUBSET S : Cardinality(s) <= n =>
       it[s] = IF s = {} THEN 0 ELSE f[Pick(s)] + it[s \ {Pick(s)}]

\* What is taken out was in the set.
LEMMA PickIn == \A s : s # {} => Pick(s) \in s
  BY DEF Pick

\* The recursion has a solution: one for subsets of up to n elements extends
\* to subsets of n + 1.
LEMMA AddsExists ==
  ASSUME NEW S, IsFiniteSet(S), NEW f, \A x \in S : f[x] \in Int
  PROVE  \E it \in [SUBSET S -> Int] : Adds(it, f, S)
<1>0. \A s \in SUBSET S : IsFiniteSet(s) /\ Cardinality(s) \in Nat /\ Cardinality(s) <= Cardinality(S)
  BY FS_Subset, FS_CardinalityType
<1> DEFINE Fails == {n \in Nat : ~ \E it : AddsUpTo(it, f, S, n)}
<1>1. Fails = {}
  <2> SUFFICES ASSUME Fails # {} PROVE FALSE
    OBVIOUS
  <2>1. PICK n \in Fails : \A m \in Fails : n <= m
    BY LeastNatural
  <2>2. CASE n = 0
    <3> DEFINE it == [s \in SUBSET S |-> 0]
    <3>1. \A s \in SUBSET S : Cardinality(s) <= 0 => s = {}
      BY <1>0, FS_EmptySet
    <3>2. AddsUpTo(it, f, S, 0)
      BY <3>1 DEF AddsUpTo
    <3> QED
      BY <2>2, <3>2
  <2>3. CASE n # 0
    <3>1. n - 1 \in Nat /\ n - 1 \notin Fails
      BY <2>1, <2>3
    <3>2. PICK low : AddsUpTo(low, f, S, n - 1)
      BY <3>1
    <3> DEFINE it == [s \in SUBSET S |-> IF Cardinality(s) <= n - 1 THEN low[s]
                                         ELSE f[Pick(s)] + low[s \ {Pick(s)}]]
    <3>3. ASSUME NEW s \in SUBSET S, s # {}
          PROVE  /\ f[Pick(s)] \in Int
                 /\ s \ {Pick(s)} \in SUBSET S
                 /\ Cardinality(s \ {Pick(s)}) = Cardinality(s) - 1
      BY <1>0, <3>3, PickIn, FS_RemoveElement
    <3>4. \A s \in SUBSET S : low[s] \in Int
      BY <3>2 DEF AddsUpTo
    <3>5. \A s \in SUBSET S : Cardinality(s) > n - 1 => s # {}
      BY <3>1, FS_EmptySet
    <3>6. it \in [SUBSET S -> Int]
      BY <3>3, <3>4, <3>5, <1>0, <3>1
    <3>7. ASSUME NEW s \in SUBSET S, Cardinality(s) <= n
          PROVE  it[s] = IF s = {} THEN 0 ELSE f[Pick(s)] + it[s \ {Pick(s)}]
      <4>1. CASE s = {}
        <5>1. Cardinality(s) <= n - 1
          BY <3>1, <4>1, FS_EmptySet
        <5> QED
          BY <3>2, <4>1, <5>1 DEF AddsUpTo
      <4>2. CASE s # {}
        <5> DEFINE r == s \ {Pick(s)}
        <5>1. r \in SUBSET S /\ Cardinality(r) <= n - 1
          BY <1>0, <3>1, <3>3, <3>7, <4>2
        <5>2. it[r] = low[r]
          BY <5>1
        <5>3. it[s] = f[Pick(s)] + low[r]
          BY <3>2, <4>2, <5>1 DEF AddsUpTo
        <5> QED
          BY <4>2, <5>2, <5>3
      <4> QED
        BY <4>1, <4>2
    <3> HIDE DEF it
    <3>8. AddsUpTo(it, f, S, n)
      BY <3>6, <3>7 DEF AddsUpTo
    <3> QED
      BY <3>8
  <2> QED
    BY <2>2, <2>3
<1>2. Cardinality(S) \in Nat
  BY FS_CardinalityType
<1>3. PICK it : AddsUpTo(it, f, S, Cardinality(S))
  BY <1>1, <1>2
<1>4. it \in [SUBSET S -> Int] /\ Adds(it, f, S)
  BY <1>0, <1>3 DEF AddsUpTo, Adds
<1> QED
  BY <1>4

\* What every sum is.
LEMMA SumAdds ==
  ASSUME NEW S, IsFiniteSet(S), NEW f, \A x \in S : f[x] \in Int
  PROVE  \E it : Tabulates(it, f, S) /\ SumFunctionOnSet(f, S) = it[S]
<1> DEFINE it == CHOOSE a : Adds(a, f, S)
<1>1. Adds(it, f, S)
  BY AddsExists
<1>2. PICK jt \in [SUBSET S -> Int] : Adds(jt, f, S)
  BY AddsExists
<1>3. ASSUME NEW s \in SUBSET S PROVE it[s] = jt[s]
  <2> DEFINE Differ == {t \in SUBSET S : it[t] # jt[t]}
  <2> SUFFICES ASSUME Differ # {} PROVE FALSE
    OBVIOUS
  <2>0. Differ \in SUBSET (SUBSET S)
    OBVIOUS
  <2> HIDE DEF Differ
  <2>1. PICK A \in Differ : \A B \in Differ : B \subseteq A => B = A
    BY <2>0, SmallestSubset
  <2> USE DEF Differ
  <2>2. A = {} => it[A] = jt[A]
    BY <1>1, <1>2 DEF Adds
  <2>3. A # {} /\ Pick(A) \in A
    BY <2>1, <2>2, PickIn
  <2>4. A \ {Pick(A)} \in SUBSET S /\ A \ {Pick(A)} \notin Differ
    BY <2>1, <2>3
  <2>5. /\ it[A] = f[Pick(A)] + it[A \ {Pick(A)}]
        /\ jt[A] = f[Pick(A)] + jt[A \ {Pick(A)}]
    BY <1>1, <1>2, <2>3 DEF Adds
  <2> QED
    BY <2>1, <2>4, <2>5
<1>4. it \in [SUBSET S -> Int]
  <2>1. it = [s \in SUBSET S |-> IF s = {} THEN 0 ELSE f[Pick(s)] + it[s \ {Pick(s)}]]
    BY <1>1 DEF Adds
  <2>2. it = [s \in SUBSET S |-> it[s]]
    BY <2>1
  <2> QED
    BY <1>2, <1>3, <2>2
<1>5. Tabulates(it, f, S)
  BY <1>1, <1>4 DEF Adds, Tabulates
<1> QED
  BY <1>5, SumUnfolded

\* A function that obeys the recursion on the subsets of S has every sum.
LEMMA SumUnique ==
  ASSUME NEW S, IsFiniteSet(S), NEW f, \A x \in S : f[x] \in Int,
         NEW it, Tabulates(it, f, S), NEW A \in SUBSET S
  PROVE  SumFunctionOnSet(f, A) = it[A]
<1>1. IsFiniteSet(A) /\ \A x \in A : f[x] \in Int
  BY FS_Subset
<1>2. PICK jt : Tabulates(jt, f, A) /\ SumFunctionOnSet(f, A) = jt[A]
  BY <1>1, SumAdds
<1> DEFINE Differ == {s \in SUBSET A : it[s] # jt[s]}
<1>3. Differ = {}
  <2> SUFFICES ASSUME Differ # {} PROVE FALSE
    OBVIOUS
  <2>1. Differ \in SUBSET (SUBSET A)
    OBVIOUS
  <2> HIDE DEF Differ
  <2>2. PICK B \in Differ : \A C \in Differ : C \subseteq B => C = B
    BY <1>1, <2>1, SmallestSubset
  <2> USE DEF Differ
  <2>3. B # {} /\ Pick(B) \in B
    BY <1>2, PickIn DEF Tabulates
  <2>4. B \ {Pick(B)} \in SUBSET A /\ B \ {Pick(B)} \notin Differ
    BY <2>2, <2>3
  <2>5. /\ it[B] = f[Pick(B)] + it[B \ {Pick(B)}]
        /\ jt[B] = f[Pick(B)] + jt[B \ {Pick(B)}]
    BY <1>2, <2>3 DEF Tabulates
  <2> QED
    BY <2>2, <2>4, <2>5
<1> QED
  BY <1>2, <1>3

\* Sums of integers are integers.
LEMMA SumInt ==
  ASSUME NEW S, IsFiniteSet(S), NEW f, \A x \in S : f[x] \in Int
  PROVE  SumFunctionOnSet(f, S) \in Int
<1>1. PICK it : Tabulates(it, f, S) /\ SumFunctionOnSet(f, S) = it[S]
  BY SumAdds
<1> QED
  BY <1>1 DEF Tabulates

\* Nothing adds up to 0.
LEMMA SumEmpty ==
  ASSUME NEW f
  PROVE  SumFunctionOnSet(f, {}) = 0
<1>1. PICK it : Tabulates(it, f, {}) /\ SumFunctionOnSet(f, {}) = it[{}]
  BY SumAdds, FS_EmptySet
<1> QED
  BY <1>1 DEF Tabulates

\* The recursion, for the sum itself.
LEMMA SumPick ==
  ASSUME NEW S, IsFiniteSet(S), S # {}, NEW f, \A x \in S : f[x] \in Int
  PROVE  SumFunctionOnSet(f, S) = f[Pick(S)] + SumFunctionOnSet(f, S \ {Pick(S)})
<1>1. PICK it : Tabulates(it, f, S) /\ SumFunctionOnSet(f, S) = it[S]
  BY SumAdds
<1>2. SumFunctionOnSet(f, S \ {Pick(S)}) = it[S \ {Pick(S)}]
  BY <1>1, SumUnique
<1> QED
  BY <1>1, <1>2 DEF Tabulates

\* The order does not matter: any element may be taken out first.
LEMMA SumRemove ==
  ASSUME NEW S, IsFiniteSet(S), NEW f, \A x \in S : f[x] \in Int, NEW x \in S
  PROVE  SumFunctionOnSet(f, S) = f[x] + SumFunctionOnSet(f, S \ {x})
<1> DEFINE Sum(T) == SumFunctionOnSet(f, T)
<1> DEFINE Fails  == {T \in SUBSET S : \E y \in T : Sum(T) # f[y] + Sum(T \ {y})}
<1>0. \A T \in SUBSET S : IsFiniteSet(T) /\ Sum(T) \in Int
  BY FS_Subset, SumInt
<1>1. Fails = {}
  <2> SUFFICES ASSUME Fails # {} PROVE FALSE
    OBVIOUS
  <2>1. Fails \in SUBSET (SUBSET S)
    OBVIOUS
  <2> HIDE DEF Fails
  <2>2. PICK A \in Fails : \A B \in Fails : B \subseteq A => B = A
    BY <2>1, SmallestSubset
  <2> USE DEF Fails
  <2>3. PICK y \in A : Sum(A) # f[y] + Sum(A \ {y})
    OBVIOUS
  <2> DEFINE p == Pick(A)
  <2>4. A \in SUBSET S /\ p \in A
    BY PickIn
  <2> HIDE DEF Sum
  <2>5. Sum(A) = f[p] + Sum(A \ {p})
    BY <1>0, <2>4, SumPick DEF Sum
  <2>6. p # y
    BY <2>3, <2>5
  <2>7. A \ {p} \notin Fails /\ A \ {y} \notin Fails
    BY <2>2, <2>4
  <2>8. /\ Sum(A \ {p}) = f[y] + Sum((A \ {p}) \ {y})
        /\ Sum(A \ {y}) = f[p] + Sum((A \ {y}) \ {p})
    BY <2>4, <2>6, <2>7
  <2>9. (A \ {p}) \ {y} = (A \ {y}) \ {p}
    OBVIOUS
  <2>10. f[p] \in Int /\ f[y] \in Int /\ Sum((A \ {y}) \ {p}) \in Int
    BY <1>0, <2>4
  <2> QED
    BY <2>3, <2>5, <2>8, <2>9, <2>10
<1> QED
  BY <1>1

\* A new element adds its value.
LEMMA SumAdd ==
  ASSUME NEW S, IsFiniteSet(S), NEW x, x \notin S,
         NEW f, \A y \in S \cup {x} : f[y] \in Int
  PROVE  SumFunctionOnSet(f, S \cup {x}) = f[x] + SumFunctionOnSet(f, S)
<1>1. IsFiniteSet(S \cup {x}) /\ (S \cup {x}) \ {x} = S
  BY FS_AddElement
<1> QED
  BY <1>1, SumRemove

\* Only the values on the set matter.
LEMMA SumEqual ==
  ASSUME NEW S, IsFiniteSet(S), NEW f, NEW g, \A x \in S : f[x] \in Int /\ f[x] = g[x]
  PROVE  SumFunctionOnSet(f, S) = SumFunctionOnSet(g, S)
<1>1. PICK it : Tabulates(it, f, S) /\ SumFunctionOnSet(f, S) = it[S]
  BY SumAdds
<1>2. \A s \in SUBSET S : s # {} => f[Pick(s)] = g[Pick(s)]
  BY PickIn
<1>3. Tabulates(it, g, S)
  BY <1>1, <1>2 DEF Tabulates
<1>4. \A x \in S : g[x] \in Int
  OBVIOUS
<1>5. SumFunctionOnSet(g, S) = it[S]
  BY <1>3, <1>4, SumUnique
<1> QED
  BY <1>1, <1>5

\* Sums of natural numbers are natural numbers.
LEMMA SumNat ==
  ASSUME NEW S, IsFiniteSet(S), NEW f, \A x \in S : f[x] \in Nat
  PROVE  SumFunctionOnSet(f, S) \in Nat
<1> DEFINE Fails  == {T \in SUBSET S : SumFunctionOnSet(f, T) \notin Nat}
<1>1. Fails = {}
  <2> SUFFICES ASSUME Fails # {} PROVE FALSE
    OBVIOUS
  <2>1. Fails \in SUBSET (SUBSET S)
    OBVIOUS
  <2> HIDE DEF Fails
  <2>2. PICK A \in Fails : \A B \in Fails : B \subseteq A => B = A
    BY <2>1, SmallestSubset
  <2>3. A \in SUBSET S /\ IsFiniteSet(A)
    BY <2>1, FS_Subset
  <2>4. A # {} /\ Pick(A) \in A
    BY SumEmpty, PickIn DEF Fails
  <2>5. A \ {Pick(A)} \in SUBSET S /\ A \ {Pick(A)} \notin Fails
    BY <2>2, <2>3, <2>4
  <2>6. SumFunctionOnSet(f, A \ {Pick(A)}) \in Nat /\ f[Pick(A)] \in Nat
    BY <2>3, <2>4, <2>5 DEF Fails
  <2>7. \A x \in A : f[x] \in Int
    BY <2>3
  <2>8. SumFunctionOnSet(f, A) = f[Pick(A)] + SumFunctionOnSet(f, A \ {Pick(A)})
    BY <2>3, <2>4, <2>7, SumPick
  <2> QED
    BY <2>6, <2>8 DEF Fails
<1> QED
  BY <1>1

\* A part of natural numbers adds up to no more than the whole.
LEMMA SumSubset ==
  ASSUME NEW S, IsFiniteSet(S), NEW f, \A x \in S : f[x] \in Nat, NEW A \in SUBSET S
  PROVE  SumFunctionOnSet(f, A) <= SumFunctionOnSet(f, S)
<1> DEFINE Sum(T) == SumFunctionOnSet(f, T)
           Fails  == {T \in SUBSET S : A \subseteq T /\ ~(Sum(A) <= Sum(T))}
<1>0. \A T \in SUBSET S : IsFiniteSet(T) /\ Sum(T) \in Nat /\ \A x \in T : f[x] \in Int
  BY FS_Subset, SumNat
<1>1. Fails = {}
  <2> SUFFICES ASSUME Fails # {} PROVE FALSE
    OBVIOUS
  <2>1. Fails \in SUBSET (SUBSET S)
    OBVIOUS
  <2> HIDE DEF Fails
  <2>2. PICK B \in Fails : \A C \in Fails : C \subseteq B => C = B
    BY <2>1, SmallestSubset
  <2> HIDE DEF Sum
  <2> USE DEF Fails
  <2>3. B # A
    BY <1>0, <2>2
  <2>4. PICK x \in B : x \notin A
    BY <2>3
  <2>5. B \ {x} \in SUBSET S /\ B \ {x} \notin Fails /\ A \subseteq B \ {x}
    BY <2>2, <2>4
  <2>6. Sum(B) = f[x] + Sum(B \ {x})
    BY <1>0, <2>4, SumRemove DEF Sum
  <2> QED
    BY <1>0, <2>5, <2>6
<1> QED
  BY <1>1
=============================================================================
