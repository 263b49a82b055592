--------------------------- MODULE PaperLedgerProofs ---------------------------
(***************************************************************************)
(* Safety of PaperLedger for every set of symbols, every amount and any    *)
(* number of lots and panics: books nobody disturbed agree, the trades     *)
(* explain the cash, and the overdraft is one order per thread at most.    *)
(***************************************************************************)
EXTENDS PaperLedger, FiniteSetTheorems, SequenceTheorems, TLAPS

-------------------------------------------------------------------------------
(* Sums of a function over a finite set, SumFunctionOnSet of Functions: an     *)
(* element taken out or changed, and bounds.  The sum is defined by recursion  *)
(* over sets; that the recursion has a solution is proved first.               *)

\* Induction over the subsets of a finite set, from the minimal subset that
\* would not be good.
LEMMA SubsetInduction ==
  ASSUME NEW S, IsFiniteSet(S), NEW Good,
         \A T \in SUBSET S :
           (\A U \in SUBSET S : U \subseteq T /\ U # T => U \in Good) => T \in Good
  PROVE  \A T \in SUBSET S : T \in Good
<1> DEFINE Bad == {T \in SUBSET S : T \notin Good}
<1> SUFFICES ASSUME Bad # {} PROVE FALSE
  OBVIOUS
<1>1. IsWellFoundedOn(StrictSubsetOrdering(S), SUBSET S)
  <2>1. IsWellFoundedOn(StrictSubsetOrdering(S), FiniteSubsetsOf(S))
    BY FS_StrictSubsetOrderingWellFounded
  <2>2. FiniteSubsetsOf(S) = SUBSET S
    BY FS_FiniteSubsetsOfFinite
  <2> QED
    BY <2>1, <2>2
<1>2. PICK T \in Bad : \A U \in Bad : <<U, T>> \notin StrictSubsetOrdering(S)
  <2>1. Bad \subseteq SUBSET S
    OBVIOUS
  <2> HIDE DEF Bad
  <2> QED
    BY <1>1, <2>1, WFMin
<1>3. ASSUME NEW U \in SUBSET S, U \subseteq T, U # T PROVE U \in Good
  BY <1>2, <1>3 DEF StrictSubsetOrdering
<1> QED
  BY <1>2, <1>3

\* Induction up to a number, from the same.
LEMMA InductionUpTo ==
  ASSUME NEW N \in Nat, NEW Good, 0 \in Good,
         \A n \in 0 .. N - 1 : n \in Good => n + 1 \in Good
  PROVE  N \in Good
<1> DEFINE Begun == {T \in SUBSET (0 .. N) : \A k \in 0 .. N : T = 0 .. k => k \in Good}
<1>1. ASSUME NEW T \in SUBSET (0 .. N),
             \A U \in SUBSET (0 .. N) : U \subseteq T /\ U # T => U \in Begun
      PROVE  T \in Begun
  <2> SUFFICES ASSUME NEW k \in 0 .. N, T = 0 .. k PROVE k \in Good
    OBVIOUS
  <2>1. CASE k = 0
    BY <2>1
  <2>2. CASE k # 0
    <3> DEFINE j == k - 1
    <3>1. j \in 0 .. N - 1 /\ j \in 0 .. N /\ k = j + 1
      BY <2>2
    <3>2. 0 .. j \in SUBSET (0 .. N) /\ 0 .. j \subseteq T /\ k \in T /\ k \notin 0 .. j
      BY <2>2
    <3>3. 0 .. j \in Begun
      BY <1>1, <3>2
    <3>4. j \in Good
      BY <3>1, <3>3
    <3> QED
      BY <3>1, <3>4
  <2> QED
    BY <2>1, <2>2
<1>2. IsFiniteSet(0 .. N)
  BY FS_Interval
<1>3. \A T \in SUBSET (0 .. N) : T \in Begun
  <2> HIDE DEF Begun
  <2> QED
    BY <1>1, <1>2, SubsetInduction
<1> QED
  BY <1>3

-------------------------------------------------------------------------------
(* The recursion behind the sum.                                             *)

Pick(s) == CHOOSE x \in s : TRUE

\* g is the sum of f on every subset of S.
Sums(f, S, g) ==
  g = [s \in SUBSET S |-> IF s = {} THEN 0 ELSE f[Pick(s)] + g[s \ {Pick(s)}]]

(* The member a sum takes first belongs to its set.                         *)
LEMMA PickType == ASSUME NEW s, s # {} PROVE Pick(s) \in s
BY DEF Pick

(* A sum is the value at the member picked and the sum over the rest.       *)
LEMMA SumDef ==
  ASSUME NEW f, NEW S
  PROVE  SumFunctionOnSet(f, S) = (CHOOSE g : Sums(f, S, g))[S]
BY DEF SumFunctionOnSet, FoldFunctionOnSet, MapThenFoldSet, Sums, Pick

\* What such a function is at a subset.
LEMMA SumsAt ==
  ASSUME NEW f, NEW S, NEW g, Sums(f, S, g), NEW s \in SUBSET S
  PROVE  g[s] = IF s = {} THEN 0 ELSE f[Pick(s)] + g[s \ {Pick(s)}]
BY DEF Sums

\* There is one at most.
LEMMA SumsUnique ==
  ASSUME NEW f, NEW S, IsFiniteSet(S), NEW g, NEW h, Sums(f, S, g), Sums(f, S, h)
  PROVE  g = h
<1> DEFINE Good == {s \in SUBSET S : g[s] = h[s]}
<1>1. ASSUME NEW T \in SUBSET S, \A U \in SUBSET S : U \subseteq T /\ U # T => U \in Good
      PROVE  T \in Good
  <2>1. CASE T = {}
    BY <2>1, SumsAt
  <2>2. CASE T # {}
    <3>1. Pick(T) \in T
      BY <2>2, PickType
    <3>2. g[T \ {Pick(T)}] = h[T \ {Pick(T)}]
      BY <3>1, <1>1
    <3> QED
      BY <2>2, <3>2, SumsAt
  <2> QED
    BY <2>1, <2>2
<1>2. \A T \in SUBSET S : T \in Good
  <2> HIDE DEF Good
  <2> QED
    BY <1>1, SubsetInduction
<1>3. \A T \in SUBSET S : g[T] = h[T]
  BY <1>2
<1>4. /\ g = [s \in SUBSET S |-> g[s]]
      /\ h = [s \in SUBSET S |-> h[s]]
  BY DEF Sums
<1> QED
  BY <1>3, <1>4

\* The sums of S are those of its subsets.
LEMMA SumsRestrict ==
  ASSUME NEW f, NEW S, NEW g, Sums(f, S, g), NEW T \in SUBSET S
  PROVE  Sums(f, T, [s \in SUBSET T |-> g[s]])
<1> DEFINE r == [s \in SUBSET T |-> g[s]]
<1>1. ASSUME NEW s \in SUBSET T
      PROVE  r[s] = IF s = {} THEN 0 ELSE f[Pick(s)] + r[s \ {Pick(s)}]
  <2>1. g[s] = IF s = {} THEN 0 ELSE f[Pick(s)] + g[s \ {Pick(s)}]
    BY SumsAt
  <2>2. r[s] = g[s] /\ r[s \ {Pick(s)}] = g[s \ {Pick(s)}]
    OBVIOUS
  <2> QED
    BY <2>1, <2>2
<1>2. r = [s \in SUBSET T |-> r[s]]
  OBVIOUS
<1> HIDE DEF r
<1>3. [s \in SUBSET T |-> r[s]]
        = [s \in SUBSET T |-> IF s = {} THEN 0 ELSE f[Pick(s)] + r[s \ {Pick(s)}]]
  BY <1>1
<1>4. Sums(f, T, r)
  BY <1>2, <1>3 DEF Sums
<1> QED
  BY <1>4 DEF r

\* There is one: the least set without one would have one.
LEMMA SumsExist ==
  ASSUME NEW f, NEW S, IsFiniteSet(S)
  PROVE  \E g : Sums(f, S, g)
<1> DEFINE Of(T) == CHOOSE g : Sums(f, T, g)
           Good == {T \in SUBSET S : \E g : Sums(f, T, g)}
<1>1. ASSUME NEW T \in SUBSET S, \A U \in SUBSET S : U \subseteq T /\ U # T => U \in Good
      PROVE  T \in Good
  <2> DEFINE v(s) == IF s = {} THEN 0 ELSE f[Pick(s)] + Of(s \ {Pick(s)})[s \ {Pick(s)}]
             g == [s \in SUBSET T |-> v(s)]
  <2>1. ASSUME NEW U \in SUBSET T, U # T PROVE Sums(f, U, Of(U))
    <3>1. \E h : Sums(f, U, h)
      BY <1>1, <2>1
    <3> QED
      BY <3>1
  <2>2. ASSUME NEW U \in SUBSET T, U # T PROVE g[U] = Of(U)[U]
    <3>1. CASE U = {}
      <4>1. Of(U)[U] = 0
        BY <3>1, <2>1, <2>2, SumsAt
      <4> QED
        BY <4>1, <3>1
    <3>2. CASE U # {}
      <4> DEFINE p == Pick(U)
                 V == U \ {p}
      <4>1. p \in U
        BY <3>2, PickType
      <4>2. V \in SUBSET U /\ V \in SUBSET T /\ V # T /\ IsFiniteSet(V)
        BY <4>1, FS_Subset
      <4>3. Of(U)[U] = f[p] + Of(U)[V]
        <5>1. U \in SUBSET U /\ Sums(f, U, Of(U))
          BY <2>1, <2>2
        <5> QED
          BY <5>1, <3>2, SumsAt
      <4>4. Sums(f, V, [s \in SUBSET V |-> Of(U)[s]])
        BY <2>1, <2>2, <4>2, SumsRestrict
      <4>5. Sums(f, V, Of(V))
        BY <4>2, <2>1
      <4>6. [s \in SUBSET V |-> Of(U)[s]] = Of(V)
        BY <4>2, <4>4, <4>5, SumsUnique
      <4>7. Of(U)[V] = Of(V)[V]
        <5>1. V \in SUBSET V
          OBVIOUS
        <5>2. [s \in SUBSET V |-> Of(U)[s]][V] = Of(U)[V]
          BY <5>1
        <5> HIDE DEF Of, V
        <5> QED
          BY <5>2, <4>6
      <4> QED
        BY <3>2, <4>3, <4>7
    <3> QED
      BY <3>1, <3>2
  <2>3. ASSUME NEW s \in SUBSET T
        PROVE  v(s) = IF s = {} THEN 0 ELSE f[Pick(s)] + g[s \ {Pick(s)}]
    <3>1. CASE s = {}
      BY <3>1
    <3>2. CASE s # {}
      <4>1. Pick(s) \in s
        BY <3>2, PickType
      <4>2. s \ {Pick(s)} \in SUBSET T /\ s \ {Pick(s)} # T
        BY <4>1
      <4>3. g[s \ {Pick(s)}] = Of(s \ {Pick(s)})[s \ {Pick(s)}]
        BY <4>2, <2>2
      <4> QED
        BY <3>2, <4>3
    <3> QED
      BY <3>1, <3>2
  <2>4. [s \in SUBSET T |-> v(s)]
          = [s \in SUBSET T |-> IF s = {} THEN 0 ELSE f[Pick(s)] + g[s \ {Pick(s)}]]
    <3> HIDE DEF v, g
    <3> QED
      BY <2>3
  <2>5. Sums(f, T, g)
    BY <2>4 DEF Sums
  <2> QED
    BY <2>5
<1>2. \A T \in SUBSET S : T \in Good
  <2> HIDE DEF Good
  <2> QED
    BY <1>1, SubsetInduction
<1> QED
  BY <1>2

-------------------------------------------------------------------------------
(* The sum.                                                                  *)

Sum(f, S) == SumFunctionOnSet(f, S)

(* The sum over nothing is nothing.                                         *)
LEMMA SumEmpty == ASSUME NEW f PROVE Sum(f, {}) = 0
<1>1. PICK g : Sums(f, {}, g)
  BY FS_EmptySet, SumsExist
<1>2. Sums(f, {}, CHOOSE h : Sums(f, {}, h))
  BY <1>1
<1> QED
  BY <1>2, SumDef, SumsAt DEF Sum

\* The sum takes out the element it picks.
LEMMA SumPick ==
  ASSUME NEW f, NEW S, IsFiniteSet(S), S # {}
  PROVE  Sum(f, S) = f[Pick(S)] + Sum(f, S \ {Pick(S)})
<1> DEFINE p == Pick(S)
           T == S \ {p}
           g == CHOOSE h : Sums(f, S, h)
           k == CHOOSE h : Sums(f, T, h)
<1>1. p \in S /\ T \in SUBSET S /\ IsFiniteSet(T)
  BY PickType, FS_Subset
<1>2. Sums(f, S, g) /\ Sums(f, T, k)
  <2>1. (\E h : Sums(f, S, h)) /\ (\E h : Sums(f, T, h))
    BY <1>1, SumsExist
  <2> QED
    BY <2>1
<1>3. g[S] = f[p] + g[T]
  BY <1>2, SumsAt
<1>4. Sums(f, T, [s \in SUBSET T |-> g[s]])
  <2> HIDE DEF g, T
  <2> QED
    BY <1>1, <1>2, SumsRestrict
<1>5. [s \in SUBSET T |-> g[s]] = k
  <2> HIDE DEF g, k, T
  <2> QED
    BY <1>1, <1>2, <1>4, SumsUnique
<1>6. g[T] = k[T]
  <2>1. [s \in SUBSET T |-> g[s]][T] = g[T]
    OBVIOUS
  <2> HIDE DEF g, k, T
  <2> QED
    BY <1>5, <2>1
<1>7. Sum(f, S) = g[S] /\ Sum(f, T) = k[T]
  BY SumDef DEF Sum
<1> QED
  BY <1>3, <1>6, <1>7

\* Sums of integers are integers.
LEMMA SumType ==
  ASSUME NEW f, NEW S, IsFiniteSet(S), \A x \in S : f[x] \in Int
  PROVE  Sum(f, S) \in Int
<1> DEFINE Good == {T \in SUBSET S : Sum(f, T) \in Int}
<1>1. ASSUME NEW T \in SUBSET S, \A U \in SUBSET S : U \subseteq T /\ U # T => U \in Good
      PROVE  T \in Good
  <2>1. CASE T = {}
    BY <2>1, SumEmpty
  <2>2. CASE T # {}
    <3>1. Pick(T) \in T /\ IsFiniteSet(T)
      BY <2>2, PickType, FS_Subset
    <3>2. Sum(f, T \ {Pick(T)}) \in Int
      BY <1>1, <3>1
    <3>3. Sum(f, T) = f[Pick(T)] + Sum(f, T \ {Pick(T)})
      BY <2>2, <3>1, SumPick
    <3> QED
      BY <3>1, <3>2, <3>3
  <2> QED
    BY <2>1, <2>2
<1>2. \A T \in SUBSET S : T \in Good
  <2> HIDE DEF Good
  <2> QED
    BY <1>1, SubsetInduction
<1> QED
  BY <1>2

\* Any element can be taken out, whichever the sum picks.
LEMMA SumRemove ==
  ASSUME NEW f, NEW S, IsFiniteSet(S), \A x \in S : f[x] \in Int, NEW e \in S
  PROVE  Sum(f, S) = f[e] + Sum(f, S \ {e})
<1> DEFINE Good == {T \in SUBSET S : \A x \in T : Sum(f, T) = f[x] + Sum(f, T \ {x})}
<1>1. ASSUME NEW T \in SUBSET S, \A U \in SUBSET S : U \subseteq T /\ U # T => U \in Good
      PROVE  T \in Good
  <2> SUFFICES ASSUME NEW x \in T PROVE Sum(f, T) = f[x] + Sum(f, T \ {x})
    OBVIOUS
  <2> DEFINE p == Pick(T)
             R == T \ {x, p}
  <2>1. p \in T /\ IsFiniteSet(T)
    BY PickType, FS_Subset
  <2>2. Sum(f, T) = f[p] + Sum(f, T \ {p})
    BY <2>1, SumPick
  <2>3. CASE x = p
    BY <2>2, <2>3
  <2>4. CASE x # p
    <3>1. T \ {p} \in Good /\ T \ {x} \in Good
      BY <1>1, <2>1
    <3>2. Sum(f, T \ {p}) = f[x] + Sum(f, (T \ {p}) \ {x})
      BY <3>1, <2>4
    <3>3. Sum(f, T \ {x}) = f[p] + Sum(f, (T \ {x}) \ {p})
      BY <3>1, <2>1, <2>4
    <3>4. (T \ {p}) \ {x} = R /\ (T \ {x}) \ {p} = R
      OBVIOUS
    <3>5. Sum(f, R) \in Int /\ f[x] \in Int /\ f[p] \in Int
      BY <2>1, FS_Subset, SumType
    <3> QED
      BY <2>2, <3>2, <3>3, <3>4, <3>5
  <2> QED
    BY <2>3, <2>4
<1>2. \A T \in SUBSET S : T \in Good
  <2> HIDE DEF Good
  <2> QED
    BY <1>1, SubsetInduction
<1> QED
  BY <1>2

\* Functions that agree on the set have one sum.
LEMMA SumSame ==
  ASSUME NEW f, NEW g, NEW S, IsFiniteSet(S), \A x \in S : f[x] = g[x]
  PROVE  Sum(f, S) = Sum(g, S)
<1> DEFINE Good == {T \in SUBSET S : Sum(f, T) = Sum(g, T)}
<1>1. ASSUME NEW T \in SUBSET S, \A U \in SUBSET S : U \subseteq T /\ U # T => U \in Good
      PROVE  T \in Good
  <2>1. CASE T = {}
    BY <2>1, SumEmpty
  <2>2. CASE T # {}
    <3>1. Pick(T) \in T /\ IsFiniteSet(T)
      BY <2>2, PickType, FS_Subset
    <3>2. Sum(f, T \ {Pick(T)}) = Sum(g, T \ {Pick(T)}) /\ f[Pick(T)] = g[Pick(T)]
      BY <1>1, <3>1
    <3>3. /\ Sum(f, T) = f[Pick(T)] + Sum(f, T \ {Pick(T)})
          /\ Sum(g, T) = g[Pick(T)] + Sum(g, T \ {Pick(T)})
      BY <2>2, <3>1, SumPick
    <3> QED
      BY <3>2, <3>3
  <2> QED
    BY <2>1, <2>2
<1>2. \A T \in SUBSET S : T \in Good
  <2> HIDE DEF Good
  <2> QED
    BY <1>1, SubsetInduction
<1> QED
  BY <1>2

\* One element changes: the sum changes as much.
LEMMA SumChange ==
  ASSUME NEW f, NEW g, NEW S, IsFiniteSet(S), NEW e \in S,
         \A x \in S : f[x] \in Int /\ g[x] \in Int,
         \A x \in S \ {e} : g[x] = f[x]
  PROVE  Sum(g, S) = Sum(f, S) - f[e] + g[e]
<1>1. IsFiniteSet(S \ {e})
  BY FS_Subset
<1>2. Sum(f, S) = f[e] + Sum(f, S \ {e}) /\ Sum(g, S) = g[e] + Sum(g, S \ {e})
  BY SumRemove
<1>3. Sum(g, S \ {e}) = Sum(f, S \ {e}) /\ Sum(f, S \ {e}) \in Int
  BY <1>1, SumSame, SumType
<1> QED
  BY <1>2, <1>3

\* A sum of naturals is one.
LEMMA SumNat ==
  ASSUME NEW f, NEW S, IsFiniteSet(S), \A x \in S : f[x] \in Nat
  PROVE  Sum(f, S) \in Nat
<1> DEFINE Good == {T \in SUBSET S : Sum(f, T) \in Nat}
<1>1. ASSUME NEW T \in SUBSET S, \A U \in SUBSET S : U \subseteq T /\ U # T => U \in Good
      PROVE  T \in Good
  <2>1. CASE T = {}
    BY <2>1, SumEmpty
  <2>2. CASE T # {}
    <3>1. Pick(T) \in T /\ IsFiniteSet(T)
      BY <2>2, PickType, FS_Subset
    <3>2. Sum(f, T \ {Pick(T)}) \in Nat
      BY <1>1, <3>1
    <3>3. Sum(f, T) = f[Pick(T)] + Sum(f, T \ {Pick(T)})
      BY <2>2, <3>1, SumPick
    <3> QED
      BY <3>1, <3>2, <3>3
  <2> QED
    BY <2>1, <2>2
<1>2. \A T \in SUBSET S : T \in Good
  <2> HIDE DEF Good
  <2> QED
    BY <1>1, SubsetInduction
<1> QED
  BY <1>2

\* The sum up to n + 1 is that up to n and one more.
LEMMA SumUpTo ==
  ASSUME NEW f, NEW n \in Nat, \A i \in 1 .. n + 1 : f[i] \in Int
  PROVE  Sum(f, 1 .. n + 1) = Sum(f, 1 .. n) + f[n + 1]
<1>1. IsFiniteSet(1 .. n + 1) /\ IsFiniteSet(1 .. n) /\ n + 1 \in 1 .. n + 1
  BY FS_Interval
<1>2. (1 .. n + 1) \ {n + 1} = 1 .. n
  OBVIOUS
<1>3. Sum(f, 1 .. n) \in Int /\ f[n + 1] \in Int
  BY <1>1, SumType
<1>4. Sum(f, 1 .. n + 1) = f[n + 1] + Sum(f, (1 .. n + 1) \ {n + 1})
  <2> DEFINE S == 1 .. n + 1
             e == n + 1
  <2>1. IsFiniteSet(S) /\ e \in S /\ \A i \in S : f[i] \in Int
    BY <1>1
  <2> HIDE DEF S, e
  <2>2. Sum(f, S) = f[e] + Sum(f, S \ {e})
    BY <2>1, SumRemove
  <2> QED
    BY <2>2 DEF S, e
<1> DEFINE R == Sum(f, 1 .. n)
<1>5. Sum(f, 1 .. n + 1) = f[n + 1] + R
  BY <1>2, <1>4, Zenon
<1>6. f[n + 1] + R = R + f[n + 1]
  <2> HIDE DEF R
  <2> QED
    BY <1>3 DEF R
<1> QED
  BY <1>5, <1>6

\* What is above each element is above the sum, as often as there are elements.
LEMMA SumBelow ==
  ASSUME NEW f, NEW S, IsFiniteSet(S), NEW m \in Nat,
         \A x \in S : f[x] \in Int /\ f[x] <= m
  PROVE  Sum(f, S) <= Cardinality(S) * m
<1> DEFINE Good == {T \in SUBSET S : Sum(f, T) <= Cardinality(T) * m}
<1>1. ASSUME NEW T \in SUBSET S, \A U \in SUBSET S : U \subseteq T /\ U # T => U \in Good
      PROVE  T \in Good
  <2>1. CASE T = {}
    <3>1. Sum(f, T) = 0 /\ Cardinality(T) = 0
      BY <2>1, SumEmpty, FS_EmptySet
    <3> QED
      BY <3>1
  <2>2. CASE T # {}
    <3> DEFINE p == Pick(T)
               R == T \ {p}
    <3>1. p \in T /\ IsFiniteSet(T) /\ R \in SUBSET S /\ R # T /\ IsFiniteSet(R)
      BY <2>2, PickType, FS_Subset
    <3>2. Sum(f, R) <= Cardinality(R) * m /\ Sum(f, R) \in Int
      BY <1>1, <3>1, SumType
    <3>3. Sum(f, T) = f[p] + Sum(f, R)
      BY <2>2, <3>1, SumPick
    <3>4. Cardinality(T) \in Nat /\ Cardinality(R) = Cardinality(T) - 1 /\ Cardinality(R) \in Nat
      BY <3>1, FS_RemoveElement, FS_CardinalityType
    <3>5. Cardinality(T) * m = Cardinality(R) * m + m
      <4>1. ASSUME NEW c \in Nat PROVE (c + 1) * m = c * m + m
        OBVIOUS
      <4>2. Cardinality(T) = Cardinality(R) + 1
        BY <3>4
      <4> QED
        BY <3>4, <4>1, <4>2
    <3>6. Cardinality(R) * m \in Int /\ f[p] \in Int /\ f[p] <= m
      BY <3>1, <3>4
    <3> QED
      BY <3>2, <3>3, <3>5, <3>6
  <2> QED
    BY <2>1, <2>2
<1>2. \A T \in SUBSET S : T \in Good
  <2> HIDE DEF Good
  <2> QED
    BY <1>1, SubsetInduction
<1> QED
  BY <1>2

-------------------------------------------------------------------------------
(* The orders and the books.                                                   *)

(* Amounts and limits are numbers, symbols and workers are finitely many.   *)
LEMMA ConstantTypes ==
  /\ IsFiniteSet(Symbols) /\ Symbols # {}
  /\ Start \in Nat /\ MaxOrder \in Nat /\ MaxLots \in Nat /\ MaxHalts \in Nat
BY LedgerAssumption

(* An idle worker holds an order of no shares.                              *)
LEMMA NoJobType == NoJob \in Order /\ NoJob.qty = 0
BY ConstantTypes DEF NoJob, Order

\* The lots of a symbol and what they hold.
LEMMA HeldType ==
  ASSUME TypeOK, NEW s \in Symbols
  PROVE  /\ lots[s] \in Seq(0 .. MaxOrder)
         /\ \A n \in Nat : n <= Len(lots[s]) => Sum(lots[s], 1 .. n) \in Nat
         /\ Held(s) = Sum(lots[s], 1 .. Len(lots[s]))
         /\ Held(s) \in Nat
<1>1. lots[s] \in Seq(0 .. MaxOrder)
  BY DEF TypeOK
<1>2. /\ Len(lots[s]) \in Nat /\ DOMAIN lots[s] = 1 .. Len(lots[s])
      /\ \A i \in 1 .. Len(lots[s]) : lots[s][i] \in Nat
  BY <1>1, ConstantTypes
<1>3. Held(s) = Sum(lots[s], 1 .. Len(lots[s]))
  BY <1>2 DEF Held, SumFunction, Sum
<1>4. ASSUME NEW n \in Nat, n <= Len(lots[s]) PROVE Sum(lots[s], 1 .. n) \in Nat
  <2>1. IsFiniteSet(1 .. n)
    BY FS_Interval
  <2>2. \A i \in 1 .. n : lots[s][i] \in Nat
    BY <1>2, <1>4
  <2> QED
    BY <2>1, <2>2, SumNat
<1> QED
  BY <1>1, <1>2, <1>3, <1>4

\* The remainders that a sale works out are lot sizes.
LEMMA FIFOType ==
  ASSUME TypeOK, NEW s \in Symbols, NEW q \in Nat
  PROVE  LET p == FIFO(lots[s], q)
         IN  /\ DOMAIN p = {i \in 1 .. Len(lots[s]) : lots[s][i] > 0}
             /\ \A i \in DOMAIN p :
                  /\ p[i] = Monus(lots[s][i], Monus(q, Sum(lots[s], 1 .. i - 1)))
                  /\ p[i] \in 0 .. MaxOrder
<1>1. /\ lots[s] \in Seq(0 .. MaxOrder)
      /\ \A n \in Nat : n <= Len(lots[s]) => Sum(lots[s], 1 .. n) \in Nat
  BY HeldType
<1>2. DOMAIN lots[s] = 1 .. Len(lots[s]) /\ Len(lots[s]) \in Nat
  BY <1>1
<1>3. DOMAIN FIFO(lots[s], q) = {i \in 1 .. Len(lots[s]) : lots[s][i] > 0}
  BY <1>2 DEF FIFO
<1>4. ASSUME NEW i \in DOMAIN FIFO(lots[s], q)
      PROVE  /\ FIFO(lots[s], q)[i] = Monus(lots[s][i], Monus(q, Sum(lots[s], 1 .. i - 1)))
             /\ FIFO(lots[s], q)[i] \in 0 .. MaxOrder
  <2>1. FIFO(lots[s], q)[i] = Monus(lots[s][i], Monus(q, Sum(lots[s], 1 .. i - 1)))
    BY <1>2, <1>3 DEF FIFO, Sum
  <2>2. i \in 1 .. Len(lots[s]) /\ i - 1 \in Nat /\ i - 1 <= Len(lots[s])
    BY <1>2, <1>3
  <2>3. lots[s][i] \in 0 .. MaxOrder
    BY <1>1, <2>2, ElementOfSeq
  <2> DEFINE P == Sum(lots[s], 1 .. i - 1)
  <2>4. P \in Nat
    BY <1>1, <2>2
  <2>5. Monus(lots[s][i], Monus(q, P)) \in 0 .. MaxOrder
    <3> HIDE DEF P
    <3> QED
      BY <2>3, <2>4, ConstantTypes DEF Monus
  <2> QED
    BY <2>1, <2>5
<1> QED
  BY <1>3, <1>4

-------------------------------------------------------------------------------
(* Sums over the actors.                                                     *)

\* Nothing but zeros adds up to zero.
LEMMA SumZero ==
  ASSUME NEW f, NEW S, IsFiniteSet(S), \A x \in S : f[x] = 0
  PROVE  Sum(f, S) = 0
<1>1. Sum(f, S) \in Nat /\ Sum(f, S) <= Cardinality(S) * 0
  BY SumNat, SumBelow
<1>2. Cardinality(S) * 0 = 0
  BY FS_CardinalityType
<1> QED
  BY <1>1, <1>2

\* A function that is smaller everywhere has the smaller sum.
LEMMA SumLess ==
  ASSUME NEW f, NEW g, NEW S, IsFiniteSet(S),
         \A x \in S : f[x] \in Nat /\ g[x] \in Nat /\ g[x] <= f[x]
  PROVE  Sum(g, S) <= Sum(f, S) /\ Sum(f, S) \in Int /\ Sum(g, S) \in Int
<1> DEFINE Good == {T \in SUBSET S : Sum(g, T) <= Sum(f, T)}
<1>1. ASSUME NEW T \in SUBSET S, \A U \in SUBSET S : U \subseteq T /\ U # T => U \in Good
      PROVE  T \in Good
  <2>1. CASE T = {}
    <3>1. Sum(f, T) = 0 /\ Sum(g, T) = 0
      BY <2>1, SumEmpty
    <3> QED
      BY <3>1
  <2>2. CASE T # {}
    <3> DEFINE p == Pick(T)
               R == T \ {p}
    <3>1. p \in T /\ IsFiniteSet(T) /\ R \in SUBSET S /\ R # T /\ IsFiniteSet(R)
      BY <2>2, PickType, FS_Subset
    <3>2. Sum(g, R) <= Sum(f, R) /\ Sum(f, R) \in Int /\ Sum(g, R) \in Int
      BY <1>1, <3>1, SumType
    <3>3. Sum(f, T) = f[p] + Sum(f, R) /\ Sum(g, T) = g[p] + Sum(g, R)
      BY <2>2, <3>1, SumPick
    <3> QED
      BY <3>1, <3>2, <3>3
  <2> QED
    BY <2>1, <2>2
<1>2. \A T \in SUBSET S : T \in Good
  <2> HIDE DEF Good
  <2> QED
    BY <1>1, SubsetInduction
<1> QED
  BY <1>2, SumType

\* One member that counts is the sum.
LEMMA SumLone ==
  ASSUME NEW f, NEW S, IsFiniteSet(S), NEW e \in S, f[e] \in Int,
         \A x \in S \ {e} : f[x] = 0
  PROVE  Sum(f, S) = f[e]
<1>1. IsFiniteSet(S \ {e})
  BY FS_Subset
<1>2. Sum(f, S \ {e}) = 0
  BY <1>1, SumZero
<1>3. \A x \in S : f[x] \in Int
  OBVIOUS
<1>4. Sum(f, S) = f[e] + Sum(f, S \ {e})
  BY <1>3, SumRemove
<1> QED
  BY <1>2, <1>4

(* The engine and the threads are finitely many.                             *)
LEMMA ActorsFinite ==
  /\ IsFiniteSet(Actors) /\ "engine" \in Actors
  /\ Cardinality(Threads) \in Nat
  /\ \A a \in Actors : /\ IsFiniteSet(Actors \ {a})
                       /\ Cardinality(Actors \ {a}) = Cardinality(Threads)
<1>1. IsFiniteSet(Threads) /\ "engine" \notin Threads
  BY LedgerAssumption
<1>2. Actors = Threads \cup {"engine"}
  BY DEF Actors
<1>3. IsFiniteSet(Actors) /\ Cardinality(Actors) = Cardinality(Threads) + 1
  BY <1>1, <1>2, FS_AddElement
<1>4. Cardinality(Threads) \in Nat
  BY <1>1, FS_CardinalityType
<1>5. ASSUME NEW a \in Actors
      PROVE  /\ IsFiniteSet(Actors \ {a})
             /\ Cardinality(Actors \ {a}) = Cardinality(Actors) - 1
  BY <1>3, <1>5, FS_RemoveElement
<1> QED
  BY <1>2, <1>3, <1>4, <1>5

(* What is cut short at once are actors.                                     *)
LEMMA CutsOfActors == Cuts \subseteq SUBSET Actors
BY DEF Cuts, Actors

\* One actor's share changes: the sum changes as much.
LEMMA ActorsChange ==
  ASSUME NEW f \in [Actors -> Int], NEW g \in [Actors -> Int], NEW a \in Actors,
         \A b \in Actors \ {a} : g[b] = f[b]
  PROVE  /\ SumFunction(f) \in Int /\ SumFunction(g) \in Int
         /\ SumFunction(g) - SumFunction(f) = g[a] - f[a]
<1>1. SumFunction(f) = Sum(f, Actors) /\ SumFunction(g) = Sum(g, Actors)
  BY DEF SumFunction, Sum
<1>2. Sum(f, Actors) \in Int /\ Sum(g, Actors) \in Int
  BY ActorsFinite, SumType
<1>3. Sum(g, Actors) = Sum(f, Actors) - f[a] + g[a]
  BY ActorsFinite, SumChange
<1> QED
  BY <1>1, <1>2, <1>3

(* A function of the actors is summed over them.                             *)
LEMMA ActorSum ==
  ASSUME NEW f, DOMAIN f = Actors
  PROVE  SumFunction(f) = Sum(f, Actors)
BY DEF SumFunction, Sum

-------------------------------------------------------------------------------
(* Types.                                                                    *)

(* The first state has the types.                                           *)
LEMMA InitTypes == Init => TypeOK
<1> SUFFICES ASSUME Init PROVE TypeOK
  OBVIOUS
<1>1. lots \in [Symbols -> Seq(0 .. MaxOrder)]
  BY DEF Init
<1>2. job \in [Actors -> Order]
  BY NoJobType DEF Init
<1>3. todo \in [Actors -> SUBSET Order]
  BY DEF Init
<1>4. DOMAIN plan = Actors /\ \A a \in Actors : \A i \in DOMAIN plan[a] : plan[a][i] \in 0 .. MaxOrder
  BY DEF Init, NoPlan
<1>5. at \in [Actors -> Steps] /\ keep \in [Actors -> Nat]
  BY DEF Init, Steps
<1>6. row \in [Symbols -> Nat] /\ net \in [Symbols -> Int] /\ cash \in Int /\ panics \in 0 .. MaxHalts
  BY ConstantTypes DEF Init
<1> QED
  BY <1>1, <1>2, <1>3, <1>4, <1>5, <1>6 DEF Init, TypeOK

\* Every next step of an actor is one of its steps.
LEMMA GotoType ==
  ASSUME TypeOK, NEW a \in Actors, NEW step \in Steps, Goto(a, step)
  PROVE  /\ at' \in [Actors -> Steps] /\ torn' \subseteq Symbols
         /\ at'[a] = step /\ \A b \in Actors \ {a} : at'[b] = at[b]
         /\ torn' = torn \cup Clashing
BY DEF TypeOK, Goto, Clashing

(* No step takes a variable out of its type.                                *)
LEMMA TypeStep == ASSUME TypeOK, WorkInv, [Next]_vars PROVE TypeOK'
<1> USE DEF books, work
<1>1. ASSUME NEW a \in Actors, NEW s \in Symbols, NEW n \in 1 .. MaxOrder, BeginBuy(a, s, n)
      PROVE  TypeOK'
  <2>1. job' \in [Actors -> Order]
    BY <1>1, ConstantTypes DEF TypeOK, BeginBuy, Order
  <2>2. at' \in [Actors -> Steps] /\ torn' \subseteq Symbols
    BY <1>1, GotoType DEF BeginBuy, Steps
  <2> QED
    BY <1>1, <2>1, <2>2 DEF TypeOK, BeginBuy
<1>2. ASSUME NEW a \in Actors, RecordTrade(a) PROVE TypeOK'
  <2>1. at' \in [Actors -> Steps] /\ torn' \subseteq Symbols
    BY <1>2, GotoType DEF RecordTrade, Steps
  <2>2. net' \in [Symbols -> Int]
    <3>1. job[a].qty \in Nat
      BY DEF TypeOK, Order
    <3> QED
      BY <1>2, <3>1 DEF TypeOK, RecordTrade
  <2> QED
    BY <1>2, <2>1, <2>2 DEF TypeOK, RecordTrade
<1>3. ASSUME NEW a \in Actors, Pay(a) PROVE TypeOK'
  <2>1. at' \in [Actors -> Steps] /\ torn' \subseteq Symbols
    BY <1>3, GotoType DEF Pay, Steps
  <2>2. cash' \in Int
    BY <1>3 DEF TypeOK, Pay, Order
  <2> QED
    BY <1>3, <2>1, <2>2 DEF TypeOK, Pay
<1>4. ASSUME NEW a \in Actors, OpenLot(a) PROVE TypeOK'
  <2>1. at' \in [Actors -> Steps] /\ torn' \subseteq Symbols
    BY <1>4, GotoType DEF OpenLot, Steps
  <2>2. job[a].sym \in Symbols /\ job[a].qty \in 0 .. MaxOrder
    BY <1>4, ConstantTypes DEF TypeOK, WorkInv, WorkOf, Order, OpenLot, Buying
  <2>3. lots' \in [Symbols -> Seq(0 .. MaxOrder)]
    BY <1>4, <2>2 DEF TypeOK, OpenLot
  <2>4. row' \in [Symbols -> Nat]
    BY <1>4, <2>2 DEF TypeOK, OpenLot
  <2>5. job' \in [Actors -> Order]
    BY <1>4, NoJobType DEF TypeOK, OpenLot
  <2> QED
    BY <1>4, <2>1, <2>3, <2>4, <2>5 DEF TypeOK, OpenLot
<1>5. ASSUME NEW s \in Symbols, BeginSale(s) PROVE TypeOK'
  <2>1. at' \in [Actors -> Steps] /\ torn' \subseteq Symbols
    BY <1>5, GotoType DEF BeginSale, Steps, Actors
  <2>2. job' \in [Actors -> Order]
    BY <1>5 DEF TypeOK, BeginSale, Order
  <2> QED
    BY <1>5, <2>1, <2>2 DEF TypeOK, BeginSale
<1>6. ASSUME NEW a \in Actors, PickLots(a) PROVE TypeOK'
  <2>1. at' \in [Actors -> Steps] /\ torn' \subseteq Symbols
    BY <1>6, GotoType DEF PickLots, Steps
  <2>2. job[a].sym \in Symbols /\ job[a].qty \in Nat
    BY DEF TypeOK, Order
  <2>3. keep' \in [Actors -> Nat]
    <3>1. Monus(job[a].qty, Held(job[a].sym)) \in Nat
      BY <2>2, HeldType DEF Monus
    <3> QED
      BY <1>6, <3>1 DEF TypeOK, PickLots
  <2>4. DOMAIN plan' = Actors /\ \A b \in Actors : \A i \in DOMAIN plan'[b] : plan'[b][i] \in 0 .. MaxOrder
    <3>1. \A i \in DOMAIN FIFO(lots[job[a].sym], job[a].qty) :
             FIFO(lots[job[a].sym], job[a].qty)[i] \in 0 .. MaxOrder
      BY <2>2, FIFOType
    <3> QED
      BY <1>6, <3>1 DEF TypeOK, PickLots
  <2> QED
    BY <1>6, <2>1, <2>3, <2>4 DEF TypeOK, PickLots
<1>7. ASSUME NEW a \in Actors, TakeLots(a) PROVE TypeOK'
  <2>1. at' \in [Actors -> Steps] /\ torn' \subseteq Symbols
    BY <1>7, GotoType DEF TakeLots, Steps
  <2>2. lots' \in [Symbols -> Seq(0 .. MaxOrder)]
    <3> DEFINE s == job[a].sym
               new == [i \in DOMAIN lots[s] |->
                         IF i \in DOMAIN plan[a] THEN plan[a][i] ELSE lots[s][i]]
    <3>1. s \in Symbols /\ lots[s] \in Seq(0 .. MaxOrder)
      BY DEF TypeOK, Order
    <3>2. Len(lots[s]) \in Nat /\ DOMAIN lots[s] = 1 .. Len(lots[s])
          /\ \A i \in 1 .. Len(lots[s]) : lots[s][i] \in 0 .. MaxOrder
      BY <3>1, LenProperties, ElementOfSeq
    <3>3. new \in [1 .. Len(lots[s]) -> 0 .. MaxOrder]
      BY <3>2 DEF TypeOK
    <3>4. new \in Seq(0 .. MaxOrder)
      BY <3>2, <3>3
    <3>5. lots' = [lots EXCEPT ![s] = new]
      BY <1>7, <3>1 DEF TypeOK, TakeLots
    <3> HIDE DEF new
    <3> QED
      BY <3>1, <3>4, <3>5 DEF TypeOK
  <2>3. job' \in [Actors -> Order] /\ todo' \in [Actors -> SUBSET Order]
    BY <1>7, NoJobType DEF TypeOK, TakeLots
  <2>4. keep' \in [Actors -> Nat]
    BY <1>7 DEF TypeOK, TakeLots
  <2>5. DOMAIN plan' = Actors /\ \A b \in Actors : \A i \in DOMAIN plan'[b] : plan'[b][i] \in 0 .. MaxOrder
    BY <1>7 DEF TypeOK, TakeLots, NoPlan
  <2> QED
    BY <1>7, <2>1, <2>2, <2>3, <2>4, <2>5 DEF TypeOK, TakeLots
<1>8. ASSUME NEW a \in Actors, ReadRow(a) PROVE TypeOK'
  <2>1. at' \in [Actors -> Steps] /\ torn' \subseteq Symbols
    BY <1>8, GotoType DEF ReadRow, Steps
  <2>2. keep' \in [Actors -> Nat]
    <3>1. row[job[a].sym] \in Nat /\ job[a].qty \in Nat
      BY DEF TypeOK, Order
    <3>2. Monus(row[job[a].sym], job[a].qty) \in Nat
      BY <3>1 DEF Monus
    <3> QED
      BY <1>8, <3>2 DEF TypeOK, ReadRow
  <2> QED
    BY <1>8, <2>1, <2>2 DEF TypeOK, ReadRow
<1>9. ASSUME NEW a \in Actors, CutRow(a) PROVE TypeOK'
  <2>1. at' \in [Actors -> Steps] /\ torn' \subseteq Symbols
    BY <1>9, GotoType DEF CutRow, Steps
  <2>2. row' \in [Symbols -> Nat] /\ keep' \in [Actors -> Nat]
    BY <1>9 DEF TypeOK, CutRow
  <2> QED
    BY <1>9, <2>1, <2>2 DEF TypeOK, CutRow
<1>10. ASSUME NEW a \in Actors, Credit(a) PROVE TypeOK'
  <2>1. at' \in [Actors -> Steps] /\ torn' \subseteq Symbols
    BY <1>10, GotoType DEF Credit, Steps
  <2>2. cash' \in Int
    BY <1>10 DEF TypeOK, Credit, Order
  <2>3. job' \in [Actors -> Order]
    BY <1>10, NoJobType DEF TypeOK, Credit
  <2> QED
    BY <1>10, <2>1, <2>2, <2>3 DEF TypeOK, Credit
<1>11. ASSUME NEW a \in Actors, SetHalt(a) PROVE TypeOK'
  <2>1. at' \in [Actors -> Steps] /\ torn' \subseteq Symbols
    BY <1>11, GotoType DEF SetHalt, Steps
  <2>2. panics' \in 0 .. MaxHalts
    BY <1>11, ConstantTypes DEF TypeOK, SetHalt
  <2> QED
    BY <1>11, <2>1, <2>2 DEF TypeOK, SetHalt
<1>12. ASSUME NEW a \in Actors, ListRows(a) PROVE TypeOK'
  <2>1. at' \in [Actors -> Steps] /\ torn' \subseteq Symbols
    BY <1>12, GotoType DEF ListRows, Steps
  <2>2. todo' \in [Actors -> SUBSET Order]
    BY <1>12 DEF TypeOK, ListRows, Order
  <2> QED
    BY <1>12, <2>1, <2>2 DEF TypeOK, ListRows
<1>13. ASSUME NEW a \in Actors, NextRow(a) PROVE TypeOK'
  <2>1. at' \in [Actors -> Steps] /\ torn' \subseteq Symbols
    BY <1>13, GotoType DEF NextRow, Steps
  <2>2. todo' \in [Actors -> SUBSET Order] /\ job' \in [Actors -> Order]
    BY <1>13 DEF TypeOK, NextRow
  <2> QED
    BY <1>13, <2>1, <2>2 DEF TypeOK, NextRow
<1>14. ASSUME NEW cut \in SUBSET Actors, Die(cut) PROVE TypeOK'
  <2>1. at' \in [Actors -> Steps]
    BY <1>14 DEF TypeOK, Die, Steps
  <2>2. job' \in [Actors -> Order] /\ todo' \in [Actors -> SUBSET Order]
    BY <1>14, NoJobType DEF TypeOK, Die
  <2>3. DOMAIN plan' = Actors /\ \A b \in Actors : \A i \in DOMAIN plan'[b] : plan'[b][i] \in 0 .. MaxOrder
    BY <1>14 DEF TypeOK, Die, NoPlan
  <2>4. torn' \subseteq Symbols
    <3>1. \A b \in Actors : Touched(b) \subseteq Symbols
      BY DEF Touched, TypeOK, Order
    <3> QED
      BY <1>14, <3>1 DEF TypeOK, Die, Clashing
  <2>5. keep' \in [Actors -> Nat]
    BY <1>14 DEF TypeOK, Die
  <2> QED
    BY <1>14, <2>1, <2>2, <2>3, <2>4, <2>5 DEF TypeOK, Die
<1>15. CASE Resume
  BY <1>15 DEF TypeOK, Resume
<1>16. CASE UNCHANGED vars
  BY <1>16 DEF TypeOK, vars
<1> QED
  BY <1>1, <1>2, <1>3, <1>4, <1>5, <1>6, <1>7, <1>8, <1>9, <1>10, <1>11, <1>12,
     <1>13, <1>14, <1>15, <1>16, CutsOfActors DEF Next, Buy, Sale

-------------------------------------------------------------------------------
(* What a sale takes.                                                        *)

\* The remainders of a sale of q shares hold q less than the lots did, or
\* nothing when there were not that many (close_lots_fifo).
LEMMA FIFOTakes ==
  ASSUME TypeOK, NEW s \in Symbols, NEW q \in Nat, NEW after,
         after = [i \in DOMAIN lots[s] |->
                    IF i \in DOMAIN FIFO(lots[s], q) THEN FIFO(lots[s], q)[i] ELSE lots[s][i]]
  PROVE  SumFunction(after) = Monus(Held(s), q)
<1> DEFINE N == Len(lots[s])
           P(n) == Sum(lots[s], 1 .. n)
           Q(n) == Sum(after, 1 .. n)
           Good == {n \in 0 .. N : Q(n) = Monus(P(n), q)}
<1>1. /\ N \in Nat /\ DOMAIN lots[s] = 1 .. N
      /\ \A i \in 1 .. N : lots[s][i] \in Nat
  BY LenProperties, ElementOfSeq, ConstantTypes DEF TypeOK
<1>2. \A n \in 0 .. N : P(n) \in Nat
  BY <1>1, HeldType
<1>3. ASSUME NEW i \in 1 .. N
      PROVE  after[i] = Monus(lots[s][i], Monus(q, P(i - 1))) /\ after[i] \in Nat
  <2> DEFINE l == lots[s][i]
             p == P(i - 1)
  <2>1. l \in Nat /\ p \in Nat
    BY <1>1, <1>2
  <2>2. CASE l > 0
    <3>1. i \in DOMAIN FIFO(lots[s], q)
      BY <1>3, <2>2, FIFOType
    <3>2. after[i] = FIFO(lots[s], q)[i]
      BY <1>1, <3>1
    <3>3. after[i] = Monus(l, Monus(q, p))
      BY <3>1, <3>2, FIFOType
    <3>4. Monus(l, Monus(q, p)) \in Nat
      <4> HIDE DEF l, p
      <4> QED
        BY <2>1 DEF Monus
    <3> QED
      BY <3>3, <3>4
  <2>3. CASE ~(l > 0)
    <3>1. i \notin DOMAIN FIFO(lots[s], q)
      BY <2>3, FIFOType
    <3>2. after[i] = l
      BY <1>1, <3>1
    <3>3. l = 0 /\ Monus(l, Monus(q, p)) = 0
      <4> HIDE DEF l, p
      <4> QED
        BY <2>1, <2>3 DEF Monus
    <3> QED
      BY <3>2, <3>3
  <2> QED
    BY <2>2, <2>3
<1>4. 0 \in Good
  <2>1. 1 .. 0 = {}
    OBVIOUS
  <2>2. P(0) = 0 /\ Q(0) = 0
    BY <2>1, SumEmpty
  <2>3. Monus(0, q) = 0
    BY DEF Monus
  <2> QED
    BY <1>1, <2>2, <2>3
<1>5. ASSUME NEW n \in 0 .. N - 1, n \in Good PROVE n + 1 \in Good
  <2> DEFINE l == lots[s][n + 1]
             p == P(n)
             r == Q(n)
  <2>1. n \in Nat /\ n + 1 \in 1 .. N /\ n + 1 \in 0 .. N /\ (n + 1) - 1 = n /\ n \in 0 .. N
    BY <1>1
  <2>2. l \in Nat /\ p \in Nat
    BY <1>1, <1>2, <2>1
  <2>3. P(n + 1) = p + l
    <3>1. \A i \in 1 .. n + 1 : lots[s][i] \in Int
      BY <1>1, <2>1
    <3> QED
      BY <2>1, <3>1, SumUpTo
  <2>4. Q(n + 1) = r + after[n + 1]
    <3>1. \A i \in 1 .. n + 1 : after[i] \in Int
      <4>1. \A i \in 1 .. N : after[i] \in Nat
        BY <1>3
      <4>2. \A i \in 1 .. n + 1 : i \in 1 .. N
        BY <1>1, <2>1
      <4> HIDE DEF N
      <4> QED
        BY <4>1, <4>2
    <3> QED
      BY <2>1, <3>1, SumUpTo
  <2>5. after[n + 1] = Monus(l, Monus(q, p))
    BY <1>3, <2>1
  <2>6. r = Monus(p, q)
    BY <1>5
  <2>7. Monus(p, q) + Monus(l, Monus(q, p)) = Monus(p + l, q)
    <3> HIDE DEF l, p
    <3> QED
      BY <2>2 DEF Monus
  <2>8. Q(n + 1) = Monus(P(n + 1), q)
    <3> HIDE DEF P, Q
    <3> QED
      BY <2>3, <2>4, <2>5, <2>6, <2>7
  <2> QED
    BY <2>1, <2>8
<1>6. N \in Good
  <2> HIDE DEF Good
  <2> QED
    BY <1>1, <1>4, <1>5, InductionUpTo
<1>7. SumFunction(after) = Q(N) /\ Held(s) = P(N)
  BY <1>1, HeldType DEF SumFunction, Sum
<1> QED
  BY <1>6, <1>7

-------------------------------------------------------------------------------
(* Who is at what.                                                           *)

(* In the first state nobody is at work.                                    *)
LEMMA InitWork == Init => WorkInv
BY DEF Init, WorkInv, WorkOf, Buying, Selling

\* A step moves one actor; the others keep their part of WorkInv.
LEMMA WorkStep == ASSUME TypeOK, WorkInv, [Next]_vars PROVE WorkInv'
<1> SUFFICES ASSUME NEW b \in Actors PROVE WorkOf(b)'
  BY DEF WorkInv
<1>w. WorkOf(b)
  BY DEF WorkInv
<1>same. ASSUME at'[b] = at[b], job'[b] = job[b], todo'[b] = todo[b] PROVE WorkOf(b)'
  BY <1>w, <1>same DEF WorkOf
<1> USE DEF books, work, TypeOK, Goto
<1>1. ASSUME NEW a \in Actors, NEW s \in Symbols, NEW n \in 1 .. MaxOrder, BeginBuy(a, s, n)
      PROVE  WorkOf(b)'
  <2>1. CASE a = b
    BY <1>1, <1>w, <2>1 DEF BeginBuy, WorkOf, Buying, Selling
  <2> QED
    BY <1>1, <1>same, <2>1 DEF BeginBuy
<1>2. ASSUME NEW a \in Actors, RecordTrade(a) PROVE WorkOf(b)'
  <2>1. CASE a = b
    BY <1>2, <1>w, <2>1 DEF RecordTrade, WorkOf, Buying, Selling
  <2> QED
    BY <1>2, <1>same, <2>1 DEF RecordTrade
<1>3. ASSUME NEW a \in Actors, Pay(a) PROVE WorkOf(b)'
  <2>1. CASE a = b
    BY <1>3, <1>w, <2>1 DEF Pay, WorkOf, Buying, Selling
  <2> QED
    BY <1>3, <1>same, <2>1 DEF Pay
<1>4. ASSUME NEW a \in Actors, OpenLot(a) PROVE WorkOf(b)'
  <2>1. CASE a = b
    BY <1>4, <1>w, <2>1 DEF OpenLot, WorkOf, Buying, Selling
  <2> QED
    BY <1>4, <1>same, <2>1 DEF OpenLot
<1>5. ASSUME NEW s \in Symbols, BeginSale(s) PROVE WorkOf(b)'
  <2>1. CASE b = "engine"
    BY <1>5, <1>w, <2>1 DEF BeginSale, WorkOf, Buying, Selling
  <2> QED
    BY <1>5, <1>same, <2>1 DEF BeginSale
<1>6. ASSUME NEW a \in Actors, PickLots(a) PROVE WorkOf(b)'
  <2>1. CASE a = b
    BY <1>6, <1>w, <2>1 DEF PickLots, WorkOf, Buying, Selling
  <2> QED
    BY <1>6, <1>same, <2>1 DEF PickLots
<1>7. ASSUME NEW a \in Actors, TakeLots(a) PROVE WorkOf(b)'
  <2>1. CASE a = b
    BY <1>7, <1>w, <2>1 DEF TakeLots, WorkOf, Buying, Selling
  <2> QED
    BY <1>7, <1>same, <2>1 DEF TakeLots
<1>8. ASSUME NEW a \in Actors, ReadRow(a) PROVE WorkOf(b)'
  <2>1. CASE a = b
    BY <1>8, <1>w, <2>1 DEF ReadRow, WorkOf, Buying, Selling
  <2> QED
    BY <1>8, <1>same, <2>1 DEF ReadRow
<1>9. ASSUME NEW a \in Actors, CutRow(a) PROVE WorkOf(b)'
  <2>1. CASE a = b
    BY <1>9, <1>w, <2>1 DEF CutRow, WorkOf, Buying, Selling
  <2> QED
    BY <1>9, <1>same, <2>1 DEF CutRow
<1>10. ASSUME NEW a \in Actors, Credit(a) PROVE WorkOf(b)'
  <2>1. CASE a = b
    BY <1>10, <1>w, <2>1 DEF Credit, WorkOf, Buying, Selling
  <2> QED
    BY <1>10, <1>same, <2>1 DEF Credit
<1>11. ASSUME NEW a \in Actors, SetHalt(a) PROVE WorkOf(b)'
  <2>1. CASE a = b
    BY <1>11, <1>w, <2>1 DEF SetHalt, WorkOf, Buying, Selling
  <2> QED
    BY <1>11, <1>same, <2>1 DEF SetHalt
<1>12. ASSUME NEW a \in Actors, ListRows(a) PROVE WorkOf(b)'
  <2>1. CASE a = b
    BY <1>12, <1>w, <2>1 DEF ListRows, WorkOf, Buying, Selling
  <2> QED
    BY <1>12, <1>same, <2>1 DEF ListRows
<1>13. ASSUME NEW a \in Actors, NextRow(a) PROVE WorkOf(b)'
  <2>1. CASE a = b
    BY <1>13, <1>w, <2>1 DEF NextRow, WorkOf, Buying, Selling
  <2> QED
    BY <1>13, <1>same, <2>1 DEF NextRow
<1>14. ASSUME NEW cut \in SUBSET Actors, Die(cut) PROVE WorkOf(b)'
  <2>1. CASE b \in cut
    BY <1>14, <1>w, <2>1 DEF Die, WorkOf, Buying, Selling
  <2> QED
    BY <1>14, <1>same, <2>1 DEF Die
<1>15. CASE Resume
  BY <1>15, <1>same DEF Resume
<1>16. CASE UNCHANGED vars
  BY <1>16, <1>same DEF vars
<1> QED
  BY <1>1, <1>2, <1>3, <1>4, <1>5, <1>6, <1>7, <1>8, <1>9, <1>10, <1>11, <1>12,
     <1>13, <1>14, <1>15, <1>16, CutsOfActors DEF Next, Buy, Sale

-------------------------------------------------------------------------------
(* The books of an undisturbed symbol.                                       *)

Works(a, s) == at[a] \in Buying \cup Selling /\ job[a].sym = s

\* Sound, when a alone is at s.
Lone(a, s) ==
  /\ row[s] = net[s] - Share(a, s, {"pay", "lot"}) - Share(a, s, {"record"})
  /\ Held(s) = row[s] - Share(a, s, {"row", "cut"})
  /\ \A r \in todo[a] : r.sym = s => r.qty = row[s]
  /\ at[a] \in Selling /\ job[a].sym = s =>
       /\ at[a] \in {"pick", "take", "row", "cut"} => job[a].qty = row[s]
       /\ at[a] = "take" => plan[a] = FIFO(lots[s], job[a].qty)
       /\ at[a] \in {"take", "cut"} => keep[a] = 0

\* Only a moves.
Moves(a) ==
  \A b \in Actors \ {a} : /\ at'[b] = at[b] /\ job'[b] = job[b] /\ todo'[b] = todo[b]
                          /\ plan'[b] = plan[b] /\ keep'[b] = keep[b]

(* Which symbols a step marks as worked on by two.                          *)
LEMMA TouchedIs ==
  ASSUME NEW a, NEW s
  PROVE  s \in Touched(a) <=> Works(a, s) \/ \E r \in todo[a] : r.sym = s
BY DEF Touched, Works

\* A symbol that is not touched by the others has one actor's numbers in its books.
LEMMA LoneSound ==
  ASSUME TypeOK, NEW s \in Symbols, NEW a \in Actors,
         \A b \in Actors \ {a} : s \notin Touched(b)
  PROVE  Sound(s) <=> Lone(a, s)
<1>1. \A b \in Actors \ {a} : ~Works(b, s) /\ \A r \in todo[b] : r.sym # s
  BY TouchedIs
<1>2. job[a].qty \in Int
  BY DEF TypeOK, Order
<1>3. ASSUME NEW steps, steps \subseteq Buying \cup Selling
      PROVE  At(s, steps) = Share(a, s, steps)
  <2> DEFINE f == [b \in Actors |-> Share(b, s, steps)]
  <2>1. f[a] \in Int /\ \A b \in Actors \ {a} : f[b] = 0
    BY <1>1, <1>2, <1>3 DEF Share, Works
  <2>2. At(s, steps) = Sum(f, Actors)
    BY ActorSum DEF At
  <2>3. Sum(f, Actors) = f[a]
    <3> HIDE DEF f
    <3> QED
      BY <2>1, ActorsFinite, SumLone
  <2> QED
    BY <2>2, <2>3
<1>4. /\ At(s, {"pay", "lot"}) = Share(a, s, {"pay", "lot"})
      /\ At(s, {"record"}) = Share(a, s, {"record"})
      /\ At(s, {"row", "cut"}) = Share(a, s, {"row", "cut"})
  BY <1>3 DEF Buying, Selling
<1> QED
  BY <1>1, <1>4 DEF Sound, Lone, Works

\* The same of the next state.
LEMMA LoneSoundNext ==
  ASSUME TypeOK', NEW s \in Symbols, NEW a \in Actors,
         \A b \in Actors \ {a} : s \notin Touched(b)'
  PROVE  Sound(s)' <=> Lone(a, s)'
<1>1. \A b \in Actors \ {a} : ~Works(b, s)' /\ \A r \in todo'[b] : r.sym # s
  BY DEF Touched, Works
<1>2. job'[a].qty \in Int
  BY DEF TypeOK, Order
<1>3. ASSUME NEW steps, steps \subseteq Buying \cup Selling
      PROVE  At(s, steps)' = Share(a, s, steps)'
  <2> DEFINE f == [b \in Actors |-> Share(b, s, steps)']
  <2>1. f[a] \in Int /\ \A b \in Actors \ {a} : f[b] = 0
    BY <1>1, <1>2, <1>3 DEF Share, Works
  <2>2. At(s, steps)' = Sum(f, Actors)
    BY ActorSum DEF At
  <2>3. Sum(f, Actors) = f[a]
    <3> HIDE DEF f
    <3> QED
      BY <2>1, ActorsFinite, SumLone
  <2> QED
    BY <2>2, <2>3
<1>4. /\ At(s, {"pay", "lot"})' = Share(a, s, {"pay", "lot"})'
      /\ At(s, {"record"})' = Share(a, s, {"record"})'
      /\ At(s, {"row", "cut"})' = Share(a, s, {"row", "cut"})'
  BY <1>3 DEF Buying, Selling
<1> QED
  BY <1>1, <1>4 DEF Sound, Lone, Works

\* Nobody else is at a clean symbol that a works on, before the step and after.
LEMMA Alone ==
  ASSUME NEW a \in Actors, Moves(a), NEW s \in Symbols, s \in Clean, s \in Clean',
         Works(a, s) \/ Works(a, s)'
  PROVE  \A b \in Actors \ {a} : s \notin Touched(b) /\ s \notin Touched(b)'
<1> SUFFICES ASSUME NEW b \in Actors \ {a} PROVE s \notin Touched(b) /\ s \notin Touched(b)'
  OBVIOUS
<1>1. s \in Touched(b) <=> s \in Touched(b)'
  BY DEF Moves, Touched
<1>2. CASE Works(a, s)
  BY <1>1, <1>2 DEF Clean, Clashing, Works, Touched
<1>3. CASE Works(a, s)'
  BY <1>1, <1>3 DEF Clean, Clashing, Works, Touched
<1> QED
  BY <1>2, <1>3

\* b goes on as it was, at whatever it is.
Stands(b) ==
  /\ at'[b] = at[b] /\ job'[b] = job[b] /\ todo'[b] = todo[b]
  /\ plan'[b] = plan[b] /\ keep'[b] = keep[b]

\* A step that leaves the books of s alone keeps it sound, if whoever moves is
\* not at s.
LEMMA FrameAll ==
  ASSUME TypeOK, NEW s \in Symbols, Sound(s),
         lots'[s] = lots[s], row'[s] = row[s], net'[s] = net[s],
         \A b \in Actors :
           \/ Stands(b)
           \/ /\ ~Works(b, s) /\ ~Works(b, s)'
              /\ \A r \in todo'[b] : r.sym = s => r.qty = row[s]
  PROVE  Sound(s)'
<1>1. ASSUME NEW b \in Actors, NEW steps, steps \subseteq Buying \cup Selling
      PROVE  Share(b, s, steps)' = Share(b, s, steps)
  BY <1>1 DEF Stands, Share, Works
<1>2. ASSUME NEW steps, steps \subseteq Buying \cup Selling
      PROVE  At(s, steps)' = At(s, steps)
  <2>1. [b \in Actors |-> Share(b, s, steps)'] = [b \in Actors |-> Share(b, s, steps)]
    BY <1>1, <1>2
  <2> QED
    BY <2>1 DEF At
<1>3. /\ At(s, {"pay", "lot"})' = At(s, {"pay", "lot"})
      /\ At(s, {"record"})' = At(s, {"record"})
      /\ At(s, {"row", "cut"})' = At(s, {"row", "cut"})
  BY <1>2 DEF Buying, Selling
<1>4. Held(s)' = Held(s)
  BY DEF Held
<1>5. /\ row'[s] = net'[s] - At(s, {"pay", "lot"})' - At(s, {"record"})'
      /\ Held(s)' = row'[s] - At(s, {"row", "cut"})'
  BY <1>3, <1>4 DEF Sound
<1>6. ASSUME NEW b \in Actors
      PROVE  /\ \A r \in todo'[b] : r.sym = s => r.qty = row'[s]
             /\ at'[b] \in Selling /\ job'[b].sym = s =>
                  /\ at'[b] \in {"pick", "take", "row", "cut"} => job'[b].qty = row'[s]
                  /\ at'[b] = "take" => plan'[b] = FIFO(lots'[s], job'[b].qty)
                  /\ at'[b] \in {"take", "cut"} => keep'[b] = 0
  <2>1. CASE Stands(b)
    BY <2>1 DEF Stands, Sound
  <2>2. CASE ~Stands(b)
    BY <2>2 DEF Works
  <2> QED
    BY <2>1, <2>2
<1> QED
  BY <1>5, <1>6 DEF Sound

\* The same where one actor moves.
LEMMA Frame ==
  ASSUME TypeOK, NEW a \in Actors, Moves(a), NEW s \in Symbols, Sound(s),
         lots'[s] = lots[s], row'[s] = row[s], net'[s] = net[s],
         ~Works(a, s), ~Works(a, s)',
         \A r \in todo'[a] : r.sym = s => r.qty = row[s]
  PROVE  Sound(s)'
<1>1. \A b \in Actors \ {a} : Stands(b)
  BY DEF Moves, Stands
<1> QED
  BY <1>1, FrameAll

\* Nothing that was disturbed becomes clean.
LEMMA CleanShrinks ==
  ASSUME [Next]_vars, NEW s \in Clean' PROVE s \in Clean /\ s \in Symbols
<1>1. s \in Symbols /\ s \notin torn'
  BY DEF Clean
<1>2. CASE torn' = torn /\ UNCHANGED work
  BY <1>1, <1>2 DEF Clean, Clashing, Touched, work
<1>3. CASE torn \cup Clashing \subseteq torn'
  BY <1>1, <1>3 DEF Clean
<1>4. CASE UNCHANGED vars
  BY <1>2, <1>4 DEF vars
<1>5. CASE Next
  <2>1. ASSUME NEW a \in Actors, NEW step, Goto(a, step) PROVE torn \cup Clashing \subseteq torn'
    BY <2>1 DEF Goto
  <2>2. (\E a \in Actors : \E step : Goto(a, step)) \/ (\E cut \in SUBSET Actors : Die(cut)) \/ Resume
    BY <1>5, CutsOfActors DEF Next, Buy, Sale, RecordTrade, Pay, OpenLot, PickLots, TakeLots, ReadRow,
                CutRow, Credit, NextRow, ListRows, SetHalt, BeginBuy, BeginSale, Actors
  <2>3. ASSUME NEW cut, Die(cut) PROVE torn \cup Clashing \subseteq torn'
    BY <2>3 DEF Die
  <2> QED
    BY <1>2, <1>3, <2>1, <2>2, <2>3 DEF Resume
<1> QED
  BY <1>4, <1>5

(* The first state's books are clean.                                       *)
LEMMA InitClean == Init => CleanInv
<1> SUFFICES ASSUME Init, NEW s \in Symbols PROVE Sound(s)
  BY DEF CleanInv, Clean
<1>1. lots[s] = <<>> /\ row[s] = 0 /\ net[s] = 0
  BY DEF Init
<1>2. \A a \in Actors : at[a] = "rest" /\ todo[a] = {}
  BY DEF Init
<1>3. Held(s) = 0
  <2>1. DOMAIN lots[s] = {}
    BY <1>1
  <2> QED
    BY <2>1, SumEmpty DEF Held, SumFunction, Sum
<1>4. ASSUME NEW steps \in SUBSET (Buying \cup Selling) PROVE At(s, steps) = 0
  <2> DEFINE f == [a \in Actors |-> Share(a, s, steps)]
  <2>1. \A a \in Actors : f[a] = 0
    BY <1>2, <1>4 DEF Share, Buying, Selling
  <2>2. At(s, steps) = Sum(f, Actors)
    BY ActorSum DEF At
  <2> HIDE DEF f
  <2> QED
    BY <2>1, <2>2, ActorsFinite, SumZero
<1>6. At(s, {"pay", "lot"}) = 0 /\ At(s, {"record"}) = 0 /\ At(s, {"row", "cut"}) = 0
  BY <1>4 DEF Buying, Selling
<1> QED
  BY <1>1, <1>2, <1>3, <1>6 DEF Sound, Selling

\* A new lot adds its shares.
LEMMA HeldAppend ==
  ASSUME TypeOK, NEW s \in Symbols, NEW q \in 0 .. MaxOrder
  PROVE  SumFunction(Append(lots[s], q)) = Held(s) + q
<1> DEFINE N == Len(lots[s])
           new == Append(lots[s], q)
<1>1. /\ N \in Nat /\ lots[s] \in Seq(0 .. MaxOrder)
      /\ \A i \in 1 .. N : lots[s][i] \in 0 .. MaxOrder
  BY LenProperties, ElementOfSeq DEF TypeOK
<1>2. /\ new \in Seq(0 .. MaxOrder) /\ Len(new) = N + 1 /\ DOMAIN new = 1 .. N + 1
      /\ \A i \in 1 .. N : new[i] = lots[s][i]
      /\ new[N + 1] = q
  BY <1>1, AppendProperties, LenProperties
<1>3. \A i \in 1 .. N + 1 : new[i] \in Int
  BY <1>1, <1>2, ElementOfSeq, ConstantTypes
<1>4. Sum(new, 1 .. N + 1) = Sum(new, 1 .. N) + q
  <2> HIDE DEF new, N
  <2> QED
    BY <1>1, <1>2, <1>3, SumUpTo
<1>5. Sum(new, 1 .. N) = Sum(lots[s], 1 .. N)
  <2>0. N \in Int
    BY <1>1
  <2> HIDE DEF new, N
  <2>1. IsFiniteSet(1 .. N)
    BY <2>0, FS_Interval
  <2> QED
    BY <1>2, <2>1, SumSame
<1>6. Held(s) = Sum(lots[s], 1 .. N)
  BY HeldType
<1>7. SumFunction(new) = Sum(new, 1 .. N + 1)
  BY <1>2 DEF SumFunction, Sum
<1> QED
  BY <1>4, <1>5, <1>6, <1>7

\* A clean symbol stays sound through every step: the actor at work on it is
\* alone, and the others' steps do not touch it.
LEMMA CleanStep == ASSUME TypeOK, TypeOK', WorkInv, CleanInv, [Next]_vars PROVE CleanInv'
<1> SUFFICES ASSUME NEW s \in Clean' PROVE Sound(s)'
  BY DEF CleanInv
<1>c. s \in Clean /\ s \in Symbols /\ Sound(s)
  BY CleanShrinks DEF CleanInv
<1>l. ASSUME NEW a \in Actors, Moves(a), Works(a, s) \/ Works(a, s)', Lone(a, s) => Lone(a, s)'
      PROVE  Sound(s)'
  <2>1. \A b \in Actors \ {a} : s \notin Touched(b) /\ s \notin Touched(b)'
    BY <1>c, <1>l, Alone
  <2>2. Lone(a, s)
    BY <1>c, <2>1, LoneSound
  <2>3. Lone(a, s)'
    BY <1>l, <2>2
  <2> QED
    BY <1>c, <2>1, <2>3, LoneSoundNext
<1>f. ASSUME NEW a \in Actors, Moves(a), ~Works(a, s), ~Works(a, s)',
             lots'[s] = lots[s], row'[s] = row[s], net'[s] = net[s],
             \A r \in todo'[a] : r \in todo[a] \/ r.sym # s \/ r.qty = row[s]
      PROVE  Sound(s)'
  BY <1>c, <1>f, Frame DEF Sound
<1>t. /\ lots \in [Symbols -> Seq(0 .. MaxOrder)] /\ row \in [Symbols -> Nat]
      /\ net \in [Symbols -> Int] /\ cash \in Int
      /\ at \in [Actors -> Steps]
      /\ job \in [Actors -> Order] /\ todo \in [Actors -> SUBSET Order]
      /\ DOMAIN plan = Actors /\ keep \in [Actors -> Nat]
  BY DEF TypeOK
<1>j. \A a \in Actors : job[a].sym \in Symbols /\ job[a].qty \in Nat
  BY <1>t DEF Order
<1>h. Held(s) \in Nat
  BY <1>c, HeldType
<1>w. \A a \in Actors : WorkOf(a)
  BY DEF WorkInv
<1> USE DEF books, work, Goto
<1>1. ASSUME NEW a \in Actors, NEW y \in Symbols, NEW n \in 1 .. MaxOrder, BeginBuy(a, y, n)
      PROVE  Sound(s)'
  <2>1. Moves(a) /\ UNCHANGED books /\ todo' = todo /\ at[a] = "rest" /\ at'[a] = "buy"
        /\ job'[a].sym = y
    BY <1>t, <1>1 DEF BeginBuy, Moves
  <2>2. CASE y = s
    <3>1. Lone(a, s) => Lone(a, s)'
      BY <2>1 DEF Lone, Share, Selling, Held
    <3> QED
      BY <1>l, <2>1, <2>2, <3>1 DEF Works, Buying
  <2>3. CASE y # s
    BY <1>f, <2>1, <2>3 DEF Works, Buying, Selling
  <2> QED
    BY <2>2, <2>3
<1>2. ASSUME NEW a \in Actors, RecordTrade(a) PROVE Sound(s)'
  <2>1. Moves(a) /\ lots' = lots /\ row' = row /\ todo' = todo /\ job' = job /\ plan' = plan /\ keep' = keep
    BY <1>t, <1>2 DEF RecordTrade, Moves
  <2>2. CASE job[a].sym = s
    <3>1. CASE at[a] = "buy"
      <4>1. at'[a] = "pay" /\ net'[s] = net[s] + job[a].qty
        BY <1>c, <1>t, <1>2, <2>2, <3>1 DEF RecordTrade
      <4>2. Lone(a, s) => Lone(a, s)'
        BY <1>c, <1>t, <1>j, <2>1, <2>2, <3>1, <4>1 DEF Lone, Share, Selling, Held
      <4> QED
        BY <1>l, <2>1, <2>2, <3>1, <4>2 DEF Works, Buying
    <3>2. CASE at[a] = "record"
      <4>1. at'[a] = "credit" /\ net'[s] = net[s] - job[a].qty
        BY <1>c, <1>t, <1>2, <2>2, <3>2 DEF RecordTrade
      <4>2. Lone(a, s) => Lone(a, s)'
        BY <1>c, <1>t, <1>j, <2>1, <2>2, <3>2, <4>1 DEF Lone, Share, Selling, Held
      <4> QED
        BY <1>l, <2>1, <2>2, <3>2, <4>2 DEF Works, Selling
    <3> QED
      BY <1>2, <3>1, <3>2 DEF RecordTrade
  <2>3. CASE job[a].sym # s
    <3>1. net'[s] = net[s]
      BY <1>c, <1>t, <1>2, <2>3 DEF RecordTrade
    <3> QED
      BY <1>f, <2>1, <2>3, <3>1 DEF Works
  <2> QED
    BY <2>2, <2>3
<1>3. ASSUME NEW a \in Actors, Pay(a) PROVE Sound(s)'
  <2>1. Moves(a) /\ lots' = lots /\ row' = row /\ net' = net /\ todo' = todo /\ job' = job
        /\ at[a] = "pay" /\ at'[a] = "lot"
    BY <1>t, <1>3 DEF Pay, Moves
  <2>2. CASE job[a].sym = s
    <3>1. Lone(a, s) => Lone(a, s)'
      BY <2>1 DEF Lone, Share, Selling, Held
    <3> QED
      BY <1>l, <2>1, <2>2, <3>1 DEF Works, Buying
  <2>3. CASE job[a].sym # s
    BY <1>f, <2>1, <2>3 DEF Works
  <2> QED
    BY <2>2, <2>3
<1>4. ASSUME NEW a \in Actors, OpenLot(a) PROVE Sound(s)'
  <2>1. Moves(a) /\ net' = net /\ todo' = todo /\ at[a] = "lot" /\ at'[a] = "rest"
    BY <1>t, <1>4 DEF OpenLot, Moves
  <2>2. CASE job[a].sym = s
    <3> DEFINE q == job[a].qty
    <3>1. q \in 0 .. MaxOrder /\ todo[a] = {}
      BY <1>j, <1>w, <2>1, ConstantTypes DEF WorkOf, Buying, Selling
    <3>2. lots'[s] = Append(lots[s], q) /\ row'[s] = row[s] + q
      BY <1>c, <1>t, <1>4, <2>2 DEF OpenLot
    <3>3. Held(s)' = Held(s) + q
      BY <1>c, <3>1, <3>2, HeldAppend DEF Held
    <3>4. /\ Share(a, s, {"pay", "lot"}) = q /\ Share(a, s, {"record"}) = 0
          /\ Share(a, s, {"row", "cut"}) = 0
          /\ Share(a, s, {"pay", "lot"})' = 0 /\ Share(a, s, {"record"})' = 0
          /\ Share(a, s, {"row", "cut"})' = 0
      BY <2>1, <2>2 DEF Share
    <3>5. Lone(a, s) => Lone(a, s)'
      <4>1. row[s] \in Int /\ net[s] \in Int /\ q \in Int
        BY <1>c, <1>t, <3>1
      <4> HIDE DEF q
      <4> QED
        BY <1>h, <2>1, <3>1, <3>2, <3>3, <3>4, <4>1 DEF Lone, Selling
    <3> QED
      BY <1>l, <2>1, <2>2, <3>5 DEF Works, Buying
  <2>3. CASE job[a].sym # s
    <3>1. lots'[s] = lots[s] /\ row'[s] = row[s]
      BY <1>c, <1>t, <1>4, <2>3 DEF OpenLot
    <3> QED
      BY <1>f, <2>1, <2>3, <3>1 DEF Works, Buying, Selling
  <2> QED
    BY <2>2, <2>3
<1>5. ASSUME NEW y \in Symbols, BeginSale(y) PROVE Sound(s)'
  <2> DEFINE a == "engine"
  <2>1. /\ Moves(a) /\ UNCHANGED books /\ todo' = todo /\ at[a] = "rest" /\ at'[a] = "pick"
        /\ job'[a].sym = y /\ job'[a].qty = row[y] /\ a \in Actors
    BY <1>t, <1>5 DEF BeginSale, Moves, Actors
  <2>2. CASE y = s
    <3>1. Lone(a, s) => Lone(a, s)'
      BY <2>1, <2>2 DEF Lone, Share, Held
    <3> QED
      BY <1>l, <2>1, <2>2, <3>1 DEF Works, Selling
  <2>3. CASE y # s
    BY <1>f, <2>1, <2>3 DEF Works, Buying, Selling
  <2> QED
    BY <2>2, <2>3
<1>6. ASSUME NEW a \in Actors, PickLots(a) PROVE Sound(s)'
  <2>1. /\ Moves(a) /\ UNCHANGED books /\ todo' = todo /\ job' = job
        /\ at[a] = "pick" /\ at'[a] = "take"
    BY <1>t, <1>6 DEF PickLots, Moves
  <2>2. CASE job[a].sym = s
    <3>1. plan'[a] = FIFO(lots[s], job[a].qty) /\ keep'[a] = Monus(job[a].qty, Held(s))
      BY <1>t, <1>6, <2>2 DEF PickLots
    <3>2. Lone(a, s) => Held(s) = row[s] /\ job[a].qty = row[s]
      BY <1>c, <1>t, <2>1, <2>2 DEF Lone, Share, Selling
    <3>3. Lone(a, s) => keep'[a] = 0
      BY <1>h, <3>1, <3>2 DEF Monus
    <3>4. Lone(a, s) => Lone(a, s)'
      BY <2>1, <2>2, <3>1, <3>2, <3>3 DEF Lone, Share, Held
    <3> QED
      BY <1>l, <2>1, <2>2, <3>4 DEF Works, Selling
  <2>3. CASE job[a].sym # s
    BY <1>f, <2>1, <2>3 DEF Works
  <2> QED
    BY <2>2, <2>3
<1>7. ASSUME NEW a \in Actors, TakeLots(a) PROVE Sound(s)'
  <2>1. /\ Moves(a) /\ row' = row /\ net' = net /\ at[a] = "take"
        /\ todo'[a] \subseteq todo[a]
    BY <1>t, <1>7 DEF TakeLots, Moves
  <2>2. CASE job[a].sym = s
    <3>1. \A b \in Actors \ {a} : s \notin Touched(b)
      BY <1>c, <2>1, <2>2, Alone DEF Works, Selling
    <3>2. Lone(a, s)
      BY <1>c, <3>1, LoneSound
    <3>3. /\ keep[a] = 0 /\ job[a].qty = row[s] /\ plan[a] = FIFO(lots[s], job[a].qty)
          /\ Held(s) = row[s]
      BY <1>c, <1>t, <2>1, <2>2, <3>2 DEF Lone, Selling, Share
    <3>4. at'[a] = "row" /\ job' = job /\ todo' = todo
      BY <1>t, <1>7, <3>3 DEF TakeLots
    <3>5. Held(s)' = Monus(Held(s), job[a].qty)
      <4>1. lots'[s] = [i \in DOMAIN lots[s] |->
                          IF i \in DOMAIN plan[a] THEN plan[a][i] ELSE lots[s][i]]
        BY <1>c, <1>t, <1>7, <2>2 DEF TakeLots
      <4>2. SumFunction(lots'[s]) = Monus(Held(s), job[a].qty)
        BY <1>c, <1>j, <3>3, <4>1, FIFOTakes
      <4> QED
        BY <4>2 DEF Held
    <3>6. Held(s)' = 0
      BY <1>c, <1>t, <3>3, <3>5 DEF Monus
    <3>7. Lone(a, s)'
      <4>1. /\ Share(a, s, {"pay", "lot"})' = 0 /\ Share(a, s, {"record"})' = 0
            /\ Share(a, s, {"row", "cut"})' = row[s]
            /\ Share(a, s, {"pay", "lot"}) = 0 /\ Share(a, s, {"record"}) = 0
        BY <2>1, <2>2, <3>3, <3>4 DEF Share
      <4>2. row[s] \in Nat /\ net[s] \in Int
        BY <1>c, <1>t
      <4> QED
        BY <2>1, <3>2, <3>3, <3>4, <3>6, <4>1, <4>2 DEF Lone
    <3> QED
      BY <1>l, <2>1, <2>2, <3>7 DEF Works, Selling
  <2>3. CASE job[a].sym # s
    <3>1. lots'[s] = lots[s]
      BY <1>c, <1>t, <1>7, <2>3 DEF TakeLots
    <3>2. ~Works(a, s)'
      BY <1>t, <1>7, <2>3 DEF TakeLots, Works, Buying, Selling
    <3> QED
      BY <1>f, <2>1, <2>3, <3>1, <3>2 DEF Works
  <2> QED
    BY <2>2, <2>3
<1>8. ASSUME NEW a \in Actors, ReadRow(a) PROVE Sound(s)'
  <2>1. /\ Moves(a) /\ UNCHANGED books /\ todo' = todo /\ job' = job /\ at[a] = "row"
        /\ at'[a] = (IF row[job[a].sym] = 0 THEN "record" ELSE "cut")
        /\ keep'[a] = Monus(row[job[a].sym], job[a].qty)
    BY <1>t, <1>8 DEF ReadRow, Moves
  <2>2. CASE job[a].sym = s
    <3>1. Lone(a, s) => job[a].qty = row[s]
      BY <2>1, <2>2 DEF Lone, Selling
    <3>2. Lone(a, s) => keep'[a] = 0
      BY <1>c, <1>t, <2>1, <2>2, <3>1 DEF Monus
    <3>3. CASE row[s] = 0
      <4>1. at'[a] = "record"
        BY <2>1, <2>2, <3>3
      <4>2. Lone(a, s) => Lone(a, s)'
        BY <1>c, <1>t, <1>h, <2>1, <2>2, <3>1, <3>3, <4>1 DEF Lone, Share, Selling, Held
      <4> QED
        BY <1>l, <2>1, <2>2, <4>2 DEF Works, Selling
    <3>4. CASE row[s] # 0
      <4>1. at'[a] = "cut"
        BY <2>1, <2>2, <3>4
      <4>2. Lone(a, s) => Lone(a, s)'
        BY <1>c, <1>t, <1>h, <2>1, <2>2, <3>1, <3>2, <4>1 DEF Lone, Share, Selling, Held
      <4> QED
        BY <1>l, <2>1, <2>2, <4>2 DEF Works, Selling
    <3> QED
      BY <3>3, <3>4
  <2>3. CASE job[a].sym # s
    BY <1>f, <2>1, <2>3 DEF Works
  <2> QED
    BY <2>2, <2>3
<1>9. ASSUME NEW a \in Actors, CutRow(a) PROVE Sound(s)'
  <2>1. /\ Moves(a) /\ lots' = lots /\ net' = net /\ todo' = todo /\ job' = job
        /\ at[a] = "cut" /\ at'[a] = "record"
    BY <1>t, <1>9 DEF CutRow, Moves
  <2>2. CASE job[a].sym = s
    <3>1. Lone(a, s) => job[a].qty = row[s] /\ keep[a] = 0
      BY <2>1, <2>2 DEF Lone, Selling
    <3>2. row'[s] = IF row[s] = 0 THEN 0 ELSE keep[a]
      BY <1>c, <1>t, <1>9, <2>2 DEF CutRow
    <3>3. Lone(a, s) => row'[s] = 0
      BY <3>1, <3>2
    <3>4. \A r \in todo[a] : r.sym # s
      BY <1>w, <2>1, <2>2 DEF WorkOf, Selling
    <3>5. Lone(a, s) => Lone(a, s)'
      BY <1>c, <1>t, <1>h, <2>1, <2>2, <3>1, <3>3, <3>4 DEF Lone, Share, Selling, Held
    <3> QED
      BY <1>l, <2>1, <2>2, <3>5 DEF Works, Selling
  <2>3. CASE job[a].sym # s
    <3>1. row'[s] = row[s]
      BY <1>c, <1>t, <1>9, <2>3 DEF CutRow
    <3> QED
      BY <1>f, <2>1, <2>3, <3>1 DEF Works
  <2> QED
    BY <2>2, <2>3
<1>10. ASSUME NEW a \in Actors, Credit(a) PROVE Sound(s)'
  <2>1. /\ Moves(a) /\ lots' = lots /\ row' = row /\ net' = net /\ todo' = todo
        /\ at[a] = "credit" /\ at'[a] = "next"
    BY <1>t, <1>10 DEF Credit, Moves
  <2>2. CASE job[a].sym = s
    <3>1. Lone(a, s) => Lone(a, s)'
      BY <2>1 DEF Lone, Share, Selling, Held
    <3> QED
      BY <1>l, <2>1, <2>2, <3>1 DEF Works, Selling
  <2>3. CASE job[a].sym # s
    BY <1>f, <2>1, <2>3 DEF Works, Buying, Selling
  <2> QED
    BY <2>2, <2>3
<1>11. ASSUME NEW a \in Actors, SetHalt(a) PROVE Sound(s)'
  <2>1. /\ Moves(a) /\ UNCHANGED books /\ todo' = todo /\ at[a] = "rest" /\ at'[a] = "halted"
    BY <1>t, <1>11 DEF SetHalt, Moves
  <2> QED
    BY <1>f, <2>1 DEF Works, Buying, Selling
<1>12. ASSUME NEW a \in Actors, ListRows(a) PROVE Sound(s)'
  <2>1. /\ Moves(a) /\ UNCHANGED books /\ at[a] = "halted" /\ at'[a] = "next"
        /\ \A r \in todo'[a] : r.qty = row[r.sym]
    BY <1>t, <1>12 DEF ListRows, Moves
  <2> QED
    BY <1>f, <2>1 DEF Works, Buying, Selling
<1>13. ASSUME NEW a \in Actors, NextRow(a) PROVE Sound(s)'
  <2>1. Moves(a) /\ UNCHANGED books /\ at[a] = "next" /\ todo'[a] \subseteq todo[a]
    BY <1>t, <1>13 DEF NextRow, Moves
  <2>2. CASE at'[a] = "pick"
    <3>1. job'[a] \in todo[a]
      BY <1>t, <1>13, <2>2 DEF NextRow
    <3>2. CASE job'[a].sym = s
      <4>1. Lone(a, s) => Lone(a, s)'
        BY <2>1, <2>2, <3>1, <3>2 DEF Lone, Share, Held, Selling
      <4> QED
        BY <1>l, <2>1, <2>2, <3>2, <4>1 DEF Works, Selling
    <3>3. CASE job'[a].sym # s
      BY <1>f, <2>1, <2>2, <3>3 DEF Works, Buying, Selling
    <3> QED
      BY <3>2, <3>3
  <2>3. CASE at'[a] = "rest"
    BY <1>f, <2>1, <2>3 DEF Works, Buying, Selling
  <2> QED
    BY <1>t, <1>13, <2>2, <2>3 DEF NextRow
<1>14. ASSUME NEW cut \in SUBSET Actors, Die(cut) PROVE Sound(s)'
  <2>1. UNCHANGED books
    BY <1>14 DEF Die
  <2>2. ASSUME NEW b \in Actors \ cut PROVE Stands(b)
    BY <1>14, <2>2 DEF Die, Stands
  <2>3. ASSUME NEW b \in cut PROVE ~Works(b, s) /\ ~Works(b, s)' /\ todo'[b] = {}
    <3>1. at'[b] = "rest" /\ todo'[b] = {}
      BY <1>14, <2>3 DEF Die
    <3>2. s \notin Touched(b) \ {r.sym : r \in todo[b]}
      <4>1. s \notin torn'
        BY DEF Clean
      <4> QED
        BY <1>14, <2>3, <4>1 DEF Die
    <3>3. ~Works(b, s)
      <4> SUFFICES ASSUME Works(b, s) PROVE FALSE
        OBVIOUS
      <4>1. \E r \in todo[b] : r.sym = s
        BY <3>2, TouchedIs
      <4>2. WorkOf(b)
        BY <1>w
      <4> QED
        BY <4>1, <4>2 DEF WorkOf, Works, Buying, Selling
    <3> QED
      BY <3>1, <3>3 DEF Works, Buying, Selling
  <2> QED
    BY <1>c, <2>1, <2>2, <2>3, FrameAll DEF books
<1>15. CASE Resume
  <2>1. UNCHANGED books /\ UNCHANGED work
    BY <1>15 DEF Resume
  <2> QED
    BY <1>c, <2>1 DEF Sound, At, Share, Held, books, work
<1>16. CASE UNCHANGED vars
  BY <1>c, <1>16 DEF vars, Sound, At, Share, Held
<1> QED
  BY <1>1, <1>2, <1>3, <1>4, <1>5, <1>6, <1>7, <1>8, <1>9, <1>10, <1>11, <1>12,
     <1>13, <1>14, <1>15, <1>16, CutsOfActors DEF Next, Buy, Sale

-------------------------------------------------------------------------------
(* The cash.                                                                 *)

\* A trade of q shares more changes the sum of the trades by as much.
LEMMA NetSum ==
  ASSUME TypeOK, NEW s \in Symbols, NEW q \in Int, net' = [net EXCEPT ![s] = @ + q]
  PROVE  SumFunction(net') = SumFunction(net) + q /\ SumFunction(net) \in Int
<1>1. /\ DOMAIN net = Symbols /\ DOMAIN net' = Symbols /\ net'[s] = net[s] + q
      /\ \A x \in Symbols : net[x] \in Int /\ net'[x] \in Int
      /\ \A x \in Symbols \ {s} : net'[x] = net[x]
  BY DEF TypeOK
<1>2. Sum(net', Symbols) = Sum(net, Symbols) - net[s] + net'[s]
  <2> DEFINE g == net'
  <2>1. IsFiniteSet(Symbols)
    BY ConstantTypes
  <2>2. \A x \in Symbols : net[x] \in Int /\ g[x] \in Int
    BY <1>1
  <2>3. \A x \in Symbols \ {s} : g[x] = net[x]
    BY <1>1
  <2> HIDE DEF g
  <2>4. Sum(g, Symbols) = Sum(net, Symbols) - net[s] + g[s]
    BY <2>1, <2>2, <2>3, SumChange
  <2> QED
    BY <2>4 DEF g
<1>3. Sum(net, Symbols) \in Int
  BY <1>1, ConstantTypes, SumType
<1>4. SumFunction(net') = Sum(net', Symbols) /\ SumFunction(net) = Sum(net, Symbols)
  BY <1>1 DEF SumFunction, Sum
<1> QED
  BY <1>1, <1>2, <1>3, <1>4

(* The sum of what the trades moved is an amount.                           *)
LEMMA NetSumType == ASSUME TypeOK PROVE SumFunction(net) \in Int
<1>1. DOMAIN net = Symbols /\ \A x \in Symbols : net[x] \in Int
  BY DEF TypeOK
<1> QED
  BY <1>1, ConstantTypes, SumType DEF SumFunction, Sum

(* In the first state the cash is what was paid in.                         *)
LEMMA InitCash == Init => CashInv
<1> SUFFICES ASSUME Init PROVE CashInv
  OBVIOUS
<1>1. \A a \in Actors : at[a] = "rest"
  BY DEF Init
<1>2. AllUnpaid = 0 /\ AllDue("pay") = 0 /\ AllDue("credit") = 0
  <2>1. ASSUME NEW f, f = [a \in Actors |-> 0] PROVE SumFunction(f) = 0
    BY <2>1, ActorSum, ActorsFinite, SumZero
  <2>2. /\ [a \in Actors |-> Unpaid(a)] = [a \in Actors |-> 0]
        /\ [a \in Actors |-> Due(a, "pay")] = [a \in Actors |-> 0]
        /\ [a \in Actors |-> Due(a, "credit")] = [a \in Actors |-> 0]
    BY <1>1 DEF Unpaid, Due
  <2> QED
    BY <2>1, <2>2 DEF AllUnpaid, AllDue
<1>3. SumFunction(net) = 0
  <2>1. DOMAIN net = Symbols /\ \A x \in Symbols : net[x] = 0
    BY DEF Init
  <2>2. Sum(net, Symbols) \in Nat /\ Sum(net, Symbols) <= Cardinality(Symbols) * 0
    BY <2>1, ConstantTypes, SumNat, SumBelow
  <2>3. Cardinality(Symbols) * 0 = 0
    BY ConstantTypes, FS_CardinalityType
  <2> QED
    BY <2>1, <2>2, <2>3 DEF SumFunction, Sum
<1>4. cash = Start /\ ~dead
  BY DEF Init
<1> QED
  BY <1>2, <1>3, <1>4, ConstantTypes, ActorsFinite DEF CashInv, TradesExplainCash

\* What is due of an actor that the step does not move.
LEMMA OthersDue ==
  ASSUME NEW a \in Actors, Moves(a)
  PROVE  \A b \in Actors \ {a} : /\ Unpaid(b)' = Unpaid(b)
                                 /\ Due(b, "pay")' = Due(b, "pay")
                                 /\ Due(b, "credit")' = Due(b, "credit")
BY DEF Moves, Unpaid, Due

\* The sums over the actors change by what changes at the one that moves.
LEMMA DueStep ==
  ASSUME TypeOK, TypeOK', NEW a \in Actors, Moves(a)
  PROVE  /\ AllDue("pay")' - AllDue("pay") = Due(a, "pay")' - Due(a, "pay")
         /\ AllDue("credit")' - AllDue("credit") = Due(a, "credit")' - Due(a, "credit")
         /\ AllDue("pay") \in Int /\ AllDue("pay")' \in Int
         /\ AllDue("credit") \in Int /\ AllDue("credit")' \in Int
<1>1. \A b \in Actors : /\ Due(b, "pay") \in Int /\ Due(b, "pay")' \in Int
                        /\ Due(b, "credit") \in Int /\ Due(b, "credit")' \in Int
  <2>1. \A b \in Actors : job[b] \in Order /\ job'[b] \in Order
    BY DEF TypeOK
  <2>2. \A o \in Order : o.qty \in Int
    BY DEF Order
  <2> QED
    BY <2>1, <2>2 DEF Due
<1>2. \A b \in Actors \ {a} : Due(b, "pay")' = Due(b, "pay") /\ Due(b, "credit")' = Due(b, "credit")
  BY OthersDue
<1>3. ASSUME NEW step \in {"pay", "credit"}
      PROVE  /\ AllDue(step)' - AllDue(step) = Due(a, step)' - Due(a, step)
             /\ AllDue(step) \in Int /\ AllDue(step)' \in Int
  <2> DEFINE f == [b \in Actors |-> Due(b, step)]
             g == [b \in Actors |-> Due(b, step)']
  <2>1. f \in [Actors -> Int] /\ g \in [Actors -> Int] /\ \A b \in Actors \ {a} : g[b] = f[b]
    BY <1>1, <1>2
  <2>2. f[a] = Due(a, step) /\ g[a] = Due(a, step)'
    OBVIOUS
  <2>3. AllDue(step) = SumFunction(f) /\ AllDue(step)' = SumFunction(g)
    BY DEF AllDue
  <2> HIDE DEF f, g
  <2>4. /\ SumFunction(f) \in Int /\ SumFunction(g) \in Int
        /\ SumFunction(g) - SumFunction(f) = g[a] - f[a]
    BY <2>1, ActorsChange
  <2> QED
    BY <2>2, <2>3, <2>4
<1> QED
  BY <1>3

\* The buys that are not paid change by what changes at the one that moves.
LEMMA UnpaidStep ==
  ASSUME TypeOK, TypeOK', NEW a \in Actors, Moves(a)
  PROVE  /\ AllUnpaid' - AllUnpaid = Unpaid(a)' - Unpaid(a)
         /\ AllUnpaid \in Int /\ AllUnpaid' \in Int
<1> DEFINE f == [b \in Actors |-> Unpaid(b)]
           g == [b \in Actors |-> Unpaid(b)']
<1>1. \A b \in Actors : Unpaid(b) \in Int /\ Unpaid(b)' \in Int
  <2>1. \A b \in Actors : job[b] \in Order /\ job'[b] \in Order
    BY DEF TypeOK
  <2>2. \A o \in Order : o.qty \in Int
    BY DEF Order
  <2> QED
    BY <2>1, <2>2 DEF Unpaid
<1>2. \A b \in Actors \ {a} : Unpaid(b)' = Unpaid(b)
  BY OthersDue
<1>3. f \in [Actors -> Int] /\ g \in [Actors -> Int] /\ \A b \in Actors \ {a} : g[b] = f[b]
  BY <1>1, <1>2
<1>4. f[a] = Unpaid(a) /\ g[a] = Unpaid(a)'
  OBVIOUS
<1>5. AllUnpaid = SumFunction(f) /\ AllUnpaid' = SumFunction(g)
  BY DEF AllUnpaid
<1> HIDE DEF f, g
<1>6. /\ SumFunction(f) \in Int /\ SumFunction(g) \in Int
      /\ SumFunction(g) - SumFunction(f) = g[a] - f[a]
  BY <1>3, ActorsChange
<1> QED
  BY <1>4, <1>5, <1>6

\* Until an operation is cut short, a step changes cash, trades and what is due together.
LEMMA ExplainStep ==
  ASSUME TypeOK, TypeOK', TradesExplainCash, [Next]_vars PROVE TradesExplainCash'
<1> SUFFICES ASSUME ~dead' PROVE TradesExplainCash'
  BY DEF TradesExplainCash
<1> DEFINE total == SumFunction(net)
<1>t. /\ net \in [Symbols -> Int] /\ cash \in Int /\ at \in [Actors -> Steps]
      /\ job \in [Actors -> Order] /\ todo \in [Actors -> SUBSET Order]
      /\ DOMAIN plan = Actors /\ keep \in [Actors -> Nat]
  BY DEF TypeOK
<1>j. \A a \in Actors : job[a].sym \in Symbols /\ job[a].qty \in Nat
  BY <1>t DEF Order
<1>n. SumFunction(net) \in Int
  BY NetSumType
<1>d. ~dead
  BY DEF Next, Buy, Sale, RecordTrade, Pay, OpenLot, PickLots, TakeLots, ReadRow,
         CutRow, Credit, NextRow, ListRows, SetHalt, BeginBuy, BeginSale, Die, Resume, vars
<1>c. cash = Start + AllDue("pay") - AllDue("credit") - SumFunction(net)
  BY <1>d DEF TradesExplainCash
<1>e. ASSUME NEW a \in Actors, Moves(a),
             cash' - cash = (Due(a, "pay")' - Due(a, "pay")) - (Due(a, "credit")' - Due(a, "credit"))
                              - (SumFunction(net') - SumFunction(net)),
             SumFunction(net') \in Int
      PROVE  TradesExplainCash'
  <2>1. cash' \in Int /\ Start \in Int
    BY ConstantTypes DEF TypeOK
  <2>2. /\ Due(a, "pay") \in Int /\ Due(a, "pay")' \in Int
        /\ Due(a, "credit") \in Int /\ Due(a, "credit")' \in Int
    BY DEF TypeOK, Order, Due
  <2>3. cash' = Start + AllDue("pay")' - AllDue("credit")' - SumFunction(net')
    BY <1>t, <1>n, <1>c, <1>e, <2>1, <2>2, DueStep
  <2> QED
    BY <2>3 DEF TradesExplainCash
<1>f. ASSUME NEW a \in Actors, Moves(a), cash' = cash, net' = net,
             at[a] \notin {"pay", "credit"}, at'[a] \notin {"pay", "credit"}
      PROVE  TradesExplainCash'
  BY <1>t, <1>n, <1>e, <1>f DEF Due
<1> USE DEF books, work, Goto
<1>1. ASSUME NEW a \in Actors, NEW s \in Symbols, NEW n \in 1 .. MaxOrder, BeginBuy(a, s, n)
      PROVE  TradesExplainCash'
  BY <1>t, <1>f, <1>1 DEF BeginBuy, Moves
<1>2. ASSUME NEW a \in Actors, RecordTrade(a) PROVE TradesExplainCash'
  <2> DEFINE q == job[a].qty
             s == job[a].sym
  <2>1. Moves(a) /\ cash' = cash /\ job' = job
    BY <1>t, <1>2 DEF RecordTrade, Moves
  <2>2. CASE at[a] = "buy"
    <3>1. at'[a] = "pay" /\ net' = [net EXCEPT ![s] = @ + q]
      BY <1>t, <1>2, <2>2 DEF RecordTrade
    <3>2. SumFunction(net') = SumFunction(net) + q
      <4>1. s \in Symbols /\ q \in Int
        BY <1>j
      <4> HIDE DEF s, q
      <4> QED
        BY <3>1, <4>1, NetSum
    <3>3. /\ Due(a, "pay")' = q /\ Due(a, "pay") = 0
          /\ Due(a, "credit")' = 0 /\ Due(a, "credit") = 0
      BY <2>1, <2>2, <3>1 DEF Due
    <3> QED
      BY <1>e, <1>j, <1>n, <1>t, <2>1, <3>2, <3>3
  <2>3. CASE at[a] = "record"
    <3>1. at'[a] = "credit" /\ net' = [net EXCEPT ![s] = @ + (-q)]
      BY <1>t, <1>j, <1>2, <2>3 DEF RecordTrade
    <3>2. SumFunction(net') = SumFunction(net) + (-q)
      <4>1. s \in Symbols /\ (-q) \in Int
        BY <1>j
      <4> HIDE DEF s, q
      <4> QED
        BY <3>1, <4>1, NetSum
    <3>3. /\ Due(a, "pay")' = 0 /\ Due(a, "pay") = 0
          /\ Due(a, "credit")' = q /\ Due(a, "credit") = 0
      BY <2>1, <2>3, <3>1 DEF Due
    <3> QED
      BY <1>e, <1>j, <1>n, <1>t, <2>1, <3>2, <3>3
  <2> QED
    BY <1>2, <2>2, <2>3 DEF RecordTrade
<1>3. ASSUME NEW a \in Actors, Pay(a) PROVE TradesExplainCash'
  <2>1. /\ Moves(a) /\ net' = net /\ at[a] = "pay" /\ at'[a] = "lot"
        /\ cash' = cash - job[a].qty
    BY <1>t, <1>3 DEF Pay, Moves
  <2>2. /\ Due(a, "pay")' = 0 /\ Due(a, "pay") = job[a].qty
        /\ Due(a, "credit")' = 0 /\ Due(a, "credit") = 0
    BY <2>1 DEF Due
  <2> QED
    BY <1>e, <1>j, <1>n, <1>t, <2>1, <2>2
<1>4. ASSUME NEW a \in Actors, OpenLot(a) PROVE TradesExplainCash'
  BY <1>t, <1>f, <1>4 DEF OpenLot, Moves
<1>5. ASSUME NEW s \in Symbols, BeginSale(s) PROVE TradesExplainCash'
  <2>1. "engine" \in Actors
    BY DEF Actors
  <2> QED
    BY <1>t, <1>f, <1>5, <2>1 DEF BeginSale, Moves
<1>6. ASSUME NEW a \in Actors, PickLots(a) PROVE TradesExplainCash'
  BY <1>t, <1>f, <1>6 DEF PickLots, Moves
<1>7. ASSUME NEW a \in Actors, TakeLots(a) PROVE TradesExplainCash'
  BY <1>t, <1>f, <1>7 DEF TakeLots, Moves
<1>8. ASSUME NEW a \in Actors, ReadRow(a) PROVE TradesExplainCash'
  <2>1. at'[a] \in {"record", "cut"}
    BY <1>t, <1>8 DEF ReadRow
  <2> QED
    BY <1>t, <1>f, <1>8, <2>1 DEF ReadRow, Moves
<1>9. ASSUME NEW a \in Actors, CutRow(a) PROVE TradesExplainCash'
  BY <1>t, <1>f, <1>9 DEF CutRow, Moves
<1>10. ASSUME NEW a \in Actors, Credit(a) PROVE TradesExplainCash'
  <2>1. /\ Moves(a) /\ net' = net /\ at[a] = "credit" /\ at'[a] = "next"
        /\ cash' = cash + job[a].qty
    BY <1>t, <1>10 DEF Credit, Moves
  <2>2. /\ Due(a, "pay")' = 0 /\ Due(a, "pay") = 0
        /\ Due(a, "credit")' = 0 /\ Due(a, "credit") = job[a].qty
    BY <2>1 DEF Due
  <2> QED
    BY <1>e, <1>j, <1>n, <1>t, <2>1, <2>2
<1>11. ASSUME NEW a \in Actors, SetHalt(a) PROVE TradesExplainCash'
  BY <1>t, <1>f, <1>11 DEF SetHalt, Moves
<1>12. ASSUME NEW a \in Actors, ListRows(a) PROVE TradesExplainCash'
  BY <1>t, <1>f, <1>12 DEF ListRows, Moves
<1>13. ASSUME NEW a \in Actors, NextRow(a) PROVE TradesExplainCash'
  BY <1>t, <1>f, <1>13 DEF NextRow, Moves
<1>14. ASSUME NEW cut, Die(cut) PROVE TradesExplainCash'
  BY <1>14 DEF Die
<1>15. CASE Resume \/ UNCHANGED vars
  BY <1>15, <1>c DEF Resume, vars, TradesExplainCash, AllDue, Due
<1> QED
  BY <1>1, <1>2, <1>3, <1>4, <1>5, <1>6, <1>7, <1>8, <1>9, <1>10, <1>11, <1>12,
     <1>13, <1>14, <1>15, CutsOfActors DEF Next, Buy, Sale

\* What the buys under way will pay overdraws the cash by one order for each
\* buyer but one.
Overdraft == Cardinality(Threads) * MaxOrder

Covered == cash - AllUnpaid >= -Overdraft

(* The overdraft is an amount.                                              *)
LEMMA OverdraftType == Overdraft \in Nat
<1>1. \A m, n \in Nat : m * n \in Nat
  OBVIOUS
<1> QED
  BY <1>1, ConstantTypes, ActorsFinite DEF Overdraft

\* The buys of all actors but one come to one order each at most.
LEMMA OthersUnpaid ==
  ASSUME TypeOK, WorkInv, NEW a \in Actors
  PROVE  /\ AllUnpaid - Unpaid(a) <= Overdraft
         /\ AllUnpaid \in Nat
<1> DEFINE f == [b \in Actors |-> Unpaid(b)]
<1>1. \A b \in Actors : job[b].qty \in Nat
  BY DEF TypeOK, Order
<1>2. \A b \in Actors : f[b] \in Nat /\ f[b] <= MaxOrder
  BY <1>1, ConstantTypes DEF WorkInv, WorkOf, Unpaid, Buying
<1>3. AllUnpaid = Sum(f, Actors) /\ f[a] = Unpaid(a)
  BY ActorSum DEF AllUnpaid
<1> HIDE DEF f
<1>4. \A b \in Actors : f[b] \in Int
  BY <1>2
<1>5. Sum(f, Actors) = f[a] + Sum(f, Actors \ {a})
  BY <1>4, ActorsFinite, SumRemove
<1>6. Sum(f, Actors \ {a}) <= Cardinality(Actors \ {a}) * MaxOrder
  BY <1>2, <1>4, ActorsFinite, ConstantTypes, SumBelow
<1>7. Sum(f, Actors \ {a}) \in Int /\ Sum(f, Actors) \in Nat
  BY <1>2, <1>4, ActorsFinite, SumType, SumNat
<1>8. Sum(f, Actors \ {a}) <= Overdraft
  BY <1>6, ActorsFinite DEF Overdraft
<1> QED
  BY <1>3, <1>4, <1>5, <1>7, <1>8, OverdraftType

\* What is paid and no longer unpaid changes nothing.
LEMMA CoverKept ==
  ASSUME NEW c \in Int, NEW d \in Int, NEW u \in Int, NEW v \in Int,
         NEW m \in Int, NEW n \in Int, NEW o \in Nat,
         c - u >= -o, v - u = n - m, n - m <= d - c
  PROVE  d - v >= -o
OBVIOUS

\* What is still to be paid grows by an order that the cash of now covers.
LEMMA CoverNew ==
  ASSUME NEW c \in Int, NEW u \in Int, NEW v \in Int, NEW n \in Int, NEW o \in Nat,
         v - u = n - 0, n <= c, u <= o
  PROVE  c - v >= -o
OBVIOUS

\* A buy begins with the cash for its order; the others' orders may then take it.
LEMMA CoveredStep ==
  ASSUME TypeOK, TypeOK', WorkInv, Covered, [Next]_vars PROVE Covered'
<1>t. /\ net \in [Symbols -> Int] /\ cash \in Int /\ at \in [Actors -> Steps]
      /\ job \in [Actors -> Order] /\ todo \in [Actors -> SUBSET Order]
      /\ DOMAIN plan = Actors /\ keep \in [Actors -> Nat]
  BY DEF TypeOK
<1>j. \A a \in Actors : job[a].sym \in Symbols /\ job[a].qty \in Nat
  BY <1>t DEF Order
<1>u. /\ \A b \in Actors : Unpaid(b) \in Nat
      /\ cash' \in Int /\ Overdraft \in Nat
  BY <1>j, OverdraftType DEF Unpaid, TypeOK
<1>p. \A b \in Actors : Unpaid(b)' \in Nat
  <2>1. \A b \in Actors : job'[b] \in Order
    BY DEF TypeOK
  <2>2. \A o \in Order : o.qty \in Nat
    BY DEF Order
  <2> QED
    BY <2>1, <2>2 DEF Unpaid
<1>o. Overdraft' = Overdraft
  BY DEF Overdraft
<1>e. ASSUME NEW a \in Actors, Moves(a), Unpaid(a)' - Unpaid(a) <= cash' - cash
      PROVE  Covered'
  <2>1. AllUnpaid' - AllUnpaid = Unpaid(a)' - Unpaid(a) /\ AllUnpaid \in Int /\ AllUnpaid' \in Int
    BY <1>e, UnpaidStep
  <2>2. Unpaid(a) \in Nat /\ Unpaid(a)' \in Nat
    BY <1>u, <1>p, <1>e
  <2>3. cash - AllUnpaid >= -Overdraft
    BY DEF Covered
  <2>4. cash' - AllUnpaid' >= -Overdraft
    BY <1>t, <1>u, <1>e, <2>1, <2>2, <2>3, CoverKept
  <2> QED
    BY <2>4, <1>o DEF Covered
<1>f. ASSUME NEW a \in Actors, Moves(a), cash' >= cash, at'[a] \notin {"buy", "pay"} PROVE Covered'
  <2>1. Unpaid(a)' = 0
    BY <1>f DEF Unpaid
  <2> QED
    BY <1>t, <1>u, <1>e, <1>f, <2>1
<1> USE DEF books, work, Goto
<1>1. ASSUME NEW a \in Actors, NEW s \in Symbols, NEW n \in 1 .. MaxOrder, BeginBuy(a, s, n)
      PROVE  Covered'
  <2>1. /\ Moves(a) /\ cash' = cash /\ n <= cash /\ at[a] = "rest"
        /\ at'[a] = "buy" /\ job'[a].qty = n
    BY <1>t, <1>1 DEF BeginBuy, Moves
  <2>2. Unpaid(a)' = n /\ Unpaid(a) = 0
    BY <2>1 DEF Unpaid
  <2>3. AllUnpaid' - AllUnpaid = Unpaid(a)' - Unpaid(a) /\ AllUnpaid \in Int /\ AllUnpaid' \in Int
    BY <2>1, UnpaidStep
  <2>4. AllUnpaid <= Overdraft
    BY <2>2, <2>3, <1>u, OthersUnpaid
  <2>5. AllUnpaid' - AllUnpaid = n - 0
    BY <2>2, <2>3
  <2>6. cash - AllUnpaid' >= -Overdraft
    BY <1>t, <1>u, <2>1, <2>3, <2>4, <2>5, CoverNew
  <2> QED
    BY <1>o, <2>1, <2>6 DEF Covered
<1>2. ASSUME NEW a \in Actors, RecordTrade(a) PROVE Covered'
  <2>1. Moves(a) /\ cash' = cash /\ job' = job
    BY <1>t, <1>2 DEF RecordTrade, Moves
  <2>2. CASE at[a] = "buy"
    <3>1. at'[a] = "pay"
      BY <1>t, <1>2, <2>2 DEF RecordTrade
    <3>2. Unpaid(a)' = Unpaid(a)
      BY <2>1, <2>2, <3>1 DEF Unpaid
    <3> QED
      BY <1>t, <1>u, <1>e, <2>1, <3>2
  <2>3. CASE at[a] = "record"
    BY <1>t, <1>2, <1>f, <2>1, <2>3 DEF RecordTrade
  <2> QED
    BY <1>2, <2>2, <2>3 DEF RecordTrade
<1>3. ASSUME NEW a \in Actors, Pay(a) PROVE Covered'
  <2>1. Moves(a) /\ cash' = cash - job[a].qty /\ at[a] = "pay" /\ at'[a] = "lot"
    BY <1>t, <1>3 DEF Pay, Moves
  <2>2. Unpaid(a)' = 0 /\ Unpaid(a) = job[a].qty
    BY <2>1 DEF Unpaid
  <2> QED
    BY <1>t, <1>j, <1>e, <2>1, <2>2
<1>4. ASSUME NEW a \in Actors, OpenLot(a) PROVE Covered'
  BY <1>t, <1>f, <1>4 DEF OpenLot, Moves
<1>6. ASSUME NEW a \in Actors, PickLots(a) PROVE Covered'
  BY <1>t, <1>f, <1>6 DEF PickLots, Moves
<1>7. ASSUME NEW a \in Actors, TakeLots(a) PROVE Covered'
  BY <1>t, <1>f, <1>7 DEF TakeLots, Moves
<1>5. ASSUME NEW s \in Symbols, BeginSale(s) PROVE Covered'
  BY <1>t, <1>u, <1>f, <1>5, ActorsFinite DEF BeginSale, Moves
<1>8. ASSUME NEW a \in Actors, ReadRow(a) PROVE Covered'
  <2>1. at'[a] \in {"record", "cut"}
    BY <1>t, <1>8 DEF ReadRow
  <2> QED
    BY <1>t, <1>f, <1>8, <2>1 DEF ReadRow, Moves
<1>9. ASSUME NEW a \in Actors, CutRow(a) PROVE Covered'
  BY <1>t, <1>f, <1>9 DEF CutRow, Moves
<1>10. ASSUME NEW a \in Actors, Credit(a) PROVE Covered'
  BY <1>t, <1>j, <1>f, <1>10 DEF Credit, Moves
<1>11. ASSUME NEW a \in Actors, SetHalt(a) PROVE Covered'
  BY <1>t, <1>f, <1>11 DEF SetHalt, Moves
<1>12. ASSUME NEW a \in Actors, ListRows(a) PROVE Covered'
  BY <1>t, <1>f, <1>12 DEF ListRows, Moves
<1>13. ASSUME NEW a \in Actors, NextRow(a) PROVE Covered'
  BY <1>t, <1>f, <1>13 DEF NextRow, Moves
<1>14. ASSUME NEW cut \in SUBSET Actors, Die(cut) PROVE Covered'
  <2> DEFINE f == [b \in Actors |-> Unpaid(b)]
             g == [b \in Actors |-> Unpaid(b)']
  <2>1. \A b \in Actors : g[b] = 0 \/ g[b] = f[b]
    BY <1>14 DEF Die, Unpaid
  <2>2. \A b \in Actors : f[b] \in Nat /\ g[b] \in Nat /\ g[b] <= f[b]
    BY <1>u, <1>p, <2>1
  <2>3. AllUnpaid = SumFunction(f) /\ AllUnpaid' = SumFunction(g)
    BY DEF AllUnpaid
  <2>4. SumFunction(f) = Sum(f, Actors) /\ SumFunction(g) = Sum(g, Actors)
    BY ActorSum
  <2> HIDE DEF f, g
  <2>5. Sum(g, Actors) <= Sum(f, Actors) /\ Sum(f, Actors) \in Int /\ Sum(g, Actors) \in Int
    BY <2>2, ActorsFinite, SumLess
  <2>6. cash' = cash
    BY <1>14 DEF Die
  <2> QED
    BY <1>t, <1>u, <1>o, <2>3, <2>4, <2>5, <2>6 DEF Covered
<1>15. CASE Resume \/ UNCHANGED vars
  BY <1>15 DEF Resume, vars, Covered, AllUnpaid, Unpaid, Overdraft
<1> QED
  BY <1>1, <1>2, <1>3, <1>4, <1>5, <1>6, <1>7, <1>8, <1>9, <1>10, <1>11, <1>12,
     <1>13, <1>14, <1>15, CutsOfActors DEF Next, Buy, Sale

-------------------------------------------------------------------------------
(* The theorems.                                                             *)

\* Every reachable state satisfies the inductive invariant.
THEOREM LedgerInvariance == Spec => []LedgerInv
<1>1. Init => LedgerInv
  BY InitTypes, InitWork, InitClean, InitCash DEF LedgerInv
<1>2. LedgerInv /\ [Next]_vars => LedgerInv'
  <2> SUFFICES ASSUME LedgerInv, [Next]_vars PROVE LedgerInv'
    OBVIOUS
  <2>1. TypeOK /\ WorkInv /\ CleanInv /\ Covered /\ TradesExplainCash
    BY DEF LedgerInv, CashInv, Covered, Overdraft
  <2>2. TypeOK'
    BY <2>1, TypeStep
  <2>3. WorkInv'
    BY <2>1, WorkStep
  <2>4. CleanInv'
    BY <2>1, <2>2, CleanStep
  <2>5. Covered'
    BY <2>1, <2>2, CoveredStep
  <2>6. TradesExplainCash'
    BY <2>1, <2>2, ExplainStep
  <2> QED
    BY <2>2, <2>3, <2>4, <2>5, <2>6 DEF LedgerInv, CashInv, Covered, Overdraft
<1> QED
  BY <1>1, <1>2, PTL DEF Spec

\* On every symbol that no two actors were at work on at once and no operation
\* was cut short on, row, lots and trades agree but for the order under way, with any number
\* of symbols, lots and orders (open_lot, close_lots_fifo, record_trade).
THEOREM BooksAgree == Spec => []RowsLotsAndTradesAgree
<1>1. LedgerInv => RowsLotsAndTradesAgree
  BY DEF LedgerInv, CleanInv, Sound, RowsLotsAndTradesAgree
<1> QED
  BY <1>1, LedgerInvariance, PTL

\* While no operation was cut short, the cash is what the trades say, whatever engine and
\* dashboard interleave (record_trade, add_cash).
THEOREM TradesExplain == Spec => []TradesExplainCash
<1>1. LedgerInv => TradesExplainCash
  BY DEF LedgerInv, CashInv
<1> QED
  BY <1>1, LedgerInvariance, PTL

\* Buyers that each checked the cash before they paid overdraw it together by one
\* order for each but one, however many threads the dashboard runs
\* (execute_manual_paper_buy, _qty_for).
THEOREM OverdraftIsOneOrderEach == Spec => []OverdraftBounded
<1>1. LedgerInv => OverdraftBounded
  <2> SUFFICES ASSUME LedgerInv PROVE OverdraftBounded
    OBVIOUS
  <2>1. cash \in Int /\ AllUnpaid \in Nat /\ cash - AllUnpaid >= -Overdraft
    BY ActorsFinite, OthersUnpaid DEF LedgerInv, TypeOK, CashInv, Overdraft
  <2> QED
    BY <2>1, OverdraftType DEF OverdraftBounded, Overdraft
<1> QED
  BY <1>1, LedgerInvariance, PTL

\* The lots suffice for every sale of a symbol that nobody disturbed
\* (close_lots_fifo).
THEOREM CleanSalesSucceed == Spec => []SalesOfCleanRowsSucceed
<1>1. LedgerInv => SalesOfCleanRowsSucceed
  BY DEF LedgerInv, CleanInv, Sound, SalesOfCleanRowsSucceed, Selling, TypeOK
<1> QED
  BY <1>1, LedgerInvariance, PTL
=============================================================================
