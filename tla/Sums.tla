-------------------------------- MODULE Sums --------------------------------
(***************************************************************************)
(* Facts about the folds of the community modules.  FoldLeft goes through  *)
(* the positions of a sequence (Loops, Passes).  SumFunctionOnSet(f, S)    *)
(* adds f[x] over the x in S, in an order that CHOOSE decides: for a       *)
(* finite S and natural f[x] that order is nothing to worry about.  The    *)
(* inductions are over the number of elements: a set of numbers that is    *)
(* not empty has a smallest one.                                           *)
(***************************************************************************)
EXTENDS Naturals, FiniteSets, FiniteSetsExt, Functions, FiniteSetTheorems,
        WellFoundedInduction, TLAPS

\* Induction over the natural numbers, with the property as the set of those that have it.
LEMMA NatInduct ==
  ASSUME NEW P, 0 \in P, \A n \in Nat : n \in P => n + 1 \in P
  PROVE  Nat \subseteq P
<1> DEFINE T == Nat \ P
<1> SUFFICES ASSUME T # {} PROVE FALSE
  OBVIOUS
<1>1. PICK n \in T : \A m \in T : ~(<<m, n>> \in OpToRel(<, Nat))
  BY NatLessThanWellFounded, WFMin
<1>2. n # 0 /\ n - 1 \in Nat /\ n - 1 + 1 = n
  OBVIOUS
<1>3. n - 1 \in T
  BY <1>2
<1>4. <<n - 1, n>> \in OpToRel(<, Nat)
  BY <1>2 DEF OpToRel
<1> QED
  BY <1>1, <1>3, <1>4

\* Induction over a finite set: from what lacks an element to what has it.
LEMMA SetInduct ==
  ASSUME NEW S, IsFiniteSet(S), NEW P, {} \in P,
         \A T \in SUBSET S : T # {} /\ (\A x \in T : T \ {x} \in P) => T \in P
  PROVE  SUBSET S \subseteq P
<1> DEFINE Q == {n \in Nat : \A T \in SUBSET S : Cardinality(T) = n => T \in P}
<1>0. \A T \in SUBSET S : IsFiniteSet(T) /\ Cardinality(T) \in Nat
  BY FS_Subset, FS_CardinalityType
<1>1. 0 \in Q
  BY <1>0, FS_EmptySet
<1>2. ASSUME NEW n \in Nat, n \in Q
      PROVE  n + 1 \in Q
  <2>1. ASSUME NEW T \in SUBSET S, Cardinality(T) = n + 1
        PROVE  T \in P
    <3>1. T # {}
      <4>1. Cardinality({}) = 0 /\ n + 1 # 0
        BY FS_EmptySet
      <4> QED
        BY <2>1, <4>1
    <3>2. \A x \in T : Cardinality(T \ {x}) = n
      BY <1>0, <2>1, FS_RemoveElement
    <3> QED
      BY <1>2, <3>1, <3>2
  <2> QED
    BY <2>1
<1> HIDE DEF Q
<1>3. Nat \subseteq Q
  BY <1>1, <1>2, NatInduct
<1> QED
  BY <1>0, <1>3 DEF Q

\* The library's Min of a set of numbers is one of them, and the least.
LEMMA MinIn ==
  ASSUME NEW S \in SUBSET Nat, S # {}
  PROVE  Min(S) \in S /\ \A x \in S : Min(S) <= x
<1>1. PICK n \in S : \A m \in S : ~(<<m, n>> \in OpToRel(<, Nat))
  BY NatLessThanWellFounded, WFMin
<1>2. \A m \in S : n <= m
  <2>1. \A m \in S : m < n => <<m, n>> \in OpToRel(<, Nat)
    BY DEF OpToRel
  <2>2. \A m \in S : ~(m < n)
    BY <1>1, <2>1
  <2> QED
    BY <2>2
<1> QED
  BY <1>2 DEF Min

-----------------------------------------------------------------------------
(* Loops over a sequence                                                   *)

\* The library's Max of a set of positions is one of them, and the last.
LEMMA MaxIn ==
  ASSUME NEW n \in Nat, NEW S \in SUBSET (1 .. n), S # {}
  PROVE  Max(S) \in S /\ \A x \in S : Max(S) >= x
<1> DEFINE P == {m \in Nat : \A T \in SUBSET (1 .. m) :
                   T # {} => \E x \in T : \A y \in T : x >= y}
<1>1. 0 \in P
  <2>1. 1 .. 0 = {}
    OBVIOUS
  <2> QED
    BY <2>1
<1>2. ASSUME NEW m \in Nat, m \in P
      PROVE  m + 1 \in P
  <2>1. ASSUME NEW T \in SUBSET (1 .. m + 1), T # {}
        PROVE  \E x \in T : \A y \in T : x >= y
    <3>1. CASE m + 1 \in T
      BY <2>1, <3>1
    <3>2. CASE m + 1 \notin T
      <4>1. T \in SUBSET (1 .. m)
        BY <2>1, <3>2
      <4> QED
        BY <1>2, <2>1, <4>1
    <3> QED
      BY <3>1, <3>2
  <2> QED
    BY <2>1
<1> HIDE DEF P
<1>3. n \in P
  BY <1>1, <1>2, NatInduct
<1>4. \E x \in S : \A y \in S : x >= y
  BY <1>3 DEF P
<1> QED
  BY <1>4 DEF Max

\* The last of the first k + 1 positions, and what is left without it.
LEMMA MaxUpTo ==
  ASSUME NEW k \in Nat
  PROVE  Max(1 .. k + 1) = k + 1 /\ (1 .. k + 1) \ {k + 1} = 1 .. k /\ 1 .. k + 1 # {}
<1>1. Max(1 .. k + 1) \in 1 .. k + 1 /\ \A x \in 1 .. k + 1 : Max(1 .. k + 1) >= x
  <2>1. k + 1 \in 1 .. k + 1
    OBVIOUS
  <2> DEFINE S == 1 .. k + 1
  <2>2. S \in SUBSET (1 .. k + 1) /\ S # {} /\ k + 1 \in Nat
    BY <2>1
  <2> HIDE DEF S
  <2>3. Max(S) \in S /\ \A x \in S : Max(S) >= x
    BY <2>2, MaxIn
  <2> QED
    BY <2>3 DEF S
<1>2. k + 1 \in 1 .. k + 1
  OBVIOUS
<1>3. Max(1 .. k + 1) = k + 1
  BY <1>1, <1>2
<1>4. (1 .. k + 1) \ {k + 1} = 1 .. k
  OBVIOUS
<1> QED
  BY <1>2, <1>3, <1>4

\* A loop over the elements of a set of positions, the last one last.
Loops(O, b, q, g) ==
  g = [s \in SUBSET DOMAIN q |->
         IF s = {} THEN b ELSE O[<<g[s \ {Max(s)}], q[Max(s)]>>]]

\* A loop with a typed body has a result for every set of positions.
LEMMA LoopExists ==
  ASSUME NEW V, NEW D, NEW b \in V, NEW O \in [V \X D -> V], NEW n \in Nat,
         NEW q \in [1 .. n -> D]
  PROVE  \E g \in [SUBSET (1 .. n) -> V] : Loops(O, b, q, g)
<1> DEFINE S == 1 .. n
           Body(g, s) == IF s = {} THEN b ELSE O[<<g[s \ {Max(s)}], q[Max(s)]>>]
           P == {m \in Nat : \E g \in [SUBSET S -> V] :
                  \A s \in SUBSET S : Cardinality(s) < m => g[s] = Body(g, s)}
<1>0. IsFiniteSet(S) /\ \A s \in SUBSET S : IsFiniteSet(s) /\ Cardinality(s) \in Nat
  <2>1. IsFiniteSet(S)
    BY FS_Interval
  <2>2. \A s \in SUBSET S : IsFiniteSet(s)
    BY <2>1, FS_Subset
  <2> QED
    BY <2>1, <2>2, FS_CardinalityType
<1>1. 0 \in P
  <2>1. [s \in SUBSET S |-> b] \in [SUBSET S -> V]
    OBVIOUS
  <2>2. \A s \in SUBSET S : ~(Cardinality(s) < 0)
    BY <1>0
  <2> QED
    BY <2>1, <2>2
<1>2. ASSUME NEW m \in Nat, m \in P
      PROVE  m + 1 \in P
  <2>1. PICK g \in [SUBSET S -> V] :
          \A s \in SUBSET S : Cardinality(s) < m => g[s] = Body(g, s)
    BY <1>2
  <2> DEFINE h == [s \in SUBSET S |-> Body(g, s)]
  <2>2. ASSUME NEW s \in SUBSET S, s # {}
        PROVE  Max(s) \in s /\ Max(s) \in S /\ s \ {Max(s)} \in SUBSET S
    BY <2>2, MaxIn
  <2>3. h \in [SUBSET S -> V]
    <3>1. ASSUME NEW s \in SUBSET S
          PROVE  Body(g, s) \in V
      <4>1. CASE s = {}
        BY <4>1
      <4>2. CASE s # {}
        <5>1. g[s \ {Max(s)}] \in V /\ q[Max(s)] \in D
          BY <2>2, <4>2
        <5> QED
          BY <4>2, <5>1
      <4> QED
        BY <4>1, <4>2
    <3> QED
      BY <3>1
  <2>4. ASSUME NEW s \in SUBSET S, Cardinality(s) < m + 1
        PROVE  h[s] = Body(h, s)
    <3>1. CASE s = {}
      BY <3>1
    <3>2. CASE s # {}
      <4> DEFINE r == s \ {Max(s)}
      <4>1. r \in SUBSET S
        BY <2>2, <3>2
      <4>2. Cardinality(r) = Cardinality(s) - 1
        BY <1>0, <2>2, <3>2, FS_RemoveElement
      <4>3. Cardinality(r) < m
        BY <1>0, <2>4, <4>2
      <4>4. g[r] = Body(g, r)
        BY <2>1, <4>1, <4>3
      <4>5. h[r] = g[r]
        BY <4>1, <4>4
      <4> HIDE DEF r
      <4>6. h[s] = O[<<g[r], q[Max(s)]>>]
        BY <3>2 DEF r
      <4>7. Body(h, s) = O[<<h[r], q[Max(s)]>>]
        BY <3>2 DEF r
      <4> QED
        BY <4>5, <4>6, <4>7
    <3> QED
      BY <3>1, <3>2
  <2>5. \E e \in [SUBSET S -> V] :
          \A s \in SUBSET S : Cardinality(s) < m + 1 => e[s] = Body(e, s)
    <3> HIDE DEF h, Body
    <3> QED
      BY <2>3, <2>4
  <2> HIDE DEF S, Body
  <2> QED
    BY <2>5
<1> HIDE DEF P, Body
<1>3. n + 1 \in P
  BY <1>1, <1>2, NatInduct
<1>4. PICK g \in [SUBSET S -> V] :
        \A s \in SUBSET S : Cardinality(s) < n + 1 => g[s] = Body(g, s)
  BY <1>3 DEF P
<1>5. \A s \in SUBSET S : Cardinality(s) < n + 1
  <2>1. Cardinality(S) = n
    BY FS_Interval
  <2>2. \A s \in SUBSET S : Cardinality(s) <= n
    <3> HIDE DEF S
    <3>1. \A s \in SUBSET S : Cardinality(s) <= Cardinality(S)
      BY <1>0, FS_Subset
    <3> QED
      BY <2>1, <3>1 DEF S
  <2> QED
    BY <1>0, <2>2
<1>6. g = [s \in SUBSET S |-> Body(g, s)]
  BY <1>4, <1>5
<1> QED
  BY <1>6 DEF Loops, Body

\* Such a loop goes through the positions one after the other.
Stays(O, V, D) == \A v \in V, d \in D : O[<<v, d>>] \in V
Passes(O, b, q, n, f, e) ==
  f[0] = b /\ f[n] = e /\ \A k \in 1 .. n : f[k] = O[<<f[k - 1], q[k]>>]

\* ... and the results on the way are those of one step after the other.
LEMMA LoopRuns ==
  ASSUME NEW V, NEW D, NEW b \in V, NEW n \in Nat, NEW q \in [1 .. n -> D],
         NEW O, Stays(O, V, D), NEW c, Loops(O, b, q, c)
  PROVE  \E f \in [0 .. n -> V] : Passes(O, b, q, n, f, c[DOMAIN q])
<1> DEFINE f == [k \in 0 .. n |-> c[1 .. k]]
           P == {k \in Nat : k <= n => c[1 .. k] \in V}
<1>0. DOMAIN q = 1 .. n
  OBVIOUS
<1>1. c[1 .. 0] = b
  <2>1. 1 .. 0 = {} /\ {} \in SUBSET DOMAIN q
    OBVIOUS
  <2> QED
    BY <2>1 DEF Loops
<1>2. ASSUME NEW k \in Nat, k + 1 <= n
      PROVE  c[1 .. k + 1] = O[<<c[1 .. k], q[k + 1]>>]
  <2>1. 1 .. k + 1 \in SUBSET DOMAIN q
    BY <1>2
  <2> DEFINE s == 1 .. k + 1
  <2>2. s # {} /\ Max(s) = k + 1 /\ s \ {Max(s)} = 1 .. k
    BY MaxUpTo
  <2>3. c[s] = O[<<c[s \ {Max(s)}], q[Max(s)]>>]
    <3> HIDE DEF s
    <3> QED
      BY <2>1, <2>2 DEF Loops, s
  <2> QED
    BY <2>2, <2>3
<1>3. 0 \in P
  BY <1>1
<1>4. ASSUME NEW k \in Nat, k \in P
      PROVE  k + 1 \in P
  <2>1. SUFFICES ASSUME k + 1 <= n PROVE c[1 .. k + 1] \in V
    OBVIOUS
  <2>2. c[1 .. k] \in V /\ q[k + 1] \in D
    BY <1>4, <2>1
  <2> QED
    BY <1>2, <2>1, <2>2 DEF Stays
<1>5. \A k \in Nat : k <= n => c[1 .. k] \in V
  <2> HIDE DEF P
  <2>1. Nat \subseteq P
    BY <1>3, <1>4, NatInduct
  <2> QED
    BY <2>1 DEF P
<1>6. f \in [0 .. n -> V]
  BY <1>5
<1>7. \A k \in 1 .. n : f[k] = O[<<f[k - 1], q[k]>>]
  <2> TAKE k \in 1 .. n
  <2>1. k - 1 \in Nat /\ k - 1 + 1 = k /\ k \in 0 .. n /\ k - 1 \in 0 .. n
    OBVIOUS
  <2>2. c[1 .. k] = O[<<c[1 .. k - 1], q[k]>>]
    BY <1>2, <2>1
  <2> QED
    BY <2>1, <2>2
<1>8. f[0] = b /\ f[n] = c[DOMAIN q]
  BY <1>0, <1>1
<1> QED
  BY <1>6, <1>7, <1>8 DEF Passes

-----------------------------------------------------------------------------
(* Sums                                                                    *)

\* The function that the sum is computed with.
Picked(s) == CHOOSE x \in s : TRUE
Added(f, g, s) == IF s = {} THEN 0 ELSE f[Picked(s)] + g[s \ {Picked(s)}]
Adds(f, S, g) == g = [s \in SUBSET S |-> Added(f, g, s)]

LEMMA FirstIn == \A s : s # {} => Picked(s) \in s
  BY DEF Picked

LEMMA SumIsAdded ==
  ASSUME NEW f, NEW S
  PROVE  SumFunctionOnSet(f, S) = (CHOOSE g : Adds(f, S, g))[S]
  BY DEF SumFunctionOnSet, FoldFunctionOnSet, MapThenFoldSet, Adds, Added, Picked

\* There is such a function ...
LEMMA AddsExists ==
  ASSUME NEW f, NEW S, IsFiniteSet(S)
  PROVE  \E g : Adds(f, S, g)
<1> DEFINE Upto(g, n) == \A s \in SUBSET S : Cardinality(s) <= n => g[s] = Added(f, g, s)
           Q == {n \in Nat : \E g : g = [s \in SUBSET S |-> g[s]] /\ Upto(g, n)}
<1>0. \A s \in SUBSET S : IsFiniteSet(s) /\ Cardinality(s) \in Nat
  BY FS_Subset, FS_CardinalityType
<1>1. 0 \in Q
  <2> DEFINE g == [s \in SUBSET S |-> 0]
  <2>1. \A s \in SUBSET S : Cardinality(s) <= 0 => s = {}
    BY <1>0, FS_EmptySet
  <2>2. Upto(g, 0)
    BY <2>1 DEF Added
  <2> QED
    BY <2>2
<1>2. ASSUME NEW n \in Nat, n \in Q
      PROVE  n + 1 \in Q
  <2>1. PICK g : g = [s \in SUBSET S |-> g[s]] /\ Upto(g, n)
    BY <1>2
  <2> DEFINE h == [s \in SUBSET S |-> Added(f, g, s)]
  <2>2. \A s \in SUBSET S : Cardinality(s) <= n => h[s] = g[s]
    BY <2>1
  <2>3. ASSUME NEW s \in SUBSET S, Cardinality(s) <= n + 1
        PROVE  h[s] = Added(f, h, s)
    <3>1. CASE s = {}
      BY <3>1 DEF Added
    <3>2. CASE s # {}
      <4>1. Picked(s) \in s
        BY <3>2, FirstIn
      <4>2. Cardinality(s \ {Picked(s)}) <= n
        BY <1>0, <2>3, <4>1, FS_RemoveElement
      <4>3. h[s \ {Picked(s)}] = g[s \ {Picked(s)}]
        BY <2>2, <4>2
      <4> QED
        BY <3>2, <4>3 DEF Added
    <3> QED
      BY <3>1, <3>2
  <2> HIDE DEF h
  <2>4. Upto(h, n + 1)
    BY <2>3
  <2>5. h = [s \in SUBSET S |-> h[s]]
    BY DEF h
  <2>6. \E k : k = [s \in SUBSET S |-> k[s]] /\ Upto(k, n + 1)
    BY <2>4, <2>5
  <2> QED
    BY <2>6
<1> HIDE DEF Q
<1>3. Cardinality(S) \in Q
  BY <1>0, <1>1, <1>2, NatInduct
<1>4. PICK g : g = [s \in SUBSET S |-> g[s]] /\ Upto(g, Cardinality(S))
  BY <1>3 DEF Q
<1>5. \A s \in SUBSET S : g[s] = Added(f, g, s)
  BY <1>4, FS_Subset
<1>6. g = [s \in SUBSET S |-> Added(f, g, s)]
  BY <1>4, <1>5
<1> QED
  BY <1>6 DEF Adds

\* ... and whatever it is for, and however far the functions agree, it says the same.
LEMMA AddsSame ==
  ASSUME NEW f, NEW S, NEW g, Adds(f, S, g), NEW e, NEW T, NEW h, Adds(e, T, h),
         NEW U, IsFiniteSet(U), U \subseteq S, U \subseteq T, \A x \in U : f[x] = e[x]
  PROVE  g[U] = h[U]
<1> DEFINE P == {s \in SUBSET U : g[s] = h[s]}
<1>1. \A s \in SUBSET U : g[s] = Added(f, g, s) /\ h[s] = Added(e, h, s)
  BY DEF Adds
<1>2. {} \in P
  BY <1>1 DEF Added
<1>3. ASSUME NEW s \in SUBSET U, s # {}, \A x \in s : s \ {x} \in P
      PROVE  s \in P
  <2>1. Picked(s) \in s
    BY <1>3, FirstIn
  <2>2. g[s \ {Picked(s)}] = h[s \ {Picked(s)}] /\ f[Picked(s)] = e[Picked(s)]
    BY <1>3, <2>1
  <2> QED
    BY <1>1, <1>3, <2>2 DEF Added
<1>4. SUBSET U \subseteq P
  <2> HIDE DEF P
  <2> QED
    BY <1>2, <1>3, SetInduct
<1> QED
  BY <1>4

-----------------------------------------------------------------------------
\* For a function of natural numbers on a finite set.
Natural(f, S) == IsFiniteSet(S) /\ \A x \in S : f[x] \in Nat

\* One function adds for all subsets.
LEMMA SumOfSubsets ==
  ASSUME NEW f, NEW S, IsFiniteSet(S), NEW g, Adds(f, S, g), NEW T \in SUBSET S
  PROVE  SumFunctionOnSet(f, T) = g[T]
<1>1. IsFiniteSet(T)
  BY FS_Subset
<1>2. Adds(f, T, CHOOSE h : Adds(f, T, h))
  BY <1>1, AddsExists
<1> QED
  BY <1>1, <1>2, SumIsAdded, AddsSame

LEMMA SumStep ==
  ASSUME NEW f, NEW S, IsFiniteSet(S)
  PROVE  /\ SumFunctionOnSet(f, {}) = 0
         /\ S # {} => SumFunctionOnSet(f, S)
                       = f[Picked(S)] + SumFunctionOnSet(f, S \ {Picked(S)})
<1>1. PICK g : Adds(f, S, g)
  BY AddsExists
<1>2. \A T \in SUBSET S : SumFunctionOnSet(f, T) = g[T] /\ g[T] = Added(f, g, T)
  <2>1. \A T \in SUBSET S : g[T] = Added(f, g, T)
    BY <1>1 DEF Adds
  <2> QED
    BY <1>1, <2>1, SumOfSubsets
<1>3. {} \in SUBSET S /\ S \in SUBSET S /\ S \ {Picked(S)} \in SUBSET S
  OBVIOUS
<1> QED
  BY <1>2, <1>3 DEF Added

LEMMA SumEmpty ==
  ASSUME NEW f
  PROVE  SumFunctionOnSet(f, {}) = 0
  BY SumStep, FS_EmptySet

\* Functions that agree on a set have the same sum there.
LEMMA SumSame ==
  ASSUME NEW S, IsFiniteSet(S), NEW f, NEW e, \A x \in S : f[x] = e[x]
  PROVE  SumFunctionOnSet(f, S) = SumFunctionOnSet(e, S)
<1>1. Adds(f, S, CHOOSE g : Adds(f, S, g)) /\ Adds(e, S, CHOOSE g : Adds(e, S, g))
  BY AddsExists
<1> QED
  BY <1>1, SumIsAdded, AddsSame

\* A sum of natural numbers is one.
LEMMA SumNat ==
  ASSUME NEW f, NEW S, Natural(f, S)
  PROVE  SumFunctionOnSet(f, S) \in Nat
<1> DEFINE P == {T \in SUBSET S : SumFunctionOnSet(f, T) \in Nat}
<1>0. \A T \in SUBSET S : IsFiniteSet(T)
  BY FS_Subset DEF Natural
<1>1. {} \in P
  BY SumEmpty
<1>2. ASSUME NEW T \in SUBSET S, T # {}, \A x \in T : T \ {x} \in P
      PROVE  T \in P
  <2>1. Picked(T) \in T /\ IsFiniteSet(T)
    BY <1>0, <1>2, FirstIn
  <2>2. SumFunctionOnSet(f, T) = f[Picked(T)] + SumFunctionOnSet(f, T \ {Picked(T)})
    BY <1>2, <2>1, SumStep
  <2> QED
    BY <1>2, <2>1, <2>2 DEF Natural
<1>3. SUBSET S \subseteq P
  <2> HIDE DEF P
  <2> QED
    BY <1>1, <1>2, SetInduct DEF Natural
<1> QED
  BY <1>3

\* The order does not matter: any element can be taken out.
LEMMA SumRemove ==
  ASSUME NEW f, NEW S, Natural(f, S), NEW x \in S
  PROVE  SumFunctionOnSet(f, S) = f[x] + SumFunctionOnSet(f, S \ {x})
<1> DEFINE P == {T \in SUBSET S : \A y \in T :
             SumFunctionOnSet(f, T) = f[y] + SumFunctionOnSet(f, T \ {y})}
<1>0. \A T \in SUBSET S : IsFiniteSet(T) /\ Natural(f, T)
  BY FS_Subset DEF Natural
<1>1. {} \in P
  OBVIOUS
<1>2. ASSUME NEW T \in SUBSET S, T # {}, \A y \in T : T \ {y} \in P
      PROVE  T \in P
  <2> DEFINE c == Picked(T)
  <2>1. c \in T
    BY <1>2, FirstIn
  <2>2. SumFunctionOnSet(f, T) = f[c] + SumFunctionOnSet(f, T \ {c})
    BY <1>0, <1>2, SumStep
  <2>3. ASSUME NEW y \in T, y # c
        PROVE  SumFunctionOnSet(f, T) = f[y] + SumFunctionOnSet(f, T \ {y})
    <3> DEFINE R == (T \ {c}) \ {y}
    <3>1. T \ {c} \in P /\ T \ {y} \in P
      BY <1>2, <2>1
    <3>2. SumFunctionOnSet(f, T \ {c}) = f[y] + SumFunctionOnSet(f, R)
      BY <2>3, <3>1
    <3>3. (T \ {y}) \ {c} = R
      OBVIOUS
    <3>4. SumFunctionOnSet(f, T \ {y}) = f[c] + SumFunctionOnSet(f, R)
      BY <2>1, <2>3, <3>1, <3>3
    <3>5. f[c] \in Nat /\ f[y] \in Nat /\ SumFunctionOnSet(f, R) \in Nat
      <4>1. R \in SUBSET S
        OBVIOUS
      <4> QED
        BY <1>0, <2>1, <4>1, SumNat DEF Natural
    <3> HIDE DEF R, c
    <3> QED
      BY <2>2, <3>2, <3>4, <3>5
  <2> QED
    BY <2>2, <2>3
<1>3. SUBSET S \subseteq P
  <2> HIDE DEF P
  <2> QED
    BY <1>1, <1>2, SetInduct DEF Natural
<1> QED
  BY <1>3

\* An element comes, ...
LEMMA SumAdd ==
  ASSUME NEW f, NEW S, Natural(f, S), NEW x, x \notin S, NEW e, e[x] \in Nat,
         \A y \in S : e[y] = f[y]
  PROVE  SumFunctionOnSet(e, S \cup {x}) = SumFunctionOnSet(f, S) + e[x]
<1>1. Natural(e, S \cup {x})
  BY FS_AddElement DEF Natural
<1>2. (S \cup {x}) \ {x} = S
  OBVIOUS
<1>3. SumFunctionOnSet(e, S \cup {x}) = e[x] + SumFunctionOnSet(e, S)
  BY <1>1, <1>2, SumRemove
<1>4. SumFunctionOnSet(e, S) = SumFunctionOnSet(f, S) /\ SumFunctionOnSet(f, S) \in Nat
  BY SumSame, SumNat DEF Natural
<1> QED
  BY <1>3, <1>4

\* ... or has another value now.
LEMMA SumChange ==
  ASSUME NEW f, NEW S, Natural(f, S), NEW x \in S, NEW e, e[x] \in Nat,
         \A y \in S \ {x} : e[y] = f[y]
  PROVE  SumFunctionOnSet(e, S) + f[x] = SumFunctionOnSet(f, S) + e[x]
<1>1. Natural(e, S) /\ Natural(f, S \ {x})
  BY FS_RemoveElement DEF Natural
<1>2. SumFunctionOnSet(e, S) = e[x] + SumFunctionOnSet(e, S \ {x})
  BY <1>1, SumRemove
<1>3. SumFunctionOnSet(f, S) = f[x] + SumFunctionOnSet(f, S \ {x})
  BY SumRemove
<1>4. /\ SumFunctionOnSet(e, S \ {x}) = SumFunctionOnSet(f, S \ {x})
      /\ SumFunctionOnSet(f, S \ {x}) \in Nat
  BY <1>1, SumSame, SumNat DEF Natural
<1> QED
  BY <1>2, <1>3, <1>4 DEF Natural

\* Fewer elements add to no more.
LEMMA SumSubset ==
  ASSUME NEW f, NEW S, Natural(f, S), NEW T \in SUBSET S
  PROVE  SumFunctionOnSet(f, T) <= SumFunctionOnSet(f, S)
<1> DEFINE P == {R \in SUBSET (S \ T) :
             SumFunctionOnSet(f, T) <= SumFunctionOnSet(f, T \cup R)}
<1>0. \A R \in SUBSET S : Natural(f, R) /\ SumFunctionOnSet(f, R) \in Nat
  BY FS_Subset, SumNat DEF Natural
<1>1. {} \in P
  <2>1. T \cup {} = T
    OBVIOUS
  <2> QED
    BY <1>0, <2>1
<1>2. ASSUME NEW R \in SUBSET (S \ T), R # {}, \A x \in R : R \ {x} \in P
      PROVE  R \in P
  <2>1. PICK x \in R : TRUE
    BY <1>2
  <2>2. (T \cup R) \ {x} = T \cup (R \ {x}) /\ x \in T \cup R /\ T \cup R \in SUBSET S
    OBVIOUS
  <2>3. SumFunctionOnSet(f, T \cup R) = f[x] + SumFunctionOnSet(f, T \cup (R \ {x}))
    BY <1>0, <2>2, SumRemove
  <2>4. SumFunctionOnSet(f, T) <= SumFunctionOnSet(f, T \cup (R \ {x}))
    BY <1>2, <2>1
  <2>5. T \in SUBSET S /\ T \cup (R \ {x}) \in SUBSET S /\ f[x] \in Nat
    BY DEF Natural
  <2> QED
    BY <1>0, <2>3, <2>4, <2>5
<1>3. SUBSET (S \ T) \subseteq P
  <2>1. IsFiniteSet(S \ T)
    BY FS_Subset DEF Natural
  <2> HIDE DEF P
  <2> QED
    BY <1>1, <1>2, <2>1, SetInduct
<1>4. S \ T \in P /\ T \cup (S \ T) = S
  BY <1>3
<1> QED
  BY <1>4

\* The first of a row of numbers, and the others moved up.
LEMMA SumShift ==
  ASSUME NEW n \in Nat, NEW f, \A k \in 1 .. n + 1 : f[k] \in Nat,
         NEW e, \A k \in 1 .. n : e[k] = f[k + 1]
  PROVE  SumFunctionOnSet(f, 1 .. n + 1) = f[1] + SumFunctionOnSet(e, 1 .. n)
<1> DEFINE P == {m \in Nat : m <= n =>
             SumFunctionOnSet(f, 1 .. m + 1) = f[1] + SumFunctionOnSet(e, 1 .. m)}
<1>0. \A m \in Nat : IsFiniteSet(1 .. m)
  BY FS_Interval
<1>1. ASSUME NEW m \in Nat, m <= n
      PROVE  /\ Natural(f, 1 .. m + 1) /\ Natural(e, 1 .. m)
             /\ SumFunctionOnSet(f, 1 .. m + 1) \in Nat /\ SumFunctionOnSet(e, 1 .. m) \in Nat
  <2>1. m + 1 \in Nat /\ \A k \in 1 .. m : k + 1 \in 1 .. n + 1 /\ k \in 1 .. n
    BY <1>1
  <2>2. Natural(f, 1 .. m + 1) /\ Natural(e, 1 .. m)
    BY <1>0, <1>1, <2>1 DEF Natural
  <2> QED
    BY <2>2, SumNat
<1>2. 0 \in P
  <2>1. 1 .. 0 = {} /\ 1 .. 0 + 1 = {1} /\ {1} \ {1} = {}
    OBVIOUS
  <2>2. SumFunctionOnSet(f, {1}) = f[1] + 0
    <3>1. Natural(f, {1})
      <4>1. IsFiniteSet({1})
        BY FS_Singleton
      <4>2. f[1] \in Nat
        OBVIOUS
      <4> QED
        BY <4>1, <4>2 DEF Natural
    <3>2. 1 \in {1}
      OBVIOUS
    <3>3. SumFunctionOnSet(f, {1}) = f[1] + SumFunctionOnSet(f, {1} \ {1})
      BY <3>1, <3>2, SumRemove
    <3> QED
      BY <2>1, <3>3, SumEmpty
  <2>3. SumFunctionOnSet(e, 1 .. 0) = 0
    BY <2>1, SumEmpty
  <2> QED
    BY <2>1, <2>2, <2>3
<1>3. ASSUME NEW m \in Nat, m \in P
      PROVE  m + 1 \in P
  <2> SUFFICES ASSUME m + 1 <= n
               PROVE  SumFunctionOnSet(f, 1 .. m + 1 + 1)
                      = f[1] + SumFunctionOnSet(e, 1 .. m + 1)
    OBVIOUS
  <2>1. SumFunctionOnSet(f, 1 .. m + 1) = f[1] + SumFunctionOnSet(e, 1 .. m)
    BY <1>3
  <2>2. (1 .. m + 1 + 1) \ {m + 1 + 1} = 1 .. m + 1 /\ (1 .. m + 1) \ {m + 1} = 1 .. m
    OBVIOUS
  <2>3. m + 1 \in Nat /\ m + 1 + 1 \in 1 .. m + 1 + 1 /\ m + 1 \in 1 .. m + 1 /\ m <= n
    OBVIOUS
  <2>4. SumFunctionOnSet(f, 1 .. m + 1 + 1)
          = f[m + 1 + 1] + SumFunctionOnSet(f, 1 .. m + 1)
    <3>1. Natural(f, 1 .. m + 1 + 1)
      BY <1>1, <2>3
    <3> DEFINE k == m + 1 + 1
    <3>2. k \in 1 .. k /\ Natural(f, 1 .. k)
      BY <3>1, <2>3
    <3> HIDE DEF k
    <3>3. SumFunctionOnSet(f, 1 .. k) = f[k] + SumFunctionOnSet(f, (1 .. k) \ {k})
      BY <3>2, SumRemove
    <3> QED
      BY <3>3, <2>2 DEF k
  <2>5. SumFunctionOnSet(e, 1 .. m + 1) = e[m + 1] + SumFunctionOnSet(e, 1 .. m)
    <3>1. Natural(e, 1 .. m + 1)
      BY <1>1, <2>3
    <3> DEFINE k == m + 1
    <3>2. k \in 1 .. k /\ Natural(e, 1 .. k)
      BY <3>1
    <3> HIDE DEF k
    <3>3. SumFunctionOnSet(e, 1 .. k) = e[k] + SumFunctionOnSet(e, (1 .. k) \ {k})
      BY <3>2, SumRemove
    <3> QED
      BY <3>3, <2>2 DEF k
  <2>6. e[m + 1] = f[m + 1 + 1] /\ f[1] \in Nat /\ e[m + 1] \in Nat
        /\ SumFunctionOnSet(e, 1 .. m) \in Nat
    BY <1>1, <2>3 DEF Natural
  <2> QED
    BY <2>1, <2>4, <2>5, <2>6
<1>4. n \in P
  <2> HIDE DEF P
  <2> QED
    BY <1>2, <1>3, NatInduct
<1> QED
  BY <1>4

\* What has a place of its own in S, where there is no less, adds to no more.
LEMMA SumInto ==
  ASSUME NEW e, NEW S, Natural(e, S), NEW f, NEW T, Natural(f, T), NEW h \in [T -> S],
         \A x \in T : f[x] <= e[h[x]], \A x, y \in T : x # y => h[x] # h[y]
  PROVE  SumFunctionOnSet(f, T) <= SumFunctionOnSet(e, S)
<1> DEFINE Im(R) == {h[x] : x \in R}
           P == {R \in SUBSET T : SumFunctionOnSet(f, R) <= SumFunctionOnSet(e, Im(R))}
<1>0. /\ \A R \in SUBSET T : Im(R) \in SUBSET S /\ Natural(f, R)
      /\ \A R \in SUBSET S : Natural(e, R)
  BY FS_Subset DEF Natural
<1>1. {} \in P
  <2>1. Im({}) = {}
    OBVIOUS
  <2>2. SumFunctionOnSet(f, {}) = 0 /\ SumFunctionOnSet(e, {}) = 0
    BY SumEmpty
  <2> QED
    BY <2>1, <2>2
<1>2. ASSUME NEW R \in SUBSET T, R # {}, \A x \in R : R \ {x} \in P
      PROVE  R \in P
  <2>1. PICK x \in R : TRUE
    BY <1>2
  <2>2. x \in T /\ h[x] \in Im(R) /\ Im(R) \ {h[x]} = Im(R \ {x}) /\ R \ {x} \in SUBSET T
    OBVIOUS
  <2>3. Im(R) \in SUBSET S /\ Natural(f, R) /\ Natural(e, Im(R)) /\ Natural(f, R \ {x})
        /\ Natural(e, Im(R \ {x}))
    BY <1>0, <2>2
  <2>4. SumFunctionOnSet(f, R \ {x}) <= SumFunctionOnSet(e, Im(R \ {x}))
    BY <1>2, <2>1
  <2> HIDE DEF Im
  <2>5. SumFunctionOnSet(f, R) = f[x] + SumFunctionOnSet(f, R \ {x})
    BY <2>1, <2>3, SumRemove
  <2>6. SumFunctionOnSet(e, Im(R)) = e[h[x]] + SumFunctionOnSet(e, Im(R \ {x}))
    <3> DEFINE I == Im(R)
               y == h[x]
    <3> HIDE DEF I, y
    <3>1. Natural(e, I) /\ y \in I /\ I \ {y} = Im(R \ {x})
      BY <2>2, <2>3 DEF I, y
    <3>2. SumFunctionOnSet(e, I) = e[y] + SumFunctionOnSet(e, I \ {y})
      BY <3>1, SumRemove
    <3> QED
      BY <3>1, <3>2 DEF I, y
  <2>7. f[x] \in Nat /\ e[h[x]] \in Nat /\ f[x] <= e[h[x]]
    BY <2>2 DEF Natural
  <2>8. SumFunctionOnSet(f, R \ {x}) \in Nat /\ SumFunctionOnSet(e, Im(R \ {x})) \in Nat
    BY <2>3, SumNat
  <2> QED
    BY <2>4, <2>5, <2>6, <2>7, <2>8
<1>3. SUBSET T \subseteq P
  <2> HIDE DEF P
  <2> QED
    BY <1>1, <1>2, SetInduct DEF Natural
<1>4. SumFunctionOnSet(f, T) <= SumFunctionOnSet(e, Im(T)) /\ Im(T) \in SUBSET S
  BY <1>0, <1>3
<1>5. SumFunctionOnSet(e, Im(T)) <= SumFunctionOnSet(e, S)
  BY <1>4, SumSubset
<1>6. /\ SumFunctionOnSet(f, T) \in Nat /\ SumFunctionOnSet(e, Im(T)) \in Nat
      /\ SumFunctionOnSet(e, S) \in Nat
  BY <1>0, <1>4, SumNat
<1> HIDE DEF Im
<1> QED
  BY <1>4, <1>5, <1>6

\* The image of a finite set is finite.
LEMMA Pictures ==
  ASSUME NEW S, IsFiniteSet(S), NEW f
  PROVE  IsFiniteSet({f[x] : x \in S})
<1> DEFINE T == {f[x] : x \in S}
           h == [x \in S |-> f[x]]
<1>1. h \in [S -> T] /\ \A y \in T : \E x \in S : h[x] = y
  OBVIOUS
<1> HIDE DEF h, T
<1>2. h \in Surjection(S, T)
  BY <1>1 DEF Surjection
<1>3. IsFiniteSet(T)
  BY <1>2, FS_Surjection
<1> QED
  BY <1>3 DEF T

\* Nothing but noughts adds to nought.
LEMMA SumZero ==
  ASSUME NEW f, NEW S, Natural(f, S), \A x \in S : f[x] = 0
  PROVE  SumFunctionOnSet(f, S) = 0
<1> DEFINE Z == {R \in SUBSET S : SumFunctionOnSet(f, R) = 0}
<1>0. \A R \in SUBSET S : Natural(f, R)
  BY FS_Subset DEF Natural
<1>1. {} \in Z
  BY SumEmpty
<1>2. ASSUME NEW R \in SUBSET S, R # {}, \A x \in R : R \ {x} \in Z
      PROVE  R \in Z
  <2>1. PICK x \in R : TRUE
    BY <1>2
  <2>2. SumFunctionOnSet(f, R) = f[x] + SumFunctionOnSet(f, R \ {x})
    BY <1>0, <2>1, SumRemove
  <2>3. f[x] = 0 /\ SumFunctionOnSet(f, R \ {x}) = 0
    BY <1>2, <2>1
  <2> QED
    BY <2>2, <2>3
<1>3. SUBSET S \subseteq Z
  <2>1. IsFiniteSet(S)
    BY DEF Natural
  <2> HIDE DEF Z
  <2> QED
    BY <1>1, <1>2, <2>1, SetInduct
<1> QED
  BY <1>3

\* What is nowhere more adds to no more.
LEMMA SumLess ==
  ASSUME NEW f, NEW e, NEW S, Natural(f, S), Natural(e, S), \A x \in S : f[x] <= e[x]
  PROVE  SumFunctionOnSet(f, S) <= SumFunctionOnSet(e, S)
<1> DEFINE h == [x \in S |-> x]
<1>1. h \in [S -> S] /\ \A x \in S : h[x] = x
  OBVIOUS
<1> HIDE DEF h
<1> QED
  BY <1>1, SumInto

=============================================================================
