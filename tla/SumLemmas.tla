------------------------------ MODULE SumLemmas ------------------------------
(***************************************************************************)
(* Facts about sums over finite sets, for the proofs about particle        *)
(* counts, offsets of cells and boxes, and charges.  A sum is a recursive  *)
(* function over the subsets of the set.  That it exists, and what is said *)
(* of it for sets of any size, is shown with a smallest counterexample:    *)
(* of a set of numbers (LeastNumber) or of finite sets (MinimalSubset).    *)
(***************************************************************************)
EXTENDS Integers, FiniteSets, Functions, FiniteSetTheorems, WellFoundedInduction, TLAPS

-----------------------------------------------------------------------------
(* Smallest counterexamples                                                *)

\* A set of numbers that is not empty has a least one.
LEMMA LeastNumber ==
    ASSUME NEW T \in SUBSET Nat, T # {}
    PROVE  \E n \in T : \A m \in T : n <= m
<1> DEFINE R == OpToRel(<, Nat)
<1>1. \A m, n \in Nat : m < n => <<m, n>> \in R
  BY DEF OpToRel
<1>2. IsWellFoundedOn(R, Nat)
  BY NatLessThanWellFounded
<1> HIDE DEF R
<1>3. PICK n \in T : \A m \in T : <<m, n>> \notin R
  BY <1>2, WFMin
<1>4. \A m \in T : ~(m < n)
  BY <1>1, <1>3
<1>5. \A m \in T : n <= m
  BY <1>4
<1> QED
  BY <1>5

\* Of some subsets of a finite set, one includes no other of them.
LEMMA MinimalSubset ==
    ASSUME NEW S, IsFiniteSet(S), NEW T \in SUBSET (SUBSET S), T # {}
    PROVE  \E U \in T : \A V \in T : V \subseteq U => V = U
<1> DEFINE R == StrictSubsetOrdering(S)
<1>1. \A V, U \in SUBSET S : V \subseteq U /\ V # U => <<V, U>> \in R
  BY DEF StrictSubsetOrdering
<1>2. IsWellFoundedOn(R, SUBSET S)
  <2>1. IsWellFoundedOn(R, FiniteSubsetsOf(S))
    BY FS_StrictSubsetOrderingWellFounded
  <2>2. FiniteSubsetsOf(S) = SUBSET S
    BY FS_FiniteSubsetsOfFinite
  <2> HIDE DEF R
  <2> QED
    BY <2>1, <2>2
<1> HIDE DEF R
<1>3. PICK U \in T : \A V \in T : <<V, U>> \notin R
  BY <1>2, WFMin
<1> QED
  BY <1>1, <1>3

-----------------------------------------------------------------------------
(* The recursion equation                                                  *)

\* The element a sum takes out of a set.
Chosen(s) == CHOOSE x \in s : TRUE

\* One step of the recursion, from sums of smaller sets.
Added(g, f, s) == IF s = {} THEN 0 ELSE f[Chosen(s)] + g[s \ {Chosen(s)}]

\* g has the sums of all subsets of S.
Sums(g, f, S) == g = [s \in SUBSET S |-> Added(g, f, s)]

\* It is in the set.
LEMMA ChosenIn == \A s : s # {} => Chosen(s) \in s
  BY DEF Chosen

\* For a finite set there is such a function.  The sums of sets of at most n
\* elements are right after n steps.
LEMMA SumsExist ==
    ASSUME NEW f, NEW S, IsFiniteSet(S)
    PROVE  \E g : Sums(g, f, S)
<1> DEFINE RightUpTo(g, n) ==
               /\ g = [s \in SUBSET S |-> g[s]]
               /\ \A s \in SUBSET S : Cardinality(s) <= n => g[s] = Added(g, f, s)
           T == {n \in Nat : ~ \E g : RightUpTo(g, n)}
<1>1. \A s \in SUBSET S : IsFiniteSet(s) /\ Cardinality(s) \in Nat /\ Cardinality(s) <= Cardinality(S)
  BY FS_Subset, FS_CardinalityType
<1>2. \A s \in SUBSET S : s # {} =>
          /\ s \ {Chosen(s)} \in SUBSET S
          /\ Cardinality(s \ {Chosen(s)}) = Cardinality(s) - 1
  <2> TAKE s \in SUBSET S
  <2> HAVE s # {}
  <2>1. Chosen(s) \in s
    BY ChosenIn
  <2> QED
    BY <1>1, <2>1, FS_RemoveElement
<1>3. ASSUME NEW n \in Nat, NEW g,
             \A s \in SUBSET S : Cardinality(s) < n => g[s] = Added(g, f, s)
      PROVE  RightUpTo([s \in SUBSET S |-> Added(g, f, s)], n)
  <2> DEFINE h == [s \in SUBSET S |-> Added(g, f, s)]
  <2>1. \A s \in SUBSET S : Cardinality(s) < n => h[s] = g[s]
    BY <1>3
  <2>2. ASSUME NEW s \in SUBSET S, Cardinality(s) <= n PROVE h[s] = Added(h, f, s)
    <3>1. CASE s = {}
      BY <3>1 DEF Added
    <3>2. CASE s # {}
      <4>1. h[s \ {Chosen(s)}] = g[s \ {Chosen(s)}]
        <5>1. s \ {Chosen(s)} \in SUBSET S
          BY <1>2, <3>2
        <5>2. Cardinality(s \ {Chosen(s)}) < n
          BY <1>1, <1>2, <2>2, <3>2
        <5> HIDE DEF h
        <5> QED
          BY <2>1, <5>1, <5>2
      <4>2. h[s] = Added(g, f, s)
        OBVIOUS
      <4> HIDE DEF h
      <4> QED
        BY <3>2, <4>1, <4>2 DEF Added
    <3> QED
      BY <3>1, <3>2
  <2>3. h = [s \in SUBSET S |-> h[s]]
    OBVIOUS
  <2> QED
    BY <2>2, <2>3
<1> HIDE DEF RightUpTo
<1>4. 0 \notin T
  <2>1. RightUpTo([s \in SUBSET S |-> Added(<<>>, f, s)], 0)
    <3>1. \A s \in SUBSET S : ~(Cardinality(s) < 0)
      BY <1>1
    <3> QED
      BY <1>3, <3>1
  <2> QED
    BY <2>1
<1>5. ASSUME NEW n \in Nat, n \notin T PROVE n + 1 \notin T
  <2>1. PICK g : RightUpTo(g, n)
    BY <1>5
  <2>2. \A s \in SUBSET S : Cardinality(s) < n + 1 => g[s] = Added(g, f, s)
    <3>1. \A s \in SUBSET S : Cardinality(s) < n + 1 => Cardinality(s) <= n
      BY <1>1
    <3> QED
      BY <2>1, <3>1 DEF RightUpTo
  <2>3. n + 1 \in Nat
    OBVIOUS
  <2>4. RightUpTo([s \in SUBSET S |-> Added(g, f, s)], n + 1)
    BY ONLY <1>3, <2>2, <2>3
  <2> QED
    BY <2>3, <2>4
<1>6. T = {}
  <2> SUFFICES ASSUME T # {} PROVE FALSE
    OBVIOUS
  <2>0. T \in SUBSET Nat
    OBVIOUS
  <2> HIDE DEF T
  <2>1. PICK n \in T : \A m \in T : n <= m
    BY <2>0, LeastNumber
  <2>2. n \in Nat /\ n # 0
    BY <1>4, <2>0, <2>1
  <2>3. n - 1 \in Nat /\ n = (n - 1) + 1
    BY <2>2
  <2>4. n - 1 \notin T
    BY <2>1, <2>2, <2>3
  <2> QED
    BY <1>5, <2>1, <2>3, <2>4
<1>7. Cardinality(S) \in Nat
  BY FS_CardinalityType
<1>8. PICK g : RightUpTo(g, Cardinality(S))
  BY <1>6, <1>7
<1>9. g = [s \in SUBSET S |-> g[s]] /\ \A s \in SUBSET S : g[s] = Added(g, f, s)
  BY <1>1, <1>8 DEF RightUpTo
<1>10. Sums(g, f, S)
  BY <1>9 DEF Sums
<1> QED
  BY <1>10

\* The sum is what such a function says.
LEMMA SumIs ==
    ASSUME NEW f, NEW S, IsFiniteSet(S)
    PROVE  \E g : Sums(g, f, S) /\ SumFunctionOnSet(f, S) = g[S]
<1> DEFINE h == CHOOSE g : Sums(g, f, S)
<1>1. Sums(h, f, S)
  BY SumsExist
<1>2. SumFunctionOnSet(f, S) = h[S]
  BY DEF SumFunctionOnSet, FoldFunctionOnSet, MapThenFoldSet, Sums, Added, Chosen
<1> QED
  BY <1>1, <1>2

\* All such functions agree, whatever the larger set is, and whatever the
\* summands outside of a set are.
LEMMA SumsAgree ==
    ASSUME NEW f, NEW g, NEW S, IsFiniteSet(S), NEW R \in SUBSET S, NEW u, NEW v,
           Sums(u, f, S), Sums(v, g, R), \A x \in R : f[x] = g[x]
    PROVE  u[R] = v[R]
<1> DEFINE T == {s \in SUBSET R : u[s] # v[s]}
<1>1. IsFiniteSet(R)
  BY FS_Subset
<1> SUFFICES ASSUME T # {} PROVE FALSE
  OBVIOUS
<1>2. T \in SUBSET (SUBSET R)
  OBVIOUS
<1>3. PICK s \in T : \A t \in T : t \subseteq s => t = s
  <2> HIDE DEF T
  <2> QED
    BY <1>1, <1>2, MinimalSubset
<1>4. s \in SUBSET R /\ s \in SUBSET S
  BY <1>3
<1>5. u[s] = Added(u, f, s) /\ v[s] = Added(v, g, s)
  BY <1>4 DEF Sums
<1>6. CASE s = {}
  BY <1>3, <1>5, <1>6 DEF Added
<1>7. CASE s # {}
  <2>1. Chosen(s) \in s
    BY <1>7, ChosenIn
  <2>2. f[Chosen(s)] = g[Chosen(s)]
    BY <1>4, <2>1
  <2>3. s \ {Chosen(s)} \in SUBSET R /\ s \ {Chosen(s)} \subseteq s /\ s \ {Chosen(s)} # s
    BY <1>4, <2>1
  <2>4. u[s \ {Chosen(s)}] = v[s \ {Chosen(s)}]
    BY <1>3, <2>3
  <2>5. u[s] = v[s]
    BY <1>5, <1>7, <2>2, <2>4 DEF Added
  <2> QED
    BY <1>3, <2>5
<1> QED
  BY <1>6, <1>7

-----------------------------------------------------------------------------
(* Sums                                                                    *)

\* A sum depends on the summands over its set only.
LEMMA SumSame ==
    ASSUME NEW f, NEW g, NEW S, IsFiniteSet(S), \A x \in S : f[x] = g[x]
    PROVE  SumFunctionOnSet(f, S) = SumFunctionOnSet(g, S)
<1>1. PICK u : Sums(u, f, S) /\ SumFunctionOnSet(f, S) = u[S]
  BY SumIs
<1>2. PICK v : Sums(v, g, S) /\ SumFunctionOnSet(g, S) = v[S]
  BY SumIs
<1> QED
  BY <1>1, <1>2, SumsAgree

\* The sum of nothing.
LEMMA SumEmpty ==
    ASSUME NEW f
    PROVE  SumFunctionOnSet(f, {}) = 0
<1>1. IsFiniteSet({})
  BY FS_EmptySet
<1>2. PICK u : Sums(u, f, {}) /\ SumFunctionOnSet(f, {}) = u[{}]
  BY <1>1, SumIs
<1> QED
  BY <1>2 DEF Sums, Added

\* One step of the recursion.
LEMMA SumOfChosen ==
    ASSUME NEW f, NEW S, IsFiniteSet(S), S # {}
    PROVE  SumFunctionOnSet(f, S)
               = f[Chosen(S)] + SumFunctionOnSet(f, S \ {Chosen(S)})
<1> DEFINE R == S \ {Chosen(S)}
<1>1. IsFiniteSet(R) /\ R \in SUBSET S
  BY FS_RemoveElement
<1>2. PICK u : Sums(u, f, S) /\ SumFunctionOnSet(f, S) = u[S]
  BY SumIs
<1>3. PICK v : Sums(v, f, R) /\ SumFunctionOnSet(f, R) = v[R]
  BY <1>1, SumIs
<1>4. u[R] = v[R]
  BY <1>1, <1>2, <1>3, SumsAgree
<1>5. u[S] = f[Chosen(S)] + u[R]
  BY <1>2 DEF Sums, Added
<1> HIDE DEF R
<1>6. SumFunctionOnSet(f, S) = f[Chosen(S)] + SumFunctionOnSet(f, R)
  BY <1>2, <1>3, <1>4, <1>5
<1> QED
  BY <1>6 DEF R

\* Sums of integers are integers.
LEMMA SumInt ==
    ASSUME NEW f, NEW S, IsFiniteSet(S), \A x \in S : f[x] \in Int
    PROVE  SumFunctionOnSet(f, S) \in Int
<1> DEFINE T == {s \in SUBSET S : SumFunctionOnSet(f, s) \notin Int}
<1>0. S \in SUBSET S
  OBVIOUS
<1> SUFFICES ASSUME T # {} PROVE FALSE
  BY <1>0
<1>1. PICK s \in T : \A t \in T : t \subseteq s => t = s
  <2>1. T \in SUBSET (SUBSET S)
    OBVIOUS
  <2> HIDE DEF T
  <2> QED
    BY <2>1, MinimalSubset
<1>2. s \in SUBSET S /\ IsFiniteSet(s)
  BY <1>1, FS_Subset
<1>3. s # {}
  <2>1. SumFunctionOnSet(f, {}) \in Int
    BY SumEmpty
  <2> QED
    BY <1>1, <2>1
<1> DEFINE c == Chosen(s)
           r == s \ {c}
<1>4. c \in s
  BY <1>3, ChosenIn
<1>5. SumFunctionOnSet(f, s) = f[c] + SumFunctionOnSet(f, r)
  BY <1>2, <1>3, SumOfChosen
<1>6. r \subseteq s /\ r # s /\ r \in SUBSET S
  BY <1>2, <1>4
<1>7. SumFunctionOnSet(f, r) \in Int
  BY <1>1, <1>6
<1>8. f[c] \in Int
  BY <1>2, <1>4
<1> HIDE DEF c, r
<1>9. SumFunctionOnSet(f, s) \in Int
  BY <1>5, <1>7, <1>8
<1> QED
  BY <1>1, <1>9

\* Any element may be taken out first.
LEMMA SumTakeOut ==
    ASSUME NEW f, NEW S, IsFiniteSet(S), \A y \in S : f[y] \in Int, NEW x \in S
    PROVE  SumFunctionOnSet(f, S) = f[x] + SumFunctionOnSet(f, S \ {x})
<1> DEFINE Sum(s) == SumFunctionOnSet(f, s)
           T == {s \in SUBSET S : \E y \in s : Sum(s) # f[y] + Sum(s \ {y})}
<1>0. S \in SUBSET S
  OBVIOUS
<1> SUFFICES ASSUME T # {} PROVE FALSE
  BY <1>0
<1>1. PICK s \in T : \A t \in T : t \subseteq s => t = s
  <2>1. T \in SUBSET (SUBSET S)
    OBVIOUS
  <2> HIDE DEF T
  <2> QED
    BY <2>1, MinimalSubset
<1>2. PICK y \in s : Sum(s) # f[y] + Sum(s \ {y})
  BY <1>1
<1>3. s \in SUBSET S /\ IsFiniteSet(s)
  BY <1>1, FS_Subset
<1>4. \A t \in SUBSET S : t \subseteq s /\ t # s => \A z \in t : Sum(t) = f[z] + Sum(t \ {z})
  BY <1>1
<1>5. \A t \in SUBSET s : Sum(t) \in Int
  <2> TAKE t \in SUBSET s
  <2>1. IsFiniteSet(t) /\ \A z \in t : f[z] \in Int
    BY <1>3, FS_Subset
  <2> QED
    BY <2>1, SumInt
<1>6. Chosen(s) \in s /\ Sum(s) = f[Chosen(s)] + Sum(s \ {Chosen(s)})
  BY <1>2, <1>3, ChosenIn, SumOfChosen
<1>7. PICK c \in s : Sum(s) = f[c] + Sum(s \ {c})
  BY <1>6
<1> HIDE DEF Sum
<1>8. y # c
  BY <1>2, <1>7
<1>9. Sum(s \ {c}) = f[y] + Sum((s \ {c}) \ {y})
  <2>1. s \ {c} \in SUBSET S /\ s \ {c} \subseteq s /\ s \ {c} # s /\ y \in s \ {c}
    BY <1>2, <1>3, <1>6, <1>8
  <2> QED
    BY <1>4, <2>1
<1>10. Sum(s \ {y}) = f[c] + Sum((s \ {y}) \ {c})
  <2>1. s \ {y} \in SUBSET S /\ s \ {y} \subseteq s /\ s \ {y} # s /\ c \in s \ {y}
    BY <1>2, <1>3, <1>6, <1>8
  <2> QED
    BY <1>4, <2>1
<1>11. (s \ {y}) \ {c} = (s \ {c}) \ {y}
  OBVIOUS
<1>12. f[y] \in Int /\ f[c] \in Int /\ Sum((s \ {c}) \ {y}) \in Int
  BY <1>2, <1>3, <1>5, <1>6
<1>13. Sum(s \ {y}) = f[c] + Sum((s \ {c}) \ {y})
  BY <1>10, <1>11
<1> DEFINE sum == Sum((s \ {c}) \ {y})
           both == Sum(s)
           rest == Sum(s \ {y})
<1>14. both = f[c] + (f[y] + sum) /\ rest = f[c] + sum /\ both # f[y] + rest
  BY <1>2, <1>7, <1>9, <1>13
<1>15. sum \in Int
  BY <1>12
<1> HIDE DEF sum, both, rest
<1> QED
  BY <1>12, <1>14, <1>15

\* An element added.
LEMMA SumAdd ==
    ASSUME NEW f, NEW S, IsFiniteSet(S), \A y \in S : f[y] \in Int,
           NEW x, x \notin S, f[x] \in Int
    PROVE  SumFunctionOnSet(f, S \union {x}) = f[x] + SumFunctionOnSet(f, S)
<1> DEFINE R == S \union {x}
<1>1. IsFiniteSet(R)
  BY FS_AddElement
<1>2. (\A y \in R : f[y] \in Int) /\ x \in R /\ R \ {x} = S
  OBVIOUS
<1> HIDE DEF R
<1>3. SumFunctionOnSet(f, R) = f[x] + SumFunctionOnSet(f, R \ {x})
  BY <1>1, <1>2, SumTakeOut
<1> QED
  BY <1>2, <1>3 DEF R

\* The sum of two disjoint sets.
LEMMA SumOfUnion ==
    ASSUME NEW f, NEW R, NEW S, IsFiniteSet(R), IsFiniteSet(S), R \cap S = {},
           \A x \in R \union S : f[x] \in Int
    PROVE  SumFunctionOnSet(f, R \union S)
               = SumFunctionOnSet(f, R) + SumFunctionOnSet(f, S)
<1> DEFINE Sum(s) == SumFunctionOnSet(f, s)
           T == {s \in SUBSET S : Sum(R \union s) # Sum(R) + Sum(s)}
<1>0. S \in SUBSET S
  OBVIOUS
<1> SUFFICES ASSUME T # {} PROVE FALSE
  BY <1>0
<1>1. PICK s \in T : \A t \in T : t \subseteq s => t = s
  <2>1. T \in SUBSET (SUBSET S)
    OBVIOUS
  <2> HIDE DEF T
  <2> QED
    BY <2>1, MinimalSubset
<1>2. s \in SUBSET S /\ IsFiniteSet(s) /\ Sum(R \union s) # Sum(R) + Sum(s)
  BY <1>1, FS_Subset
<1>3. \A t \in SUBSET S : t \subseteq s /\ t # s => Sum(R \union t) = Sum(R) + Sum(t)
  BY <1>1
<1>4. Sum(R) \in Int
  BY SumInt
<1>5. ASSUME s = {} PROVE FALSE
  <2>1. Sum(s) = 0
    BY <1>5, SumEmpty
  <2>2. R \union s = R
    BY <1>5
  <2> HIDE DEF Sum
  <2>3. Sum(R \union s) = Sum(R)
    BY <2>2
  <2> QED
    BY <1>2, <1>4, <2>1, <2>3
<1>6. PICK x : x \in s
  BY <1>5
<1> DEFINE r == s \ {x}
<1>7. r \in SUBSET S /\ r \subseteq s /\ r # s /\ IsFiniteSet(r) /\ s = r \union {x} /\ x \notin r
  BY <1>2, <1>6, FS_RemoveElement
<1> HIDE DEF r
<1>8. IsFiniteSet(R \union r) /\ x \notin R \union r /\ x \in S /\ R \union s = (R \union r) \union {x}
  BY <1>2, <1>6, <1>7, FS_Union
<1>9. f[x] \in Int /\ (\A y \in r : f[y] \in Int) /\ \A y \in R \union r : f[y] \in Int
  BY <1>7, <1>8
<1>10. Sum(R \union s) = f[x] + Sum(R \union r)
  BY <1>8, <1>9, SumAdd
<1>11. Sum(s) = f[x] + Sum(r)
  BY <1>7, <1>9, SumAdd
<1>12. Sum(R \union r) = Sum(R) + Sum(r)
  BY <1>3, <1>7
<1>13. Sum(r) \in Int
  BY <1>7, <1>9, SumInt
<1> HIDE DEF Sum
<1> QED
  BY <1>2, <1>4, <1>9, <1>10, <1>11, <1>12, <1>13

\* Sums of natural numbers are natural numbers.
LEMMA SumNat ==
    ASSUME NEW f, NEW S, IsFiniteSet(S), \A x \in S : f[x] \in Nat
    PROVE  SumFunctionOnSet(f, S) \in Nat
<1> DEFINE T == {s \in SUBSET S : SumFunctionOnSet(f, s) \notin Nat}
<1>0. S \in SUBSET S
  OBVIOUS
<1> SUFFICES ASSUME T # {} PROVE FALSE
  BY <1>0
<1>1. PICK s \in T : \A t \in T : t \subseteq s => t = s
  <2>1. T \in SUBSET (SUBSET S)
    OBVIOUS
  <2> HIDE DEF T
  <2> QED
    BY <2>1, MinimalSubset
<1>2. s \in SUBSET S /\ IsFiniteSet(s)
  BY <1>1, FS_Subset
<1>3. s # {}
  <2>1. SumFunctionOnSet(f, {}) \in Nat
    BY SumEmpty
  <2> QED
    BY <1>1, <2>1
<1>4. PICK x : x \in s
  BY <1>3
<1> DEFINE r == s \ {x}
<1>5. SumFunctionOnSet(f, s) = f[x] + SumFunctionOnSet(f, r)
  BY <1>2, <1>4, SumTakeOut
<1>6. r \subseteq s /\ r # s /\ r \in SUBSET S
  BY <1>2, <1>4
<1>7. SumFunctionOnSet(f, r) \in Nat
  BY <1>1, <1>6
<1>8. f[x] \in Nat
  BY <1>2, <1>4
<1> HIDE DEF r
<1>9. SumFunctionOnSet(f, s) \in Nat
  BY <1>5, <1>7, <1>8
<1> QED
  BY <1>1, <1>9

\* The sum of the sums of two summands.
LEMMA SumPlus ==
    ASSUME NEW f, NEW g, NEW h, NEW S, IsFiniteSet(S),
           \A x \in S : f[x] \in Int /\ g[x] \in Int /\ h[x] = f[x] + g[x]
    PROVE  SumFunctionOnSet(h, S) = SumFunctionOnSet(f, S) + SumFunctionOnSet(g, S)
<1> DEFINE F(s) == SumFunctionOnSet(f, s)
           G(s) == SumFunctionOnSet(g, s)
           H(s) == SumFunctionOnSet(h, s)
           T == {s \in SUBSET S : H(s) # F(s) + G(s)}
<1>0. S \in SUBSET S
  OBVIOUS
<1> SUFFICES ASSUME T # {} PROVE FALSE
  BY <1>0
<1>1. PICK s \in T : \A t \in T : t \subseteq s => t = s
  <2>1. T \in SUBSET (SUBSET S)
    OBVIOUS
  <2> HIDE DEF T
  <2> QED
    BY <2>1, MinimalSubset
<1>2. s \in SUBSET S /\ IsFiniteSet(s) /\ H(s) # F(s) + G(s)
  BY <1>1, FS_Subset
<1>3. \A t \in SUBSET S : t \subseteq s /\ t # s => H(t) = F(t) + G(t)
  BY <1>1
<1>4. s # {}
  <2>1. F({}) = 0 /\ G({}) = 0 /\ H({}) = 0
    BY SumEmpty
  <2>2. H({}) = F({}) + G({})
    BY <2>1
  <2> HIDE DEF F, G, H
  <2> QED
    BY <1>2, <2>2
<1>5. PICK x : x \in s
  BY <1>4
<1>6. \A y \in s : f[y] \in Int /\ g[y] \in Int /\ h[y] = f[y] + g[y] /\ h[y] \in Int
  BY <1>2
<1> DEFINE r == s \ {x}
<1>7. F(s) = f[x] + F(r) /\ G(s) = g[x] + G(r) /\ H(s) = h[x] + H(r)
  BY <1>2, <1>5, <1>6, SumTakeOut
<1>8. r \in SUBSET S /\ r \subseteq s /\ r # s /\ IsFiniteSet(r)
  BY <1>2, <1>5, FS_Subset
<1>9. H(r) = F(r) + G(r)
  BY <1>3, <1>8
<1>10. F(r) \in Int /\ G(r) \in Int
  BY <1>6, <1>8, SumInt
<1> HIDE DEF F, G, H, r
<1> QED
  BY <1>2, <1>5, <1>6, <1>7, <1>9, <1>10

\* A sum over the values of an injection.
LEMMA SumOfImage ==
    ASSUME NEW f, NEW S, IsFiniteSet(S), NEW o, NEW g,
           \A x, y \in S : o[x] = o[y] => x = y,
           \A x \in S : f[x] \in Int /\ g[o[x]] = f[x]
    PROVE  /\ IsFiniteSet({o[x] : x \in S})
           /\ SumFunctionOnSet(g, {o[x] : x \in S}) = SumFunctionOnSet(f, S)
<1> DEFINE Image(s) == {o[x] : x \in s}
           T == {s \in SUBSET S : ~(/\ IsFiniteSet(Image(s))
                                    /\ SumFunctionOnSet(g, Image(s)) = SumFunctionOnSet(f, s))}
<1>0. S \in SUBSET S
  OBVIOUS
<1> SUFFICES ASSUME T # {} PROVE FALSE
  BY <1>0
<1>1. PICK s \in T : \A t \in T : t \subseteq s => t = s
  <2>1. T \in SUBSET (SUBSET S)
    OBVIOUS
  <2> HIDE DEF T
  <2> QED
    BY <2>1, MinimalSubset
<1>2. /\ s \in SUBSET S /\ IsFiniteSet(s)
      /\ ~(IsFiniteSet(Image(s)) /\ SumFunctionOnSet(g, Image(s)) = SumFunctionOnSet(f, s))
  BY <1>1, FS_Subset
<1>3. \A t \in SUBSET S : t \subseteq s /\ t # s =>
          IsFiniteSet(Image(t)) /\ SumFunctionOnSet(g, Image(t)) = SumFunctionOnSet(f, t)
  BY <1>1
<1>4. ASSUME s = {} PROVE FALSE
  <2>1. Image(s) = {}
    BY <1>4
  <2>2. IsFiniteSet({}) /\ SumFunctionOnSet(g, {}) = 0 /\ SumFunctionOnSet(f, {}) = 0
    BY SumEmpty, FS_EmptySet
  <2> HIDE DEF Image
  <2> QED
    BY <1>2, <1>4, <2>1, <2>2
<1>5. PICK x : x \in s
  BY <1>4
<1> DEFINE r == s \ {x}
<1>6. r \in SUBSET S /\ r \subseteq s /\ r # s
  BY <1>2, <1>5
<1>7. IsFiniteSet(Image(r)) /\ SumFunctionOnSet(g, Image(r)) = SumFunctionOnSet(f, r)
  BY <1>3, <1>6
<1>8. Image(s) = Image(r) \union {o[x]} /\ o[x] \notin Image(r)
  BY <1>2, <1>5
<1>9. (\A y \in s : f[y] \in Int) /\ (\A z \in Image(r) : g[z] \in Int) /\ g[o[x]] = f[x]
  BY <1>2, <1>5
<1>10. SumFunctionOnSet(f, s) = f[x] + SumFunctionOnSet(f, r)
  BY <1>2, <1>5, <1>9, SumTakeOut
<1> HIDE DEF Image, r
<1>11. IsFiniteSet(Image(r) \union {o[x]})
  BY <1>7, FS_AddElement
<1>12. SumFunctionOnSet(g, Image(r) \union {o[x]}) = g[o[x]] + SumFunctionOnSet(g, Image(r))
  <2>1. g[o[x]] \in Int
    BY <1>5, <1>9
  <2> QED
    BY <1>7, <1>8, <1>9, <2>1, SumAdd
<1> QED
  BY <1>2, <1>7, <1>8, <1>9, <1>10, <1>11, <1>12

\* Summands that are all 0.
LEMMA SumOfZeros ==
    ASSUME NEW f, NEW S, IsFiniteSet(S), \A x \in S : f[x] = 0
    PROVE  SumFunctionOnSet(f, S) = 0
<1>1. SumFunctionOnSet(f, S) = SumFunctionOnSet(f, S) + SumFunctionOnSet(f, S)
  <2>1. \A x \in S : f[x] \in Int /\ f[x] \in Int /\ f[x] = f[x] + f[x]
    OBVIOUS
  <2> QED
    BY <2>1, SumPlus
<1>2. SumFunctionOnSet(f, S) \in Int
  BY SumInt
<1>3. \A sum \in Int : sum = sum + sum => sum = 0
  OBVIOUS
<1> QED
  BY ONLY <1>1, <1>2, <1>3, Zenon

\* A sum of ones counts.
LEMMA SumOfOnes ==
    ASSUME NEW f, NEW S, IsFiniteSet(S), \A x \in S : f[x] = 1
    PROVE  SumFunctionOnSet(f, S) = Cardinality(S)
<1> DEFINE T == {s \in SUBSET S : SumFunctionOnSet(f, s) # Cardinality(s)}
<1>0. S \in SUBSET S
  OBVIOUS
<1> SUFFICES ASSUME T # {} PROVE FALSE
  BY <1>0
<1>1. PICK s \in T : \A t \in T : t \subseteq s => t = s
  <2>1. T \in SUBSET (SUBSET S)
    OBVIOUS
  <2> HIDE DEF T
  <2> QED
    BY <2>1, MinimalSubset
<1>2. s \in SUBSET S /\ IsFiniteSet(s) /\ SumFunctionOnSet(f, s) # Cardinality(s)
  BY <1>1, FS_Subset
<1>3. s # {}
  <2>1. SumFunctionOnSet(f, {}) = Cardinality({})
    BY SumEmpty, FS_EmptySet
  <2> QED
    BY <1>1, <2>1
<1>4. PICK x : x \in s
  BY <1>3
<1> DEFINE r == s \ {x}
<1>5. SumFunctionOnSet(f, s) = f[x] + SumFunctionOnSet(f, r)
  <2>1. \A y \in s : f[y] \in Int
    BY <1>2
  <2> QED
    BY <1>2, <1>4, <2>1, SumTakeOut
<1>6. r \in SUBSET S /\ r \subseteq s /\ r # s
  BY <1>2, <1>4
<1>7. SumFunctionOnSet(f, r) = Cardinality(r)
  BY <1>1, <1>6
<1>8. Cardinality(r) = Cardinality(s) - 1 /\ Cardinality(s) \in Nat
  BY <1>2, <1>4, FS_RemoveElement, FS_CardinalityType
<1>9. f[x] = 1
  BY <1>2, <1>4
<1> HIDE DEF r
<1> QED
  BY <1>2, <1>5, <1>7, <1>8, <1>9

\* Summands outside of R are 0.
LEMMA SumWithin ==
    ASSUME NEW f, NEW g, NEW S, IsFiniteSet(S), NEW R \in SUBSET S,
           \A x \in S : f[x] \in Int /\ (x \in R => g[x] = f[x]) /\ (x \notin R => g[x] = 0)
    PROVE  SumFunctionOnSet(g, S) = SumFunctionOnSet(f, R)
<1> DEFINE Q == S \ R
<1>1. IsFiniteSet(R) /\ IsFiniteSet(Q)
  BY FS_Subset
<1>2. R \cap Q = {} /\ R \union Q = S
  OBVIOUS
<1>3. (\A x \in R : g[x] = f[x] /\ g[x] \in Int) /\ (\A x \in Q : g[x] = 0)
  OBVIOUS
<1>4. SumFunctionOnSet(g, Q) = 0
  BY <1>1, <1>3, SumOfZeros
<1>5. SumFunctionOnSet(g, R) = SumFunctionOnSet(f, R) /\ SumFunctionOnSet(g, R) \in Int
  BY <1>1, <1>3, SumSame, SumInt
<1> HIDE DEF Q
<1>6. SumFunctionOnSet(g, R \union Q) = SumFunctionOnSet(g, R) + SumFunctionOnSet(g, Q)
  <2>1. \A x \in R \union Q : g[x] \in Int
    BY <1>3
  <2> QED
    BY <1>1, <1>2, <2>1, SumOfUnion
<1>7. SumFunctionOnSet(g, S) = SumFunctionOnSet(g, R) + SumFunctionOnSet(g, Q)
  BY ONLY <1>2, <1>6, Zenon
<1> QED
  BY <1>4, <1>5, <1>7

\* The elements with some keys, and counts of the elements with each key.
WithKeys(A, key, K) == {a \in A : key[a] \in K}

AreCounts(c, A, key, K) == \A k \in K : c[k] = Cardinality({a \in A : key[a] = k})

\* The sum of the counts of some keys is the number of elements with them.
LEMMA CountsOfKeys ==
    ASSUME NEW A, IsFiniteSet(A), NEW key, NEW K, IsFiniteSet(K), NEW c,
           AreCounts(c, A, key, K)
    PROVE  SumFunctionOnSet(c, K) = Cardinality(WithKeys(A, key, K))
<1> USE DEF WithKeys, AreCounts
<1> DEFINE Of(s) == {a \in A : key[a] \in s}
           T == {s \in SUBSET K : SumFunctionOnSet(c, s) # Cardinality(Of(s))}
<1>0. K \in SUBSET K
  OBVIOUS
<1> SUFFICES ASSUME T # {} PROVE FALSE
  BY <1>0
<1>1. PICK s \in T : \A t \in T : t \subseteq s => t = s
  <2>1. T \in SUBSET (SUBSET K)
    OBVIOUS
  <2> HIDE DEF T
  <2> QED
    BY <2>1, MinimalSubset
<1>2. s \in SUBSET K /\ IsFiniteSet(s) /\ SumFunctionOnSet(c, s) # Cardinality(Of(s))
  BY <1>1, FS_Subset
<1>3. s # {}
  <2>1. SumFunctionOnSet(c, {}) = Cardinality({})
    BY SumEmpty, FS_EmptySet
  <2>2. Of({}) = {}
    OBVIOUS
  <2> QED
    BY <1>1, <2>1, <2>2
<1>4. PICK x : x \in s
  BY <1>3
<1> DEFINE r == s \ {x}
           One == {a \in A : key[a] = x}
<1>5. \A k \in K : c[k] \in Nat
  BY FS_Subset, FS_CardinalityType
<1>6. SumFunctionOnSet(c, s) = c[x] + SumFunctionOnSet(c, r)
  <2>1. \A y \in s : c[y] \in Int
    BY <1>2, <1>5
  <2> QED
    BY <1>2, <1>4, <2>1, SumTakeOut
<1>7. r \in SUBSET K /\ r \subseteq s /\ r # s
  BY <1>2, <1>4
<1>8. SumFunctionOnSet(c, r) = Cardinality(Of(r))
  BY <1>1, <1>7
<1>9. Of(s) = One \union Of(r) /\ One \cap Of(r) = {}
  BY <1>4
<1>10. IsFiniteSet(One) /\ IsFiniteSet(Of(r))
  BY FS_Subset
<1>11. c[x] = Cardinality(One)
  BY <1>2, <1>4
<1> HIDE DEF r, One, Of
<1>12. Cardinality(Of(s)) = Cardinality(One) + Cardinality(Of(r))
  <2>1. Cardinality(One \union Of(r)) = Cardinality(One) + Cardinality(Of(r)) - Cardinality({})
    BY <1>9, <1>10, FS_Union
  <2>2. Cardinality(One) \in Nat /\ Cardinality(Of(r)) \in Nat /\ Cardinality({}) = 0
    BY <1>10, FS_CardinalityType, FS_EmptySet
  <2> QED
    BY <1>9, <2>1, <2>2
<1> QED
  BY <1>2, <1>6, <1>8, <1>11, <1>12

\* Some of the numbers from 1 on, with each number all that are less.
LEMMA InitialPart ==
    ASSUME NEW n \in Nat, NEW S \in SUBSET (1 .. n),
           \A i \in 1 .. n : \A j \in S : i < j => i \in S
    PROVE  S = 1 .. Cardinality(S) /\ Cardinality(S) \in 0 .. n
<1> DEFINE T == {i \in Nat \ {0} : i \notin S}
<1>1. n + 1 \in T
  OBVIOUS
<1>2. PICK i \in T : \A j \in T : i <= j
  <2>1. T \in SUBSET Nat /\ T # {}
    BY <1>1
  <2> HIDE DEF T
  <2> QED
    BY <2>1, LeastNumber
<1>3. i \in Nat \ {0} /\ i <= n + 1
  BY <1>1, <1>2
<1>4. \A j \in 1 .. n : j \in S <=> j <= i - 1
  <2> SUFFICES ASSUME NEW j \in 1 .. n PROVE j \in S <=> j <= i - 1
    OBVIOUS
  <2>1. CASE j < i
    BY <1>2, <1>3, <2>1
  <2>2. CASE j = i
    BY <1>2, <1>3, <2>2
  <2>3. CASE j > i
    BY <1>2, <1>3, <2>3
  <2> QED
    BY <1>3, <2>1, <2>2, <2>3
<1>5. S = 1 .. i - 1
  <2>1. S = {j \in 1 .. n : j <= i - 1}
    BY <1>4
  <2>2. 1 .. i - 1 = {j \in 1 .. n : j <= i - 1}
    BY <1>3
  <2> QED
    BY <2>1, <2>2
<1>6. Cardinality(1 .. i - 1) = i - 1
  BY <1>3, FS_Interval
<1> QED
  BY <1>3, <1>5, <1>6

\* An injection into a finite set that has as many values as it has is onto.
LEMMA OrderIsOnto ==
    ASSUME NEW S, IsFiniteSet(S), NEW o \in [1 .. Cardinality(S) -> S],
           \A i, j \in 1 .. Cardinality(S) : o[i] = o[j] => i = j
    PROVE  \A x \in S : \E i \in 1 .. Cardinality(S) : o[i] = x
<1> DEFINE n == Cardinality(S)
<1>1. n \in Nat
  BY FS_CardinalityType
<1>2. IsFiniteSet(1 .. n) /\ Cardinality(1 .. n) = n
  BY <1>1, FS_Interval
<1>3. o \in Injection(1 .. n, S)
  BY DEF Injection, IsInjective
<1>4. o \in Surjection(1 .. n, S)
  BY <1>2, <1>3, FS_Injection
<1> QED
  BY <1>4 DEF Surjection
=============================================================================
