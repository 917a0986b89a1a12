-------------------------- MODULE CollectionProofs --------------------------
(***************************************************************************)
(* Lemmas about the collections the modules are written with: the least    *)
(* element of a finite set, sums, and queues; and about quotients.         *)
(*                                                                         *)
(* SumFunctionOnSet(f, S) adds up f[x] for x in S; it is a recursive       *)
(* function over the subsets of S that takes the elements in an order of   *)
(* its own, and the lemmas say that the order does not matter.             *)
(***************************************************************************)
EXTENDS Integers, FiniteSets, Sequences, SequencesExt, Functions, FiniteSetTheorems, TLAPS

Some(S) == CHOOSE x \in S : TRUE

\* h adds up f over every subset of S
IsSum(h, f, S) ==
    h = [s \in SUBSET S |-> IF s = {} THEN 0 ELSE f[Some(s)] + h[s \ {Some(s)}]]

(* A non-empty set of subsets of a finite set has a least one: induction   *)
(* over finite sets, by the smallest counterexample.                       *)
LEMMA SmallestSubset ==
    ASSUME NEW S, IsFiniteSet(S), NEW T, T \subseteq SUBSET S, T # {}
    PROVE  \E s \in T : \A r \in T : r \subseteq s => r = s
<1>1. FiniteSubsetsOf(S) = SUBSET S
  BY FS_FiniteSubsetsOfFinite
<1>2. IsWellFoundedOn(StrictSubsetOrdering(S), FiniteSubsetsOf(S))
  BY FS_StrictSubsetOrderingWellFounded
<1>3. IsWellFoundedOn(StrictSubsetOrdering(S), SUBSET S)
  BY <1>1, <1>2
<1>4. PICK s \in T : \A r \in T : ~(<<r, s>> \in StrictSubsetOrdering(S))
  <2> HIDE DEF StrictSubsetOrdering
  <2> QED BY <1>3, WFMin
<1>5. \A r \in T : r \subseteq s => r = s
  <2> SUFFICES ASSUME NEW r \in T, r \subseteq s, r # s PROVE FALSE
    OBVIOUS
  <2>1. r \in SUBSET S /\ s \in SUBSET S
    OBVIOUS
  <2>2. <<r, s>> \in StrictSubsetOrdering(S)
    BY <2>1 DEF StrictSubsetOrdering
  <2> QED BY <1>4, <2>2
<1> QED
  BY <1>5

(* A finite set has a least element in every total order of its elements:  *)
(* what a heap, a tree or a search returns exists.                         *)
LEMMA LeastExists ==
    ASSUME NEW S, IsFiniteSet(S), S # {}, NEW R \in SUBSET (S \X S),
           \A x, y \in S : x # y => <<x, y>> \in R \/ <<y, x>> \in R,
           \A x, y, z \in S : <<x, y>> \in R /\ <<y, z>> \in R => <<x, z>> \in R
    PROVE  \E x \in S : \A y \in S \ {x} : <<x, y>> \in R
<1> DEFINE HasLeast(s) == \E x \in s : \A y \in s \ {x} : <<x, y>> \in R
           Bad == {s \in SUBSET S : s # {} /\ ~HasLeast(s)}
<1>1. Bad = {}
  <2> SUFFICES ASSUME Bad # {} PROVE FALSE
    OBVIOUS
  <2>1. Bad \subseteq SUBSET S
    OBVIOUS
  <2>2. PICK s \in Bad : \A r \in Bad : r \subseteq s => r = s
    <3> HIDE DEF Bad
    <3> QED BY <2>1, SmallestSubset
  <2>3. PICK a \in s : TRUE
    OBVIOUS
  <2> DEFINE rest == s \ {a}
  <2>4. rest # {}
    OBVIOUS
  <2>5. HasLeast(rest)
    <3>1. rest \subseteq s /\ rest # s
      BY <2>3
    <3>2. rest \notin Bad
      <4> HIDE DEF Bad, rest
      <4> QED BY <2>2, <3>1
    <3> QED BY <2>4, <3>2
  <2>6. PICK m \in rest : \A y \in rest \ {m} : <<m, y>> \in R
    BY <2>5
  <2>7. a \in S /\ m \in S /\ a # m /\ s \subseteq S
    OBVIOUS
  <2>8. CASE <<m, a>> \in R
    BY <2>6, <2>8
  <2>9. CASE <<a, m>> \in R
    <3>1. ASSUME NEW y \in s \ {a} PROVE <<a, y>> \in R
      BY <2>6, <2>7, <2>9
    <3> QED BY <3>1
  <2> QED BY <2>7, <2>8, <2>9
<1> QED BY <1>1

\* the order of the heaps of the policies: a key, the arrival, the pid
LEMMA KeyedLeastExists ==
    ASSUME NEW S, IsFiniteSet(S), S # {}, S \subseteq Nat,
           NEW k \in [S -> Int], NEW a \in [S -> Int]
    PROVE  \E x \in S : \A y \in S \ {x} :
              \/ k[x] < k[y]
              \/ k[x] = k[y] /\ a[x] < a[y]
              \/ k[x] = k[y] /\ a[x] = a[y] /\ x < y
<1> DEFINE R == {xy \in S \X S :
                  \/ k[xy[1]] < k[xy[2]]
                  \/ k[xy[1]] = k[xy[2]] /\ a[xy[1]] < a[xy[2]]
                  \/ k[xy[1]] = k[xy[2]] /\ a[xy[1]] = a[xy[2]] /\ xy[1] < xy[2]}
<1>1. \A x, y \in S : <<x, y>> \in R <=>
              \/ k[x] < k[y]
              \/ k[x] = k[y] /\ a[x] < a[y]
              \/ k[x] = k[y] /\ a[x] = a[y] /\ x < y
  OBVIOUS
<1>2. \A x \in S : k[x] \in Int /\ a[x] \in Int /\ x \in Int
  OBVIOUS
<1> HIDE DEF R
<1>3. \A x, y \in S : x # y => <<x, y>> \in R \/ <<y, x>> \in R
  BY <1>1, <1>2
<1>4. \A x, y, z \in S : <<x, y>> \in R /\ <<y, z>> \in R => <<x, z>> \in R
  BY <1>1, <1>2
<1>5. R \in SUBSET (S \X S)
  BY DEF R
<1>6. \E x \in S : \A y \in S \ {x} : <<x, y>> \in R
  BY <1>3, <1>4, <1>5, LeastExists
<1> QED BY <1>1, <1>6

LEMMA SomeIn == ASSUME NEW S, S # {} PROVE Some(S) \in S
BY DEF Some

LEMMA IsSumValue ==
    ASSUME NEW h, NEW f, NEW S, IsSum(h, f, S), NEW s \in SUBSET S
    PROVE  h[s] = IF s = {} THEN 0 ELSE f[Some(s)] + h[s \ {Some(s)}]
BY DEF IsSum

\* two such functions agree where both are defined
LEMMA SumUnique ==
    ASSUME NEW f, NEW S, IsFiniteSet(S), NEW T, NEW h, NEW k, IsSum(h, f, S), IsSum(k, f, T),
           NEW u, u \subseteq S, u \subseteq T
    PROVE  h[u] = k[u]
<1> DEFINE Bad == {s \in SUBSET S : s \subseteq T /\ h[s] # k[s]}
<1> SUFFICES ASSUME Bad # {} PROVE FALSE
  OBVIOUS
<1>1. PICK s \in Bad : \A r \in Bad : r \subseteq s => r = s
  <2>1. Bad \subseteq SUBSET S
    OBVIOUS
  <2> HIDE DEF Bad
  <2> QED BY <2>1, SmallestSubset
<1>2. s \in SUBSET S /\ s \in SUBSET T /\ h[s] # k[s]
  OBVIOUS
<1>3. /\ h[s] = IF s = {} THEN 0 ELSE f[Some(s)] + h[s \ {Some(s)}]
      /\ k[s] = IF s = {} THEN 0 ELSE f[Some(s)] + k[s \ {Some(s)}]
  BY <1>2, IsSumValue
<1>4. s # {}
  BY <1>2, <1>3
<1>5. s \ {Some(s)} # s
  BY <1>4, SomeIn
<1>6. h[s \ {Some(s)}] = k[s \ {Some(s)}]
  BY <1>1, <1>5
<1> QED
  BY <1>2, <1>3, <1>6

LEMMA SumExists ==
    ASSUME NEW f, NEW S, IsFiniteSet(S)
    PROVE  \E h : IsSum(h, f, S)
<1> DEFINE Bad == {s \in SUBSET S : ~\E h : IsSum(h, f, s)}
<1> SUFFICES ASSUME Bad # {} PROVE FALSE
  OBVIOUS
<1>1. PICK u \in Bad : \A r \in Bad : r \subseteq u => r = u
  <2>1. Bad \subseteq SUBSET S
    OBVIOUS
  <2> HIDE DEF Bad
  <2> QED BY <2>1, SmallestSubset
<1>2. u \in SUBSET S /\ ~\E h : IsSum(h, f, u)
  OBVIOUS
<1> DEFINE H(s) == CHOOSE h : IsSum(h, f, s)
           Rest(s) == s \ {Some(s)}
           g == [s \in SUBSET u |-> IF s = {} THEN 0 ELSE f[Some(s)] + H(Rest(s))[Rest(s)]]
<1>3. ASSUME NEW s \in SUBSET u, s # u PROVE IsSum(H(s), f, s)
  <2>1. s \in SUBSET S /\ s \notin Bad
    BY <1>1, <1>3
  <2>2. \E h : IsSum(h, f, s)
    BY <2>1
  <2> QED BY <2>2
<1>4. ASSUME NEW s \in SUBSET u, s # {} PROVE Rest(s) \in SUBSET u /\ Rest(s) # u /\ Rest(s) # s
  BY <1>4, SomeIn
<1>5. ASSUME NEW r \in SUBSET u, r # u PROVE g[r] = H(r)[r]
  <2>1. IsSum(H(r), f, r)
    BY <1>3, <1>5
  <2>2. H(r)[r] = IF r = {} THEN 0 ELSE f[Some(r)] + H(r)[Rest(r)]
    <3> HIDE DEF H
    <3> QED BY <2>1, IsSumValue
  <2>3. CASE r = {}
    BY <2>2, <2>3
  <2>4. CASE r # {}
    <3>1. IsSum(H(Rest(r)), f, Rest(r))
      <4> HIDE DEF H
      <4> QED BY <1>3, <1>4, <2>4
    <3>2. IsFiniteSet(Rest(r))
      BY <1>2, FS_Subset
    <3>3. H(Rest(r))[Rest(r)] = H(r)[Rest(r)]
      <4>1. Rest(r) \subseteq r
        OBVIOUS
      <4> HIDE DEF H, Rest
      <4> QED BY <2>1, <3>1, <3>2, <4>1, SumUnique
    <3>4. g[r] = f[Some(r)] + H(Rest(r))[Rest(r)]
      BY <2>4
    <3> HIDE DEF H, g
    <3> QED BY <2>2, <2>4, <3>3, <3>4
  <2> QED BY <2>3, <2>4
<1>6. \A s \in SUBSET u : g[s] = IF s = {} THEN 0 ELSE f[Some(s)] + g[s \ {Some(s)}]
  <2> TAKE s \in SUBSET u
  <2>1. CASE s = {}
    BY <2>1
  <2>2. CASE s # {}
    <3>1. g[Rest(s)] = H(Rest(s))[Rest(s)]
      <4> HIDE DEF g, H, Rest
      <4> QED BY <1>4, <1>5, <2>2
    <3>2. g[s] = f[Some(s)] + H(Rest(s))[Rest(s)]
      BY <2>2
    <3> HIDE DEF g, H
    <3> QED BY <2>2, <3>1, <3>2
  <2> QED BY <2>1, <2>2
<1>7. IsSum(g, f, u)
  <2>1. g = [s \in SUBSET u |-> g[s]]
    OBVIOUS
  <2> HIDE DEF g
  <2> QED BY <1>6, <2>1 DEF IsSum
<1> QED
  BY <1>2, <1>7

\* the community definition is the sum these lemmas are about
LEMMA SumIs ==
    ASSUME NEW f, NEW S, IsFiniteSet(S)
    PROVE  \E h : IsSum(h, f, S) /\ SumFunctionOnSet(f, S) = h[S]
<1> DEFINE h == CHOOSE h : IsSum(h, f, S)
<1>1. IsSum(h, f, S)
  BY SumExists
<1>2. SumFunctionOnSet(f, S) = h[S]
  BY DEF IsSum, Some, SumFunctionOnSet, FoldFunctionOnSet, MapThenFoldSet
<1> QED
  BY <1>1, <1>2

LEMMA SumEmpty == ASSUME NEW f PROVE SumFunctionOnSet(f, {}) = 0
<1>1. IsFiniteSet({})
  BY FS_EmptySet
<1>2. PICK h : IsSum(h, f, {}) /\ SumFunctionOnSet(f, {}) = h[{}]
  BY <1>1, SumIs
<1>3. h[{}] = 0
  BY <1>2, IsSumValue
<1> QED
  BY <1>2, <1>3

\* the sum takes the elements one by one, in some order
LEMMA SumStep ==
    ASSUME NEW f, NEW S, IsFiniteSet(S), S # {}
    PROVE  SumFunctionOnSet(f, S) = f[Some(S)] + SumFunctionOnSet(f, S \ {Some(S)})
<1> DEFINE R == S \ {Some(S)}
<1>1. IsFiniteSet(R) /\ R \subseteq S
  BY FS_RemoveElement
<1>2. PICK h : IsSum(h, f, S) /\ SumFunctionOnSet(f, S) = h[S]
  BY SumIs
<1>3. PICK k : IsSum(k, f, R) /\ SumFunctionOnSet(f, R) = k[R]
  BY <1>1, SumIs
<1>4. h[S] = f[Some(S)] + h[R]
  BY <1>2, IsSumValue
<1>5. h[R] = k[R]
  BY <1>1, <1>2, <1>3, SumUnique
<1> QED
  BY <1>2, <1>3, <1>4, <1>5

LEMMA SumInt ==
    ASSUME NEW f, NEW S, IsFiniteSet(S), \A x \in S : f[x] \in Int
    PROVE  SumFunctionOnSet(f, S) \in Int
<1> DEFINE Bad == {s \in SUBSET S : SumFunctionOnSet(f, s) \notin Int}
<1> SUFFICES ASSUME Bad # {} PROVE FALSE
  OBVIOUS
<1>1. PICK s \in Bad : \A r \in Bad : r \subseteq s => r = s
  <2>1. Bad \subseteq SUBSET S
    OBVIOUS
  <2> HIDE DEF Bad
  <2> QED BY <2>1, SmallestSubset
<1>2. s \in SUBSET S /\ SumFunctionOnSet(f, s) \notin Int /\ IsFiniteSet(s)
  BY FS_Subset
<1>3. s # {}
  BY <1>2, SumEmpty
<1>4. SumFunctionOnSet(f, s) = f[Some(s)] + SumFunctionOnSet(f, s \ {Some(s)})
  BY <1>2, <1>3, SumStep
<1>5. Some(s) \in s /\ f[Some(s)] \in Int
  BY <1>2, <1>3, SomeIn
<1>6. SumFunctionOnSet(f, s \ {Some(s)}) \in Int
  BY <1>1, <1>5
<1> QED
  BY <1>2, <1>4, <1>5, <1>6

(* Any element may be taken out of the sum first.                          *)
LEMMA SumRemove ==
    ASSUME NEW f, NEW S, IsFiniteSet(S), \A x \in S : f[x] \in Int, NEW a \in S
    PROVE  SumFunctionOnSet(f, S) = f[a] + SumFunctionOnSet(f, S \ {a})
<1> DEFINE Sum(s) == SumFunctionOnSet(f, s)
           Bad == {s \in SUBSET S : \E x \in s : Sum(s) # f[x] + Sum(s \ {x})}
<1> SUFFICES ASSUME Bad # {} PROVE FALSE
  OBVIOUS
<1>1. PICK s \in Bad : \A r \in Bad : r \subseteq s => r = s
  <2>1. Bad \subseteq SUBSET S
    OBVIOUS
  <2> HIDE DEF Bad
  <2> QED BY <2>1, SmallestSubset
<1>2. s \in SUBSET S /\ IsFiniteSet(s)
  BY FS_Subset
<1>3. PICK x \in s : Sum(s) # f[x] + Sum(s \ {x})
  BY <1>1
<1> DEFINE y == Some(s)
<1>4. y \in s /\ Sum(s) = f[y] + Sum(s \ {y})
  BY <1>2, SumStep, SomeIn
<1> HIDE DEF y
<1>5. x # y
  BY <1>3, <1>4
<1>6. Sum(s \ {y}) = f[x] + Sum((s \ {y}) \ {x})
  <2>1. s \ {y} \in SUBSET S /\ s \ {y} \notin Bad /\ x \in s \ {y}
    BY <1>1, <1>2, <1>4, <1>5
  <2> QED BY <2>1
<1>7. Sum(s \ {x}) = f[y] + Sum((s \ {x}) \ {y})
  <2>1. s \ {x} \in SUBSET S /\ s \ {x} \notin Bad /\ y \in s \ {x}
    BY <1>1, <1>2, <1>4, <1>5
  <2> QED BY <2>1
<1>8. (s \ {x}) \ {y} = (s \ {y}) \ {x}
  OBVIOUS
<1>9. f[x] \in Int /\ f[y] \in Int /\ Sum((s \ {x}) \ {y}) \in Int
  <2>1. IsFiniteSet((s \ {x}) \ {y}) /\ \A z \in (s \ {x}) \ {y} : f[z] \in Int
    BY <1>2, FS_RemoveElement
  <2>2. Sum((s \ {x}) \ {y}) \in Int
    BY <2>1, SumInt
  <2> QED BY <1>2, <1>4, <2>2
<1>10. Sum(s) = f[y] + (f[x] + Sum((s \ {x}) \ {y}))
  BY <1>4, <1>6, <1>8
<1>11. Sum(s) = f[x] + (f[y] + Sum((s \ {x}) \ {y}))
  <2> HIDE DEF Sum
  <2> QED BY <1>9, <1>10
<1> QED
  BY <1>3, <1>7, <1>11

(* The order of sums follows the order of the functions.                   *)
LEMMA SumMonotone ==
    ASSUME NEW f, NEW g, NEW S, IsFiniteSet(S),
           \A x \in S : f[x] \in Int /\ g[x] \in Int /\ f[x] <= g[x]
    PROVE  SumFunctionOnSet(f, S) <= SumFunctionOnSet(g, S)
<1> DEFINE Bad == {s \in SUBSET S : ~(SumFunctionOnSet(f, s) <= SumFunctionOnSet(g, s))}
<1> SUFFICES ASSUME Bad # {} PROVE FALSE
  OBVIOUS
<1>1. PICK s \in Bad : \A r \in Bad : r \subseteq s => r = s
  <2>1. Bad \subseteq SUBSET S
    OBVIOUS
  <2> HIDE DEF Bad
  <2> QED BY <2>1, SmallestSubset
<1>2. s \in SUBSET S /\ IsFiniteSet(s) /\ ~(SumFunctionOnSet(f, s) <= SumFunctionOnSet(g, s))
  BY FS_Subset
<1>3. s # {}
  BY <1>2, SumEmpty
<1> DEFINE a == Some(s)
           r == s \ {a}
<1>4. a \in s
  BY <1>3, SomeIn
<1>5. /\ SumFunctionOnSet(f, s) = f[a] + SumFunctionOnSet(f, r)
      /\ SumFunctionOnSet(g, s) = g[a] + SumFunctionOnSet(g, r)
  BY <1>2, <1>3, SumStep
<1>6. r \in SUBSET S /\ r # s /\ r \subseteq s /\ IsFiniteSet(r)
  BY <1>2, <1>4, FS_RemoveElement
<1>7. SumFunctionOnSet(f, r) <= SumFunctionOnSet(g, r)
  BY <1>1, <1>6
<1>8. SumFunctionOnSet(f, r) \in Int /\ SumFunctionOnSet(g, r) \in Int
  <2>1. \A x \in r : f[x] \in Int /\ g[x] \in Int
    BY <1>6
  <2> HIDE DEF r
  <2> QED BY <1>6, <2>1, SumInt
<1>9. f[a] \in Int /\ g[a] \in Int /\ f[a] <= g[a]
  BY <1>2, <1>4
<1> HIDE DEF a, r
<1> QED
  BY <1>2, <1>5, <1>7, <1>8, <1>9

LEMMA SumNat ==
    ASSUME NEW f, NEW S, IsFiniteSet(S), \A x \in S : f[x] \in Nat
    PROVE  SumFunctionOnSet(f, S) \in Nat
<1> DEFINE Bad == {s \in SUBSET S : SumFunctionOnSet(f, s) \notin Nat}
<1> SUFFICES ASSUME Bad # {} PROVE FALSE
  OBVIOUS
<1>1. PICK s \in Bad : \A r \in Bad : r \subseteq s => r = s
  <2>1. Bad \subseteq SUBSET S
    OBVIOUS
  <2> HIDE DEF Bad
  <2> QED BY <2>1, SmallestSubset
<1>2. s \in SUBSET S /\ SumFunctionOnSet(f, s) \notin Nat /\ IsFiniteSet(s)
  BY FS_Subset
<1>3. s # {}
  BY <1>2, SumEmpty
<1>4. SumFunctionOnSet(f, s) = f[Some(s)] + SumFunctionOnSet(f, s \ {Some(s)})
  BY <1>2, <1>3, SumStep
<1>5. Some(s) \in s /\ f[Some(s)] \in Nat
  BY <1>2, <1>3, SomeIn
<1>6. SumFunctionOnSet(f, s \ {Some(s)}) \in Nat
  BY <1>1, <1>5
<1> QED
  BY <1>2, <1>4, <1>5, <1>6

\* a sum of numbers from Nat grows with the set it is taken over
LEMMA SumSubset ==
    ASSUME NEW f, NEW T, IsFiniteSet(T), NEW S \in SUBSET T, \A x \in T : f[x] \in Nat
    PROVE  SumFunctionOnSet(f, S) <= SumFunctionOnSet(f, T)
<1> DEFINE Bad == {s \in SUBSET T : S \subseteq s /\ ~(SumFunctionOnSet(f, S) <= SumFunctionOnSet(f, s))}
<1> SUFFICES ASSUME Bad # {} PROVE FALSE
  OBVIOUS
<1>1. PICK s \in Bad : \A r \in Bad : r \subseteq s => r = s
  <2>1. Bad \subseteq SUBSET T
    OBVIOUS
  <2> HIDE DEF Bad
  <2> QED BY <2>1, SmallestSubset
<1>2. /\ s \in SUBSET T /\ S \subseteq s /\ IsFiniteSet(s)
      /\ ~(SumFunctionOnSet(f, S) <= SumFunctionOnSet(f, s))
  BY FS_Subset
<1>3. IsFiniteSet(S) /\ SumFunctionOnSet(f, S) \in Nat
  <2>1. IsFiniteSet(S) /\ \A x \in S : f[x] \in Nat
    BY FS_Subset
  <2> QED BY <2>1, SumNat
<1>4. s # S
  BY <1>2, <1>3
<1>5. PICK a \in s : a \notin S
  BY <1>2, <1>4
<1>6. SumFunctionOnSet(f, s) = f[a] + SumFunctionOnSet(f, s \ {a})
  <2>1. \A x \in s : f[x] \in Int
    BY <1>2
  <2> QED BY <1>2, <2>1, SumRemove
<1>7. IsFiniteSet(s \ {a}) /\ SumFunctionOnSet(f, s \ {a}) \in Nat
  <2>1. IsFiniteSet(s \ {a}) /\ \A x \in s \ {a} : f[x] \in Nat
    BY <1>2, FS_RemoveElement
  <2> QED BY <2>1, SumNat
<1>8. SumFunctionOnSet(f, S) <= SumFunctionOnSet(f, s \ {a})
  BY <1>1, <1>2, <1>5
<1>9. f[a] \in Nat
  BY <1>2, <1>5
<1> QED BY <1>2, <1>3, <1>6, <1>7, <1>8, <1>9

LEMMA SumZero ==
    ASSUME NEW f, NEW S, IsFiniteSet(S), \A x \in S : f[x] = 0
    PROVE  SumFunctionOnSet(f, S) = 0
<1> DEFINE Bad == {s \in SUBSET S : SumFunctionOnSet(f, s) # 0}
<1> SUFFICES ASSUME Bad # {} PROVE FALSE
  OBVIOUS
<1>1. PICK s \in Bad : \A r \in Bad : r \subseteq s => r = s
  <2>1. Bad \subseteq SUBSET S
    OBVIOUS
  <2> HIDE DEF Bad
  <2> QED BY <2>1, SmallestSubset
<1>2. s \in SUBSET S /\ SumFunctionOnSet(f, s) # 0 /\ IsFiniteSet(s)
  BY FS_Subset
<1>3. s # {}
  BY <1>2, SumEmpty
<1>4. SumFunctionOnSet(f, s) = f[Some(s)] + SumFunctionOnSet(f, s \ {Some(s)})
  BY <1>2, <1>3, SumStep
<1>5. Some(s) \in s /\ f[Some(s)] = 0
  BY <1>2, <1>3, SomeIn
<1>6. SumFunctionOnSet(f, s \ {Some(s)}) = 0
  BY <1>1, <1>5
<1> QED
  BY <1>2, <1>4, <1>5, <1>6

\* equal functions have equal sums
LEMMA SumSame ==
    ASSUME NEW f, NEW g, NEW S, IsFiniteSet(S), \A x \in S : f[x] \in Int /\ f[x] = g[x]
    PROVE  SumFunctionOnSet(f, S) = SumFunctionOnSet(g, S)
<1>1. \A x \in S : f[x] \in Int /\ g[x] \in Int /\ f[x] <= g[x] /\ g[x] <= f[x]
  OBVIOUS
<1>2. /\ SumFunctionOnSet(f, S) <= SumFunctionOnSet(g, S)
      /\ SumFunctionOnSet(g, S) <= SumFunctionOnSet(f, S)
  BY <1>1, SumMonotone
<1>3. SumFunctionOnSet(f, S) \in Int /\ SumFunctionOnSet(g, S) \in Int
  BY <1>1, SumInt
<1> QED
  BY <1>2, <1>3

(* One value grows by at most d and no other grows: so does the sum.       *)
LEMMA SumBound ==
    ASSUME NEW f, NEW g, NEW S, IsFiniteSet(S), NEW a \in S, NEW d \in Int,
           \A x \in S : f[x] \in Int /\ g[x] \in Int,
           \A x \in S \ {a} : g[x] <= f[x],
           g[a] <= f[a] + d
    PROVE  SumFunctionOnSet(g, S) <= SumFunctionOnSet(f, S) + d
<1> DEFINE r == S \ {a}
<1>1. /\ SumFunctionOnSet(f, S) = f[a] + SumFunctionOnSet(f, r)
      /\ SumFunctionOnSet(g, S) = g[a] + SumFunctionOnSet(g, r)
  BY SumRemove
<1>2. IsFiniteSet(r) /\ \A x \in r : f[x] \in Int /\ g[x] \in Int /\ g[x] <= f[x]
  BY FS_RemoveElement
<1>3. /\ SumFunctionOnSet(g, r) <= SumFunctionOnSet(f, r)
      /\ SumFunctionOnSet(f, r) \in Int /\ SumFunctionOnSet(g, r) \in Int
  <2> HIDE DEF r
  <2> QED BY <1>2, SumMonotone, SumInt
<1>4. f[a] \in Int /\ g[a] \in Int
  OBVIOUS
<1> HIDE DEF r
<1> QED
  BY <1>1, <1>3, <1>4

-----------------------------------------------------------------------------
(* Queues without repetitions                                              *)

LEMMA Joining ==
    ASSUME NEW S, NEW q \in Seq(S), IsInjective(q), NEW p \in S, p \notin ToSet(q)
    PROVE  /\ Append(q, p) \in Seq(S) /\ IsInjective(Append(q, p))
           /\ ToSet(Append(q, p)) = ToSet(q) \cup {p}
<1> DEFINE a == Append(q, p)
<1>1. /\ a \in Seq(S) /\ Len(a) = Len(q) + 1 /\ Len(q) \in Nat
      /\ DOMAIN q = 1..Len(q) /\ DOMAIN a = 1..(Len(q) + 1)
      /\ \A i \in 1..Len(q) : a[i] = q[i]
      /\ a[Len(q) + 1] = p
  OBVIOUS
<1> HIDE DEF a
<1>2. IsInjective(a)
  BY <1>1 DEF IsInjective, ToSet
<1>3. ToSet(a) = ToSet(q) \cup {p}
  <2>1. ASSUME NEW x \in ToSet(a) PROVE x \in ToSet(q) \cup {p}
    <3>1. PICK i \in 1..(Len(q) + 1) : x = a[i]
      BY <1>1 DEF ToSet
    <3>2. i \in 1..Len(q) \/ i = Len(q) + 1
      BY <1>1
    <3>3. CASE i \in 1..Len(q)
      BY <1>1, <3>1, <3>3 DEF ToSet
    <3>4. CASE i = Len(q) + 1
      <4>1. x = p
        BY <1>1, <3>1, <3>4
      <4> QED BY <4>1
    <3> QED BY <3>2, <3>3, <3>4
  <2>2. ToSet(q) \subseteq ToSet(a)
    BY <1>1 DEF ToSet
  <2>3. p \in ToSet(a)
    <3>1. Len(q) + 1 \in DOMAIN a
      BY <1>1
    <3>2. a[Len(q) + 1] \in ToSet(a)
      BY <3>1 DEF ToSet
    <3> QED BY <1>1, <3>2
  <2> QED BY <2>1, <2>2, <2>3
<1> QED BY <1>1, <1>2, <1>3 DEF a

LEMMA Leaving ==
    ASSUME NEW S, NEW q \in Seq(S), IsInjective(q), q # <<>>
    PROVE  /\ Tail(q) \in Seq(S) /\ IsInjective(Tail(q)) /\ Head(q) \in ToSet(q)
           /\ ToSet(Tail(q)) = ToSet(q) \ {Head(q)}
<1> DEFINE t == Tail(q)
           h == Head(q)
<1>1. /\ t \in Seq(S) /\ Len(q) \in Nat /\ Len(q) >= 1 /\ Len(t) = Len(q) - 1
      /\ DOMAIN q = 1..Len(q) /\ DOMAIN t = 1..(Len(q) - 1)
      /\ \A i \in 1..(Len(q) - 1) : t[i] = q[i + 1]
      /\ h = q[1]
  OBVIOUS
<1> HIDE DEF t, h
<1>2. IsInjective(t)
  <2> SUFFICES ASSUME NEW i \in DOMAIN t, NEW j \in DOMAIN t, t[i] = t[j] PROVE i = j
    BY DEF IsInjective
  <2>1. i + 1 \in DOMAIN q /\ j + 1 \in DOMAIN q /\ i \in Int /\ j \in Int
    BY <1>1
  <2>2. q[i + 1] = q[j + 1]
    BY <1>1
  <2>3. i + 1 = j + 1
    BY <2>1, <2>2 DEF IsInjective
  <2> QED BY <2>1, <2>3
<1>3. h \in ToSet(q)
  BY <1>1 DEF ToSet
<1>4. ToSet(t) = ToSet(q) \ {h}
  <2>1. ASSUME NEW x \in ToSet(t) PROVE x \in ToSet(q) \ {h}
    <3>1. PICK i \in DOMAIN t : x = t[i]
      BY DEF ToSet
    <3>2. i + 1 \in DOMAIN q /\ x = q[i + 1] /\ i + 1 # 1 /\ 1 \in DOMAIN q
      BY <1>1, <3>1
    <3>3. x # q[1]
      BY <3>2 DEF IsInjective
    <3> QED BY <1>1, <3>2, <3>3 DEF ToSet
  <2>2. ASSUME NEW x \in ToSet(q) \ {h} PROVE x \in ToSet(t)
    <3>1. PICK i \in DOMAIN q : x = q[i]
      BY <2>2 DEF ToSet
    <3>2. i # 1 /\ i \in Int
      BY <1>1, <2>2, <3>1
    <3>3. i - 1 \in DOMAIN t /\ t[i - 1] = x
      BY <1>1, <3>1, <3>2
    <3> QED BY <3>3 DEF ToSet
  <2> QED BY <2>1, <2>2
<1> QED BY <1>1, <1>2, <1>3, <1>4 DEF t, h

LEMMA NobodyWaits == ASSUME NEW S, NEW q \in Seq(S), q # <<>> PROVE ToSet(q) # {}
<1>1. 1 \in DOMAIN q
  OBVIOUS
<1> QED BY <1>1 DEF ToSet

LEMMA LeastNumber ==
    ASSUME NEW n \in Nat, NEW S \in SUBSET (1..n), S # {}
    PROVE  \E x \in S : \A y \in S : x <= y
<1> DEFINE zero == [x \in S |-> 0]
<1>1. IsFiniteSet(S) /\ S \subseteq Nat
  <2>1. IsFiniteSet(1..n)
    BY FS_Interval
  <2>2. IsFiniteSet(S)
    BY <2>1, FS_Subset
  <2>3. S \subseteq Nat
    OBVIOUS
  <2> QED BY <2>2, <2>3
<1>2. zero \in [S -> Int] /\ \A x \in S : zero[x] = 0
  OBVIOUS
<1> HIDE DEF zero
<1>3. PICK x \in S : \A y \in S \ {x} :
               \/ zero[x] < zero[y]
               \/ zero[x] = zero[y] /\ zero[x] < zero[y]
               \/ zero[x] = zero[y] /\ zero[x] = zero[y] /\ x < y
  BY <1>1, <1>2, KeyedLeastExists
<1>4. \A y \in S \ {x} : x < y
  BY <1>2, <1>3
<1>5. \A y \in S : x <= y
  BY <1>1, <1>4
<1> QED BY <1>5

LEMMA Concatenated ==
    ASSUME NEW S, NEW s \in Seq(S), NEW t \in Seq(S), IsInjective(s), IsInjective(t),
           ToSet(s) \cap ToSet(t) = {}
    PROVE  /\ s \o t \in Seq(S) /\ IsInjective(s \o t)
           /\ ToSet(s \o t) = ToSet(s) \cup ToSet(t)
<1> DEFINE c == s \o t
<1>1. /\ Len(s) \in Nat /\ Len(t) \in Nat /\ c \in Seq(S)
      /\ DOMAIN s = 1..Len(s) /\ DOMAIN t = 1..Len(t) /\ DOMAIN c = 1..(Len(s) + Len(t))
      /\ \A i \in 1..Len(s) : c[i] = s[i]
      /\ \A i \in (Len(s) + 1)..(Len(s) + Len(t)) : c[i] = t[i - Len(s)]
  OBVIOUS
<1> HIDE DEF c
<1>2. ASSUME NEW i \in DOMAIN c
      PROVE  \/ i \in DOMAIN s /\ c[i] = s[i] /\ c[i] \in ToSet(s)
             \/ i - Len(s) \in DOMAIN t /\ c[i] = t[i - Len(s)] /\ c[i] \in ToSet(t)
  <2>1. CASE i \in 1..Len(s)
    BY <1>1, <2>1 DEF ToSet
  <2>2. CASE i \notin 1..Len(s)
    <3>1. i \in (Len(s) + 1)..(Len(s) + Len(t)) /\ i - Len(s) \in 1..Len(t)
      BY <1>1, <2>2
    <3> QED BY <1>1, <3>1 DEF ToSet
  <2> QED BY <2>1, <2>2
<1>3. IsInjective(c)
  <2> SUFFICES ASSUME NEW i \in DOMAIN c, NEW j \in DOMAIN c, c[i] = c[j] PROVE i = j
    BY DEF IsInjective
  <2>1. i \in Int /\ j \in Int
    BY <1>1
  <2>2. CASE i \in DOMAIN s /\ c[i] = s[i] /\ c[i] \in ToSet(s)
    <3>1. c[j] \notin ToSet(t)
      BY <2>2
    <3>2. j \in DOMAIN s /\ c[j] = s[j]
      BY <1>2, <3>1
    <3> QED BY <2>2, <3>2 DEF IsInjective
  <2>3. CASE i - Len(s) \in DOMAIN t /\ c[i] = t[i - Len(s)] /\ c[i] \in ToSet(t)
    <3>1. c[j] \notin ToSet(s)
      BY <2>3
    <3>2. j - Len(s) \in DOMAIN t /\ c[j] = t[j - Len(s)]
      BY <1>2, <3>1
    <3>3. i - Len(s) = j - Len(s)
      BY <2>3, <3>2 DEF IsInjective
    <3> QED BY <1>1, <2>1, <3>3
  <2> QED BY <1>2, <2>2, <2>3
<1>4. ToSet(c) \subseteq ToSet(s) \cup ToSet(t)
  BY <1>2 DEF ToSet
<1>5. ToSet(s) \subseteq ToSet(c)
  BY <1>1 DEF ToSet
<1>6. ASSUME NEW x \in ToSet(t) PROVE x \in ToSet(c)
  <2>1. PICK j \in 1..Len(t) : x = t[j]
    BY <1>1 DEF ToSet
  <2>2. PICK i : i = Len(s) + j
    OBVIOUS
  <2>3. i \in (Len(s) + 1)..(Len(s) + Len(t)) /\ i - Len(s) = j /\ i \in DOMAIN c
    BY <1>1, <2>1, <2>2
  <2>4. c[i] = x
    BY <1>1, <2>1, <2>3
  <2> QED BY <2>3, <2>4 DEF ToSet
<1> QED BY <1>1, <1>3, <1>4, <1>5, <1>6 DEF c

LEMMA JumpingAhead ==
    ASSUME NEW S, NEW q \in Seq(S), IsInjective(q), NEW p \in S, p \notin ToSet(q)
    PROVE  /\ <<p>> \o q \in Seq(S) /\ IsInjective(<<p>> \o q)
           /\ ToSet(<<p>> \o q) = {p} \cup ToSet(q)
<1> DEFINE s == <<p>>
<1>1. s \in Seq(S) /\ IsInjective(s) /\ ToSet(s) = {p}
  BY DEF IsInjective, ToSet
<1>2. ToSet(s) \cap ToSet(q) = {}
  BY <1>1
<1> HIDE DEF s
<1>3. /\ s \o q \in Seq(S) /\ IsInjective(s \o q)
      /\ ToSet(s \o q) = ToSet(s) \cup ToSet(q)
  BY <1>1, <1>2, Concatenated
<1> QED BY <1>1, <1>3 DEF s

(* FlattenSeq(q) is a recursive function too: f[i] is q[1] to q[i] in one. *)
IsFlat(f, q, n) == f = [i \in 1..n |-> IF i = 1 THEN q[i] ELSE f[i - 1] \o q[i]]

LEMMA IsFlatValue ==
    ASSUME NEW f, NEW q, NEW n, IsFlat(f, q, n), NEW i \in 1..n
    PROVE  f[i] = IF i = 1 THEN q[i] ELSE f[i - 1] \o q[i]
BY DEF IsFlat

LEMMA FlatExists == ASSUME NEW n \in Nat, NEW q PROVE \A m \in 1..n : \E f : IsFlat(f, q, m)
<1> DEFINE Bad == {m \in 1..n : ~\E f : IsFlat(f, q, m)}
<1> SUFFICES ASSUME Bad # {} PROVE FALSE
  OBVIOUS
<1>1. PICK m \in Bad : \A k \in Bad : m <= k
  <2>1. Bad \in SUBSET (1..n)
    OBVIOUS
  <2> HIDE DEF Bad
  <2> QED BY <2>1, LeastNumber
<1>2. m \in 1..n /\ m \in Int /\ ~\E f : IsFlat(f, q, m)
  OBVIOUS
<1> HIDE DEF Bad
<1>3. CASE m = 1
  <2> DEFINE g == [i \in 1..m |-> q[i]]
  <2>1. IsFlat(g, q, m)
    BY <1>3 DEF IsFlat
  <2> QED BY <1>2, <2>1
<1>4. CASE m # 1
  <2>1. m - 1 \in 1..n /\ m - 1 < m
    BY <1>2, <1>4
  <2>2. m - 1 \notin Bad
    BY <1>1, <1>2, <2>1
  <2>3. PICK f : IsFlat(f, q, m - 1)
    BY <2>1, <2>2 DEF Bad
  <2> DEFINE g == [i \in 1..m |-> IF i < m THEN f[i] ELSE f[m - 1] \o q[m]]
  <2>4. ASSUME NEW i \in 1..m PROVE g[i] = IF i = 1 THEN q[i] ELSE g[i - 1] \o q[i]
    <3>1. CASE i = m
      <4>1. i - 1 \in 1..m /\ i - 1 < m /\ i # 1
        BY <1>2, <1>4, <3>1
      <4>2. /\ g[i] = IF i < m THEN f[i] ELSE f[m - 1] \o q[m]
            /\ g[i - 1] = IF i - 1 < m THEN f[i - 1] ELSE f[m - 1] \o q[m]
        BY <4>1
      <4> HIDE DEF g
      <4>3. g[i] = f[i - 1] \o q[i]
        <5>1. ~(i < m)
          BY <1>2, <3>1
        <5>2. g[i] = f[m - 1] \o q[m]
          BY <4>2, <5>1
        <5> QED BY <3>1, <5>2
      <4>4. g[i - 1] = f[i - 1]
        BY <4>1, <4>2
      <4> QED BY <4>1, <4>3, <4>4
    <3>2. CASE i # m
      <4>1. i \in 1..(m - 1) /\ g[i] = f[i] /\ (i # 1 => g[i - 1] = f[i - 1])
        BY <1>2, <3>2
      <4>2. f[i] = IF i = 1 THEN q[i] ELSE f[i - 1] \o q[i]
        BY <2>3, <4>1, IsFlatValue
      <4> QED BY <4>1, <4>2
    <3> QED BY <3>1, <3>2
  <2>5. IsFlat(g, q, m)
    <3>1. g = [i \in 1..m |-> g[i]]
      OBVIOUS
    <3> HIDE DEF g
    <3> QED BY <2>4, <3>1 DEF IsFlat
  <2> QED BY <1>2, <2>5
<1> QED BY <1>3, <1>4

LEMMA Flattened ==
    ASSUME NEW n \in Nat \ {0}, NEW S, NEW q \in [1..n -> Seq(S)],
           \A i \in 1..n : IsInjective(q[i]),
           \A i, j \in 1..n : i # j => ToSet(q[i]) \cap ToSet(q[j]) = {}
    PROVE  /\ FlattenSeq(q) \in Seq(S) /\ IsInjective(FlattenSeq(q))
           /\ ToSet(FlattenSeq(q)) = UNION {ToSet(q[i]) : i \in 1..n}
<1> DEFINE f == CHOOSE f : IsFlat(f, q, n)
<1>1. IsFlat(f, q, n)
  <2>1. n \in 1..n
    OBVIOUS
  <2>2. \E h : IsFlat(h, q, n)
    BY <2>1, FlatExists
  <2> QED BY <2>2
<1>2. Len(q) = n
  OBVIOUS
<1>3. FlattenSeq(q) = f[n]
  BY <1>2 DEF FlattenSeq, IsFlat
<1> HIDE DEF f
<1>4. n \in 1..n
  OBVIOUS
<1>5. \A m \in 1..n : /\ f[m] \in Seq(S) /\ IsInjective(f[m])
                      /\ ToSet(f[m]) = UNION {ToSet(q[i]) : i \in 1..m}
  <2> DEFINE Good(m) == /\ f[m] \in Seq(S) /\ IsInjective(f[m])
                        /\ ToSet(f[m]) = UNION {ToSet(q[i]) : i \in 1..m}
             Bad == {m \in 1..n : ~Good(m)}
  <2> SUFFICES ASSUME Bad # {} PROVE FALSE
    OBVIOUS
  <2>1. PICK m \in Bad : \A k \in Bad : m <= k
    <3>1. Bad \in SUBSET (1..n)
      OBVIOUS
    <3> HIDE DEF Bad
    <3> QED BY <3>1, LeastNumber
  <2>2. m \in 1..n /\ m \in Int /\ q[m] \in Seq(S) /\ IsInjective(q[m]) /\ ~Good(m)
    OBVIOUS
  <2>3. CASE m = 1
    <3>1. f[m] = q[m]
      BY <1>1, <2>2, <2>3, IsFlatValue
    <3>2. ToSet(f[m]) = UNION {ToSet(q[i]) : i \in 1..m}
      BY <2>3, <3>1
    <3> QED BY <2>2, <3>1, <3>2
  <2>4. CASE m # 1
    <3>1. m - 1 \in 1..n /\ m - 1 < m
      BY <2>2, <2>4
    <3>2. m - 1 \notin Bad
      <4> HIDE DEF Bad
      <4> QED BY <2>1, <2>2, <3>1
    <3>3. Good(m - 1)
      BY <3>1, <3>2
    <3>4. f[m] = f[m - 1] \o q[m]
      <4>1. f[m] = IF m = 1 THEN q[m] ELSE f[m - 1] \o q[m]
        BY <1>1, <2>2, IsFlatValue
      <4> QED BY <2>4, <4>1
    <3>5. ToSet(f[m - 1]) \cap ToSet(q[m]) = {}
      <4>1. \A i \in 1..(m - 1) : i \in 1..n /\ i # m
        BY <2>2
      <4> QED BY <2>2, <3>3, <4>1
    <3>6. /\ f[m] \in Seq(S) /\ IsInjective(f[m])
          /\ ToSet(f[m]) = ToSet(f[m - 1]) \cup ToSet(q[m])
      BY <2>2, <3>3, <3>4, <3>5, Concatenated
    <3>7. 1..m = (1..(m - 1)) \cup {m}
      BY <2>2
    <3>8. UNION {ToSet(q[i]) : i \in 1..m}
            = (UNION {ToSet(q[i]) : i \in 1..(m - 1)}) \cup ToSet(q[m])
      BY <3>7
    <3> QED BY <2>2, <3>3, <3>6, <3>8
  <2> QED BY <2>3, <2>4
<1> QED BY <1>3, <1>4, <1>5

-----------------------------------------------------------------------------
(* Division                                                                *)

LEMMA QuotientIs ==
    ASSUME NEW a \in Int, NEW k \in Nat \ {0}
    PROVE  /\ a \div k \in Int /\ a % k \in 0..(k - 1)
           /\ a = (a \div k) * k + (a % k)
OBVIOUS

LEMMA OneQuotient ==
    ASSUME NEW k \in Nat \ {0}, NEW x \in Int, NEW y \in Int, NEW u \in 0..(k - 1), NEW v \in 0..(k - 1),
           x * k + u = y * k + v
    PROVE  x = y
<1>1. ASSUME NEW a \in Int, NEW b \in Int, NEW i \in 0..(k - 1), NEW j \in 0..(k - 1),
             a * k + i = b * k + j, a < b
      PROVE  FALSE
  <2>1. PICK d \in Nat : b = a + 1 + d
    <3>1. b - a - 1 \in Nat /\ b = a + 1 + (b - a - 1)
      BY <1>1
    <3> QED BY <3>1
  <2>2. b * k = a * k + k + d * k /\ d * k \in Nat /\ a * k \in Int
    BY <2>1
  <2> QED BY <1>1, <2>2
<1>2. ~(x < y) /\ ~(y < x)
  BY <1>1
<1> QED BY <1>2

\* the quotient of a sum, by the remainders of its terms
LEMMA QuotientOfSum ==
    ASSUME NEW k \in Nat \ {0}, NEW a \in Int, NEW b \in Int
    PROVE  (a + b) \div k = (a \div k) + (b \div k) + (IF b % k >= k - (a % k) THEN 1 ELSE 0)
<1>1. PICK x \in Int, u \in 0..(k - 1) : x = a \div k /\ u = a % k /\ a = x * k + u
  BY QuotientIs
<1>2. PICK y \in Int, v \in 0..(k - 1) : y = b \div k /\ v = b % k /\ b = y * k + v
  BY QuotientIs
<1>3. PICK s \in Int : s = a + b
  OBVIOUS
<1>4. PICK z \in Int, t \in 0..(k - 1) : z = s \div k /\ s = z * k + t
  BY QuotientIs
<1>5. PICK carry \in {0, 1} : carry = IF v >= k - u THEN 1 ELSE 0
  OBVIOUS
<1>6. u + v - carry * k \in 0..(k - 1)
  BY <1>5
<1>7. (x + y + carry) * k = x * k + y * k + carry * k
  BY <1>5
<1>8. z * k + t = (x + y + carry) * k + (u + v - carry * k)
  <2>1. x * k \in Int /\ y * k \in Int /\ carry * k \in Int /\ z * k \in Int
    BY <1>5
  <2> QED BY <1>1, <1>2, <1>3, <1>4, <1>7, <2>1
<1>9. z = x + y + carry
  BY <1>5, <1>6, <1>8, OneQuotient
<1> QED BY <1>1, <1>2, <1>3, <1>4, <1>5, <1>9
=============================================================================
