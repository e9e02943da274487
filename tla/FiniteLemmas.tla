---------------------------- MODULE FiniteLemmas ----------------------------
(***************************************************************************)
(* Lemmas about finite data that the proofs about several components use.  *)
(* Induction is by least counterexample, in the form of sets: the library's*)
(* induction rules take an operator.                                       *)
(*                                                                         *)
(*  - Induction and recursion along 0..n.                                  *)
(*  - The largest element of a finite set.                                 *)
(*  - Sums over finite sets: MapThenSumSet and SumFunction take the        *)
(*    elements in an order that CHOOSE fixes; the order does not matter.   *)
(***************************************************************************)
EXTENDS Integers, FiniteSets, FiniteSetsExt, FiniteSetTheorems, WellFoundedInduction, TLAPS

\* A set of natural numbers has a least one.
LEMMA LeastNumber ==
  ASSUME NEW T, T \subseteq Nat, T # {}
  PROVE  \E n \in T : \A m \in T : n <= m
<1> DEFINE Below == {ss \in Nat \X Nat : ss[1] < ss[2]}
<1>1. IsWellFoundedOn(Below, Nat)
  BY NatLessThanWellFounded, Zenon DEF OpToRel
<1>2. \A m, n \in Nat : m < n => <<m, n>> \in Below
  OBVIOUS
<1> HIDE DEF Below
<1>3. PICK n \in T : \A m \in T : ~(<<m, n>> \in Below)
  BY <1>1, WFMin
<1>4. \A m \in T : ~(m < n)
  BY <1>2, <1>3
<1>5. QED BY <1>4

\* Induction along 0..n.
LEMMA Induction ==
  ASSUME NEW n \in Nat, NEW T, 0 \in T, \A k \in 1..n : k - 1 \in T => k \in T
  PROVE  0..n \subseteq T
<1> DEFINE Bad == {k \in 0..n : k \notin T}
<1> SUFFICES ASSUME Bad # {} PROVE FALSE
  OBVIOUS
<1>1. Bad \subseteq Nat
  OBVIOUS
<1>2. PICK k \in Bad : \A m \in Bad : k <= m
  <2> HIDE DEF Bad
  <2> QED BY <1>1, LeastNumber
<1>3. k \in 1..n /\ k - 1 \in 0..n
  OBVIOUS
<1>4. k - 1 \notin Bad
  <2>1. ~(k <= k - 1)
    BY <1>3
  <2>2. QED BY <1>2, <2>1
<1>5. k - 1 \in T
  BY <1>3, <1>4
<1>6. QED BY <1>3, <1>5

\* f is the sequence a, G[a], G[G[a]], ... along 0..n.
Iterates(f, X, a, G, n) ==
  f \in [0..n -> X] /\ f[0] = a /\ \A k \in 1..n : f[k] = G[f[k - 1]]

\* Recursion along 0..n.
LEMMA Recursion ==
  ASSUME NEW X, NEW a \in X, NEW G \in [X -> X], NEW n \in Nat
  PROVE  \E f : Iterates(f, X, a, G, n)
<1> DEFINE T == {m \in Nat :
                   \E f \in [0..m -> X] : f[0] = a /\ \A k \in 1..m : f[k] = G[f[k - 1]]}
<1>1. 0 \in T
  <2> DEFINE f == [k \in 0..0 |-> a]
  <2>1. f \in [0..0 -> X] /\ f[0] = a /\ \A k \in 1..0 : f[k] = G[f[k - 1]]
    OBVIOUS
  <2>2. QED BY <2>1
<1>2. ASSUME NEW m \in 1..n, m - 1 \in T PROVE m \in T
  <2>1. PICK g \in [0..(m - 1) -> X] : g[0] = a /\ \A k \in 1..(m - 1) : g[k] = G[g[k - 1]]
    BY <1>2
  <2> DEFINE f == [k \in 0..m |-> IF k = m THEN G[g[m - 1]] ELSE g[k]]
  <2>2. \A k \in 0..(m - 1) : k \in 0..m /\ f[k] = g[k] /\ g[k] \in X
    OBVIOUS
  <2>3. f[m] = G[g[m - 1]] /\ m - 1 \in 0..(m - 1)
    OBVIOUS
  <2>4. f \in [0..m -> X]
    <3>1. ASSUME NEW k \in 0..m PROVE f[k] \in X
      <4>1. CASE k = m
        BY <2>2, <2>3, <4>1
      <4>2. CASE k # m
        <5>1. k \in 0..(m - 1)
          BY <4>2
        <5>2. QED BY <2>2, <5>1
      <4>3. QED BY <4>1, <4>2
    <3>2. QED BY <3>1
  <2>5. f[0] = a
    BY <2>1, <2>2
  <2>6. ASSUME NEW k \in 1..m PROVE f[k] = G[f[k - 1]]
    <3>1. k - 1 \in 0..(m - 1)
      OBVIOUS
    <3>2. f[k - 1] = g[k - 1]
      BY <2>2, <3>1
    <3>3. CASE k = m
      BY <2>3, <3>2, <3>3
    <3>4. CASE k # m
      <4>1. k \in 1..(m - 1) /\ k \in 0..(m - 1)
        BY <3>4
      <4>2. QED BY <2>1, <2>2, <3>2, <4>1
    <3>5. QED BY <3>3, <3>4
  <2> HIDE DEF f
  <2>7. QED BY <2>4, <2>5, <2>6
<1> HIDE DEF T
<1>3. 0..n \subseteq T
  BY <1>1, <1>2, Induction
<1>4. n \in T
  BY <1>3
<1>5. PICK f \in [0..n -> X] : f[0] = a /\ \A k \in 1..n : f[k] = G[f[k - 1]]
  BY <1>4 DEF T
<1>6. Iterates(f, X, a, G, n)
  BY <1>5 DEF Iterates
<1>7. QED BY <1>6

\* A family of finite sets has a smallest one.
LEMMA SmallestSet ==
  ASSUME NEW S, IsFiniteSet(S), NEW F, F \subseteq SUBSET S, F # {}
  PROVE  \E s \in F : \A r \in F : Cardinality(s) <= Cardinality(r)
<1>1. \A s \in F : Cardinality(s) \in Nat
  BY FS_Subset, FS_CardinalityType
<1> DEFINE Sizes == {Cardinality(s) : s \in F}
<1>2. Sizes \subseteq Nat /\ Sizes # {}
  BY <1>1
<1>3. PICK n \in Sizes : \A m \in Sizes : n <= m
  <2> HIDE DEF Sizes
  <2> QED BY <1>2, LeastNumber
<1>4. QED BY <1>3

\* Removing the element that CHOOSE picks leaves a smaller subset.
LEMMA Smaller ==
  ASSUME NEW S, IsFiniteSet(S), NEW s \in SUBSET S, NEW x \in s
  PROVE  /\ s \ {x} \in SUBSET S
         /\ Cardinality(s) \in Nat
         /\ Cardinality(s \ {x}) \in Nat
         /\ Cardinality(s \ {x}) < Cardinality(s)
<1>1. IsFiniteSet(s)
  BY FS_Subset
<1>2. Cardinality(s) \in Nat
  BY <1>1, FS_CardinalityType
<1>3. IsFiniteSet(s \ {x}) /\ Cardinality(s \ {x}) = Cardinality(s) - 1
  BY <1>1, FS_RemoveElement
<1>4. Cardinality(s \ {x}) \in Nat
  BY <1>3, FS_CardinalityType
<1>5. QED BY <1>2, <1>3, <1>4

\* The values of a function on a finite set are finitely many.
LEMMA ImageFinite ==
  ASSUME NEW S, IsFiniteSet(S), NEW f
  PROVE  IsFiniteSet({f[x] : x \in S})
<1> DEFINE g == [x \in S |-> f[x]]
           T == {f[x] : x \in S}
<1>1. g \in Surjection(S, T)
  BY DEF Surjection
<1> HIDE DEF g, T
<1>2. IsFiniteSet(T)
  BY <1>1, FS_Surjection
<1>3. QED BY <1>2 DEF T

\* A finite set of integers has a largest one, which Max chooses.
LEMMA MaxIsLargest ==
  ASSUME NEW S, IsFiniteSet(S), S \subseteq Int, S # {}
  PROVE  Max(S) \in S /\ \A y \in S : y <= Max(S)
<1> DEFINE Above(x) == {y \in S : y > x}
           F == {Above(x) : x \in S}
<1>1. F \subseteq SUBSET S /\ F # {}
  OBVIOUS
<1>2. PICK s \in F : \A r \in F : Cardinality(s) <= Cardinality(r)
  <2> HIDE DEF F
  <2> QED BY <1>1, SmallestSet
<1>3. PICK x \in S : s = Above(x)
  OBVIOUS
<1>4. ASSUME NEW y \in S, ~(y <= x) PROVE FALSE
  <2>1. y \in s
    BY <1>3, <1>4
  <2>2. Above(y) \subseteq s \ {y}
    <3> SUFFICES ASSUME NEW z \in S, z > y PROVE z \in s /\ z # y
      OBVIOUS
    <3>1. x \in Int /\ y \in Int /\ z \in Int
      OBVIOUS
    <3>2. z > x /\ z # y
      BY <1>4, <3>1
    <3>3. QED BY <1>3, <3>2
  <2>3. IsFiniteSet(s) /\ Cardinality(s) \in Nat
    BY <1>3, FS_Subset, FS_CardinalityType
  <2>4. IsFiniteSet(s \ {y}) /\ Cardinality(s \ {y}) = Cardinality(s) - 1
    BY <2>1, <2>3, FS_RemoveElement
  <2>5. Cardinality(Above(y)) <= Cardinality(s \ {y}) /\ Cardinality(Above(y)) \in Nat
    <3>1. Above(y) \in SUBSET (s \ {y})
      BY <2>2
    <3> HIDE DEF Above
    <3>2. QED BY <2>4, <3>1, FS_Subset, FS_CardinalityType
  <2>6. Cardinality(s) <= Cardinality(Above(y))
    BY <1>2
  <2>7. QED BY <2>3, <2>4, <2>5, <2>6
<1>5. \A y \in S : x >= y
  BY <1>4
<1> DEFINE m == CHOOSE m \in S : \A y \in S : m >= y
<1>6. m \in S /\ \A y \in S : m >= y
  BY <1>5
<1>7. Max(S) = m
  BY DEF Max
<1> HIDE DEF m
<1>8. QED BY <1>6, <1>7

-----------------------------------------------------------------------------
\* One step of the sum that MapThenSumSet computes: the chosen element of s first.
SumStep(f, iter, s) ==
  IF s = {} THEN 0 ELSE f[CHOOSE x \in s : TRUE] + iter[s \ {CHOOSE x \in s : TRUE}]

\* iter holds the sum of f over every subset of S.
Sums(iter, f, S) == iter = [s \in SUBSET S |-> SumStep(f, iter, s)]

\* The sum of f over S.
SumOver(f, S) == (CHOOSE iter : Sums(iter, f, S))[S]

\* There is a function that holds the sums up to any size n, and so one for all.
LEMMA SumsExist ==
  ASSUME NEW S, IsFiniteSet(S), NEW f
  PROVE  \E iter : Sums(iter, f, S)
<1> DEFINE Good(iter, n) ==
             /\ DOMAIN iter = SUBSET S /\ iter = [s \in SUBSET S |-> iter[s]]
             /\ \A s \in SUBSET S : Cardinality(s) <= n => iter[s] = SumStep(f, iter, s)
           Bad == {n \in Nat : ~\E iter : Good(iter, n)}
<1> HIDE DEF Bad
<1>1. \A s \in SUBSET S : Cardinality(s) \in Nat
  BY FS_Subset, FS_CardinalityType
<1>2. Bad = {}
  <2> SUFFICES ASSUME Bad # {} PROVE FALSE
    OBVIOUS
  <2>1. PICK n \in Bad : \A m \in Bad : n <= m
    BY LeastNumber DEF Bad
  <2>2. CASE n = 0
    <3> DEFINE iter == [s \in SUBSET S |-> 0]
    <3>1. ASSUME NEW s \in SUBSET S, Cardinality(s) <= 0 PROVE iter[s] = SumStep(f, iter, s)
      <4>1. s = {}
        BY <3>1, <1>1, FS_Subset, FS_EmptySet
      <4>2. QED BY <4>1 DEF SumStep
    <3>2. Good(iter, 0)
      BY <3>1
    <3>3. QED BY <2>1, <2>2, <3>2 DEF Bad
  <2>3. CASE n # 0
    <3>0. n \in Nat
      BY DEF Bad
    <3>1. n - 1 \in Nat /\ n - 1 \notin Bad
      BY <2>1, <2>3, <3>0
    <3>2. PICK prev : Good(prev, n - 1)
      BY <3>1 DEF Bad
    <3> DEFINE iter == [s \in SUBSET S |-> IF Cardinality(s) = n THEN SumStep(f, prev, s)
                                                                 ELSE prev[s]]
    <3>3. ASSUME NEW s \in SUBSET S, Cardinality(s) <= n PROVE iter[s] = SumStep(f, iter, s)
      <4>1. iter[s] = SumStep(f, prev, s)
        <5>1. CASE Cardinality(s) = n
          BY <5>1
        <5>2. CASE Cardinality(s) # n
          <6>1. Cardinality(s) \in Nat
            BY <1>1
          <6>2. Cardinality(s) <= n - 1
            BY <6>1, <5>2, <3>0, <3>3
          <6>3. QED BY <5>2, <6>2, <3>2
        <5>3. QED BY <5>1, <5>2
      <4>2. CASE s = {}
        BY <4>1, <4>2 DEF SumStep
      <4>3. CASE s # {}
        <5> DEFINE x == CHOOSE x \in s : TRUE
        <5>1. x \in s
          BY <4>3
        <5>2. iter[s \ {x}] = prev[s \ {x}]
          <6>1. Cardinality(s \ {x}) # n /\ s \ {x} \in SUBSET S
            <7> HIDE DEF x
            <7>1. /\ s \ {x} \in SUBSET S /\ Cardinality(s) \in Nat
                  /\ Cardinality(s \ {x}) \in Nat /\ Cardinality(s \ {x}) < Cardinality(s)
              BY <5>1, Smaller
            <7>2. QED BY <7>1, <3>3, <3>0
          <6>2. QED BY <6>1
        <5>3. QED BY <4>1, <4>3, <5>2 DEF SumStep
      <4>4. QED BY <4>2, <4>3
    <3>4. Good(iter, n)
      BY <3>3
    <3>5. QED BY <2>1, <3>4 DEF Bad
  <2>4. QED BY <2>2, <2>3
<1>3. PICK iter : Good(iter, Cardinality(S))
  BY <1>1, <1>2 DEF Bad
<1>4. \A s \in SUBSET S : iter[s] = SumStep(f, iter, s)
  BY <1>1, <1>3, FS_Subset
<1>5. Sums(iter, f, S)
  BY <1>3, <1>4 DEF Sums
<1>6. QED BY <1>5

\* Two such functions for f and g agree on the sets on which f and g do.
LEMMA SumsAgree ==
  ASSUME NEW S, IsFiniteSet(S), NEW T, IsFiniteSet(T), NEW R, R \subseteq S, R \subseteq T,
         NEW f, NEW g, \A x \in R : f[x] = g[x],
         NEW i, Sums(i, f, S), NEW j, Sums(j, g, T)
  PROVE  i[R] = j[R]
<1> DEFINE Bad == {s \in SUBSET R : i[s] # j[s]}
<1> HIDE DEF Bad
<1>1. IsFiniteSet(R)
  BY FS_Subset
<1>2. ASSUME Bad # {} PROVE FALSE
  <2>1. PICK s \in Bad : \A r \in Bad : Cardinality(s) <= Cardinality(r)
    BY <1>1, <1>2, SmallestSet DEF Bad
  <2>2. s \in SUBSET R /\ i[s] # j[s]
    BY DEF Bad
  <2>3. i[s] = SumStep(f, i, s) /\ j[s] = SumStep(g, j, s)
    BY <2>2 DEF Sums
  <2>4. CASE s = {}
    BY <2>2, <2>3, <2>4 DEF SumStep
  <2>5. CASE s # {}
    <3> DEFINE x == CHOOSE x \in s : TRUE
    <3>1. x \in s
      BY <2>5
    <3>2. s \ {x} \notin Bad
      <4> HIDE DEF x
      <4>1. /\ Cardinality(s) \in Nat /\ Cardinality(s \ {x}) \in Nat
            /\ Cardinality(s \ {x}) < Cardinality(s)
        BY <1>1, <2>2, <3>1, Smaller
      <4>2. QED BY <2>1, <4>1
    <3>3. i[s \ {x}] = j[s \ {x}]
      BY <3>2, <2>2 DEF Bad
    <3>4. f[x] = g[x]
      BY <2>2, <3>1
    <3>5. QED BY <2>2, <2>3, <2>5, <3>3, <3>4 DEF SumStep
  <2>6. QED BY <2>4, <2>5
<1>3. R \notin Bad
  BY <1>2
<1>4. QED BY <1>3 DEF Bad

\* The sums of integers are integers.
LEMMA SumsType ==
  ASSUME NEW S, IsFiniteSet(S), NEW f, \A x \in S : f[x] \in Int, NEW i, Sums(i, f, S)
  PROVE  \A s \in SUBSET S : i[s] \in Int
<1> DEFINE Bad == {s \in SUBSET S : i[s] \notin Int}
<1> HIDE DEF Bad
<1>1. ASSUME Bad # {} PROVE FALSE
  <2>1. PICK s \in Bad : \A r \in Bad : Cardinality(s) <= Cardinality(r)
    BY <1>1, SmallestSet DEF Bad
  <2>2. s \in SUBSET S /\ i[s] \notin Int
    BY DEF Bad
  <2>3. i[s] = SumStep(f, i, s)
    BY <2>2 DEF Sums
  <2>4. CASE s = {}
    BY <2>2, <2>3, <2>4 DEF SumStep
  <2>5. CASE s # {}
    <3> DEFINE x == CHOOSE x \in s : TRUE
    <3>1. x \in s
      BY <2>5
    <3>2. s \ {x} \notin Bad
      <4> HIDE DEF x
      <4>1. /\ Cardinality(s) \in Nat /\ Cardinality(s \ {x}) \in Nat
            /\ Cardinality(s \ {x}) < Cardinality(s)
        BY <2>2, <3>1, Smaller
      <4>2. QED BY <2>1, <4>1
    <3>3. i[s \ {x}] \in Int
      BY <3>2, <2>2 DEF Bad
    <3>4. f[x] \in Int
      BY <2>2, <3>1
    <3>5. i[s] = f[x] + i[s \ {x}]
      BY <2>3, <2>5 DEF SumStep
    <3> HIDE DEF x
    <3>6. QED BY <2>2, <3>3, <3>4, <3>5
  <2>6. QED BY <2>4, <2>5
<1>2. QED BY <1>1 DEF Bad

\* Any element may be taken first.
LEMMA SumsAnyOrder ==
  ASSUME NEW S, IsFiniteSet(S), NEW f, \A x \in S : f[x] \in Int, NEW i, Sums(i, f, S)
  PROVE  \A s \in SUBSET S : \A y \in s : i[s] = f[y] + i[s \ {y}]
<1> DEFINE Bad == {s \in SUBSET S : \E y \in s : i[s] # f[y] + i[s \ {y}]}
<1> HIDE DEF Bad
<1>1. ASSUME Bad # {} PROVE FALSE
  <2>1. PICK s \in Bad : \A r \in Bad : Cardinality(s) <= Cardinality(r)
    BY <1>1, SmallestSet DEF Bad
  <2>2. PICK y \in s : s \in SUBSET S /\ i[s] # f[y] + i[s \ {y}]
    BY DEF Bad
  <2>3. i[s] = SumStep(f, i, s)
    BY <2>2 DEF Sums
  <2> DEFINE x == CHOOSE x \in s : TRUE
  <2>4. x \in s
    BY <2>2
  <2>5. i[s] = f[x] + i[s \ {x}]
    BY <2>2, <2>3 DEF SumStep
  <2> HIDE DEF x
  <2>6. x # y
    BY <2>2, <2>5
  <2>0. ASSUME NEW z \in s PROVE s \ {z} \notin Bad
    <3>1. /\ Cardinality(s) \in Nat /\ Cardinality(s \ {z}) \in Nat
          /\ Cardinality(s \ {z}) < Cardinality(s)
      BY <2>2, Smaller
    <3>2. QED BY <2>1, <3>1
  <2>7. s \ {x} \notin Bad /\ s \ {x} \in SUBSET S /\ y \in s \ {x}
    BY <2>0, <2>2, <2>4, <2>6
  <2>8. s \ {y} \notin Bad /\ s \ {y} \in SUBSET S /\ x \in s \ {y}
    BY <2>0, <2>2, <2>4, <2>6
  <2>9. i[s \ {x}] = f[y] + i[(s \ {x}) \ {y}]
    BY <2>7 DEF Bad
  <2>10. i[s \ {y}] = f[x] + i[(s \ {y}) \ {x}]
    BY <2>8 DEF Bad
  <2>11. (s \ {x}) \ {y} = (s \ {y}) \ {x}
    OBVIOUS
  <2>12. f[x] \in Int /\ f[y] \in Int /\ i[(s \ {y}) \ {x}] \in Int
    BY <2>2, <2>4, SumsType
  <2>13. i[s] = f[x] + (f[y] + i[(s \ {y}) \ {x}])
    BY <2>5, <2>9, <2>11
  <2>14. f[y] + i[s \ {y}] = f[y] + (f[x] + i[(s \ {y}) \ {x}])
    BY <2>10
  <2>15. QED BY <2>2, <2>12, <2>13, <2>14
<1>2. QED BY <1>1 DEF Bad

\* What SumOver chooses holds the sums.
LEMMA SumOverChoice ==
  ASSUME NEW S, IsFiniteSet(S), NEW f
  PROVE  Sums(CHOOSE iter : Sums(iter, f, S), f, S)
BY SumsExist

\* The sum over the empty set.
LEMMA SumEmpty == \A f : SumOver(f, {}) = 0
<1> TAKE f
<1> DEFINE i == CHOOSE iter : Sums(iter, f, {})
<1>1. Sums(i, f, {})
  BY FS_EmptySet, SumOverChoice
<1> HIDE DEF i
<1>2. i[{}] = 0
  BY <1>1 DEF Sums, SumStep
<1>3. QED BY <1>2 DEF SumOver, i

\* The sum of integers is an integer.
LEMMA SumType ==
  ASSUME NEW S, IsFiniteSet(S), NEW f, \A x \in S : f[x] \in Int
  PROVE  SumOver(f, S) \in Int
BY SumOverChoice, SumsType DEF SumOver

\* A sum depends on the values over its set only.
LEMMA SumSame ==
  ASSUME NEW S, IsFiniteSet(S), NEW f, NEW g, \A x \in S : f[x] = g[x]
  PROVE  SumOver(f, S) = SumOver(g, S)
<1> DEFINE i == CHOOSE iter : Sums(iter, f, S)
           j == CHOOSE iter : Sums(iter, g, S)
<1>1. Sums(i, f, S) /\ Sums(j, g, S)
  BY SumOverChoice
<1> HIDE DEF i, j
<1>2. i[S] = j[S]
  BY <1>1, SumsAgree
<1>3. QED BY <1>2 DEF SumOver, i, j

\* A sum is any of its terms and the sum of the others.
LEMMA SumSplit ==
  ASSUME NEW S, IsFiniteSet(S), NEW f, \A x \in S : f[x] \in Int, NEW y \in S
  PROVE  SumOver(f, S) = f[y] + SumOver(f, S \ {y})
<1> DEFINE i == CHOOSE iter : Sums(iter, f, S)
           j == CHOOSE iter : Sums(iter, f, S \ {y})
<1>0. IsFiniteSet(S \ {y})
  BY FS_RemoveElement
<1>1. Sums(i, f, S) /\ Sums(j, f, S \ {y})
  BY <1>0, SumOverChoice
<1> HIDE DEF i, j
<1>2. i[S] = f[y] + i[S \ {y}]
  BY <1>1, SumsAnyOrder
<1>3. i[S \ {y}] = j[S \ {y}]
  BY <1>0, <1>1, SumsAgree
<1>4. QED BY <1>2, <1>3 DEF SumOver, i, j

\* A new term adds its value.
LEMMA SumAdd ==
  ASSUME NEW S, IsFiniteSet(S), NEW f, NEW g, NEW y, y \notin S,
         \A x \in S : f[x] \in Int, \A x \in S : f[x] = g[x], g[y] \in Int
  PROVE  SumOver(g, S \union {y}) = SumOver(f, S) + g[y]
<1>1. IsFiniteSet(S \union {y}) /\ (S \union {y}) \ {y} = S
  BY FS_AddElement
<1>2. SumOver(g, S \union {y}) = g[y] + SumOver(g, S)
  BY <1>1, SumSplit
<1>3. SumOver(g, S) = SumOver(f, S) /\ SumOver(f, S) \in Int
  BY SumSame, SumType
<1>4. QED BY <1>2, <1>3

\* A sum of natural numbers is one.
LEMMA SumNatural ==
  ASSUME NEW S, IsFiniteSet(S), NEW f, \A x \in S : f[x] \in Nat
  PROVE  SumOver(f, S) \in Nat
<1> DEFINE Bad == {s \in SUBSET S : SumOver(f, s) \notin Nat}
<1> HIDE DEF Bad
<1>1. ASSUME Bad # {} PROVE FALSE
  <2>1. PICK s \in Bad : \A r \in Bad : Cardinality(s) <= Cardinality(r)
    BY <1>1, SmallestSet DEF Bad
  <2>2. s \in SUBSET S /\ SumOver(f, s) \notin Nat
    BY DEF Bad
  <2>3. s # {}
    BY <2>2, SumEmpty
  <2>4. PICK x \in s : TRUE
    BY <2>3
  <2>5. /\ s \ {x} \in SUBSET S /\ Cardinality(s) \in Nat
        /\ Cardinality(s \ {x}) \in Nat /\ Cardinality(s \ {x}) < Cardinality(s)
    BY <2>2, Smaller
  <2>6. SumOver(f, s \ {x}) \in Nat
    BY <2>1, <2>5 DEF Bad
  <2>7. IsFiniteSet(s) /\ f[x] \in Nat /\ \A y \in s : f[y] \in Int
    BY <2>2, FS_Subset
  <2>8. SumOver(f, s) = f[x] + SumOver(f, s \ {x})
    BY <2>7, SumSplit
  <2>9. QED BY <2>2, <2>6, <2>7, <2>8
<1>2. QED BY <1>1 DEF Bad

\* A sum of numbers between 0 and b is between 0 and b times their number.
LEMMA SumBounds ==
  ASSUME NEW S, IsFiniteSet(S), NEW b \in Nat, NEW f, \A x \in S : f[x] \in 0..b
  PROVE  SumOver(f, S) \in 0..(Cardinality(S) * b)
<1> DEFINE Bad == {s \in SUBSET S : SumOver(f, s) \notin 0..(Cardinality(s) * b)}
<1> HIDE DEF Bad
<1>1. ASSUME Bad # {} PROVE FALSE
  <2>1. PICK s \in Bad : \A r \in Bad : Cardinality(s) <= Cardinality(r)
    BY <1>1, SmallestSet DEF Bad
  <2>2. s \in SUBSET S /\ SumOver(f, s) \notin 0..(Cardinality(s) * b)
    BY DEF Bad
  <2>3. IsFiniteSet(s) /\ Cardinality(s) \in Nat /\ \A x \in s : f[x] \in 0..b
    BY <2>2, FS_Subset, FS_CardinalityType
  <2>4. CASE s = {}
    BY <2>2, <2>4, SumEmpty, FS_EmptySet
  <2>5. CASE s # {}
    <3>1. PICK x \in s : TRUE
      BY <2>5
    <3>2. /\ s \ {x} \in SUBSET S /\ Cardinality(s \ {x}) \in Nat
          /\ Cardinality(s \ {x}) = Cardinality(s) - 1
      BY <2>2, <2>3, Smaller, FS_RemoveElement
    <3>3. s \ {x} \notin Bad
      BY <2>1, <2>3, <3>2
    <3>4. SumOver(f, s \ {x}) \in 0..((Cardinality(s) - 1) * b)
      BY <3>2, <3>3 DEF Bad
    <3>5. SumOver(f, s) = f[x] + SumOver(f, s \ {x})
      BY <2>3, SumSplit
    <3> DEFINE n == Cardinality(s)
               total == SumOver(f, s \ {x})
               value == f[x]
    <3>6. n \in Nat /\ n - 1 \in Nat /\ total \in 0..((n - 1) * b) /\ value \in 0..b
      BY <2>3, <3>2, <3>4
    <3> HIDE DEF n, total, value
    <3>7. (n - 1) * b = n * b - b /\ n * b \in Nat
      BY <3>6
    <3>8. value + total \in 0..(n * b)
      <4>1. n * b \in Nat /\ total \in 0..(n * b - b)
        BY <3>6, <3>7
      <4> DEFINE top == n * b
      <4>2. top \in Nat /\ total \in 0..(top - b)
        BY <4>1
      <4> HIDE DEF top
      <4>3. value + total \in 0..top
        BY <3>6, <4>2
      <4>4. QED BY <4>3 DEF top
    <3>9. QED BY <2>2, <3>5, <3>8 DEF n, total, value
  <2>6. QED BY <2>4, <2>5
<1>2. S \notin Bad
  BY <1>1
<1>3. QED BY <1>2 DEF Bad

\* The sum over two sets that share nothing.
LEMMA SumUnion ==
  ASSUME NEW S, IsFiniteSet(S), NEW T, IsFiniteSet(T), S \cap T = {},
         NEW f, \A x \in S \union T : f[x] \in Int
  PROVE  SumOver(f, S \union T) = SumOver(f, S) + SumOver(f, T)
<1> DEFINE Bad == {s \in SUBSET T : SumOver(f, S \union s) # SumOver(f, S) + SumOver(f, s)}
<1> HIDE DEF Bad
<1>1. ASSUME Bad # {} PROVE FALSE
  <2>1. PICK s \in Bad : \A r \in Bad : Cardinality(s) <= Cardinality(r)
    BY <1>1, SmallestSet DEF Bad
  <2>2. s \in SUBSET T /\ SumOver(f, S \union s) # SumOver(f, S) + SumOver(f, s)
    BY <2>1 DEF Bad
  <2>3. IsFiniteSet(s)
    BY <2>2, FS_Subset
  <2>4. SumOver(f, S) \in Int
    BY SumType
  <2>5. CASE s = {}
    <3>1. SumOver(f, S \union s) = SumOver(f, S)
      <4>1. S \union s = S
        BY <2>5
      <4>2. QED BY <4>1, Zenon
    <3>2. SumOver(f, s) = 0
      BY <2>5, SumEmpty
    <3>3. QED BY <2>2, <2>4, <3>1, <3>2
  <2>6. ASSUME NEW x \in s PROVE FALSE
    <3>1. s \ {x} \in SUBSET T /\ s \ {x} \notin Bad
      <4>1. /\ s \ {x} \in SUBSET T
            /\ Cardinality(s \ {x}) \in Nat /\ Cardinality(s) \in Nat
            /\ Cardinality(s \ {x}) < Cardinality(s)
        BY <2>2, Smaller
      <4>2. QED BY <2>1, <4>1
    <3>2. SumOver(f, S \union (s \ {x})) = SumOver(f, S) + SumOver(f, s \ {x})
      BY <3>1 DEF Bad
    <3>3. (S \union s) \ {x} = S \union (s \ {x})
      BY <2>2
    <3>4. IsFiniteSet(S \union s) /\ IsFiniteSet(s \ {x})
      BY <2>3, FS_Union, FS_RemoveElement
    <3>5. SumOver(f, S \union s) = f[x] + SumOver(f, S \union (s \ {x}))
      <4>1. \A y \in S \union s : f[y] \in Int
        BY <2>2
      <4>2. SumOver(f, S \union s) = f[x] + SumOver(f, (S \union s) \ {x})
        BY <3>4, <4>1, SumSplit
      <4>3. QED BY <3>3, <4>2
    <3>6. \A y \in s : f[y] \in Int
      BY <2>2
    <3>7. SumOver(f, s) = f[x] + SumOver(f, s \ {x})
      BY <2>3, <3>6, SumSplit
    <3>8. SumOver(f, s \ {x}) \in Int /\ f[x] \in Int
      BY <3>4, <3>6, SumType
    <3>9. QED BY <2>2, <2>4, <3>2, <3>5, <3>7, <3>8
  <2>7. QED BY <2>5, <2>6
<1>2. T \notin Bad
  BY <1>1
<1>3. QED BY <1>2 DEF Bad

\* The sum of sums.
LEMMA SumPlus ==
  ASSUME NEW S, IsFiniteSet(S), NEW f, NEW g, NEW h,
         \A x \in S : f[x] \in Int, \A x \in S : g[x] \in Int, \A x \in S : h[x] = f[x] + g[x]
  PROVE  SumOver(h, S) = SumOver(f, S) + SumOver(g, S)
<1> DEFINE Bad == {s \in SUBSET S : SumOver(h, s) # SumOver(f, s) + SumOver(g, s)}
<1> HIDE DEF Bad
<1>1. ASSUME Bad # {} PROVE FALSE
  <2>1. PICK s \in Bad : \A r \in Bad : Cardinality(s) <= Cardinality(r)
    BY <1>1, SmallestSet DEF Bad
  <2>2. s \in SUBSET S /\ SumOver(h, s) # SumOver(f, s) + SumOver(g, s)
    BY <2>1 DEF Bad
  <2>3. IsFiniteSet(s)
    BY <2>2, FS_Subset
  <2>5. CASE s = {}
    <3>2. SumOver(f, s) = 0 /\ SumOver(g, s) = 0 /\ SumOver(h, s) = 0
      BY <2>5, SumEmpty
    <3>3. QED BY <2>2, <3>2
  <2>6. ASSUME NEW x \in s PROVE FALSE
    <3>1. s \ {x} \in SUBSET S /\ s \ {x} \notin Bad
      <4>1. /\ s \ {x} \in SUBSET S
            /\ Cardinality(s \ {x}) \in Nat /\ Cardinality(s) \in Nat
            /\ Cardinality(s \ {x}) < Cardinality(s)
        BY <2>2, Smaller
      <4>2. QED BY <2>1, <4>1
    <3>2. SumOver(h, s \ {x}) = SumOver(f, s \ {x}) + SumOver(g, s \ {x})
      BY <3>1 DEF Bad
    <3>4. IsFiniteSet(s \ {x})
      BY <2>3, FS_RemoveElement
    <3>5. \A y \in s : f[y] \in Int /\ g[y] \in Int /\ h[y] \in Int /\ h[y] = f[y] + g[y]
      BY <2>2
    <3>6. /\ SumOver(f, s) = f[x] + SumOver(f, s \ {x})
          /\ SumOver(g, s) = g[x] + SumOver(g, s \ {x})
          /\ SumOver(h, s) = h[x] + SumOver(h, s \ {x})
      BY <2>3, <3>5, SumSplit
    <3>8. SumOver(f, s \ {x}) \in Int /\ SumOver(g, s \ {x}) \in Int
      BY <3>4, <3>5, SumType
    <3>9. QED BY <2>2, <3>2, <3>5, <3>6, <3>8
  <2>7. QED BY <2>5, <2>6
<1>2. S \notin Bad
  BY <1>1
<1>3. QED BY <1>2 DEF Bad

\* A sum of terms none of which exceeds b.
LEMMA SumUpper ==
  ASSUME NEW S, IsFiniteSet(S), NEW b \in Int, NEW f, \A x \in S : f[x] \in Int,
         \A x \in S : f[x] <= b
  PROVE  SumOver(f, S) <= Cardinality(S) * b
<1> DEFINE Bad == {s \in SUBSET S : ~(SumOver(f, s) <= Cardinality(s) * b)}
<1> HIDE DEF Bad
<1>1. ASSUME Bad # {} PROVE FALSE
  <2>1. PICK s \in Bad : \A r \in Bad : Cardinality(s) <= Cardinality(r)
    BY <1>1, SmallestSet DEF Bad
  <2>2. s \in SUBSET S /\ ~(SumOver(f, s) <= Cardinality(s) * b)
    BY <2>1 DEF Bad
  <2>3. IsFiniteSet(s)
    BY <2>2, FS_Subset
  <2>5. CASE s = {}
    <3>2. SumOver(f, s) = 0 /\ Cardinality(s) = 0
      BY <2>5, SumEmpty, FS_EmptySet
    <3>3. QED BY <2>2, <3>2
  <2>6. ASSUME NEW x \in s PROVE FALSE
    <3>1. /\ s \ {x} \in SUBSET S /\ Cardinality(s \ {x}) \in Nat
          /\ Cardinality(s) = Cardinality(s \ {x}) + 1
      <4>1. Cardinality(s \ {x}) = Cardinality(s) - 1 /\ IsFiniteSet(s \ {x})
        BY <2>3, FS_RemoveElement
      <4>2. QED BY <2>2, <2>3, <4>1, FS_CardinalityType
    <3>2. s \ {x} \notin Bad
      <4>1. ~(Cardinality(s) <= Cardinality(s \ {x}))
        BY <3>1
      <4>2. QED BY <2>1, <4>1, Zenon
    <3>3. SumOver(f, s \ {x}) <= Cardinality(s \ {x}) * b
      BY <3>1, <3>2 DEF Bad
    <3>4. IsFiniteSet(s \ {x}) /\ \A y \in s : f[y] \in Int /\ f[y] <= b
      BY <2>2, <2>3, FS_RemoveElement
    <3>5. SumOver(f, s) = f[x] + SumOver(f, s \ {x}) /\ SumOver(f, s \ {x}) \in Int
      BY <2>3, <3>4, SumSplit, SumType
    <3>6. \A n \in Nat : (n + 1) * b = n * b + b /\ n * b \in Int
      OBVIOUS
    <3>7. Cardinality(s) * b = Cardinality(s \ {x}) * b + b /\ Cardinality(s \ {x}) * b \in Int
      BY <3>1, <3>6
    <3>8. QED BY <2>2, <3>3, <3>4, <3>5, <3>7
  <2>7. QED BY <2>5, <2>6
<1>2. S \notin Bad
  BY <1>1
<1>3. QED BY <1>2 DEF Bad

\* Smaller terms over a smaller set.
LEMMA SumLeq ==
  ASSUME NEW S, IsFiniteSet(S), NEW T \in SUBSET S, NEW f, NEW g,
         \A x \in S : g[x] \in Nat, \A x \in T : f[x] \in Int, \A x \in T : f[x] <= g[x]
  PROVE  SumOver(f, T) <= SumOver(g, S)
<1> DEFINE d == [x \in T |-> g[x] - f[x]]
<1>1. IsFiniteSet(T) /\ IsFiniteSet(S \ T) /\ T \union (S \ T) = S /\ T \cap (S \ T) = {}
  BY FS_Subset
<1>2. SumOver(g, S) = SumOver(g, T) + SumOver(g, S \ T)
  <2>1. \A x \in T \union (S \ T) : g[x] \in Int
    OBVIOUS
  <2>2. SumOver(g, T \union (S \ T)) = SumOver(g, T) + SumOver(g, S \ T)
    BY <1>1, <2>1, SumUnion
  <2>3. QED BY <1>1, <2>2
<1>3. \A x \in T : d[x] \in Nat /\ d[x] \in Int /\ g[x] = f[x] + d[x]
  OBVIOUS
<1> HIDE DEF d
<1>4. SumOver(g, T) = SumOver(f, T) + SumOver(d, T)
  BY <1>1, <1>3, SumPlus
<1>5. SumOver(d, T) \in Nat /\ SumOver(g, S \ T) \in Nat /\ SumOver(f, T) \in Int
  BY <1>1, <1>3, SumNatural, SumType
<1>6. QED BY <1>2, <1>4, <1>5

\* SumOver is what MapThenSumSet and SumFunction of the community modules compute.
LEMMA SumIsMapThenSum ==
  \A f, S : MapThenSumSet(LAMBDA x : f[x], S) = SumOver(f, S)
BY DEF MapThenSumSet, MapThenFoldSet, SumOver, Sums, SumStep

\* The same for the sum of a function's values.
LEMMA SumIsSumFunction == \A f : SumFunction(f) = SumOver(f, DOMAIN f)
BY DEF SumFunction, SumFunctionOnSet, FoldFunctionOnSet, MapThenFoldSet, SumOver, Sums, SumStep

\* The same for the sum over a part of a function's domain.
LEMMA SumIsSumOnSet == \A f, S : SumFunctionOnSet(f, S) = SumOver(f, S)
BY DEF SumFunctionOnSet, FoldFunctionOnSet, MapThenFoldSet, SumOver, Sums, SumStep

\* A sum of naturals is no less than any of them, and none is left if one makes it up.
LEMMA SumAboveEach ==
  ASSUME NEW S, IsFiniteSet(S), NEW f, \A x \in S : f[x] \in Nat, NEW y \in S
  PROVE  /\ SumOver(f, S) \in Nat
         /\ SumOver(f, S) >= f[y]
         /\ SumOver(f, S) = f[y] => \A x \in S \ {y} : f[x] = 0
<1>1. IsFiniteSet(S \ {y})
  BY FS_RemoveElement
<1>2. SumOver(f, S) \in Nat /\ SumOver(f, S \ {y}) \in Nat /\ f[y] \in Nat
  BY <1>1, SumNatural
<1>3. SumOver(f, S) = f[y] + SumOver(f, S \ {y})
  BY SumSplit
<1>4. ASSUME SumOver(f, S) = f[y], NEW x \in S \ {y} PROVE f[x] = 0
  <2>1. IsFiniteSet((S \ {y}) \ {x}) /\ \A z \in S \ {y} : f[z] \in Int
    BY <1>1, FS_RemoveElement
  <2>2. SumOver(f, S \ {y}) = f[x] + SumOver(f, (S \ {y}) \ {x})
    BY <1>1, <2>1, SumSplit
  <2>3. SumOver(f, (S \ {y}) \ {x}) \in Nat /\ f[x] \in Nat
    BY <2>1, SumNatural
  <2>4. QED BY <1>2, <1>3, <1>4, <2>2, <2>3
<1>5. QED BY <1>2, <1>3, <1>4

\* A sum of nothing but zeros.
LEMMA SumOfZeros ==
  ASSUME NEW S, IsFiniteSet(S), NEW f, \A x \in S : f[x] = 0
  PROVE  SumOver(f, S) = 0
<1>1. SumOver(f, S) \in 0..(Cardinality(S) * 0)
  BY SumBounds
<1>2. Cardinality(S) \in Nat
  BY FS_CardinalityType
<1>3. QED BY <1>1, <1>2
=============================================================================
