--------------------------- MODULE Shares_proofs ---------------------------
(***************************************************************************)
(* How selections share the traffic of a model (internal/backends/pool.go),*)
(* for any number of goroutines, models and backends and any weights.      *)
(*                                                                         *)
(* Selections made one at a time (Serial) give out what they take back:    *)
(* CreditsConserved.  If moreover the models share no backend (Separate)   *)
(* and every backend stays eligible and as configured (Undisturbed), they  *)
(* are smooth weighted round-robin (SelectionImplementsSmoothWRR), every   *)
(* full cycle is shared in proportion to the weights                       *)
(* (SharesAreProportional), and within a cycle nobody runs far ahead or    *)
(* falls far behind (SharesAreSmooth).  Serial and Undisturbed are         *)
(* hypotheses about the behaviour: []Serial, []Undisturbed.                *)
(*                                                                         *)
(* The argument is about sums over sets, so the module first proves what it*)
(* needs of SumFunctionOnSet, by induction over the subsets of a finite    *)
(* set.                                                                    *)
(***************************************************************************)
EXTENDS BackendRouting_proofs, FiniteSetTheorems, WellFoundedInduction

HIDE DEF Busy
-----------------------------------------------------------------------------
(* Sums over finite sets.                                                  *)

\* Induction over the subsets of a finite set, with the property as a set: it
\* contains every subset if it contains each one whose smaller ones it contains.
LEMMA SubsetInduction ==
  ASSUME NEW S, IsFiniteSet(S), NEW T \in SUBSET (SUBSET S),
         \A s \in SUBSET S : (\A t \in SUBSET s : t # s => t \in T) => s \in T
  PROVE  \A s \in SUBSET S : s \in T
<1> DEFINE C == (SUBSET S) \ T
<1> SUFFICES ASSUME C # {} PROVE FALSE
  OBVIOUS
<1>1. C \subseteq FiniteSubsetsOf(S)
  BY FS_FiniteSubsetsOfFinite
<1>2. PICK u \in C : \A v \in C : <<v, u>> \notin StrictSubsetOrdering(S)
  <2> HIDE DEF C
  <2> QED
    BY <1>1, FS_StrictSubsetOrderingWellFounded, WFMin
<1>3. \A t \in SUBSET u : t # u => t \in T
  <2> SUFFICES ASSUME NEW t \in SUBSET u, t # u, t \notin T PROVE FALSE
    OBVIOUS
  <2>1. t \in C
    OBVIOUS
  <2>2. <<t, u>> \in StrictSubsetOrdering(S)
    BY DEF StrictSubsetOrdering
  <2> QED
    BY <1>2, <2>1, <2>2
<1> QED
  BY <1>3

\* The element a fold takes out of a set.
taken(s) == CHOOSE x \in s : TRUE

\* The function a sum over the subsets of S is: the one its recursive definition
\* asks for.
IsSum(f, S, h) == h = [s \in SUBSET S |-> IF s = {} THEN 0 ELSE f[taken(s)] + h[s \ {taken(s)}]]

\* What SumFunctionOnSet stands for.
LEMMA SumChosen ==
  ASSUME NEW f, NEW S
  PROVE  SumFunctionOnSet(f, S) = (CHOOSE h : IsSum(f, S, h))[S]
  BY DEF SumFunctionOnSet, FoldFunctionOnSet, MapThenFoldSet, IsSum, taken

\* The recursive definition has a solution, and it is the sum of every subset.
LEMMA SumEquation ==
  ASSUME NEW f, NEW S, IsFiniteSet(S)
  PROVE  \A s \in SUBSET S :
           SumFunctionOnSet(f, s) =
             IF s = {} THEN 0 ELSE f[taken(s)] + SumFunctionOnSet(f, s \ {taken(s)})
<1> DEFINE eq(s) == IF s = {} THEN 0 ELSE f[taken(s)] + SumFunctionOnSet(f, s \ {taken(s)})
           T == {s \in SUBSET S : SumFunctionOnSet(f, s) = eq(s)}
<1>1. ASSUME NEW s \in SUBSET S, \A t \in SUBSET s : t # s => t \in T
      PROVE  s \in T
  <2> DEFINE g == [t \in SUBSET s |-> IF t = s THEN eq(s) ELSE SumFunctionOnSet(f, t)]
  <2>1. \A t : t # {} => taken(t) \in t
    BY DEF taken
  <2>2. IsSum(f, s, g)
    <3>1. ASSUME NEW t \in SUBSET s
          PROVE  g[t] = IF t = {} THEN 0 ELSE f[taken(t)] + g[t \ {taken(t)}]
      <4>1. CASE t = {}
        BY <1>1, <4>1
      <4>2. CASE t # {}
        <5>1. taken(t) \in t /\ t \ {taken(t)} \in SUBSET s /\ t \ {taken(t)} # s
          BY <2>1, <4>2
        <5>2. g[t \ {taken(t)}] = SumFunctionOnSet(f, t \ {taken(t)})
          BY <5>1
        <5>3. g[t] = eq(t)
          BY <1>1
        <5> QED
          BY <4>2, <5>2, <5>3
      <4> QED
        BY <4>1, <4>2
    <3> HIDE DEF T, eq
    <3> QED
      BY <3>1 DEF IsSum
  <2>3. ASSUME NEW h, IsSum(f, s, h) PROVE h = g
    <3> DEFINE D == {t \in SUBSET s : h[t] = g[t]}
    <3>1. IsFiniteSet(s)
      BY FS_Subset
    <3>2. ASSUME NEW t \in SUBSET s, \A v \in SUBSET t : v # t => v \in D
          PROVE  t \in D
      <4>1. h[t] = IF t = {} THEN 0 ELSE f[taken(t)] + h[t \ {taken(t)}]
        BY <2>3 DEF IsSum
      <4>2. g[t] = IF t = {} THEN 0 ELSE f[taken(t)] + g[t \ {taken(t)}]
        <5> HIDE DEF g
        <5> QED
          BY <2>2 DEF IsSum
      <4>3. t # {} => t \ {taken(t)} \in D
        BY <2>1, <3>2
      <4> HIDE DEF g
      <4> QED
        BY <4>1, <4>2, <4>3
    <3>3. \A t \in SUBSET s : t \in D
      <4> HIDE DEF D
      <4>1. D \in SUBSET (SUBSET s)
        BY DEF D
      <4> QED
        BY <3>1, <3>2, <4>1, SubsetInduction
    <3>4. h = [t \in SUBSET s |-> h[t]] /\ g = [t \in SUBSET s |-> g[t]]
      <4>1. h = [t \in SUBSET s |-> h[t]]
        BY <2>3 DEF IsSum
      <4> QED
        BY <4>1
    <3>5. \A t \in SUBSET s : h[t] = g[t]
      BY <3>3
    <3> HIDE DEF g
    <3> QED
      BY <3>4, <3>5
  <2>4. (CHOOSE h : IsSum(f, s, h)) = g
    <3> HIDE DEF g
    <3> QED
      BY <2>2, <2>3
  <2>5. SumFunctionOnSet(f, s) = eq(s)
    BY <2>4, SumChosen
  <2> QED
    BY <2>5
<1>2. \A s \in SUBSET S : s \in T
  <2> HIDE DEF T
  <2>1. T \in SUBSET (SUBSET S)
    BY DEF T
  <2> QED
    BY <1>1, <2>1, SubsetInduction
<1> QED
  BY <1>2

\* The sum over no element.
LEMMA SumOfNone ==
  ASSUME NEW f
  PROVE  SumFunctionOnSet(f, {}) = 0
<1>1. {} \in SUBSET {} /\ IsFiniteSet({})
  BY FS_EmptySet
<1> QED
  BY <1>1, SumEquation

\* A sum of integers is an integer, and any of its elements can be taken out first.
LEMMA SumSplit ==
  ASSUME NEW f, NEW S, IsFiniteSet(S), \A x \in S : f[x] \in Int
  PROVE  /\ SumFunctionOnSet(f, S) \in Int
         /\ \A x \in S : SumFunctionOnSet(f, S) = f[x] + SumFunctionOnSet(f, S \ {x})
<1> DEFINE sum(s) == SumFunctionOnSet(f, s)
           T == {s \in SUBSET S : sum(s) \in Int /\ \A x \in s : sum(s) = f[x] + sum(s \ {x})}
<1>1. ASSUME NEW s \in SUBSET S, \A t \in SUBSET s : t # s => t \in T
      PROVE  s \in T
  <2>1. CASE s = {}
    BY <2>1, SumOfNone
  <2>2. CASE s # {}
    <3> DEFINE y == taken(s)
    <3>1. y \in s /\ y \in S /\ sum(s) = f[y] + sum(s \ {y})
      BY <2>2, SumEquation DEF taken
    <3> HIDE DEF y, sum
    <3>2. s \ {y} \in T
      BY <1>1, <3>1
    <3>3. sum(s \ {y}) \in Int
      BY <3>2
    <3>4. ASSUME NEW x \in s PROVE sum(s) = f[x] + sum(s \ {x})
      <4>1. CASE x = y
        BY <3>1, <4>1
      <4>2. CASE x # y
        <5>1. sum(s \ {y}) = f[x] + sum((s \ {y}) \ {x})
          BY <3>2, <4>2
        <5>2. s \ {x} \in T /\ (s \ {y}) \ {x} \in T
          BY <1>1, <3>1, <4>2
        <5>3. sum(s \ {x}) = f[y] + sum((s \ {x}) \ {y})
          BY <3>1, <4>2, <5>2
        <5>4. (s \ {x}) \ {y} = (s \ {y}) \ {x}
          OBVIOUS
        <5>5. sum((s \ {y}) \ {x}) \in Int /\ f[x] \in Int /\ f[y] \in Int
          BY <3>1, <5>2
        <5>6. sum(s \ {x}) = f[y] + sum((s \ {y}) \ {x})
          BY <5>3, <5>4
        <5>7. \A p, q, u \in Int : p + (q + u) = q + (p + u)
          OBVIOUS
        <5> QED
          BY <3>1, <5>1, <5>5, <5>6, <5>7
      <4> QED
        BY <4>1, <4>2
    <3> QED
      BY <3>1, <3>3, <3>4
  <2> QED
    BY <2>1, <2>2
<1> HIDE DEF T
<1>2. T \in SUBSET (SUBSET S)
  BY DEF T
<1>3. S \in T
  BY <1>1, <1>2, SubsetInduction
<1> QED
  BY <1>3 DEF T

\* A sum depends on the values at its elements only, and linearly.
LEMMA SumLinear ==
  ASSUME NEW S, IsFiniteSet(S), NEW f, NEW g, NEW h, NEW a \in Int, NEW b \in Int,
         \A x \in S : f[x] \in Int /\ g[x] \in Int /\ h[x] = a * f[x] + b * g[x]
  PROVE  SumFunctionOnSet(h, S) = a * SumFunctionOnSet(f, S) + b * SumFunctionOnSet(g, S)
<1> DEFINE F(s) == SumFunctionOnSet(f, s)
           G(s) == SumFunctionOnSet(g, s)
           H(s) == SumFunctionOnSet(h, s)
           T == {s \in SUBSET S : H(s) = a * F(s) + b * G(s)}
<1>1. \A x \in S : h[x] \in Int
  <2> TAKE x \in S
  <2>1. f[x] \in Int /\ g[x] \in Int
    OBVIOUS
  <2>2. a * f[x] \in Int /\ b * g[x] \in Int
    BY <2>1
  <2> QED
    BY <2>2
<1>2. ASSUME NEW s \in SUBSET S, \A t \in SUBSET s : t # s => t \in T
      PROVE  s \in T
  <2>1. CASE s = {}
    BY <2>1, SumOfNone
  <2>2. CASE s # {}
    <3>1. PICK x \in s : TRUE
      BY <2>2
    <3>2. IsFiniteSet(s) /\ IsFiniteSet(s \ {x})
      BY FS_Subset
    <3>3. /\ F(s) = f[x] + F(s \ {x}) /\ F(s \ {x}) \in Int
          /\ G(s) = g[x] + G(s \ {x}) /\ G(s \ {x}) \in Int
          /\ H(s) = h[x] + H(s \ {x}) /\ H(s \ {x}) \in Int
      BY <1>1, <3>1, <3>2, SumSplit
    <3>4. H(s \ {x}) = a * F(s \ {x}) + b * G(s \ {x})
      BY <1>2, <3>1
    <3>5. f[x] \in Int /\ g[x] \in Int /\ h[x] = a * f[x] + b * g[x]
      BY <3>1
    <3> HIDE DEF F, G, H
    <3>6. \A p, q, u, v \in Int : a * (p + u) + b * (q + v) = (a * p + b * q) + (a * u + b * v)
      OBVIOUS
    <3>7. H(s) = a * F(s) + b * G(s)
      BY <3>3, <3>4, <3>5, <3>6
    <3> QED
      BY <3>7
  <2> QED
    BY <2>1, <2>2
<1> HIDE DEF T
<1>3. T \in SUBSET (SUBSET S)
  BY DEF T
<1>4. S \in T
  BY <1>2, <1>3, SubsetInduction
<1> QED
  BY <1>4 DEF T

\* The sum of element-wise sums.
LEMMA SumAdds ==
  ASSUME NEW S, IsFiniteSet(S), NEW f, NEW g, NEW h,
         \A x \in S : f[x] \in Int /\ g[x] \in Int /\ h[x] = f[x] + g[x]
  PROVE  SumFunctionOnSet(h, S) = SumFunctionOnSet(f, S) + SumFunctionOnSet(g, S)
<1>1. PICK e \in Int : e = 1
  OBVIOUS
<1>2. \A x \in S : f[x] \in Int /\ g[x] \in Int /\ h[x] = e * f[x] + e * g[x]
  BY <1>1
<1>3. SumFunctionOnSet(h, S) = e * SumFunctionOnSet(f, S) + e * SumFunctionOnSet(g, S)
  BY <1>2, SumLinear
<1>4. SumFunctionOnSet(f, S) \in Int /\ SumFunctionOnSet(g, S) \in Int
  BY SumSplit
<1> QED
  BY <1>1, <1>3, <1>4

\* Two functions that agree on the elements have the same sum.
LEMMA SumSame ==
  ASSUME NEW S, IsFiniteSet(S), NEW f, NEW g, \A x \in S : f[x] \in Int /\ g[x] = f[x]
  PROVE  SumFunctionOnSet(g, S) = SumFunctionOnSet(f, S)
<1>1. \A x \in S : f[x] \in Int /\ f[x] \in Int /\ g[x] = 1 * f[x] + 0 * f[x]
  OBVIOUS
<1>2. SumFunctionOnSet(g, S) = 1 * SumFunctionOnSet(f, S) + 0 * SumFunctionOnSet(f, S)
  BY <1>1, SumLinear
<1>3. SumFunctionOnSet(f, S) \in Int
  BY SumSplit
<1> QED
  BY <1>2, <1>3

\* Changing one element changes the sum by as much.
LEMMA SumChange ==
  ASSUME NEW S, IsFiniteSet(S), NEW f, NEW g, NEW y \in S, g[y] \in Int,
         \A x \in S : f[x] \in Int /\ (x # y => g[x] = f[x])
  PROVE  SumFunctionOnSet(g, S) = SumFunctionOnSet(f, S) - f[y] + g[y]
<1>1. IsFiniteSet(S \ {y})
  BY FS_Subset
<1>2. SumFunctionOnSet(g, S \ {y}) = SumFunctionOnSet(f, S \ {y})
  BY <1>1, SumSame
<1>3. /\ SumFunctionOnSet(f, S) = f[y] + SumFunctionOnSet(f, S \ {y})
      /\ SumFunctionOnSet(f, S \ {y}) \in Int
  BY <1>1, SumSplit
<1>4. \A x \in S : g[x] \in Int
  OBVIOUS
<1>5. SumFunctionOnSet(g, S) = g[y] + SumFunctionOnSet(g, S \ {y})
  BY <1>4, SumSplit
<1>6. f[y] \in Int
  OBVIOUS
<1> QED
  BY <1>2, <1>3, <1>5, <1>6

\* A sum of zeros is zero.
LEMMA SumOfZeros ==
  ASSUME NEW S, IsFiniteSet(S), NEW f, \A x \in S : f[x] = 0
  PROVE  SumFunctionOnSet(f, S) = 0
<1>1. PICK z \in Int : z = 0
  OBVIOUS
<1>2. \A x \in S : f[x] \in Int /\ f[x] \in Int /\ f[x] = z * f[x] + z * f[x]
  BY <1>1
<1>3. SumFunctionOnSet(f, S) = z * SumFunctionOnSet(f, S) + z * SumFunctionOnSet(f, S)
  BY <1>2, SumLinear
<1>4. SumFunctionOnSet(f, S) \in Int
  BY <1>2, SumSplit
<1> QED
  BY <1>1, <1>3, <1>4

\* A sum of numbers none of which is negative is not negative.
LEMMA SumNonNegative ==
  ASSUME NEW S, IsFiniteSet(S), NEW f, \A x \in S : f[x] \in Int /\ f[x] >= 0
  PROVE  SumFunctionOnSet(f, S) \in Int /\ SumFunctionOnSet(f, S) >= 0
<1> DEFINE sum(s) == SumFunctionOnSet(f, s)
           T == {s \in SUBSET S : sum(s) >= 0}
<1>1. ASSUME NEW s \in SUBSET S, \A t \in SUBSET s : t # s => t \in T
      PROVE  s \in T
  <2>1. CASE s = {}
    BY <2>1, SumOfNone
  <2>2. CASE s # {}
    <3>1. PICK x \in s : TRUE
      BY <2>2
    <3>2. IsFiniteSet(s) /\ IsFiniteSet(s \ {x})
      BY FS_Subset
    <3>3. sum(s) = f[x] + sum(s \ {x}) /\ sum(s \ {x}) \in Int
      BY <3>1, <3>2, SumSplit
    <3>4. sum(s \ {x}) >= 0 /\ f[x] \in Int /\ f[x] >= 0
      BY <1>1, <3>1
    <3> HIDE DEF sum
    <3> QED
      BY <3>3, <3>4
  <2> QED
    BY <2>1, <2>2
<1> HIDE DEF T
<1>2. T \in SUBSET (SUBSET S)
  BY DEF T
<1>3. S \in T
  BY <1>1, <1>2, SubsetInduction
<1> QED
  BY <1>3, SumSplit DEF T

\* A sum is positive only if an element is.
LEMMA SumPositive ==
  ASSUME NEW S, IsFiniteSet(S), NEW f, \A x \in S : f[x] \in Int, SumFunctionOnSet(f, S) > 0
  PROVE  \E x \in S : f[x] > 0
<1> SUFFICES ASSUME \A x \in S : ~(f[x] > 0) PROVE FALSE
  OBVIOUS
<1> DEFINE g == [x \in S |-> -f[x]]
<1>1. PICK z \in Int, e \in Int : z = 0 /\ e = -1
  OBVIOUS
<1>2. \A x \in S : f[x] \in Int /\ g[x] \in Int /\ g[x] >= 0 /\ g[x] = e * f[x] + z * f[x]
  BY <1>1
<1> HIDE DEF g
<1>3. SumFunctionOnSet(g, S) >= 0
  BY <1>2, SumNonNegative
<1>4. SumFunctionOnSet(g, S) = e * SumFunctionOnSet(f, S) + z * SumFunctionOnSet(f, S)
  BY <1>2, SumLinear
<1>5. SumFunctionOnSet(f, S) \in Int
  BY SumSplit
<1> QED
  BY <1>1, <1>3, <1>4, <1>5

\* If a sum is zero and no element is negative, every element is zero.
LEMMA SumZero ==
  ASSUME NEW S, IsFiniteSet(S), NEW f, \A x \in S : f[x] \in Int /\ f[x] >= 0,
         SumFunctionOnSet(f, S) = 0
  PROVE  \A x \in S : f[x] = 0
<1> TAKE x \in S
<1>1. IsFiniteSet(S \ {x})
  BY FS_Subset
<1>2. SumFunctionOnSet(f, S \ {x}) \in Int /\ SumFunctionOnSet(f, S \ {x}) >= 0
  BY <1>1, SumNonNegative
<1>3. SumFunctionOnSet(f, S) = f[x] + SumFunctionOnSet(f, S \ {x})
  BY SumSplit
<1>4. f[x] \in Int /\ f[x] >= 0
  OBVIOUS
<1> QED
  BY <1>2, <1>3, <1>4

\* No element of a sum of non-negative numbers exceeds it.
LEMMA SumBoundsElement ==
  ASSUME NEW S, IsFiniteSet(S), NEW f, \A x \in S : f[x] \in Int /\ f[x] >= 0, NEW y \in S
  PROVE  f[y] <= SumFunctionOnSet(f, S)
<1>1. IsFiniteSet(S \ {y})
  BY FS_Subset
<1>2. SumFunctionOnSet(f, S \ {y}) \in Int /\ SumFunctionOnSet(f, S \ {y}) >= 0
  BY <1>1, SumNonNegative
<1>3. SumFunctionOnSet(f, S) = f[y] + SumFunctionOnSet(f, S \ {y})
  BY SumSplit
<1>4. f[y] \in Int
  OBVIOUS
<1> QED
  BY <1>2, <1>3, <1>4

\* Equal elements add up to their number times one of them.
LEMMA SumOfEquals ==
  ASSUME NEW S, IsFiniteSet(S), NEW c \in Int, NEW f, \A x \in S : f[x] = c
  PROVE  SumFunctionOnSet(f, S) = Cardinality(S) * c
<1> DEFINE sum(s) == SumFunctionOnSet(f, s)
           T == {s \in SUBSET S : sum(s) = Cardinality(s) * c}
<1>1. ASSUME NEW s \in SUBSET S, \A t \in SUBSET s : t # s => t \in T
      PROVE  s \in T
  <2>1. CASE s = {}
    <3>1. 0 * c = 0
      OBVIOUS
    <3> QED
      BY <2>1, <3>1, SumOfNone, FS_EmptySet
  <2>2. CASE s # {}
    <3>1. PICK x \in s : TRUE
      BY <2>2
    <3>2. IsFiniteSet(s) /\ IsFiniteSet(s \ {x})
      BY FS_Subset
    <3>3. sum(s) = c + sum(s \ {x})
      BY <3>1, <3>2, SumSplit
    <3>4. sum(s \ {x}) = Cardinality(s \ {x}) * c
      BY <1>1, <3>1
    <3>5. Cardinality(s \ {x}) = Cardinality(s) - 1 /\ Cardinality(s) \in Nat
      BY <3>1, <3>2, FS_RemoveElement, FS_CardinalityType
    <3>6. \A n \in Nat : c + (n - 1) * c = n * c
      OBVIOUS
    <3> HIDE DEF sum
    <3>7. sum(s) = Cardinality(s) * c
      BY <3>3, <3>4, <3>5, <3>6
    <3> QED
      BY <3>7
  <2> QED
    BY <2>1, <2>2
<1> HIDE DEF T
<1>2. T \in SUBSET (SUBSET S)
  BY DEF T
<1>3. S \in T
  BY <1>1, <1>2, SubsetInduction
<1> QED
  BY <1>3 DEF T

\* A sum over the places of a set that are numbered apart is the sum over the
\* numbers, if the other places hold zero.
LEMMA SumByNumber ==
  ASSUME NEW I, IsFiniteSet(I), NEW N, IsFiniteSet(N), NEW p \in [I -> N],
         \A i, j \in I : p[i] = p[j] => i = j,
         NEW f, \A i \in I : f[i] \in Int,
         NEW g, \A i \in I : g[p[i]] = f[i],
         \A n \in N : (\A i \in I : p[i] # n) => g[n] = 0
  PROVE  SumFunctionOnSet(g, N) = SumFunctionOnSet(f, I)
<1> DEFINE part(s) == [n \in N |-> IF \E i \in s : p[i] = n THEN g[n] ELSE 0]
           T == {s \in SUBSET I : SumFunctionOnSet(part(s), N) = SumFunctionOnSet(f, s)}
<1>1. \A s \in SUBSET I : \A n \in N : part(s)[n] \in Int
  OBVIOUS
<1>2. ASSUME NEW s \in SUBSET I, \A t \in SUBSET s : t # s => t \in T
      PROVE  s \in T
  <2>1. CASE s = {}
    <3>1. \A n \in N : part(s)[n] = 0
      BY <2>1
    <3> HIDE DEF part
    <3> QED
      BY <2>1, <3>1, SumOfNone, SumOfZeros
  <2>2. CASE s # {}
    <3>1. PICK x \in s : TRUE
      BY <2>2
    <3> DEFINE y == p[x]
               u == s \ {x}
    <3>2. y \in N /\ part(s)[y] = f[x] /\ part(u)[y] = 0
      BY <3>1
    <3>3. \A n \in N : n # y => part(s)[n] = part(u)[n]
      BY <3>1
    <3>4. u \in SUBSET I /\ u \in T
      BY <1>2, <3>1
    <3>5. IsFiniteSet(s) /\ IsFiniteSet(u)
      BY FS_Subset
    <3>6. SumFunctionOnSet(f, s) = f[x] + SumFunctionOnSet(f, u) /\ SumFunctionOnSet(f, u) \in Int
      BY <3>1, <3>5, SumSplit
    <3> HIDE DEF part, u, y
    <3>7. SumFunctionOnSet(part(s), N) = SumFunctionOnSet(part(u), N) - part(u)[y] + part(s)[y]
      BY <1>1, <3>2, <3>3, <3>4, SumChange
    <3>8. SumFunctionOnSet(part(u), N) = SumFunctionOnSet(f, u)
      BY <3>4
    <3>9. f[x] \in Int
      BY <3>1
    <3>10. SumFunctionOnSet(part(s), N) = SumFunctionOnSet(f, s)
      BY <3>2, <3>6, <3>7, <3>8, <3>9
    <3> QED
      BY <3>10
  <2> QED
    BY <2>1, <2>2
<1>3. SumFunctionOnSet(part(I), N) = SumFunctionOnSet(f, I)
  <2> HIDE DEF T
  <2>1. T \in SUBSET (SUBSET I)
    BY DEF T
  <2>2. I \in T
    BY <1>2, <2>1, SubsetInduction
  <2> QED
    BY <2>2 DEF T
<1>4. \A n \in N : part(I)[n] \in Int /\ g[n] = part(I)[n]
  OBVIOUS
<1> HIDE DEF part
<1>5. SumFunctionOnSet(g, N) = SumFunctionOnSet(part(I), N)
  BY <1>4, SumSame
<1> QED
  BY <1>3, <1>5

-----------------------------------------------------------------------------
(* Selections made one at a time give out what they take back.             *)

USE DEF Objects, Nil, Weight, ProbeState

\* A backend that passes every test of Select's loop.
Eligible(b) == b.healthy /\ b.enabled /\ b.effectiveWeight > 0

\* No two selections are under way at the same time.
Serial == \A q, r \in Requests : ~Resting(q) /\ ~Resting(r) => q = r

Held(o) == heap[o].currentWeight
Credits == SumFunctionOnSet([o \in Objects |-> Held(o)], Objects)

\* What a selection under way has given out is what the backends hold together.
Given(r) ==
  LET s == sel[r]
  IN  /\ Credits = s.total
      /\ \A i \in 1..Len(s.pool) : s.pool[i].object \in 1..used
      /\ s.best = 0 => s.total = 0
      /\ s.pc = "accrue" => s.reg = Held(s.pool[s.next].object)
      /\ s.pc = "charge" => s.reg = Held(s.pool[s.best].object)

ConservedInv ==
  /\ \A o \in Objects : o > used => Held(o) = 0
  /\ (\A r \in Requests : Resting(r)) => Credits = 0
  /\ \A r \in Requests : ~Resting(r) => Given(r)

\* The objects are finitely many and each holds an integer.
LEMMA HeldTyped ==
  ASSUME TypeOK
  PROVE  IsFiniteSet(Objects) /\ \A o \in Objects : Held(o) \in Int
<1>1. 1 \in Int /\ MaxObjects \in Int
  BY RoutingAssumption
<1>2. IsFiniteSet(1..MaxObjects)
  BY <1>1, FS_Interval
<1>3. \A o \in Objects : heap[o] \in Backend
  BY DEF TypeOK
<1> QED
  BY <1>2, <1>3 DEF Held, Backend

\* The sum is an integer, and stays while every object holds what it held.
LEMMA CreditsKept ==
  ASSUME TypeOK, \A o \in Objects : Held(o)' = Held(o)
  PROVE  Credits' = Credits
<1> DEFINE f == [o \in Objects |-> Held(o)]
           g == [o \in Objects |-> Held(o)']
<1>1. \A o \in Objects : f[o] \in Int /\ g[o] = f[o]
  BY HeldTyped
<1> HIDE DEF f, g
<1>2. SumFunctionOnSet(g, Objects) = SumFunctionOnSet(f, Objects)
  BY <1>1, HeldTyped, SumSame
<1> QED
  BY <1>2 DEF Credits, f, g

\* Storing one object's weight changes the sum by as much.
LEMMA CreditsMove ==
  ASSUME TypeOK, NEW p \in Objects, NEW c \in Int, Held(p)' = c,
         \A o \in Objects : o # p => Held(o)' = Held(o)
  PROVE  Credits' = Credits - Held(p) + c
<1> DEFINE f == [o \in Objects |-> Held(o)]
           g == [o \in Objects |-> Held(o)']
<1>1. /\ g[p] = c /\ f[p] = Held(p)
      /\ \A o \in Objects : f[o] \in Int /\ (o # p => g[o] = f[o])
  BY HeldTyped
<1> HIDE DEF f, g, Objects
<1>2. SumFunctionOnSet(g, Objects) = SumFunctionOnSet(f, Objects) - f[p] + g[p]
  BY <1>1, HeldTyped, SumChange
<1> QED
  BY <1>1, <1>2 DEF Credits, f, g

\* Every step of the manager, the checker and the network leaves the weights that
\* are held; a new object holds nothing.
LEMMA OthersHold ==
  ASSUME TypeOK, AdminStep \/ CheckerStep \/ (\E u \in URLs : Flip(u)) \/ UNCHANGED vars
  PROVE  /\ sel' = sel /\ used' \in Nat /\ used <= used'
         /\ (\A o \in Objects : o > used => Held(o) = 0) =>
              /\ \A o \in Objects : Held(o)' = Held(o)
              /\ \A o \in Objects : o > used' => Held(o)' = 0
<1> USE DEF Held
<1>1. /\ heap \in [Objects -> Backend] /\ used \in 0..MaxObjects /\ MaxObjects \in Nat
      /\ byName \in [Names -> 0..used] /\ probe \in ProbeState
  BY RoutingAssumption DEF TypeOK
<1>2. \A b \in Backend : /\ \A e : SetEnabled(b, e).currentWeight = b.currentWeight
                         /\ \A u, w, h : UpdateConfig(b, u, w, h).currentWeight = b.currentWeight
  BY DEF Backend, SetEnabled, UpdateConfig
<1>3. ASSUME NEW n \in Names, NEW u \in URLs, NEW w \in InputWeights, UpsertBackend(n, u, w),
             byName[n] # Nil
      PROVE  used' = used /\ \A o \in Objects : Held(o)' = Held(o)
  <2>1. PICK seen \in BOOLEAN :
          heap' = [heap EXCEPT ![byName[n]] =
                     SetEnabled(UpdateConfig(heap[byName[n]], u, ClampWeight(w), seen), TRUE)]
    BY <1>3 DEF UpsertBackend
  <2>2. ClampWeight(w) \in Weight
    BY <1>3, NewBackends, RoutingAssumption
  <2>3. byName[n] \in Objects /\ heap[byName[n]] \in Backend
    BY <1>1, <1>3
  <2>4. UpdateConfig(heap[byName[n]], u, ClampWeight(w), seen) \in Backend
    BY <2>2, <2>3, BackendMethods
  <2>5. SetEnabled(UpdateConfig(heap[byName[n]], u, ClampWeight(w), seen), TRUE).currentWeight
          = heap[byName[n]].currentWeight
    <3> DEFINE b == UpdateConfig(heap[byName[n]], u, ClampWeight(w), seen)
    <3>1. b.currentWeight = heap[byName[n]].currentWeight
      BY <1>2, <2>3
    <3> HIDE DEF b
    <3>2. b \in Backend
      BY <2>4 DEF b
    <3>3. SetEnabled(b, TRUE).currentWeight = b.currentWeight
      BY <1>2, <3>2
    <3> QED
      BY <3>1, <3>3 DEF b
  <2>6. used' = used
    BY <1>3 DEF UpsertBackend, managerVars
  <2> QED
    BY <1>1, <2>1, <2>3, <2>5, <2>6
<1>4. ASSUME NEW n \in Names, NEW u \in URLs, NEW w \in InputWeights, UpsertBackend(n, u, w),
             byName[n] = Nil
      PROVE  /\ used' = used + 1 /\ used + 1 \in Objects /\ heap'[used + 1].currentWeight = 0
             /\ \A o \in Objects : o # used + 1 => heap'[o] = heap[o]
  <2>1. /\ used' = used + 1 /\ used < MaxObjects
        /\ heap' = [heap EXCEPT ![used + 1] = NewBackend(n, u, ClampWeight(w))]
    BY <1>4 DEF UpsertBackend
  <2>2. used + 1 \in Objects
    BY <1>1, <2>1
  <2>3. NewBackend(n, u, ClampWeight(w)).currentWeight = 0
    BY DEF NewBackend
  <2> QED
    BY <1>1, <2>1, <2>2, <2>3
<1>5. ASSUME NEW o \in Objects, NEW e \in BOOLEAN, SetBackendEnabled(o, e)
      PROVE  used' = used /\ \A p \in Objects : Held(p)' = Held(p)
  <2>1. heap' = [heap EXCEPT ![o] = SetEnabled(heap[o], e)] /\ used' = used
    BY <1>5 DEF SetBackendEnabled, managerVars
  <2> QED
    BY <1>1, <1>2, <2>1
<1>6. CASE CheckerStep
  <2>1. \A b \in Backend : \A v \in {"unbuilt", "up", "down"} :
          Judged(b, v).currentWeight = b.currentWeight /\ Checked(b, v).currentWeight = b.currentWeight
    <3>1. \A b \in Backend : \A h \in BOOLEAN :
            /\ StoreHealth(b, h).currentWeight = b.currentWeight
            /\ StoreWeight(b, h).currentWeight = b.currentWeight
            /\ StoreWeight(b, h) \in Backend
            /\ MarkFailure(b).currentWeight = b.currentWeight
            /\ MarkSuccess(b).currentWeight = b.currentWeight
      BY BackendMethods DEF Backend, StoreHealth, StoreWeight, MarkFailure, MarkSuccess
    <3> QED
      BY <3>1 DEF Judged, Checked
  <2>2. ASSUME ApplyHealth \/ ApplyWeight PROVE \A o \in Objects : Held(o)' = Held(o)
    <3>1. probe # NoProbe
      BY <2>2 DEF ApplyHealth, ApplyWeight, NoProbe
    <3>2. probe.object \in Objects /\ probe.verdict \in {"unbuilt", "up", "down"}
      BY <1>1, <3>1
    <3> DEFINE p == probe.object
               v == probe.verdict
    <3>3. heap' = [heap EXCEPT ![p] = Judged(heap[p], v)] \/ heap' = [heap EXCEPT ![p] = Checked(heap[p], v)]
      BY <2>2 DEF ApplyHealth, ApplyWeight
    <3> HIDE DEF p, v
    <3>4. p \in Objects /\ heap[p] \in Backend /\ v \in {"unbuilt", "up", "down"}
      BY <1>1, <3>2 DEF p, v
    <3>5. /\ Judged(heap[p], v).currentWeight = heap[p].currentWeight
          /\ Checked(heap[p], v).currentWeight = heap[p].currentWeight
      BY <2>1, <3>4
    <3> QED
      BY <1>1, <3>3, <3>4, <3>5
  <2>3. used' = used /\ sel' = sel /\ (StartCycle \/ Probe => heap' = heap)
    BY <1>6 DEF CheckerStep, StartCycle, Probe, ApplyHealth, ApplyWeight, managerVars
  <2> QED
    BY <1>1, <1>6, <2>2, <2>3 DEF CheckerStep
<1>7. CASE (\E u \in URLs : Flip(u)) \/ (\E n \in Names : RemoveBackend(n)) \/ UNCHANGED vars
  <2>1. heap' = heap /\ sel' = sel /\ used <= used' /\ used' \in Nat /\ (used' = used \/ used' = used)
    BY <1>1, <1>7 DEF Flip, RemoveBackend, managerVars, vars
  <2> QED
    BY <2>1
<1>8. CASE AdminStep
  <2>1. sel' = sel
    BY <1>8 DEF AdminStep, UpsertBackend, RemoveBackend, SetBackendEnabled
  <2>2. CASE \E n \in Names, u \in URLs, w \in InputWeights : UpsertBackend(n, u, w)
    <3>1. PICK n \in Names, u \in URLs, w \in InputWeights : UpsertBackend(n, u, w)
      BY <2>2
    <3>2. CASE byName[n] # Nil
      BY <1>1, <1>3, <2>1, <3>1, <3>2
    <3>3. CASE byName[n] = Nil
      <4>1. /\ used' = used + 1 /\ used + 1 \in Objects /\ heap'[used + 1].currentWeight = 0
            /\ \A o \in Objects : o # used + 1 => heap'[o] = heap[o]
        BY <1>4, <3>1, <3>3
      <4>2. \A o \in Objects : o > used' => o > used /\ o # used + 1
        BY <1>1, <4>1
      <4> QED
        BY <1>1, <2>1, <4>1, <4>2
    <3> QED
      BY <3>2, <3>3
  <2>3. CASE \E o \in Objects, e \in BOOLEAN : SetBackendEnabled(o, e)
    BY <1>1, <1>5, <2>1, <2>3
  <2> QED
    BY <1>7, <1>8, <2>2, <2>3 DEF AdminStep
<1> QED
  BY <1>6, <1>7, <1>8
\* A selection whose locals stay keeps what it has given, if the weights stay.
LEMMA GivenKept ==
  ASSUME NEW r \in Requests, Given(r), sel'[r] = sel[r], Credits' = Credits,
         ScanOK(r), TypeOK, used' \in Nat, used <= used',
         \A o \in Objects : Held(o)' = Held(o)
  PROVE  Given(r)'
<1> DEFINE s == sel[r]
<1>1. /\ sel[r].pool \in Seq(Entry) /\ Len(s.pool) \in Nat /\ s.next \in Nat /\ s.best \in Nat
      /\ used \in 0..MaxObjects /\ MaxObjects \in Nat
  BY SelectionTypes, RoutingAssumption DEF TypeOK
<1>2. \A i \in 1..Len(s.pool) : s.pool[i].object \in 1..used' /\ s.pool[i].object \in Objects
  BY <1>1 DEF Given
<1>3. s.pc = "accrue" => s.next \in 1..Len(s.pool)
  BY <1>1 DEF ScanOK
<1>4. s.pc = "charge" => s.best \in 1..Len(s.pool)
  BY <1>1 DEF ScanOK
<1> QED
  BY <1>2, <1>3, <1>4 DEF Given

\* Nothing that the manager, the checker or the network does touches the sum.
LEMMA OthersConserve ==
  ASSUME Inv, ConservedInv, AdminStep \/ CheckerStep \/ (\E u \in URLs : Flip(u)) \/ UNCHANGED vars
  PROVE  ConservedInv'
<1>1. TypeOK /\ \A r \in Requests : ScanOK(r)
  BY DEF Inv
<1>2. /\ sel' = sel /\ used' \in Nat /\ used <= used'
      /\ \A o \in Objects : Held(o)' = Held(o)
      /\ \A o \in Objects : o > used' => Held(o)' = 0
  BY <1>1, OthersHold DEF ConservedInv
<1>3. Credits' = Credits
  BY <1>1, <1>2, CreditsKept
<1>4. \A r \in Requests : Resting(r)' = Resting(r)
  BY <1>2 DEF Resting
<1>5. ASSUME NEW r \in Requests, ~Resting(r)' PROVE Given(r)'
  BY <1>1, <1>2, <1>3, <1>4, <1>5, GivenKept DEF ConservedInv
<1> QED
  BY <1>2, <1>3, <1>4, <1>5 DEF ConservedInv

\* The objects of a new pool have been created.
LEMMA PoolCreated ==
  ASSUME TypeOK, NEW m \in Models, ~UnknownBackend(m)
  PROVE  \A i \in 1..Len(Entries(m)) : Entries(m)[i].object \in 1..used
<1>1. byName \in [Names -> 0..used] /\ list \in Seq(1..used) /\ used \in Nat
  BY RoutingAssumption DEF TypeOK
<1>2. CASE m = NoModel
  <2>1. Entries(m) = DefaultEntries /\ Len(list) \in Nat
    BY <1>1, <1>2 DEF Entries
  <2>2. \A i \in 1..Len(list) : list[i] \in 1..used
    BY <1>1, ElementOfSeq
  <2> QED
    BY <2>1, <2>2 DEF DefaultEntries
<1>3. CASE m # NoModel
  <2>1. Entries(m) = RefEntries(m) /\ Refs[m] \in Seq(Ref) /\ Len(Refs[m]) \in Nat
    BY <1>3, RoutingAssumption DEF Entries
  <2>2. \A i \in 1..Len(Refs[m]) : Refs[m][i] \in Ref
    BY <2>1, ElementOfSeq
  <2>3. \A i \in 1..Len(Refs[m]) : byName[Refs[m][i].backend] \in 1..used
    <3> TAKE i \in 1..Len(Refs[m])
    <3>1. Refs[m][i].backend \in Names /\ byName[Refs[m][i].backend] # Nil
      BY <1>3, <2>2 DEF Ref, UnknownBackend
    <3> QED
      BY <1>1, <3>1
  <2> QED
    BY <2>1, <2>3 DEF RefEntries
<1> QED
  BY <1>2, <1>3

\* The steps of a selection under way: nothing else moves.
SelectStep(r) == Visit(r) \/ Accrue(r) \/ EndScan(r) \/ Charge(r)

\* A step of a selection that starts or goes on leaves the others alone.
LEMMA OthersRest ==
  ASSUME TypeOK, Serial, NEW r \in Requests, SelectStep(r)
  PROVE  /\ ~Resting(r) /\ used' = used /\ byName' = byName /\ list' = list
         /\ adminOps' = adminOps
         /\ \A q \in Requests : q # r => sel'[q] = sel[q] /\ Resting(q) /\ Resting(q)'
<1>1. sel \in [Requests -> SelState]
  BY DEF TypeOK
<1>2. ~Resting(r)
  BY DEF SelectStep, Visit, LoadHealthy, LoadEnabled, LoadWeight, LoadCredit, Entered,
         Accrue, EndScan, Charge, Resting
<1>3. \A q \in Requests : q # r => sel'[q] = sel[q]
  BY <1>1 DEF SelectStep, Visit, LoadHealthy, LoadEnabled, LoadWeight, LoadCredit, Pass, Skip,
              Accrue, EndScan, Charge
<1>4. \A q \in Requests : q # r => Resting(q)
  BY <1>2 DEF Serial
<1>5. \A q \in Requests : q # r => Resting(q)'
  BY <1>3, <1>4 DEF Resting
<1>6. used' = used /\ byName' = byName /\ list' = list /\ adminOps' = adminOps
  BY DEF SelectStep, Visit, LoadHealthy, LoadEnabled, LoadWeight, LoadCredit,
         Accrue, EndScan, Charge, managerVars, boundVars
<1> QED
  BY <1>2, <1>3, <1>4, <1>5, <1>6

\* A selection starts with nothing given out, when the others are at rest.
LEMMA BuildPoolConserves ==
  ASSUME Inv, ConservedInv, Serial', NEW r \in Requests, NEW m \in Models, BuildPool(r, m)
  PROVE  ConservedInv'
<1>1. /\ TypeOK /\ heap' = heap /\ used' = used /\ used \in Nat /\ Resting(r)
      /\ sel \in [Requests -> SelState] /\ \A q \in Requests : ScanOK(q)
  BY RoutingAssumption DEF BuildPool, managerVars, Inv, TypeOK
<1>2. \A o \in Objects : Held(o)' = Held(o)
  BY <1>1 DEF Held
<1>3. Credits' = Credits
  BY <1>1, <1>2, CreditsKept
<1>4. \A q \in Requests : q # r => sel'[q] = sel[q] /\ Resting(q)' = Resting(q)
  BY <1>1 DEF BuildPool, Resting
<1>5. \A q \in Requests : q # r /\ ~Resting(q)' => Given(q)'
  BY <1>1, <1>2, <1>3, <1>4, GivenKept DEF ConservedInv
<1>6. CASE UnknownBackend(m)
  <2>1. sel'[r] = Locals("failed", m, <<>>)
    BY <1>1, <1>6 DEF BuildPool
  <2>2. Resting(r)'
    BY <2>1 DEF Locals, Resting
  <2> QED
    BY <1>1, <1>2, <1>3, <1>4, <1>5, <2>2 DEF ConservedInv
<1>7. CASE ~UnknownBackend(m)
  <2>1. sel'[r] = Locals("scan", m, Entries(m))
    BY <1>1, <1>7 DEF BuildPool
  <2>2. /\ sel'[r].pc = "scan" /\ sel'[r].total = 0 /\ sel'[r].pool = Entries(m)
        /\ ~Resting(r)'
    BY <2>1 DEF Locals, Resting
  <2>3. \A q \in Requests : Resting(q)
    BY <1>1, <1>4, <2>2 DEF Serial
  <2>4. Credits' = 0
    BY <1>3, <2>3 DEF ConservedInv
  <2>5. Given(r)'
    BY <1>1, <1>7, <2>2, <2>4, PoolCreated DEF Given
  <2> QED
    BY <1>1, <1>2, <1>5, <2>2, <2>5 DEF ConservedInv
<1> QED
  BY <1>6, <1>7
\* What a selection holds, by type.
LEMMA LocalsTyped ==
  ASSUME TypeOK, NEW r \in Requests
  PROVE  /\ sel \in [Requests -> SelState] /\ heap \in [Objects -> Backend]
         /\ sel[r] \in SelState /\ sel[r].model \in Models \cup {NoModel}
         /\ sel[r].next \in Nat /\ sel[r].best \in Nat /\ sel[r].total \in Nat
         /\ sel[r].reg \in Int /\ sel[r].bestWeight \in Int /\ Len(sel[r].pool) \in Nat
         /\ \A i \in 1..Len(sel[r].pool) :
              sel[r].pool[i].object \in Objects /\ sel[r].pool[i].weight \in Weight
<1>1. /\ sel \in [Requests -> SelState] /\ heap \in [Objects -> Backend]
      /\ sel[r] \in SelState /\ sel[r].pool \in Seq(Entry)
      /\ sel[r].next \in Nat /\ sel[r].best \in Nat /\ sel[r].total \in Nat
      /\ Len(sel[r].pool) \in Nat
  BY SelectionTypes
<1>2. sel[r].reg \in Int /\ sel[r].bestWeight \in Int /\ sel[r].model \in Models \cup {NoModel}
  BY <1>1 DEF SelState
<1>3. \A i \in 1..Len(sel[r].pool) : sel[r].pool[i] \in Entry
  BY <1>1, ElementOfSeq
<1> QED
  BY <1>1, <1>2, <1>3 DEF Entry

\* What each step of a selection changes: the locals, one field at a time, and
\* the weight of at most one object.
LEMMA VisitEffect ==
  ASSUME TypeOK, NEW r \in Requests, Visit(r)
  PROVE  LET s == sel[r]
             t == sel'[r]
             o == s.pool[s.next].object
         IN  /\ heap' = heap /\ picks' = picks
             /\ s.pc \in {"scan", "enabled", "weight", "credit"}
             /\ s.pc # "credit" => s.next <= Len(s.pool)
             /\ t.model = s.model /\ t.pool = s.pool /\ t.total = s.total
             /\ t.best = s.best /\ t.bestWeight = s.bestWeight
             /\ \/ /\ t.pc \in {"enabled", "weight", "credit"} /\ t.next = s.next
                \/ /\ s.pc = "credit" /\ t.pc = "accrue" /\ t.next = s.next /\ t.reg = Held(o)
                \/ /\ s.pc # "credit" /\ ~Eligible(heap[o])
                   /\ t.pc = "scan" /\ t.next = s.next + 1
<1> DEFINE s == sel[r]
           o == s.pool[s.next].object
<1>1. s \in SelState /\ sel \in [Requests -> SelState]
  BY LocalsTyped
<1>2. CASE LoadHealthy(r) \/ LoadEnabled(r) \/ LoadWeight(r)
  <2>1. /\ heap' = heap /\ picks' = picks /\ s.pc \in {"scan", "enabled", "weight"}
        /\ s.next <= Len(s.pool)
    BY <1>2, TestCases DEF Tested, Entered
  <2>2. \/ \E then \in {"enabled", "weight", "credit"} : Pass(r, then)
        \/ ~Eligible(heap[o]) /\ Skip(r)
    BY <1>2, TestCases DEF Current, Eligible
  <2>3. CASE ~Eligible(heap[o]) /\ Skip(r)
    <3>1. sel'[r] = [s EXCEPT !.pc = "scan", !.next = s.next + 1]
      BY <1>1, <2>3 DEF Skip
    <3> HIDE DEF s
    <3>2. /\ sel'[r].pc = "scan" /\ sel'[r].next = s.next + 1
          /\ sel'[r].model = s.model /\ sel'[r].pool = s.pool /\ sel'[r].total = s.total
          /\ sel'[r].best = s.best /\ sel'[r].bestWeight = s.bestWeight
      BY <1>1, <3>1 DEF SelState
    <3> QED
      BY <2>1, <2>3, <3>2 DEF s
  <2>4. ASSUME NEW then \in {"enabled", "weight", "credit"}, Pass(r, then)
        PROVE  /\ sel'[r].pc \in {"enabled", "weight", "credit"} /\ sel'[r].next = s.next
               /\ sel'[r].model = s.model /\ sel'[r].pool = s.pool /\ sel'[r].total = s.total
               /\ sel'[r].best = s.best /\ sel'[r].bestWeight = s.bestWeight
    <3>1. sel'[r] = [s EXCEPT !.pc = then]
      BY <1>1, <2>4 DEF Pass
    <3> HIDE DEF s
    <3> QED
      BY <1>1, <3>1 DEF SelState
  <2> QED
    BY <2>1, <2>2, <2>3, <2>4
<1>3. CASE LoadCredit(r)
  <2>1. /\ heap' = heap /\ picks' = picks /\ s.pc = "credit"
        /\ sel' = [sel EXCEPT ![r].pc = "accrue", ![r].reg = Held(o)]
    BY <1>3 DEF LoadCredit, Current, Held
  <2>2. sel'[r] = [s EXCEPT !.pc = "accrue", !.reg = Held(o)]
    BY <1>1, <2>1
  <2> HIDE DEF o
  <2>3. /\ sel'[r].pc = "accrue" /\ sel'[r].next = s.next /\ sel'[r].reg = Held(o)
        /\ sel'[r].model = s.model /\ sel'[r].pool = s.pool /\ sel'[r].total = s.total
        /\ sel'[r].best = s.best /\ sel'[r].bestWeight = s.bestWeight
    BY <1>1, <2>2 DEF SelState
  <2> QED
    BY <2>1, <2>3 DEF o
<1> QED
  BY <1>2, <1>3 DEF Visit

\* The loop's body stores the raised weight and keeps the richer entry.
LEMMA AccrueEffect ==
  ASSUME TypeOK, NEW r \in Requests, Accrue(r), sel[r].next \in 1..Len(sel[r].pool)
  PROVE  LET s == sel[r]
             t == sel'[r]
             o == s.pool[s.next].object
             raised == s.reg + s.pool[s.next].weight
         IN  /\ picks' = picks /\ s.pc = "accrue"
             /\ o \in Objects /\ raised \in Int
             /\ heap'[o].currentWeight = raised /\ \A p \in Objects : p # o => Held(p)' = Held(p)
             /\ t.pc = "scan" /\ t.model = s.model /\ t.pool = s.pool /\ t.next = s.next + 1
             /\ t.total = s.total + s.pool[s.next].weight
             /\ Beats(s, raised) => t.best = s.next /\ t.bestWeight = raised
             /\ ~Beats(s, raised) => t.best = s.best /\ t.bestWeight = s.bestWeight
<1> DEFINE s == sel[r]
           o == s.pool[s.next].object
           w == s.pool[s.next].weight
           raised == s.reg + w
           g == IF Beats(s, raised) THEN s.next ELSE s.best
           h == IF Beats(s, raised) THEN raised ELSE s.bestWeight
<1>1. /\ s \in SelState /\ sel \in [Requests -> SelState] /\ heap \in [Objects -> Backend]
      /\ o \in Objects /\ w \in Weight /\ s.reg \in Int
  BY LocalsTyped
<1>2. /\ picks' = picks /\ s.pc = "accrue"
      /\ heap' = [heap EXCEPT ![o].currentWeight = raised]
      /\ sel' = [sel EXCEPT ![r] = [s EXCEPT !.pc = "scan", !.next = s.next + 1, !.total = s.total + w,
                                             !.best = g, !.bestWeight = h]]
  BY DEF Accrue, Current
<1>3. raised \in Int
  BY <1>1
<1>4. heap'[o].currentWeight = raised /\ \A p \in Objects : p # o => Held(p)' = Held(p)
  <2> HIDE DEF raised, o
  <2>1. heap'[o] = [heap[o] EXCEPT !.currentWeight = raised]
    BY <1>1, <1>2
  <2>2. heap[o] \in Backend
    BY <1>1
  <2>3. heap'[o].currentWeight = raised
    BY <2>1, <2>2 DEF Backend
  <2> QED
    BY <1>1, <1>2, <2>3 DEF Held
<1>5. /\ sel'[r].pc = "scan" /\ sel'[r].model = s.model /\ sel'[r].pool = s.pool
      /\ sel'[r].next = s.next + 1 /\ sel'[r].total = s.total + w
      /\ sel'[r].best = g /\ sel'[r].bestWeight = h
  <2> HIDE DEF g, h, w, raised, o, s
  <2>1. sel'[r] = [s EXCEPT !.pc = "scan", !.next = s.next + 1, !.total = s.total + w,
                            !.best = g, !.bestWeight = h]
    BY <1>1, <1>2
  <2> QED
    BY <1>1, <2>1 DEF SelState
<1> QED
  BY <1>1, <1>2, <1>3, <1>4, <1>5

\* After the loop the request is refused, or the winner's weight is loaded.
LEMMA EndScanEffect ==
  ASSUME TypeOK, NEW r \in Requests, EndScan(r)
  PROVE  LET s == sel[r]
             t == sel'[r]
         IN  /\ heap' = heap /\ picks' = picks
             /\ s.pc = "scan" /\ s.next > Len(s.pool)
             /\ t.model = s.model /\ t.pool = s.pool /\ t.next = s.next /\ t.total = s.total
             /\ t.best = s.best /\ t.bestWeight = s.bestWeight
             /\ s.best = 0 \/ s.total = 0 => t.pc = "rejected"
             /\ ~(s.best = 0 \/ s.total = 0) => t.pc = "charge" /\ t.reg = Held(s.pool[s.best].object)
<1> DEFINE s == sel[r]
           c == Held(s.pool[s.best].object)
<1>1. s \in SelState /\ sel \in [Requests -> SelState]
  BY LocalsTyped
<1>2. heap' = heap /\ picks' = picks /\ s.pc = "scan" /\ s.next > Len(s.pool)
  BY DEF EndScan
<1>3. CASE s.best = 0 \/ s.total = 0
  <2>1. sel'[r] = [s EXCEPT !.pc = "rejected"]
    BY <1>1, <1>3 DEF EndScan
  <2>2. /\ sel'[r].pc = "rejected" /\ sel'[r].next = s.next
        /\ sel'[r].model = s.model /\ sel'[r].pool = s.pool /\ sel'[r].total = s.total
        /\ sel'[r].best = s.best /\ sel'[r].bestWeight = s.bestWeight
    BY <1>1, <2>1 DEF SelState
  <2> QED
    BY <1>2, <1>3, <2>2
<1>4. CASE ~(s.best = 0 \/ s.total = 0)
  <2>1. sel'[r] = [s EXCEPT !.pc = "charge", !.reg = c]
    BY <1>1, <1>4 DEF EndScan, Held
  <2> HIDE DEF c
  <2>2. /\ sel'[r].pc = "charge" /\ sel'[r].next = s.next /\ sel'[r].reg = c
        /\ sel'[r].model = s.model /\ sel'[r].pool = s.pool /\ sel'[r].total = s.total
        /\ sel'[r].best = s.best /\ sel'[r].bestWeight = s.bestWeight
    BY <1>1, <2>1 DEF SelState
  <2> QED
    BY <1>2, <1>4, <2>2 DEF c
<1> QED
  BY <1>3, <1>4

\* The winner is charged the total of the round.
LEMMA ChargeEffect ==
  ASSUME TypeOK, NEW r \in Requests, Charge(r), sel[r].best \in 1..Len(sel[r].pool)
  PROVE  LET s == sel[r]
             o == s.pool[s.best].object
         IN  /\ s.pc = "charge" /\ sel'[r].pc = "chosen" /\ o \in Objects
             /\ picks' = [picks EXCEPT ![s.model][heap[o].name] = @ + 1]
             /\ s.reg - s.total \in Int
             /\ heap'[o].currentWeight = s.reg - s.total
             /\ \A p \in Objects : p # o => Held(p)' = Held(p)
<1> DEFINE s == sel[r]
           o == s.pool[s.best].object
           c == s.reg - s.total
<1>1. /\ s \in SelState /\ sel \in [Requests -> SelState] /\ heap \in [Objects -> Backend]
      /\ o \in Objects /\ c \in Int
  BY LocalsTyped
<1>2. /\ s.pc = "charge" /\ sel' = [sel EXCEPT ![r].pc = "chosen"]
      /\ heap' = [heap EXCEPT ![o].currentWeight = c]
      /\ picks' = [picks EXCEPT ![s.model][heap[o].name] = @ + 1]
  BY DEF Charge, Price
<1>3. sel'[r].pc = "chosen"
  BY <1>1, <1>2 DEF SelState
<1>4. heap'[o].currentWeight = c /\ \A p \in Objects : p # o => Held(p)' = Held(p)
  <2> HIDE DEF c, o
  <2>1. heap'[o] = [heap[o] EXCEPT !.currentWeight = c] /\ heap[o] \in Backend
    BY <1>1, <1>2
  <2>2. heap'[o].currentWeight = c
    BY <2>1 DEF Backend
  <2> QED
    BY <1>1, <1>2, <2>2 DEF Held
<1> QED
  BY <1>1, <1>2, <1>3, <1>4
\* The steps of a selection move the sum and its total alike.
LEMMA SelectConserves ==
  ASSUME Inv, ConservedInv, Serial, NEW r \in Requests, SelectStep(r)
  PROVE  ConservedInv'
<1> DEFINE s == sel[r]
           t == sel'[r]
<1>1. /\ TypeOK /\ ScanOK(r) /\ Given(r) /\ ~Resting(r) /\ used' = used
      /\ \A q \in Requests : q # r => Resting(q)'
      /\ \A o \in Objects : o > used => Held(o) = 0
  BY OthersRest DEF Inv, ConservedInv
<1>2. /\ s.next \in Nat /\ s.best \in Nat /\ s.total \in Nat /\ s.reg \in Int /\ Len(s.pool) \in Nat
      /\ used \in 0..MaxObjects /\ MaxObjects \in Nat
      /\ \A i \in 1..Len(s.pool) : s.pool[i].weight \in Weight
  BY <1>1, LocalsTyped, RoutingAssumption DEF TypeOK
<1>3. Credits \in Int
  BY <1>1, HeldTyped, SumSplit DEF Credits
<1>4. SUFFICES ASSUME TRUE
               PROVE  /\ \A o \in Objects : o > used => Held(o)' = 0
                      /\ Resting(r)' => Credits' = 0
                      /\ ~Resting(r)' => Given(r)'
  BY <1>1 DEF ConservedInv
<1>5. CASE Visit(r)
  <2>1. /\ heap' = heap /\ t.pool = s.pool /\ t.total = s.total /\ t.best = s.best
        /\ \/ t.pc \in {"scan", "enabled", "weight", "credit"}
           \/ t.pc = "accrue" /\ t.next = s.next /\ t.reg = Held(s.pool[s.next].object)
    BY <1>1, <1>5, VisitEffect
  <2>2. \A o \in Objects : Held(o)' = Held(o)
    BY <2>1 DEF Held
  <2>3. Credits' = Credits
    BY <1>1, <2>2, CreditsKept
  <2>4. ~Resting(r)'
    BY <2>1 DEF Resting
  <2>5. t.pc = "accrue" => t.reg = heap'[t.pool[t.next].object].currentWeight
    BY <2>1 DEF Held
  <2>6. Given(r)'
    BY <1>1, <2>1, <2>3, <2>5 DEF Given, Held
  <2> QED
    BY <1>1, <2>2, <2>4, <2>6
<1>6. CASE EndScan(r)
  <2>1. /\ heap' = heap /\ s.pc = "scan"
        /\ t.pool = s.pool /\ t.total = s.total /\ t.best = s.best
        /\ s.best = 0 \/ s.total = 0 => t.pc = "rejected"
        /\ ~(s.best = 0 \/ s.total = 0) => t.pc = "charge" /\ t.reg = Held(s.pool[s.best].object)
    BY <1>1, <1>6, EndScanEffect
  <2>2. \A o \in Objects : Held(o)' = Held(o)
    BY <2>1 DEF Held
  <2>3. Credits' = Credits /\ Credits = s.total
    BY <1>1, <2>2, CreditsKept DEF Given
  <2>4. CASE s.best = 0 \/ s.total = 0
    <3>1. Resting(r)' /\ s.total = 0
      BY <1>1, <2>1, <2>4 DEF Resting, Given
    <3> QED
      BY <1>1, <2>2, <2>3, <3>1
  <2>5. CASE ~(s.best = 0 \/ s.total = 0)
    <3>1. ~Resting(r)' /\ t.pc = "charge" /\ t.reg = heap'[t.pool[t.best].object].currentWeight
      BY <2>1, <2>5 DEF Resting, Held
    <3>2. Given(r)'
      BY <1>1, <2>1, <2>3, <3>1 DEF Given, Held
    <3> QED
      BY <1>1, <2>2, <3>1, <3>2
  <2> QED
    BY <2>4, <2>5
<1>7. CASE Accrue(r)
  <2>1. s.pc = "accrue" /\ s.next \in 1..Len(s.pool)
    BY <1>1, <1>2, <1>7 DEF Accrue, ScanOK
  <2>2. PICK o \in Objects, w \in Weight, c \in Int :
          /\ o = s.pool[s.next].object /\ w = s.pool[s.next].weight /\ c = s.reg + w
          /\ heap'[o].currentWeight = c /\ \A p \in Objects : p # o => Held(p)' = Held(p)
          /\ t.pc = "scan" /\ t.pool = s.pool /\ t.total = s.total + w
          /\ t.best = s.next \/ (t.best = s.best /\ ~Beats(s, c))
    BY <1>1, <1>2, <1>7, <2>1, AccrueEffect
  <2>3. Held(o) = s.reg /\ Credits = s.total /\ o \in 1..used
    BY <1>1, <2>1, <2>2 DEF Given
  <2>4. Credits' = Credits - Held(o) + c
    BY <1>1, <2>2, CreditsMove DEF Held
  <2>5. Credits' = t.total
    <3>1. w \in Int /\ c = s.reg + w /\ t.total = s.total + w
      BY <2>2
    <3>2. s.total \in Int /\ s.reg \in Int
      BY <1>2
    <3> HIDE DEF s, t
    <3> QED
      BY <2>3, <2>4, <3>1, <3>2
  <2>6. t.best # 0
    BY <2>1, <2>2 DEF Beats
  <2>7. ~Resting(r)'
    BY <2>2 DEF Resting
  <2>8. Given(r)'
    BY <1>1, <2>2, <2>5, <2>6 DEF Given
  <2>9. \A p \in Objects : p > used => p # o
    BY <1>2, <2>3
  <2> QED
    BY <1>1, <2>2, <2>7, <2>8, <2>9
<1>8. CASE Charge(r)
  <2>1. s.pc = "charge" /\ s.best \in 1..Len(s.pool)
    <3>1. s.pc = "charge"
      BY <1>8 DEF Charge
    <3>2. s.best # 0 /\ s.best < s.next /\ s.next \in 1..(Len(s.pool) + 1)
      BY <1>1, <3>1 DEF ScanOK
    <3> HIDE DEF s
    <3> QED
      BY <1>2, <3>1, <3>2
  <2>2. PICK o \in Objects, c \in Int :
          /\ o = s.pool[s.best].object /\ c = s.reg - s.total /\ t.pc = "chosen"
          /\ heap'[o].currentWeight = c /\ \A p \in Objects : p # o => Held(p)' = Held(p)
    BY <1>1, <1>8, <2>1, ChargeEffect
  <2>3. Held(o) = s.reg /\ Credits = s.total /\ o \in 1..used
    BY <1>1, <2>1, <2>2 DEF Given
  <2>4. Credits' = Credits - Held(o) + c
    BY <1>1, <2>2, CreditsMove DEF Held
  <2>5. Credits' = 0 /\ Resting(r)'
    BY <1>2, <2>2, <2>3, <2>4 DEF Resting
  <2>6. \A p \in Objects : p > used => p # o
    BY <1>2, <2>3
  <2> QED
    BY <1>1, <2>2, <2>5, <2>6
<1> QED
  BY <1>5, <1>6, <1>7, <1>8 DEF SelectStep

\* At the start every object holds zero.
LEMMA ConservedAtStart == Init => ConservedInv
<1> SUFFICES ASSUME Init PROVE ConservedInv
  OBVIOUS
<1>1. \A o \in Objects : Held(o) = 0
  BY DEF Init, Held, NewBackend, Blank
<1>2. IsFiniteSet(Objects)
  <2>1. 1 \in Int /\ MaxObjects \in Int
    BY RoutingAssumption
  <2>2. IsFiniteSet(1..MaxObjects)
    BY <2>1, FS_Interval
  <2> QED
    BY <2>2
<1>3. Credits = 0
  <2> DEFINE f == [o \in Objects |-> Held(o)]
  <2>1. \A o \in Objects : f[o] = 0
    BY <1>1
  <2> HIDE DEF f, Objects
  <2>2. SumFunctionOnSet(f, Objects) = 0
    BY <1>2, <2>1, SumOfZeros
  <2> QED
    BY <2>2 DEF Credits, f
<1>4. \A r \in Requests : Resting(r)
  BY DEF Init, Idle, Locals, Resting
<1> QED
  BY <1>1, <1>3, <1>4 DEF ConservedInv

\* The invariant of the sum holds as long as selections do not overlap.
LEMMA ConservedAlways == Spec /\ []Serial => []ConservedInv
<1>1. Inv /\ ConservedInv /\ Serial /\ Serial' /\ [Next]_vars => ConservedInv'
  <2> SUFFICES ASSUME Inv, ConservedInv, Serial, Serial', [Next]_vars PROVE ConservedInv'
    OBVIOUS
  <2>1. CASE AdminStep \/ CheckerStep \/ (\E u \in URLs : Flip(u)) \/ UNCHANGED vars
    BY <2>1, OthersConserve
  <2>2. CASE \E r \in Requests : RequestStep(r)
    BY <2>2, BuildPoolConserves, SelectConserves DEF RequestStep, SelectStep
  <2> QED
    BY <2>1, <2>2 DEF Next
<1> QED
  BY <1>1, ConservedAtStart, Invariance, PTL DEF Spec

\* As long as selections do not overlap, the credits the backends hold sum to zero
\* whenever none is under way, for any number of goroutines, any mix of models and
\* whatever the health checker and the administrators do meanwhile.
THEOREM CreditsConserved == Spec /\ []Serial => []WeightsConserved
<1>1. ConservedInv => WeightsConserved
  BY DEF ConservedInv, WeightsConserved, SumFunction, Credits, Held
<1> QED
  BY <1>1, ConservedAlways, PTL

-----------------------------------------------------------------------------
(* The arithmetic of smooth weighted round-robin: what slot i is behind its*)
(* share after T turns, P[i] of them its own.                              *)

\* The lags add up to what their formula says of the sums.
LEMMA LagsAddUp ==
  ASSUME NEW S, IsFiniteSet(S), NEW W, NEW P, NEW L, NEW tot \in Int, NEW T \in Int,
         \A i \in S : W[i] \in Int /\ P[i] \in Int /\ L[i] = T * W[i] - tot * P[i]
  PROVE  SumFunctionOnSet(L, S) = T * SumFunctionOnSet(W, S) - tot * SumFunctionOnSet(P, S)
<1>1. PICK b \in Int : b = -tot
  OBVIOUS
<1>2. \A x, y, z, u \in Int : x * y \in Int /\ x * y - z * u = x * y + (-z) * u
  OBVIOUS
<1>3. ASSUME NEW i \in S
      PROVE  W[i] \in Int /\ P[i] \in Int /\ L[i] = T * W[i] + b * P[i] /\ L[i] \in Int
  <2>1. W[i] \in Int /\ P[i] \in Int /\ L[i] = T * W[i] - tot * P[i]
    OBVIOUS
  <2>2. T * W[i] - tot * P[i] = T * W[i] + b * P[i] /\ T * W[i] \in Int /\ tot * P[i] \in Int
    BY <1>1, <1>2, <2>1
  <2> QED
    BY <2>1, <2>2
<1>4. SumFunctionOnSet(L, S) = T * SumFunctionOnSet(W, S) + b * SumFunctionOnSet(P, S)
  BY <1>3, SumLinear
<1>5. SumFunctionOnSet(W, S) \in Int /\ SumFunctionOnSet(P, S) \in Int
  BY <1>3, SumSplit
<1> QED
  BY <1>1, <1>2, <1>3, <1>4, <1>5

\* The slot that is richest after every slot has earned its weight is not poor:
\* when it pays the total it stays less than a turn ahead.
LEMMA RichestCanPay ==
  ASSUME NEW S, IsFiniteSet(S), NEW W, NEW L, NEW tot \in Int, tot > 0,
         \A i \in S : W[i] \in Int /\ W[i] > 0 /\ L[i] \in Int /\ L[i] > -tot,
         tot = SumFunctionOnSet(W, S), SumFunctionOnSet(L, S) = 0,
         NEW s \in S, \A i \in S : L[i] + W[i] <= L[s] + W[s]
  PROVE  /\ L[s] + W[s] - tot > -tot
         /\ \A i \in S : L[i] + W[i] > -tot
<1> DEFINE R == [i \in S |-> L[i] + W[i]]
<1>1. \A i \in S : L[i] \in Int /\ W[i] \in Int /\ R[i] = L[i] + W[i] /\ R[i] \in Int
  OBVIOUS
<1> HIDE DEF R
<1>2. SumFunctionOnSet(R, S) = SumFunctionOnSet(L, S) + SumFunctionOnSet(W, S)
  BY <1>1, SumAdds
<1>3. SumFunctionOnSet(R, S) > 0
  BY <1>2
<1>4. PICK i \in S : R[i] > 0
  BY <1>1, <1>3, SumPositive
<1>5. L[i] + W[i] > 0
  BY <1>4 DEF R
<1>6. /\ L[s] \in Int /\ W[s] \in Int /\ L[i] \in Int /\ W[i] \in Int
      /\ L[i] + W[i] <= L[s] + W[s]
  OBVIOUS
<1>7. L[s] + W[s] - tot > -tot
  BY <1>5, <1>6
<1>8. ASSUME NEW j \in S PROVE L[j] + W[j] > -tot
  <2>1. L[j] \in Int /\ W[j] \in Int /\ W[j] > 0 /\ L[j] > -tot
    OBVIOUS
  <2> QED
    BY <2>1
<1> QED
  BY <1>7, <1>8

\* No slot is further behind than all the others can be ahead.
LEMMA BehindByTheRest ==
  ASSUME NEW S, IsFiniteSet(S), NEW K \in Nat, Cardinality(S) = K, NEW L, NEW tot \in Int,
         \A i \in S : L[i] \in Int /\ L[i] > -tot,
         SumFunctionOnSet(L, S) = 0, NEW s \in S
  PROVE  L[s] <= (K - 1) * (tot - 1)
<1> DEFINE C == [i \in S |-> tot - 1]
           G == [i \in S |-> L[i] + (tot - 1)]
<1>1. PICK c \in Int : c = tot - 1
  OBVIOUS
<1>2. \A i \in S : /\ L[i] \in Int /\ C[i] \in Int /\ C[i] = c
                   /\ G[i] = L[i] + C[i] /\ G[i] \in Int /\ G[i] >= 0
  BY <1>1
<1>3. G[s] = L[s] + c /\ L[s] \in Int
  BY <1>1
<1> HIDE DEF C, G
<1>4. SumFunctionOnSet(C, S) = K * c
  BY <1>2, SumOfEquals
<1>5. SumFunctionOnSet(G, S) = SumFunctionOnSet(L, S) + SumFunctionOnSet(C, S)
  BY <1>2, SumAdds
<1>6. G[s] <= SumFunctionOnSet(G, S)
  BY <1>2, SumBoundsElement
<1>7. K * c \in Int /\ (K - 1) * c = K * c - c
  OBVIOUS
<1>8. SumFunctionOnSet(G, S) = K * c
  BY <1>4, <1>5, <1>7
<1> QED
  BY <1>1, <1>3, <1>6, <1>7, <1>8

\* After T selections with total weight tot, a full number of cycles, L[i] is what slot
\* i of S is behind its share, and no slot is a whole turn ahead.
Lagging(S, W, P, L, tot, T) ==
  /\ tot \in Int /\ tot > 0 /\ T \in Nat /\ T % tot = 0
  /\ \A i \in S : /\ W[i] \in Int /\ P[i] \in Int /\ L[i] \in Int
                  /\ L[i] = T * W[i] - tot * P[i] /\ L[i] > -tot

\* After full cycles nobody is ahead or behind.
LEMMA CyclesAreFair ==
  ASSUME NEW S, IsFiniteSet(S), NEW W, NEW P, NEW L, NEW tot, NEW T,
         Lagging(S, W, P, L, tot, T), SumFunctionOnSet(L, S) = 0
  PROVE  \A i \in S : L[i] = 0
<1>0. /\ tot \in Int /\ tot > 0 /\ T \in Nat /\ T % tot = 0
      /\ \A i \in S : /\ W[i] \in Int /\ P[i] \in Int /\ L[i] \in Int
                      /\ L[i] = T * W[i] - tot * P[i] /\ L[i] > -tot
  BY DEF Lagging
<1>1. PICK q \in Int : T = q * tot
  <2>1. T \div tot \in Int /\ T = (T \div tot) * tot
    BY <1>0
  <2> QED
    BY <2>1
<1>2. \A x \in Int : x * tot > -tot => x * tot >= 0
  <2> TAKE x \in Int
  <2>1. CASE x >= 0
    <3>1. x * tot >= 0
      BY <1>0, <2>1
    <3> QED
      BY <3>1
  <2>2. CASE x <= -1
    <3>1. x * tot <= -tot
      BY <1>0, <2>2
    <3>2. x * tot \in Int
      BY <1>0
    <3> QED
      BY <1>0, <3>1, <3>2
  <2> QED
    BY <2>1, <2>2
<1>3. \A x, y, z, u \in Int : (x * u) * y - u * z = (x * y - z) * u /\ x * y - z \in Int
  OBVIOUS
<1>4. ASSUME NEW i \in S PROVE L[i] >= 0
  <2>1. W[i] \in Int /\ P[i] \in Int /\ L[i] = T * W[i] - tot * P[i] /\ L[i] > -tot
    BY <1>0
  <2> DEFINE w == W[i]
             p == P[i]
  <2>2. /\ (q * tot) * w - tot * p = (q * w - p) * tot
        /\ q * w - p \in Int
    <3>1. q \in Int /\ w \in Int /\ p \in Int /\ tot \in Int
      BY <1>0, <1>1, <2>1
    <3> QED
      BY <1>3, <3>1
  <2>3. L[i] = (q * W[i] - P[i]) * tot
    BY <1>1, <2>1, <2>2
  <2> QED
    BY <1>2, <2>1, <2>2, <2>3
<1>5. \A i \in S : L[i] \in Int /\ L[i] >= 0
  BY <1>0, <1>4
<1> QED
  BY <1>5, SumZero
-----------------------------------------------------------------------------
(* The share of a model's backends.  The hypotheses: the models share no   *)
(* backend, selections are made one at a time, nothing is reconfigured and *)
(* every backend stays eligible.                                           *)

Slots(m) == 1..Len(Refs[m])
Name(m, i) == Refs[m][i].backend
Object(m, i) == byName[Name(m, i)]

\* The catalog names backends of the configuration, and no two models the same one;
\* no request goes without a model.
Separate ==
  /\ IsFiniteSet(Names) /\ NoModel \notin Models
  /\ \A m \in Models : \A i \in Slots(m) :
       \E o \in 1..Len(StartBackends) : StartBackends[o].name = Name(m, i)
  /\ \A k, m \in Models : \A i \in Slots(k) : \A j \in Slots(m) : Name(k, i) = Name(m, j) => k = m

\* No administrator has changed anything and no backend is out of rotation.
Undisturbed == adminOps = 0 /\ \A o \in 1..used : Eligible(heap[o])

SlotWeights(m) == [i \in Slots(m) |-> SlotWeight(m, i)]
SlotPicks(m) == [i \in Slots(m) |-> picks[m][Name(m, i)]]

\* What slot i of model m is behind its share, and the slots it has left unnamed.
Lag(m, i) == Turns(m) * SlotWeight(m, i) - TotalWeight(m) * picks[m][Name(m, i)]
Unnamed(m, n) == \A i \in Slots(m) : Name(m, i) # n

\* The slots of a model are finitely many, and name different backends.
LEMMA SlotsTyped ==
  ASSUME Separate, NEW m \in Models
  PROVE  /\ m \in Models \ {NoModel}
         /\ Len(Refs[m]) \in Nat /\ IsFiniteSet(Slots(m)) /\ Cardinality(Slots(m)) = Len(Refs[m])
         /\ \A i \in Slots(m) : Name(m, i) \in Names /\ SlotWeight(m, i) \in Nat \ {0}
         /\ \A i, j \in Slots(m) : Name(m, i) = Name(m, j) => i = j
<1>1. m \in Models \ {NoModel}
  BY DEF Separate
<1>2. Refs[m] \in Seq(Ref) /\ Len(Refs[m]) \in Nat
  BY <1>1, RoutingAssumption
<1>3. \A i \in Slots(m) : Refs[m][i] \in Ref
  BY <1>2, ElementOfSeq DEF Slots
<1>4. 1 \in Int /\ Len(Refs[m]) \in Int
  BY <1>2
<1>5. IsFiniteSet(Slots(m)) /\ Cardinality(Slots(m)) = Len(Refs[m])
  BY <1>2, <1>4, FS_Interval DEF Slots
<1>6. \A i \in Slots(m) : Name(m, i) \in Names /\ Refs[m][i].weight \in Int
  BY <1>3 DEF Ref, Name
<1>7. \A i \in Slots(m) : SlotWeight(m, i) \in Nat \ {0}
  BY <1>6, NewBackends DEF SlotWeight
<1>8. \A i, j \in Slots(m) : Name(m, i) = Name(m, j) => i = j
  BY <1>1, RoutingAssumption DEF Slots, Name
<1> QED
  BY <1>1, <1>2, <1>5, <1>6, <1>7, <1>8

\* The weight of a name is its slot's.
LEMMA WeightOfName ==
  ASSUME Separate, NEW m \in Models
  PROVE  /\ \A i \in Slots(m) : WeightIn(m, Name(m, i)) = SlotWeight(m, i)
         /\ \A n \in Names : Unnamed(m, n) => WeightIn(m, n) = 0
<1>1. ASSUME NEW i \in Slots(m)
      PROVE  WeightIn(m, Name(m, i)) = SlotWeight(m, i)
  <2> DEFINE I == {j \in 1..Len(Refs[m]) : Refs[m][j].backend = Name(m, i)}
             f == [j \in I |-> ClampWeight(Refs[m][j].weight)]
  <2>1. I = {i}
    BY SlotsTyped DEF Name, Slots
  <2>2. f[i] = SlotWeight(m, i) /\ SlotWeight(m, i) \in Int
    BY <2>1, SlotsTyped DEF SlotWeight
  <2>3. WeightIn(m, Name(m, i)) = SumFunctionOnSet(f, I)
    BY DEF WeightIn
  <2> HIDE DEF f, I
  <2>4. IsFiniteSet({i}) /\ {i} \ {i} = {} /\ \A j \in {i} : f[j] \in Int
    BY <2>2, FS_Singleton
  <2>5. SumFunctionOnSet(f, {i}) = f[i] + SumFunctionOnSet(f, {i} \ {i})
    BY <2>4, SumSplit
  <2>6. SumFunctionOnSet(f, {i} \ {i}) = 0
    BY <2>4, SumOfNone
  <2> QED
    BY <2>1, <2>2, <2>3, <2>5, <2>6
<1>2. ASSUME NEW n \in Names, Unnamed(m, n)
      PROVE  WeightIn(m, n) = 0
  <2> DEFINE I == {j \in 1..Len(Refs[m]) : Refs[m][j].backend = n}
             f == [j \in I |-> ClampWeight(Refs[m][j].weight)]
  <2>1. I = {}
    BY <1>2 DEF Unnamed, Name, Slots
  <2>2. WeightIn(m, n) = SumFunctionOnSet(f, I)
    BY DEF WeightIn
  <2> HIDE DEF f, I
  <2> QED
    BY <2>1, <2>2, SumOfNone
<1> QED
  BY <1>1, <1>2

\* The total is the sum of the slots' weights, and positive if there is a slot.
LEMMA TotalOfSlots ==
  ASSUME Separate, NEW m \in Models
  PROVE  /\ TotalWeight(m) = SumFunctionOnSet(SlotWeights(m), Slots(m))
         /\ TotalWeight(m) \in Int
         /\ \A i \in Slots(m) : TotalWeight(m) > 0
<1> DEFINE I == Slots(m)
           f == SlotWeights(m)
           p == [i \in I |-> Name(m, i)]
           g == [n \in Names |-> WeightIn(m, n)]
<1>1. /\ IsFiniteSet(I) /\ IsFiniteSet(Names) /\ p \in [I -> Names]
      /\ \A i, j \in I : p[i] = p[j] => i = j
      /\ \A i \in I : f[i] \in Int /\ f[i] > 0
  BY SlotsTyped DEF Separate, SlotWeights
<1>2. \A i \in I : g[p[i]] = f[i]
  BY <1>1, WeightOfName DEF SlotWeights
<1>3. \A n \in Names : (\A i \in I : p[i] # n) => g[n] = 0
  BY WeightOfName DEF Unnamed
<1>4. TotalWeight(m) = SumFunctionOnSet(g, Names)
  BY DEF TotalWeight, SumFunction
<1> HIDE DEF I, f, p, g
<1>5. SumFunctionOnSet(g, Names) = SumFunctionOnSet(f, I)
  BY <1>1, <1>2, <1>3, SumByNumber
<1>6. ASSUME NEW i \in I PROVE SumFunctionOnSet(f, I) > 0
  <2>1. \A x \in I : f[x] \in Int /\ f[x] >= 0
    BY <1>1
  <2>2. f[i] <= SumFunctionOnSet(f, I)
    BY <1>1, <2>1, SumBoundsElement
  <2>3. SumFunctionOnSet(f, I) \in Int /\ f[i] \in Int /\ f[i] > 0
    BY <1>1, SumSplit
  <2> QED
    BY <2>2, <2>3
<1>7. SumFunctionOnSet(f, I) \in Int
  BY <1>1, SumSplit
<1> QED
  BY <1>4, <1>5, <1>6, <1>7 DEF I, f

\* The turns are the sum of the slots' picks, if no other name was ever picked.
LEMMA TurnsOfSlots ==
  ASSUME Separate, TypeOK, NEW m \in Models, \A n \in Names : Unnamed(m, n) => picks[m][n] = 0
  PROVE  /\ Turns(m) = SumFunctionOnSet(SlotPicks(m), Slots(m))
         /\ Turns(m) \in Nat
         /\ \A i \in Slots(m) : picks[m][Name(m, i)] \in Nat
<1> DEFINE I == Slots(m)
           f == SlotPicks(m)
           p == [i \in I |-> Name(m, i)]
           g == picks[m]
<1>1. /\ IsFiniteSet(I) /\ IsFiniteSet(Names) /\ p \in [I -> Names]
      /\ \A i, j \in I : p[i] = p[j] => i = j
  BY SlotsTyped DEF Separate
<1>2. g \in [Names -> Nat]
  BY DEF TypeOK
<1>3. \A i \in I : f[i] \in Int /\ g[p[i]] = f[i] /\ g[Name(m, i)] \in Nat
  BY <1>1, <1>2 DEF SlotPicks
<1>4. \A n \in Names : (\A i \in I : p[i] # n) => g[n] = 0
  BY DEF Unnamed
<1>5. Turns(m) = SumFunctionOnSet(g, Names)
  BY <1>2 DEF Turns, SumFunction
<1>6. ASSUME NEW n \in Names PROVE g[n] \in Int /\ g[n] >= 0
  <2>1. g[n] \in Nat
    BY <1>2
  <2> QED
    BY <2>1
<1> HIDE DEF I, f, p, g
<1>7. SumFunctionOnSet(g, Names) = SumFunctionOnSet(f, I)
  BY <1>1, <1>3, <1>4, SumByNumber
<1>8. SumFunctionOnSet(g, Names) \in Int /\ SumFunctionOnSet(g, Names) >= 0
  BY <1>1, <1>6, SumNonNegative
<1> QED
  BY <1>3, <1>5, <1>7, <1>8 DEF I, f, g

\* What a selection under way knows: its pool is the model's, it has added up the
\* weights of the slots behind it, and keeps the richest of them, the first if
\* several are.
Round(r) ==
  LET s == sel[r]
      m == s.model
  IN  /\ m \in Models
      /\ Len(s.pool) = Len(Refs[m])
      /\ \A i \in Slots(m) : s.pool[i].object = Object(m, i) /\ s.pool[i].weight = SlotWeight(m, i)
      /\ s.pc = "charge" => s.next = Len(s.pool) + 1
      /\ s.total = SumFunctionOnSet(SlotWeights(m), 1..(s.next - 1))
      /\ s.best = 0 => s.next = 1
      /\ s.best # 0 =>
           /\ s.bestWeight = Held(Object(m, s.best))
           /\ \A i \in 1..(s.next - 1) : Held(Object(m, i)) <= s.bestWeight
           /\ \A i \in 1..(s.best - 1) : Held(Object(m, i)) < s.bestWeight

\* The objects of the models exist, only their own names are picked, the credit of
\* a slot is what it is behind its share, and no slot is a whole turn ahead.
SlotsCreated == \A m \in Models : \A i \in Slots(m) : Object(m, i) \in 1..used
OthersUnpicked == \A m \in Models : \A n \in Names : Unnamed(m, n) => picks[m][n] = 0
CreditIsLag == \A m \in Models : \A i \in Slots(m) : Credit(m, i) = Lag(m, i)
NoTurnAhead == \A m \in Models : \A i \in Slots(m) : Lag(m, i) > -TotalWeight(m)
Rounds == \A r \in Requests : ~Resting(r) => Round(r)

FairInv == SlotsCreated /\ OthersUnpicked /\ CreditIsLag /\ NoTurnAhead /\ Rounds

\* All that is known in a state, and what is assumed of it.
Known == Inv /\ ConservedInv /\ FairInv
Calm == Separate /\ Serial /\ Undisturbed

\* A step that is not a pick: nobody's share moves.
Standstill ==
  /\ byName' = byName /\ picks' = picks /\ used' \in Nat /\ used <= used'
  /\ \A m \in Models : \A i \in Slots(m) : Credit(m, i)' = Credit(m, i)

\* Different slots are different objects, each with the slot's name.
LEMMA SlotsApart ==
  ASSUME Separate, Inv, SlotsCreated
  PROVE  /\ \A m \in Models : \A i \in Slots(m) :
              Object(m, i) \in Objects /\ heap[Object(m, i)].name = Name(m, i)
         /\ \A k, m \in Models : \A i \in Slots(k) : \A j \in Slots(m) :
              Object(k, i) = Object(m, j) => k = m /\ i = j
<1>1. used \in 0..MaxObjects /\ MaxObjects \in Nat /\ RegistryConsistent
  BY RoutingAssumption DEF Inv, TypeOK
<1>2. ASSUME NEW m \in Models, NEW i \in Slots(m)
      PROVE  Object(m, i) \in Objects /\ heap[Object(m, i)].name = Name(m, i) /\ Name(m, i) \in Names
  <2>1. Object(m, i) \in 1..used
    BY DEF SlotsCreated
  <2>2. Object(m, i) \in Objects /\ Object(m, i) # Nil
    BY <1>1, <2>1
  <2>3. Name(m, i) \in Names
    BY SlotsTyped
  <2> QED
    BY <1>1, <2>2, <2>3 DEF RegistryConsistent, Object
<1>3. ASSUME NEW k \in Models, NEW m \in Models, NEW i \in Slots(k), NEW j \in Slots(m),
             Object(k, i) = Object(m, j)
      PROVE  k = m /\ i = j
  <2>1. Name(k, i) = Name(m, j)
    BY <1>2, <1>3
  <2>2. k = m
    BY <2>1 DEF Separate
  <2> QED
    BY <2>1, <2>2, SlotsTyped
<1> QED
  BY <1>2, <1>3

\* When one selection only can be under way, its locals say who has earned.
LEMMA OneEarns ==
  ASSUME NEW f, NEW r \in Requests, NEW m, NEW i,
         \A q \in Requests : q # r => f[q].pc \in {"idle", "chosen", "rejected", "failed"}
  PROVE  (\E q \in Requests : /\ f[q].model = m
                              /\ f[q].pc \in Busy
                              /\ i < f[q].next)
           <=> (f[r].model = m /\ f[r].pc \in Busy /\ i < f[r].next)
<1>1. \A q \in Requests : q # r => f[q].pc \notin Busy
  BY DEF Busy
<1> QED
  BY <1>1

\* Without selections nobody has.
LEMMA NobodyEarns ==
  ASSUME NEW f, NEW m, NEW i,
         \A q \in Requests : f[q].pc \in {"idle", "chosen", "rejected", "failed"}
  PROVE  ~\E q \in Requests : /\ f[q].model = m
                              /\ f[q].pc \in Busy
                              /\ i < f[q].next
<1>1. \A q \in Requests : f[q].pc \notin Busy
  BY DEF Busy
<1> QED
  BY <1>1

\* A round whose locals stay goes on, if the weights stay.
LEMMA RoundKept ==
  ASSUME Separate, Inv, SlotsCreated, NEW r \in Requests, Round(r), sel'[r] = sel[r], byName' = byName,
         \A o \in Objects : Held(o)' = Held(o)
  PROVE  Round(r)'
<1> DEFINE s == sel[r]
           m == sel[r].model
<1>1. /\ m \in Models /\ Len(s.pool) = Len(Refs[m]) /\ s.next \in Nat /\ s.best \in Nat
      /\ s.next - 1 <= Len(s.pool) /\ s.best < s.next /\ TypeOK
  BY SelectionTypes DEF Round, Inv, ScanOK
<1>2. \A i \in Slots(m) : Object(m, i) \in Objects
  BY <1>1, SlotsApart
<1>3. \A i \in Slots(m) : Object(m, i)' = Object(m, i) /\ Held(Object(m, i))' = Held(Object(m, i))
  BY <1>2 DEF Object, Held
<1>4. Len(Refs[m]) \in Nat
  BY <1>1, SlotsTyped
<1>5. \A i \in 1..(s.next - 1) : i \in Slots(m)
  BY <1>1, <1>4 DEF Slots
<1>6. s.best # 0 => s.best \in Slots(m) /\ \A i \in 1..(s.best - 1) : i \in Slots(m)
  BY <1>1, <1>4 DEF Slots
<1> QED
  BY <1>3, <1>5, <1>6 DEF Round

\* The steps of the checker and the network.
LEMMA QuietStep ==
  ASSUME Known, Calm, Undisturbed', AdminStep \/ CheckerStep \/ (\E u \in URLs : Flip(u)) \/ UNCHANGED vars
  PROVE  Standstill /\ Rounds'
<1>1. /\ Inv /\ ConservedInv /\ FairInv /\ Separate /\ TypeOK /\ adminOps = 0 /\ adminOps' = 0
  BY DEF Known, Calm, Undisturbed, Inv
<1>2. ~AdminStep
  BY <1>1 DEF AdminStep, UpsertBackend, RemoveBackend, SetBackendEnabled
<1>3. byName' = byName /\ picks' = picks
  BY <1>2 DEF CheckerStep, StartCycle, Probe, ApplyHealth, ApplyWeight, Flip, managerVars, vars
<1>4. /\ sel' = sel /\ used' \in Nat /\ used <= used'
      /\ \A o \in Objects : Held(o)' = Held(o)
  BY <1>1, OthersHold DEF ConservedInv
<1>5. ASSUME NEW m \in Models, NEW i \in Slots(m)
      PROVE  Credit(m, i)' = Credit(m, i)
  <2>1. Object(m, i) \in Objects
    BY <1>1, SlotsApart DEF FairInv
  <2>2. heap'[byName'[Refs[m][i].backend]].currentWeight = heap[byName[Refs[m][i].backend]].currentWeight
    BY <1>3, <1>4, <2>1 DEF Held, Object, Name
  <2>3. Earned(m, i)' = Earned(m, i)
    BY <1>4 DEF Earned
  <2> QED
    BY <2>2, <2>3 DEF Credit
<1>6. ASSUME NEW r \in Requests, ~Resting(r)' PROVE Round(r)'
  <2>1. Round(r)
    BY <1>1, <1>4, <1>6 DEF Resting, FairInv, Rounds
  <2> QED
    BY <1>1, <1>3, <1>4, <2>1, RoundKept DEF FairInv
<1> QED
  BY <1>3, <1>4, <1>5, <1>6 DEF Standstill, Rounds

\* A selection starts: nobody has earned, before and after.
LEMMA StartStep ==
  ASSUME Known, Calm, Serial', NEW r \in Requests, NEW j \in Models, BuildPool(r, j)
  PROVE  Standstill /\ Rounds'
<1>1. /\ Inv /\ FairInv /\ Separate /\ TypeOK /\ Resting(r)
      /\ heap' = heap /\ byName' = byName /\ picks' = picks /\ used' = used /\ used \in Nat
      /\ sel \in [Requests -> SelState]
  BY RoutingAssumption DEF Known, Calm, Inv, TypeOK, BuildPool, managerVars
<1>2. j # NoModel /\ ~UnknownBackend(j)
  <2>1. j # NoModel
    BY <1>1 DEF Separate
  <2>2. \A i \in Slots(j) : Object(j, i) # Nil
    BY <1>1 DEF FairInv, SlotsCreated
  <2> QED
    BY <2>1, <2>2 DEF UnknownBackend, Object, Name, Slots
<1>3. sel'[r] = Locals("scan", j, RefEntries(j)) /\ \A q \in Requests : q # r => sel'[q] = sel[q]
  BY <1>1, <1>2 DEF BuildPool, Entries
<1>4. ~Resting(r)'
  BY <1>3 DEF Resting, Locals
<1>5. \A q \in Requests : q # r => Resting(q)' /\ Resting(q)
  BY <1>3, <1>4 DEF Serial, Resting
<1>6. ASSUME NEW m \in Models, NEW i \in Slots(m)
      PROVE  Credit(m, i)' = Credit(m, i)
  <2>1. ~Earned(m, i)
    BY <1>1, <1>5, NobodyEarns DEF Earned, Resting
  <2>2. sel'[r].next = 1 /\ i >= 1 /\ i \in Int
    BY <1>1, <1>3, SlotsTyped DEF Locals, Slots
  <2>3. \A q \in Requests : q # r => sel'[q].pc \in {"idle", "chosen", "rejected", "failed"}
    BY <1>5 DEF Resting
  <2>4. ~Earned(m, i)'
    BY <2>2, <2>3, OneEarns DEF Earned
  <2> QED
    BY <1>1, <2>1, <2>4 DEF Credit
<1>7. Round(r)'
  <2>1. /\ sel'[r].pc = "scan" /\ sel'[r].model = j /\ sel'[r].next = 1 /\ sel'[r].best = 0
        /\ sel'[r].total = 0 /\ sel'[r].pool = RefEntries(j)
    BY <1>3 DEF Locals
  <2>2. Len(Refs[j]) \in Nat
    BY <1>1, SlotsTyped
  <2>3. /\ Len(RefEntries(j)) = Len(Refs[j])
        /\ \A i \in Slots(j) : /\ RefEntries(j)[i].object = Object(j, i)
                               /\ RefEntries(j)[i].weight = SlotWeight(j, i)
    BY <2>2 DEF RefEntries, Slots, Object, Name, SlotWeight
  <2>4. \A i \in Slots(j) : Object(j, i)' = Object(j, i)
    BY <1>1 DEF Object
  <2>5. SumFunctionOnSet(SlotWeights(j), 1..(1 - 1)) = 0
    <3>1. 1..(1 - 1) = {}
      OBVIOUS
    <3> QED
      BY <3>1, SumOfNone
  <2> QED
    BY <2>1, <2>3, <2>4, <2>5 DEF Round
<1>8. \A q \in Requests : ~Resting(q)' => q = r
  BY <1>5
<1> QED
  BY <1>1, <1>6, <1>7, <1>8 DEF Standstill, Rounds

\* What is known of a selection that takes a step.
LEMMA RoundTyped ==
  ASSUME Known, Calm, NEW r \in Requests, ~Resting(r)
  PROVE  LET s == sel[r]
             m == s.model
         IN  /\ Inv /\ TypeOK /\ Separate /\ SlotsCreated /\ ScanOK(r) /\ Given(r) /\ Round(r)
             /\ m \in Models /\ Len(s.pool) = Len(Refs[m]) /\ Len(s.pool) \in Nat
             /\ s.next \in 1..(Len(s.pool) + 1) /\ s.best \in 0..(s.next - 1)
             /\ s.total \in Nat /\ s.reg \in Int /\ s.bestWeight \in Int
             /\ \A i \in 1..Len(s.pool) :
                  /\ i \in Slots(m) /\ Object(m, i) \in Objects
                  /\ s.pool[i].object = Object(m, i) /\ s.pool[i].weight = SlotWeight(m, i)
                  /\ SlotWeight(m, i) \in Nat \ {0} /\ Eligible(heap[Object(m, i)])
<1> DEFINE s == sel[r]
           m == sel[r].model
<1>1. Inv /\ TypeOK /\ Separate /\ SlotsCreated /\ ScanOK(r) /\ Given(r) /\ Round(r)
  BY DEF Known, Calm, Inv, ConservedInv, FairInv, Rounds
<1>2. m \in Models /\ Len(s.pool) = Len(Refs[m])
  BY <1>1 DEF Round
<1>3. Len(s.pool) \in Nat /\ s.next \in Nat /\ s.best \in Nat /\ s.total \in Nat
      /\ s.reg \in Int /\ s.bestWeight \in Int
  BY <1>1, LocalsTyped
<1>4. s.next \in 1..(Len(s.pool) + 1) /\ s.best < s.next
  BY <1>1 DEF ScanOK
<1>5. s.best \in 0..(s.next - 1)
  BY <1>3, <1>4
<1>6. ASSUME NEW i \in 1..Len(s.pool)
      PROVE  /\ i \in Slots(m) /\ Object(m, i) \in Objects
             /\ s.pool[i].object = Object(m, i) /\ s.pool[i].weight = SlotWeight(m, i)
             /\ SlotWeight(m, i) \in Nat \ {0} /\ Eligible(heap[Object(m, i)])
  <2>1. i \in Slots(m)
    BY <1>2 DEF Slots
  <2>2. Object(m, i) \in Objects /\ SlotWeight(m, i) \in Nat \ {0}
    BY <1>1, <1>2, <2>1, SlotsApart, SlotsTyped
  <2>3. s.pool[i].object = Object(m, i) /\ s.pool[i].weight = SlotWeight(m, i)
    BY <1>1, <2>1 DEF Round
  <2>4. Eligible(heap[Object(m, i)])
    BY <1>1, <1>2, <2>1 DEF Calm, Undisturbed, SlotsCreated
  <2> QED
    BY <2>1, <2>2, <2>3, <2>4
<1> QED
  BY <1>1, <1>2, <1>3, <1>4, <1>5, <1>6

\* A step of a selection that leaves the weights, the picks and which slots it
\* has passed is a standstill.
LEMMA CreditsRest ==
  ASSUME Known, Calm, NEW r \in Requests, SelectStep(r), heap' = heap, picks' = picks,
         sel'[r].model = sel[r].model, sel'[r].next = sel[r].next,
         sel[r].pc \in Busy, sel'[r].pc \in Busy \/ Slots(sel[r].model) = {}
  PROVE  Standstill
<1>1. TypeOK /\ Serial /\ used \in Nat /\ sel \in [Requests -> SelState]
  BY RoutingAssumption DEF Known, Calm, Inv, TypeOK
<1>2. /\ byName' = byName /\ used' = used
      /\ \A q \in Requests : q # r => Resting(q) /\ Resting(q)'
  BY <1>1, OthersRest
<1>3. ASSUME NEW m \in Models, NEW i \in Slots(m)
      PROVE  Credit(m, i)' = Credit(m, i)
  <2>1. \A q \in Requests : q # r => /\ sel[q].pc \in {"idle", "chosen", "rejected", "failed"}
                                     /\ sel'[q].pc \in {"idle", "chosen", "rejected", "failed"}
    BY <1>2 DEF Resting
  <2>2. Earned(m, i) <=> (sel[r].model = m /\ i < sel[r].next)
    BY <2>1, OneEarns DEF Earned
  <2>3. Earned(m, i)' <=> (sel[r].model = m /\ i < sel[r].next)
    BY <2>1, OneEarns DEF Earned
  <2> QED
    BY <1>2, <2>2, <2>3 DEF Credit
<1> QED
  BY <1>1, <1>2, <1>3 DEF Standstill

\* Visiting a slot gets as far as its weight: every backend is eligible.
LEMMA VisitStep ==
  ASSUME Known, Calm, NEW r \in Requests, Visit(r)
  PROVE  Standstill /\ Rounds'
<1> DEFINE s == sel[r]
           t == sel'[r]
           m == s.model
<1>1. SelectStep(r) /\ ~Resting(r)
  BY DEF SelectStep, Visit, LoadHealthy, LoadEnabled, LoadWeight, LoadCredit, Entered, Resting
<1>2. /\ Inv /\ TypeOK /\ Separate /\ SlotsCreated /\ Round(r) /\ m \in Models
      /\ s.next \in 1..(Len(s.pool) + 1) /\ Len(s.pool) \in Nat
      /\ \A i \in 1..Len(s.pool) : s.pool[i].object = Object(m, i) /\ Eligible(heap[Object(m, i)])
  BY <1>1, RoundTyped
<1>3. /\ heap' = heap /\ picks' = picks /\ s.pc \in Busy
      /\ t.model = m /\ t.pool = s.pool /\ t.total = s.total
      /\ t.best = s.best /\ t.bestWeight = s.bestWeight
      /\ t.pc \in Busy /\ t.pc # "charge" /\ t.next = s.next
  <2>1. s.next <= Len(s.pool) => s.next \in 1..Len(s.pool)
    BY <1>2
  <2>2. s.next <= Len(s.pool) => Eligible(heap[s.pool[s.next].object])
    BY <1>2, <2>1
  <2> QED
    BY <1>2, <2>2, VisitEffect DEF Busy
<1>4. Standstill
  BY <1>1, <1>3, CreditsRest
<1>5. Round(r)'
  <2>1. byName' = byName
    BY <1>4 DEF Standstill
  <2> QED
    BY <1>2, <1>3, <2>1 DEF Round, Held, Object
<1>6. \A q \in Requests : ~Resting(q)' => q = r
  BY <1>1, <1>2, OthersRest DEF Calm
<1> QED
  BY <1>4, <1>5, <1>6 DEF Rounds

\* At the end of the slots the winner's weight is loaded; only a model without
\* slots is refused.
LEMMA EndScanStep ==
  ASSUME Known, Calm, NEW r \in Requests, EndScan(r)
  PROVE  Standstill /\ Rounds'
<1> DEFINE s == sel[r]
           t == sel'[r]
           m == s.model
<1>1. SelectStep(r) /\ ~Resting(r)
  BY DEF SelectStep, EndScan, Resting
<1>2. /\ Inv /\ TypeOK /\ Separate /\ SlotsCreated /\ Round(r) /\ m \in Models /\ ScanOK(r)
      /\ s.next \in 1..(Len(s.pool) + 1) /\ Len(s.pool) \in Nat /\ Len(s.pool) = Len(Refs[m])
      /\ s.total \in Nat /\ s.best \in 0..(s.next - 1)
  BY <1>1, RoundTyped
<1>3. /\ heap' = heap /\ picks' = picks /\ s.pc = "scan" /\ s.next > Len(s.pool)
      /\ t.model = m /\ t.pool = s.pool /\ t.next = s.next /\ t.total = s.total
      /\ t.best = s.best /\ t.bestWeight = s.bestWeight
      /\ s.best = 0 \/ s.total = 0 => t.pc = "rejected"
      /\ ~(s.best = 0 \/ s.total = 0) => t.pc = "charge"
  BY <1>2, EndScanEffect
<1>4. s.next = Len(s.pool) + 1
  BY <1>2, <1>3
<1>5. \A q \in Requests : ~Resting(q)' => q = r
  BY <1>1, <1>2, OthersRest DEF Calm
<1>6. CASE s.best = 0
  <2>1. s.next = 1
    BY <1>2, <1>6 DEF Round
  <2>2. Slots(m) = {}
    BY <1>2, <1>4, <2>1 DEF Slots
  <2>3. Resting(r)'
    BY <1>3, <1>6 DEF Resting
  <2> QED
    BY <1>1, <1>3, <1>5, <2>2, <2>3, CreditsRest DEF Rounds, Busy
<1>7. CASE s.best # 0
  <2>1. s.total > 0
    BY <1>2, <1>7 DEF ScanOK
  <2>2. t.pc = "charge"
    BY <1>2, <1>3, <1>7, <2>1
  <2>3. Standstill
    BY <1>1, <1>3, <2>2, CreditsRest DEF Busy
  <2>4. byName' = byName
    BY <2>3 DEF Standstill
  <2>5. Round(r)'
    BY <1>2, <1>3, <1>4, <2>4 DEF Round, Held, Object
  <2> QED
    BY <1>5, <2>3, <2>5 DEF Rounds
<1> QED
  BY <1>6, <1>7

\* Accruing a slot: what it earns is not its credit yet, and the best so far stays
\* the first of the richest.
LEMMA AccrueStep ==
  ASSUME Known, Calm, NEW r \in Requests, Accrue(r)
  PROVE  Standstill /\ Rounds'
<1> DEFINE s == sel[r]
           t == sel'[r]
<1>1. SelectStep(r) /\ ~Resting(r)
  BY DEF SelectStep, Accrue, Resting
<1>2. PICK m \in Models, k \in Nat, K \in Nat :
        /\ m = s.model /\ k = s.next /\ K = Len(s.pool) /\ K = Len(Refs[m])
  BY <1>1, RoundTyped
<1>3. /\ Inv /\ TypeOK /\ Separate /\ SlotsCreated /\ Round(r) /\ ScanOK(r) /\ Given(r)
      /\ s.best \in 0..(k - 1) /\ s.bestWeight \in Int /\ s.total \in Nat /\ s.reg \in Int
      /\ used \in Nat /\ s.pc = "accrue"
      /\ \A i \in 1..K : s.pool[i].object = Object(m, i) /\ s.pool[i].weight = SlotWeight(m, i)
  <2>1. /\ Inv /\ TypeOK /\ Separate /\ SlotsCreated /\ Round(r) /\ ScanOK(r) /\ Given(r)
        /\ s.best \in 0..(s.next - 1) /\ s.bestWeight \in Int /\ s.total \in Nat /\ s.reg \in Int
        /\ \A i \in 1..Len(s.pool) : /\ s.pool[i].object = Object(s.model, i)
                                    /\ s.pool[i].weight = SlotWeight(s.model, i)
    BY <1>1, RoundTyped
  <2>2. used \in Nat /\ s.pc = "accrue"
    BY <2>1, RoutingAssumption DEF TypeOK, Accrue
  <2> QED
    BY <1>2, <2>1, <2>2
<1>4. k \in 1..K /\ k \in Slots(m)
  <2>1. s.next \in 1..(Len(s.pool) + 1)
    BY <1>1, RoundTyped
  <2>2. s.next <= Len(s.pool)
    BY <1>3 DEF ScanOK
  <2> QED
    BY <1>2, <2>1, <2>2 DEF Slots
<1>5. PICK o \in Objects, w \in Nat \ {0}, c \in Int :
        /\ o = Object(m, k) /\ w = SlotWeight(m, k) /\ c = Held(o) + w
        /\ picks' = picks
        /\ heap'[o].currentWeight = c /\ \A p \in Objects : p # o => Held(p)' = Held(p)
        /\ t.pc = "scan" /\ t.model = m /\ t.pool = s.pool /\ t.next = k + 1 /\ t.total = s.total + w
        /\ Beats(s, c) => t.best = k /\ t.bestWeight = c
        /\ ~Beats(s, c) => t.best = s.best /\ t.bestWeight = s.bestWeight
  <2>1. s.next \in 1..Len(s.pool)
    BY <1>2, <1>4
  <2>2. s.pool[k].object = Object(m, k) /\ s.pool[k].weight = SlotWeight(m, k)
    BY <1>3, <1>4
  <2>3. s.reg = Held(s.pool[k].object)
    BY <1>2, <1>3 DEF Given
  <2>4. Object(m, k) \in Objects /\ SlotWeight(m, k) \in Nat \ {0}
    BY <1>3, <1>4, SlotsApart, SlotsTyped
  <2>5. Held(Object(m, k)) + SlotWeight(m, k) \in Int
    BY <1>3, <2>2, <2>3, <2>4
  <2> HIDE DEF s, t
  <2>6. PICK o \in Objects, w \in Nat \ {0}, c \in Int :
          o = Object(m, k) /\ w = SlotWeight(m, k) /\ c = Held(o) + w
    BY <2>4, <2>5
  <2>7. o = s.pool[s.next].object /\ w = s.pool[s.next].weight /\ c = s.reg + s.pool[s.next].weight
    BY <1>2, <2>2, <2>3, <2>6
  <2>8. /\ picks' = picks
        /\ heap'[o].currentWeight = c /\ \A p \in Objects : p # o => Held(p)' = Held(p)
        /\ t.pc = "scan" /\ t.model = m /\ t.pool = s.pool /\ t.next = k + 1 /\ t.total = s.total + w
        /\ Beats(s, c) => t.best = k /\ t.bestWeight = c
        /\ ~Beats(s, c) => t.best = s.best /\ t.bestWeight = s.bestWeight
    BY <1>2, <1>3, <2>1, <2>7, AccrueEffect DEF s, t
  <2> QED
    BY <2>6, <2>8
<1>6. /\ byName' = byName /\ used' = used
      /\ \A q \in Requests : q # r => Resting(q) /\ Resting(q)'
  BY <1>1, <1>3, OthersRest DEF Calm
<1>7. \A j \in Models : \A i \in Slots(j) :
        Object(j, i) \in Objects /\ (Object(j, i) = o => j = m /\ i = k)
  BY <1>3, <1>4, <1>5, SlotsApart
<1>8. /\ heap'[Object(m, k)].currentWeight = Held(Object(m, k)) + w
      /\ \A j \in Models : \A i \in Slots(j) : j # m \/ i # k =>
           heap'[Object(j, i)].currentWeight = Held(Object(j, i))
  BY <1>5, <1>7 DEF Held
<1>9. \A j \in Models : \A i \in Slots(j) : Held(Object(j, i)) \in Int
  BY <1>3, <1>7, HeldTyped
<1>10. Standstill
  <2>1. ASSUME NEW j \in Models, NEW i \in Slots(j)
        PROVE  Credit(j, i)' = Credit(j, i)
    <3>1. \A q \in Requests : q # r => /\ sel[q].pc \in {"idle", "chosen", "rejected", "failed"}
                                       /\ sel'[q].pc \in {"idle", "chosen", "rejected", "failed"}
      BY <1>6 DEF Resting
    <3>2. Earned(j, i) <=> (j = m /\ i < k)
      BY <1>2, <1>3, <3>1, OneEarns DEF Earned, Busy
    <3>3. Earned(j, i)' <=> (j = m /\ i < k + 1)
      BY <1>5, <3>1, OneEarns DEF Earned, Busy
    <3>4. i \in Int
      BY <1>3, SlotsTyped DEF Slots
    <3>5. CASE j = m /\ i = k
      <4>1. ~Earned(j, i) /\ Earned(j, i)'
        BY <3>2, <3>3, <3>5
      <4>2. Held(Object(m, k)) \in Int
        BY <1>4, <1>9
      <4>3. Credit(j, i) = Held(Object(m, k))
        BY <3>5, <4>1, <4>2 DEF Credit, Held, Object, Name
      <4>4. Credit(j, i)' = (Held(Object(m, k)) + w) - w
        BY <1>5, <1>6, <1>8, <3>5, <4>1 DEF Credit, Object, Name
      <4> QED
        BY <4>3, <4>4, <4>2
    <3>6. CASE ~(j = m /\ i = k)
      <4>1. Earned(j, i) <=> Earned(j, i)'
        BY <3>2, <3>3, <3>4, <3>6
      <4>2. heap'[Object(j, i)].currentWeight = heap[Object(j, i)].currentWeight
        BY <1>8, <3>6 DEF Held
      <4> QED
        BY <1>6, <4>1, <4>2 DEF Credit, Object, Name
    <3> QED
      BY <3>5, <3>6
  <2> QED
    BY <1>3, <1>5, <1>6, <2>1 DEF Standstill
<1>11. t.total = SumFunctionOnSet(SlotWeights(m), 1..(t.next - 1))
  <2> DEFINE f == SlotWeights(m)
  <2>1. /\ s.total = SumFunctionOnSet(f, 1..(k - 1)) /\ f[k] = w
        /\ \A i \in 1..k : f[i] \in Int
    <3>1. \A i \in Slots(m) : SlotWeight(m, i) \in Int
      BY <1>3, SlotsTyped
    <3>2. \A i \in 1..k : i \in Slots(m)
      BY <1>2, <1>4 DEF Slots
    <3> QED
      BY <1>2, <1>3, <1>4, <1>5, <3>1, <3>2 DEF Round, SlotWeights
  <2>2. IsFiniteSet(1..k) /\ (1..k) \ {k} = 1..(k - 1) /\ k \in 1..k
    <3>1. 1 \in Int /\ k \in Int
      OBVIOUS
    <3>2. IsFiniteSet(1..k)
      BY <3>1, FS_Interval
    <3> QED
      BY <1>4, <3>2
  <2> HIDE DEF f
  <2>3. SumFunctionOnSet(f, 1..k) = f[k] + SumFunctionOnSet(f, (1..k) \ {k})
    BY <2>1, <2>2, SumSplit
  <2>4. t.next - 1 = k /\ t.total = s.total + w
    BY <1>5
  <2>5. SumFunctionOnSet(f, 1..k) = f[k] + s.total
    BY <2>1, <2>2, <2>3
  <2>6. f[k] + s.total = s.total + w
    BY <1>3, <2>1
  <2> QED
    BY <2>4, <2>5, <2>6 DEF f
<1>12. /\ t.best # 0 /\ t.best \in 1..k
       /\ t.bestWeight = heap'[Object(m, t.best)].currentWeight
       /\ \A i \in 1..k : heap'[Object(m, i)].currentWeight <= t.bestWeight
       /\ \A i \in 1..(t.best - 1) : heap'[Object(m, i)].currentWeight < t.bestWeight
  <2>1. \A i \in 1..(k - 1) : /\ i \in Slots(m) /\ i # k
                              /\ heap'[Object(m, i)].currentWeight = Held(Object(m, i))
                              /\ Held(Object(m, i)) \in Int
    <3>1. \A i \in 1..(k - 1) : i \in Slots(m) /\ i # k
      BY <1>2, <1>4 DEF Slots
    <3> QED
      BY <1>8, <1>9, <3>1
  <2>2. heap'[Object(m, k)].currentWeight = c
    BY <1>5
  <2>3. s.best = 0 => k = 1
    BY <1>2, <1>3 DEF Round
  <2>4. s.best # 0 => /\ s.bestWeight = Held(Object(m, s.best))
                      /\ \A i \in 1..(k - 1) : Held(Object(m, i)) <= s.bestWeight
                      /\ \A i \in 1..(s.best - 1) : Held(Object(m, i)) < s.bestWeight
    BY <1>2, <1>3 DEF Round
  <2>5. CASE Beats(s, c)
    <3>1. t.best = k /\ t.bestWeight = c
      BY <1>5, <2>5
    <3>2. \A i \in 1..(k - 1) : heap'[Object(m, i)].currentWeight < c
      <4>1. CASE s.best = 0
        BY <2>3, <4>1
      <4>2. CASE s.best # 0
        <5>1. c > s.bestWeight
          BY <2>5, <4>2 DEF Beats
        <5>2. \A i \in 1..(k - 1) : Held(Object(m, i)) <= s.bestWeight
          BY <2>4, <4>2
        <5>3. ASSUME NEW i \in 1..(k - 1) PROVE heap'[Object(m, i)].currentWeight < c
          <6>1. /\ heap'[Object(m, i)].currentWeight = Held(Object(m, i)) /\ Held(Object(m, i)) \in Int
                /\ Held(Object(m, i)) <= s.bestWeight
            BY <2>1, <5>2
          <6> QED
            BY <1>3, <5>1, <6>1
        <5> QED
          BY <5>3
      <4> QED
        BY <4>1, <4>2
    <3>3. \A i \in 1..k : i = k \/ i \in 1..(k - 1)
      OBVIOUS
    <3>4. \A i \in 1..k : heap'[Object(m, i)].currentWeight <= c
      <4> TAKE i \in 1..k
      <4>1. CASE i = k
        BY <2>2, <4>1
      <4>2. CASE i \in 1..(k - 1)
        <5>1. heap'[Object(m, i)].currentWeight \in Int
          BY <2>1, <4>2
        <5>2. heap'[Object(m, i)].currentWeight < c
          BY <3>2, <4>2
        <5> QED
          BY <5>1, <5>2
      <4> QED
        BY <3>3, <4>1, <4>2
    <3> QED
      BY <1>4, <2>2, <3>1, <3>2, <3>4
  <2>6. CASE ~Beats(s, c)
    <3>1. PICK b \in 1..(k - 1), v \in Int :
            b = s.best /\ v = s.bestWeight /\ t.best = b /\ t.bestWeight = v /\ c <= v
      <4>1. s.best # 0 /\ ~(c > s.bestWeight)
        BY <2>6 DEF Beats
      <4>2. s.best \in 1..(k - 1)
        BY <1>3, <4>1
      <4> QED
        BY <1>3, <1>5, <2>6, <4>1, <4>2
    <3>2. /\ v = Held(Object(m, b))
          /\ \A i \in 1..(k - 1) : Held(Object(m, i)) <= v
          /\ \A i \in 1..(b - 1) : Held(Object(m, i)) < v
      BY <2>4, <3>1
    <3>3. v = heap'[Object(m, b)].currentWeight
      BY <2>1, <3>1, <3>2
    <3>4. \A i \in 1..k : heap'[Object(m, i)].currentWeight <= v
      <4> TAKE i \in 1..k
      <4>1. i = k \/ i \in 1..(k - 1)
        OBVIOUS
      <4> QED
        BY <2>1, <2>2, <3>1, <3>2, <4>1
    <3>5. \A i \in 1..(b - 1) : heap'[Object(m, i)].currentWeight < v
      <4> TAKE i \in 1..(b - 1)
      <4>1. i \in 1..(k - 1)
        BY <3>1
      <4> QED
        BY <2>1, <3>2, <4>1
    <3>6. b # 0 /\ b \in 1..k
      BY <1>4, <3>1
    <3> QED
      BY <3>1, <3>3, <3>4, <3>5, <3>6
  <2> QED
    BY <2>5, <2>6
<1>13. Round(r)'
  <2>1. /\ t.model \in Models /\ Len(t.pool) = Len(Refs[t.model]) /\ t.pc # "charge"
        /\ t.total = SumFunctionOnSet(SlotWeights(t.model), 1..(t.next - 1))
    BY <1>2, <1>5, <1>11
  <2>2. \A i \in Slots(m) : /\ t.pool[i].object = byName'[Name(m, i)] /\ t.pool[i].weight = SlotWeight(m, i)
    BY <1>2, <1>3, <1>5, <1>6 DEF Slots, Object
  <2>3. /\ t.bestWeight = heap'[byName'[Name(m, t.best)]].currentWeight
        /\ \A i \in 1..(t.next - 1) : heap'[byName'[Name(m, i)]].currentWeight <= t.bestWeight
        /\ \A i \in 1..(t.best - 1) : heap'[byName'[Name(m, i)]].currentWeight < t.bestWeight
    <3>1. t.next - 1 = k
      BY <1>5
    <3> QED
      BY <1>6, <1>12, <3>1 DEF Object
  <2>4. t.best # 0 /\ t.model = m
    BY <1>5, <1>12
  <2> HIDE DEF t
  <2> QED
    BY <2>1, <2>2, <2>3, <2>4 DEF Round, Held, Object, t
<1>14. \A q \in Requests : ~Resting(q)' => q = r
  BY <1>6
<1> QED
  BY <1>10, <1>13, <1>14 DEF Rounds

\* A pick: every slot of the model earns its weight, the first of the richest pays
\* the total and is picked; the other models do not notice.
Picked(m, b) ==
  /\ byName' = byName /\ used' \in Nat /\ used <= used'
  /\ \A i \in Slots(m) : Credit(m, i) + SlotWeight(m, i) <= Credit(m, b) + SlotWeight(m, b)
  /\ \A i \in 1..(b - 1) : Credit(m, i) + SlotWeight(m, i) < Credit(m, b) + SlotWeight(m, b)
  /\ \A i \in Slots(m) : i # b => Credit(m, i)' = Credit(m, i) + SlotWeight(m, i)
  /\ Credit(m, b)' = Credit(m, b) + SlotWeight(m, b) - TotalWeight(m)
  /\ picks' = [picks EXCEPT ![m][Name(m, b)] = @ + 1]
  /\ \A j \in Models : \A i \in Slots(j) : j # m => Credit(j, i)' = Credit(j, i)

\* Charging the winner ends the selection with a pick.
LEMMA ChargeStep ==
  ASSUME Known, Calm, NEW r \in Requests, Charge(r)
  PROVE  Rounds' /\ \E m \in Models : \E b \in Slots(m) : Picked(m, b)
<1> DEFINE s == sel[r]
           t == sel'[r]
<1>1. SelectStep(r) /\ ~Resting(r) /\ s.pc = "charge"
  BY DEF SelectStep, Charge, Resting
<1>2. PICK m \in Models, K \in Nat, b \in Nat :
        b \in 0..K /\ m = s.model /\ b = s.best /\ K = Len(s.pool) /\ K = Len(Refs[m]) /\ s.next = K + 1
  <2>1. /\ s.model \in Models /\ Len(s.pool) \in Nat /\ Len(s.pool) = Len(Refs[s.model])
        /\ s.best \in 0..(s.next - 1) /\ Round(r)
    BY <1>1, RoundTyped
  <2>2. s.next = Len(s.pool) + 1
    BY <1>1, <2>1 DEF Round
  <2>3. s.best \in 0..Len(s.pool)
    BY <2>1, <2>2
  <2> QED
    BY <2>1, <2>2, <2>3
<1>3. /\ Inv /\ TypeOK /\ Separate /\ SlotsCreated /\ Round(r) /\ ScanOK(r) /\ Given(r)
      /\ s.total \in Nat /\ s.reg \in Int /\ s.bestWeight \in Int
  BY <1>1, RoundTyped
<1>4. used \in Nat
  BY <1>3, RoutingAssumption DEF TypeOK
<1>5. b \in Slots(m) /\ b # 0 /\ s.pool[b].object = Object(m, b)
  <2>1. s.best # 0
    BY <1>1, <1>3 DEF ScanOK
  <2>2. b \in Slots(m)
    BY <1>2, <2>1 DEF Slots
  <2> QED
    BY <1>2, <1>3, <2>1, <2>2 DEF Round
<1>6. /\ byName' = byName /\ used' = used
      /\ \A q \in Requests : q # r => Resting(q) /\ Resting(q)'
  BY <1>1, <1>3, OthersRest DEF Calm
<1>7. s.total = TotalWeight(m) /\ TotalWeight(m) \in Int
  <2>1. s.total = SumFunctionOnSet(SlotWeights(m), 1..(s.next - 1))
    BY <1>2, <1>3 DEF Round
  <2>2. 1..(s.next - 1) = Slots(m)
    BY <1>2 DEF Slots
  <2> QED
    BY <1>3, <2>1, <2>2, TotalOfSlots
<1>8. PICK o \in Objects :
        /\ o = Object(m, b) /\ t.pc = "chosen"
        /\ picks' = [picks EXCEPT ![m][heap[o].name] = @ + 1]
        /\ heap'[o].currentWeight = Held(o) - TotalWeight(m)
        /\ \A p \in Objects : p # o => Held(p)' = Held(p)
  <2>1. s.best \in 1..Len(s.pool)
    BY <1>2, <1>5
  <2>2. s.reg = Held(s.pool[s.best].object)
    BY <1>1, <1>3 DEF Given
  <2>3. LET o == s.pool[s.best].object
        IN  /\ t.pc = "chosen" /\ o \in Objects
            /\ picks' = [picks EXCEPT ![s.model][heap[o].name] = @ + 1]
            /\ heap'[o].currentWeight = s.reg - s.total
            /\ \A p \in Objects : p # o => Held(p)' = Held(p)
    BY <1>3, <2>1, ChargeEffect
  <2> QED
    BY <1>2, <1>5, <1>7, <2>2, <2>3
<1>9. \A j \in Models : \A i \in Slots(j) :
        /\ Object(j, i) \in Objects /\ (Object(j, i) = o => j = m /\ i = b)
        /\ Held(Object(j, i)) \in Int /\ SlotWeight(j, i) \in Int /\ i \in Int
        /\ heap[Object(j, i)].name = Name(j, i)
  <2>1. \A j \in Models : \A i \in Slots(j) :
          /\ Object(j, i) \in Objects /\ (Object(j, i) = o => j = m /\ i = b)
          /\ heap[Object(j, i)].name = Name(j, i)
    BY <1>3, <1>5, <1>8, SlotsApart
  <2>2. \A j \in Models : \A i \in Slots(j) : SlotWeight(j, i) \in Int
    BY <1>3, SlotsTyped
  <2>3. \A p \in Objects : Held(p) \in Int
    BY <1>3, HeldTyped
  <2>4. \A j \in Models : \A i \in Slots(j) : i \in Int
    BY DEF Slots
  <2> QED
    BY <2>1, <2>2, <2>3, <2>4
<1>10. \A j \in Models : \A i \in Slots(j) :
         /\ Earned(j, i) <=> j = m
         /\ ~Earned(j, i)'
  <2> SUFFICES ASSUME NEW j \in Models, NEW i \in Slots(j)
               PROVE  (Earned(j, i) <=> j = m) /\ ~Earned(j, i)'
    OBVIOUS
  <2>1. \A q \in Requests : q # r => /\ sel[q].pc \in {"idle", "chosen", "rejected", "failed"}
                                     /\ sel'[q].pc \in {"idle", "chosen", "rejected", "failed"}
    BY <1>6 DEF Resting
  <2>2. Earned(j, i) <=> (s.model = j /\ i < s.next)
    BY <1>1, <2>1, OneEarns DEF Earned, Busy
  <2>3. s.model = j => i < s.next
    BY <1>2 DEF Slots
  <2>4. ~Earned(j, i)'
    BY <1>8, <2>1, NobodyEarns DEF Earned
  <2> QED
    BY <1>2, <2>2, <2>3, <2>4
<1>11. ASSUME NEW j \in Models, NEW i \in Slots(j)
       PROVE  /\ Credit(j, i) \in Int
              /\ Held(Object(j, i)) = Credit(j, i) + (IF j = m THEN SlotWeight(j, i) ELSE 0)
              /\ Credit(j, i)' = Held(Object(j, i)) - (IF j = m /\ i = b THEN TotalWeight(m) ELSE 0)
  <2>1. Held(Object(j, i)) \in Int /\ SlotWeight(j, i) \in Int
    BY <1>9
  <2>2. Credit(j, i) = Held(Object(j, i)) - (IF j = m THEN SlotWeight(j, i) ELSE 0)
    BY <1>10 DEF Credit, Held, Object, Name
  <2>3. Credit(j, i)' = heap'[Object(j, i)].currentWeight - 0
    BY <1>6, <1>10 DEF Credit, Object, Name
  <2>4. CASE j = m /\ i = b
    <3>1. heap'[Object(j, i)].currentWeight = Held(Object(j, i)) - TotalWeight(m)
      BY <1>8, <2>4
    <3> QED
      BY <1>7, <2>1, <2>2, <2>3, <2>4, <3>1
  <2>5. CASE ~(j = m /\ i = b)
    <3>1. heap'[Object(j, i)].currentWeight = Held(Object(j, i))
      BY <1>8, <1>9, <2>5 DEF Held
    <3> QED
      BY <1>7, <2>1, <2>2, <2>3, <2>5, <3>1
  <2> QED
    BY <2>4, <2>5
<1>12. /\ \A i \in Slots(m) : Held(Object(m, i)) <= Held(Object(m, b))
       /\ \A i \in 1..(b - 1) : i \in Slots(m) /\ Held(Object(m, i)) < Held(Object(m, b))
  <2>1. /\ s.bestWeight = Held(Object(m, s.best))
        /\ \A i \in 1..(s.next - 1) : Held(Object(m, i)) <= s.bestWeight
        /\ \A i \in 1..(s.best - 1) : Held(Object(m, i)) < s.bestWeight
    BY <1>2, <1>3, <1>5 DEF Round
  <2>2. 1..(s.next - 1) = Slots(m) /\ \A i \in 1..(b - 1) : i \in Slots(m)
    BY <1>2 DEF Slots
  <2> QED
    BY <1>2, <2>1, <2>2
<1>13. Picked(m, b)
  <2>1. /\ \A i \in Slots(m) : Credit(m, i) + SlotWeight(m, i) <= Credit(m, b) + SlotWeight(m, b)
        /\ \A i \in 1..(b - 1) : Credit(m, i) + SlotWeight(m, i) < Credit(m, b) + SlotWeight(m, b)
    <3>1. \A i \in Slots(m) : Held(Object(m, i)) = Credit(m, i) + SlotWeight(m, i)
      BY <1>11
    <3> QED
      BY <1>5, <1>12, <3>1
  <2>2. \A i \in Slots(m) : i # b => Credit(m, i)' = Credit(m, i) + SlotWeight(m, i)
    <3> TAKE i \in Slots(m)
    <3>1. SlotWeight(m, i) \in Int /\ Credit(m, i) \in Int
      BY <1>9, <1>11
    <3> QED
      BY <1>11, <3>1
  <2>3. Credit(m, b)' = Credit(m, b) + SlotWeight(m, b) - TotalWeight(m)
    <3>1. Held(Object(m, b)) = Credit(m, b) + SlotWeight(m, b)
      BY <1>5, <1>11
    <3>2. Credit(m, b)' = Held(Object(m, b)) - TotalWeight(m)
      BY <1>5, <1>11
    <3>3. Credit(m, b) \in Int /\ SlotWeight(m, b) \in Int
      BY <1>5, <1>9, <1>11
    <3> QED
      BY <1>7, <3>1, <3>2, <3>3
  <2>4. \A j \in Models : \A i \in Slots(j) : j # m => Credit(j, i)' = Credit(j, i)
    BY <1>11
  <2>5. picks' = [picks EXCEPT ![m][Name(m, b)] = @ + 1]
    BY <1>5, <1>8, <1>9
  <2> QED
    BY <1>4, <1>6, <2>1, <2>2, <2>3, <2>4, <2>5 DEF Picked
<1>14. Rounds'
  <2>1. Resting(r)'
    BY <1>8 DEF Resting
  <2> QED
    BY <1>6, <2>1 DEF Rounds
<1> QED
  BY <1>5, <1>13, <1>14

\* What the slots of a model are ahead and behind cancels out.
Lags(m) == [i \in Slots(m) |-> Lag(m, i)]

LEMMA LagsOfModel ==
  ASSUME Separate, TypeOK, OthersUnpicked, NEW m \in Models
  PROVE  /\ \A i \in Slots(m) : Lag(m, i) \in Int
         /\ SumFunctionOnSet(Lags(m), Slots(m)) = 0
         /\ TotalWeight(m) \in Int /\ Turns(m) \in Nat
         /\ \A i \in Slots(m) : SlotWeight(m, i) \in Int /\ picks[m][Name(m, i)] \in Nat
<1> DEFINE S == Slots(m)
           W == SlotWeights(m)
           P == SlotPicks(m)
           L == Lags(m)
           tot == TotalWeight(m)
           T == Turns(m)
<1>1. IsFiniteSet(S) /\ \A i \in S : SlotWeight(m, i) \in Int
  BY SlotsTyped
<1>2. /\ T = SumFunctionOnSet(P, S) /\ T \in Nat
      /\ \A i \in S : picks[m][Name(m, i)] \in Nat
  BY TurnsOfSlots DEF OthersUnpicked
<1>3. tot = SumFunctionOnSet(W, S) /\ tot \in Int
  BY TotalOfSlots
<1>4. \A i \in S : W[i] \in Int /\ P[i] \in Int /\ L[i] = T * W[i] - tot * P[i] /\ L[i] = Lag(m, i)
  BY <1>1, <1>2 DEF SlotWeights, SlotPicks, Lags, Lag
<1> HIDE DEF S, W, P, L, tot, T
<1>5. \A i \in S : W[i] \in Int /\ P[i] \in Int /\ L[i] = T * W[i] - tot * P[i]
  BY <1>4
<1>6. tot \in Int /\ T \in Int
  BY <1>2, <1>3
<1>7. SumFunctionOnSet(L, S) = T * SumFunctionOnSet(W, S) - tot * SumFunctionOnSet(P, S)
  BY <1>1, <1>5, <1>6, LagsAddUp
<1>8. \A x, y \in Int : x * y - y * x = 0
  OBVIOUS
<1>9. SumFunctionOnSet(L, S) = 0
  BY <1>2, <1>3, <1>6, <1>7, <1>8
<1>10. \A i \in S : L[i] \in Int
  <2>1. \A x, y, z, u \in Int : x * y - z * u \in Int
    OBVIOUS
  <2> QED
    BY <1>5, <1>6, <2>1
<1> QED
  BY <1>1, <1>2, <1>3, <1>4, <1>9, <1>10 DEF S, L, tot, T

\* A step that is not a pick leaves the shares as they are.
LEMMA StandstillKeeps ==
  ASSUME Known, Standstill, Rounds'
  PROVE  FairInv'
<1>1. /\ byName' = byName /\ picks' = picks /\ used' \in Nat /\ used <= used'
      /\ \A m \in Models : \A i \in Slots(m) : Credit(m, i)' = Credit(m, i)
  BY DEF Standstill
<1>2. used \in Nat /\ FairInv
  BY RoutingAssumption DEF Known, Inv, TypeOK
<1>3. SlotsCreated'
  <2> SUFFICES ASSUME NEW m \in Models, NEW i \in Slots(m) PROVE Object(m, i)' \in 1..used'
    BY DEF SlotsCreated
  <2>1. Object(m, i) \in 1..used
    BY <1>2 DEF FairInv, SlotsCreated
  <2> QED
    BY <1>1, <1>2, <2>1 DEF Object
<1>4. OthersUnpicked'
  BY <1>1, <1>2 DEF FairInv, OthersUnpicked
<1>5. \A m \in Models : \A i \in Slots(m) : Lag(m, i)' = Lag(m, i)
  BY <1>1 DEF Lag, Turns
<1>6. CreditIsLag' /\ NoTurnAhead'
  BY <1>1, <1>2, <1>5 DEF FairInv, CreditIsLag, NoTurnAhead
<1> QED
  BY <1>3, <1>4, <1>6 DEF FairInv

\* A pick is one turn of its model.
LEMMA PickTurns ==
  ASSUME Separate, TypeOK, NEW m \in Models, NEW b \in Slots(m), Picked(m, b)
  PROVE  /\ Turns(m)' = Turns(m) + 1
         /\ picks'[m][Name(m, b)] = picks[m][Name(m, b)] + 1
         /\ \A i \in Slots(m) : i # b => picks'[m][Name(m, i)] = picks[m][Name(m, i)]
         /\ \A n \in Names : n # Name(m, b) => picks'[m][n] = picks[m][n]
         /\ \A j \in Models : j # m => picks'[j] = picks[j] /\ Turns(j)' = Turns(j)
<1> DEFINE f == picks[m]
           g == picks'[m]
           y == Name(m, b)
<1>1. /\ IsFiniteSet(Names) /\ y \in Names
      /\ \A i \in Slots(m) : Name(m, i) \in Names /\ (i # b => Name(m, i) # y)
  BY SlotsTyped DEF Separate
<1>2. picks \in [Models -> [Names -> Nat]] /\ f \in [Names -> Nat]
  BY DEF TypeOK
<1>3. picks' = [picks EXCEPT ![m][y] = picks[m][y] + 1]
  BY DEF Picked
<1>4. g = [f EXCEPT ![y] = f[y] + 1] /\ \A j \in Models : j # m => picks'[j] = picks[j]
  BY <1>2, <1>3
<1>5. /\ DOMAIN f = Names /\ DOMAIN g = Names /\ g[y] = f[y] + 1 /\ f[y] \in Nat
      /\ \A n \in Names : n # y => g[n] = f[n]
  BY <1>1, <1>2, <1>4
<1>6. ASSUME NEW n \in Names PROVE f[n] \in Int /\ (n # y => g[n] = f[n])
  <2>1. f[n] \in Nat
    BY <1>2
  <2> QED
    BY <1>5, <2>1
<1>7. Turns(m) = SumFunctionOnSet(f, Names) /\ Turns(m)' = SumFunctionOnSet(g, Names)
  BY <1>5 DEF Turns, SumFunction
<1>8. \A j \in Models : j # m => Turns(j)' = Turns(j)
  BY <1>4 DEF Turns
<1>9. g[y] \in Int
  BY <1>5
<1> HIDE DEF f, g, y
<1>10. SumFunctionOnSet(g, Names) = SumFunctionOnSet(f, Names) - f[y] + g[y]
  BY <1>1, <1>6, <1>9, SumChange
<1>11. SumFunctionOnSet(f, Names) \in Int
  BY <1>1, <1>6, SumSplit
<1>12. Turns(m)' = Turns(m) + 1
  BY <1>5, <1>7, <1>10, <1>11
<1> QED
  BY <1>1, <1>4, <1>5, <1>8, <1>12 DEF f, g, y

\* A pick keeps every slot of its model less than a turn ahead, because the richest
\* pays; the other models' shares do not move.
LEMMA PickKeeps ==
  ASSUME Known, Separate, NEW m \in Models, NEW b \in Slots(m), Picked(m, b), Rounds'
  PROVE  FairInv'
<1> DEFINE tot == TotalWeight(m)
<1>1. /\ TypeOK /\ used \in Nat /\ FairInv /\ OthersUnpicked /\ CreditIsLag /\ NoTurnAhead /\ SlotsCreated
      /\ byName' = byName /\ used' \in Nat /\ used <= used'
  BY RoutingAssumption DEF Known, Inv, TypeOK, FairInv, Picked
<1>2. /\ Turns(m)' = Turns(m) + 1
      /\ picks'[m][Name(m, b)] = picks[m][Name(m, b)] + 1
      /\ \A i \in Slots(m) : i # b => picks'[m][Name(m, i)] = picks[m][Name(m, i)]
      /\ \A n \in Names : n # Name(m, b) => picks'[m][n] = picks[m][n]
      /\ \A j \in Models : j # m => picks'[j] = picks[j] /\ Turns(j)' = Turns(j)
  BY <1>1, PickTurns
<1>3. SlotsCreated'
  <2> SUFFICES ASSUME NEW j \in Models, NEW i \in Slots(j) PROVE Object(j, i)' \in 1..used'
    BY DEF SlotsCreated
  <2>1. Object(j, i) \in 1..used
    BY <1>1 DEF SlotsCreated
  <2> QED
    BY <1>1, <2>1 DEF Object
<1>4. OthersUnpicked'
  <2> SUFFICES ASSUME NEW j \in Models, NEW n \in Names, Unnamed(j, n) PROVE picks'[j][n] = 0
    BY DEF OthersUnpicked, Unnamed
  <2>1. picks[j][n] = 0
    BY <1>1 DEF OthersUnpicked
  <2>2. j = m => n # Name(m, b)
    BY DEF Unnamed
  <2> QED
    BY <1>2, <2>1, <2>2
<1>5. /\ \A i \in Slots(m) : Lag(m, i) \in Int
      /\ SumFunctionOnSet(Lags(m), Slots(m)) = 0
      /\ tot \in Int /\ Turns(m) \in Nat
      /\ \A i \in Slots(m) : SlotWeight(m, i) \in Int /\ picks[m][Name(m, i)] \in Nat
  BY <1>1, LagsOfModel
<1>6. ASSUME NEW i \in Slots(m)
      PROVE  Lag(m, i)' = Lag(m, i) + SlotWeight(m, i) - (IF i = b THEN tot ELSE 0)
  <2> DEFINE T == Turns(m)
             w == SlotWeight(m, i)
             x == picks[m][Name(m, i)]
  <2>1. T \in Int /\ w \in Int /\ x \in Int /\ tot \in Int
    BY <1>5
  <2>2. Lag(m, i) = T * w - tot * x
    BY DEF Lag
  <2>3. Lag(m, i)' = (T + 1) * w - tot * (IF i = b THEN x + 1 ELSE x)
    BY <1>2 DEF Lag
  <2> HIDE DEF T, w, x, tot
  <2>4. T * w \in Int /\ tot * x \in Int /\ (T + 1) * w = T * w + w /\ tot * (x + 1) = tot * x + tot
    BY <2>1
  <2>5. CASE i = b
    BY <2>1, <2>2, <2>3, <2>4, <2>5 DEF w
  <2>6. CASE i # b
    BY <2>1, <2>2, <2>3, <2>4, <2>6 DEF w
  <2> QED
    BY <2>5, <2>6
<1>7. \A j \in Models : j # m => \A i \in Slots(j) : Lag(j, i)' = Lag(j, i)
  BY <1>2 DEF Lag
<1>8. \A i \in Slots(m) : Credit(m, i) = Lag(m, i)
  BY <1>1 DEF CreditIsLag
<1>9. CreditIsLag'
  <2> SUFFICES ASSUME NEW j \in Models, NEW i \in Slots(j) PROVE Credit(j, i)' = Lag(j, i)'
    BY DEF CreditIsLag
  <2>1. CASE j # m
    BY <1>1, <1>7, <2>1 DEF CreditIsLag, Picked
  <2>2. CASE j = m /\ i = b
    <3>1. Credit(m, b)' = Credit(m, b) + SlotWeight(m, b) - tot
      BY DEF Picked
    <3>2. Lag(m, b)' = Lag(m, b) + SlotWeight(m, b) - tot
      BY <1>6
    <3> QED
      BY <1>8, <2>2, <3>1, <3>2
  <2>3. CASE j = m /\ i # b
    <3>1. Credit(m, i)' = Credit(m, i) + SlotWeight(m, i)
      BY <2>3 DEF Picked
    <3>2. Lag(m, i)' = Lag(m, i) + SlotWeight(m, i) - 0
      BY <1>6, <2>3
    <3>3. Lag(m, i) \in Int /\ SlotWeight(m, i) \in Int /\ Credit(m, i) = Lag(m, i)
      BY <1>5, <1>8, <2>3
    <3> QED
      BY <2>3, <3>1, <3>2, <3>3
  <2> QED
    BY <2>1, <2>2, <2>3
<1>10. /\ Lag(m, b) + SlotWeight(m, b) - tot > -tot
       /\ \A i \in Slots(m) : Lag(m, i) + SlotWeight(m, i) > -tot
  <2> DEFINE S == Slots(m)
             W == SlotWeights(m)
             L == Lags(m)
  <2>1. IsFiniteSet(S) /\ \A i \in S : SlotWeight(m, i) \in Nat \ {0}
    BY SlotsTyped
  <2>2. tot \in Int /\ tot > 0 /\ tot = SumFunctionOnSet(W, S)
    BY TotalOfSlots
  <2>3. \A i \in S : W[i] = SlotWeight(m, i) /\ L[i] = Lag(m, i)
    BY DEF SlotWeights, Lags
  <2>4. \A i \in S : W[i] \in Int /\ W[i] > 0 /\ L[i] \in Int /\ L[i] > -tot
    BY <1>1, <1>5, <2>1, <2>3 DEF NoTurnAhead
  <2>5. \A i \in S : L[i] + W[i] <= L[b] + W[b]
    BY <1>8, <2>3 DEF Picked
  <2>6. SumFunctionOnSet(L, S) = 0
    BY <1>5
  <2>7. b \in S
    OBVIOUS
  <2> HIDE DEF S, W, L, tot
  <2>8. L[b] + W[b] - tot > -tot /\ \A i \in S : L[i] + W[i] > -tot
    BY <2>1, <2>2, <2>4, <2>5, <2>6, <2>7, RichestCanPay
  <2> QED
    BY <2>3, <2>7, <2>8 DEF S
<1>11. NoTurnAhead'
  <2> SUFFICES ASSUME NEW j \in Models, NEW i \in Slots(j) PROVE Lag(j, i)' > -TotalWeight(j)
    BY DEF NoTurnAhead
  <2>1. CASE j # m
    BY <1>1, <1>7, <2>1 DEF NoTurnAhead
  <2>2. CASE j = m /\ i = b
    BY <1>6, <1>10, <2>2
  <2>3. CASE j = m /\ i # b
    <3>1. Lag(m, i)' = Lag(m, i) + SlotWeight(m, i) - 0
      BY <1>6, <2>3
    <3>2. Lag(m, i) + SlotWeight(m, i) \in Int
      BY <1>5, <2>3
    <3>3. Lag(m, i) + SlotWeight(m, i) > -TotalWeight(m)
      BY <1>10, <2>3
    <3>4. Lag(m, i)' = Lag(m, i) + SlotWeight(m, i)
      BY <1>5, <2>3, <3>1
    <3> QED
      BY <2>3, <3>3, <3>4
  <2> QED
    BY <2>1, <2>2, <2>3
<1> QED
  BY <1>3, <1>4, <1>9, <1>11 DEF FairInv

\* Every step is a standstill or a pick.
LEMMA StepsOfShares ==
  ASSUME Known, Calm, Serial', Undisturbed', [Next]_vars
  PROVE  /\ Rounds'
         /\ Standstill \/ \E m \in Models : \E b \in Slots(m) : Picked(m, b)
<1>1. CASE AdminStep \/ CheckerStep \/ (\E u \in URLs : Flip(u)) \/ UNCHANGED vars
  BY <1>1, QuietStep
<1>2. ASSUME NEW r \in Requests, RequestStep(r)
      PROVE  Rounds' /\ (Standstill \/ \E m \in Models : \E b \in Slots(m) : Picked(m, b))
  BY <1>2, StartStep, VisitStep, AccrueStep, EndScanStep, ChargeStep DEF RequestStep
<1> QED
  BY <1>1, <1>2 DEF Next

\* And keeps the invariant of the shares.
LEMMA FairStep ==
  ASSUME Known, Calm, Serial', Undisturbed', [Next]_vars
  PROVE  FairInv'
<1>1. Separate
  BY DEF Calm
<1>2. /\ Rounds'
      /\ Standstill \/ \E m \in Models : \E b \in Slots(m) : Picked(m, b)
  BY StepsOfShares
<1> QED
  BY <1>1, <1>2, StandstillKeeps, PickKeeps

\* At the start every slot has its object, and nobody has earned, paid or been picked.
LEMMA SharesAtStart ==
  ASSUME Separate, Init
  PROVE  /\ FairInv
         /\ \A m \in Models : \A i \in Slots(m) : Credit(m, i) = 0 /\ picks[m][Name(m, i)] = 0
         /\ \A m \in Models : Turns(m) = 0
<1>1. Len(StartBackends) \in Nat /\ used = Len(StartBackends) /\ TypeOK
  BY RoutingAssumption, InitInv DEF Init, Inv
<1>2. SlotsCreated
  <2> SUFFICES ASSUME NEW m \in Models, NEW i \in Slots(m) PROVE Object(m, i) \in 1..used
    BY DEF SlotsCreated
  <2>1. Name(m, i) \in Names
    BY SlotsTyped
  <2>2. PICK o \in 1..used : StartBackends[o].name = Name(m, i)
    BY <1>1 DEF Separate
  <2>3. byName[Name(m, i)] = CHOOSE p \in 1..used : StartBackends[p].name = Name(m, i)
    BY <2>1, <2>2 DEF Init
  <2>4. (CHOOSE p \in 1..used : StartBackends[p].name = Name(m, i)) \in 1..used
    BY <2>2
  <2> QED
    BY <2>3, <2>4 DEF Object
<1>3. \A m \in Models : \A n \in Names : picks[m][n] = 0
  BY DEF Init
<1>4. ASSUME NEW m \in Models PROVE Turns(m) = 0
  <2> DEFINE f == picks[m]
  <2>1. IsFiniteSet(Names) /\ DOMAIN f = Names /\ \A n \in Names : f[n] = 0
    BY <1>3 DEF Separate, Init
  <2>2. Turns(m) = SumFunctionOnSet(f, Names)
    BY <2>1 DEF Turns, SumFunction
  <2> HIDE DEF f
  <2>3. SumFunctionOnSet(f, Names) = 0
    BY <2>1, SumOfZeros
  <2> QED
    BY <2>2, <2>3
<1>5. \A r \in Requests : Resting(r)
  BY DEF Init, Idle, Locals, Resting
<1>6. ASSUME NEW m \in Models, NEW i \in Slots(m)
      PROVE  Credit(m, i) = 0 /\ picks[m][Name(m, i)] = 0 /\ Lag(m, i) = 0
  <2>1. picks[m][Name(m, i)] = 0
    BY <1>3, SlotsTyped
  <2>2. ~Earned(m, i)
    BY <1>5, NobodyEarns DEF Earned, Resting
  <2>3. Object(m, i) \in Objects
    BY <1>1, <1>2, RoutingAssumption DEF SlotsCreated, TypeOK
  <2>4. heap[Object(m, i)].currentWeight = 0
    BY <2>3 DEF Init, NewBackend, Blank
  <2>5. Credit(m, i) = 0
    BY <2>2, <2>4 DEF Credit, Object, Name
  <2>6. TotalWeight(m) \in Int /\ SlotWeight(m, i) \in Int
    BY TotalOfSlots, SlotsTyped
  <2>7. Turns(m) = 0
    BY <1>4
  <2>8. Lag(m, i) = 0
    BY <2>1, <2>6, <2>7 DEF Lag
  <2> QED
    BY <2>1, <2>5, <2>8
<1>7. OthersUnpicked /\ CreditIsLag /\ Rounds
  BY <1>3, <1>5, <1>6 DEF OthersUnpicked, CreditIsLag, Rounds
<1>8. NoTurnAhead
  <2> SUFFICES ASSUME NEW m \in Models, NEW i \in Slots(m) PROVE Lag(m, i) > -TotalWeight(m)
    BY DEF NoTurnAhead
  <2>1. TotalWeight(m) \in Int /\ TotalWeight(m) > 0
    BY TotalOfSlots
  <2> QED
    BY <1>6, <2>1
<1> QED
  BY <1>2, <1>4, <1>6, <1>7, <1>8 DEF FairInv

\* The invariant of the shares holds as long as the hypotheses do.
LEMMA SharesAlways ==
  ASSUME Separate
  PROVE  Spec /\ []Serial /\ []Undisturbed => [](Known /\ Calm)
<1>1. Init => FairInv
  BY SharesAtStart
<1>2. Known /\ Calm /\ Serial' /\ Undisturbed' /\ [Next]_vars => FairInv'
  BY FairStep
<1>3. Inv /\ ConservedInv /\ FairInv /\ Serial /\ Undisturbed => Known /\ Calm
  BY DEF Known, Calm
<1> QED
  BY <1>1, <1>2, <1>3, ConservedAlways, Invariance, PTL DEF Spec

\* While no backend fails, nothing is reconfigured and selections do not overlap,
\* every model's requests are spread in proportion to its weights after each full
\* cycle, for any weights and any number of models and backends.
THEOREM SharesAreProportional ==
  ASSUME Separate
  PROVE  Spec /\ []Serial /\ []Undisturbed => []ProportionalShare
<1>1. Known /\ Calm => ProportionalShare
  <2> SUFFICES ASSUME Known, NEW m \in Models \ {NoModel}, Turns(m) % TotalWeight(m) = 0,
                      NEW n \in Names
               PROVE  picks[m][n] * TotalWeight(m) = Turns(m) * WeightIn(m, n)
    BY DEF ProportionalShare
  <2>1. m \in Models /\ TypeOK /\ OthersUnpicked /\ NoTurnAhead
    BY DEF Known, Inv, FairInv
  <2>2. /\ \A i \in Slots(m) : Lag(m, i) \in Int
        /\ SumFunctionOnSet(Lags(m), Slots(m)) = 0
        /\ TotalWeight(m) \in Int /\ Turns(m) \in Nat
        /\ \A i \in Slots(m) : SlotWeight(m, i) \in Int /\ picks[m][Name(m, i)] \in Nat
    BY <2>1, LagsOfModel
  <2>3. CASE Unnamed(m, n)
    <3>1. WeightIn(m, n) = 0 /\ picks[m][n] = 0
      BY <2>1, <2>3, WeightOfName DEF OthersUnpicked
    <3> QED
      BY <2>2, <3>1
  <2>4. CASE ~Unnamed(m, n)
    <3>1. PICK k \in Slots(m) : Name(m, k) = n
      BY <2>4 DEF Unnamed
    <3>2. Lag(m, k) = 0
      <4> DEFINE S == Slots(m)
                 W == SlotWeights(m)
                 P == SlotPicks(m)
                 L == Lags(m)
                 tot == TotalWeight(m)
                 T == Turns(m)
      <4>1. IsFiniteSet(S) /\ k \in S /\ L[k] = Lag(m, k)
        BY <2>1, SlotsTyped DEF Lags
      <4>2. tot \in Int /\ tot > 0 /\ T \in Nat /\ T % tot = 0
        BY <2>1, <2>2, TotalOfSlots
      <4>3. Lagging(S, W, P, L, tot, T)
        <5>1. \A i \in S : /\ W[i] \in Int /\ P[i] \in Int /\ L[i] \in Int
                           /\ L[i] = T * W[i] - tot * P[i] /\ L[i] > -tot
          BY <2>1, <2>2 DEF SlotWeights, SlotPicks, Lags, Lag, NoTurnAhead
        <5> QED
          BY <4>2, <5>1 DEF Lagging
      <4>4. SumFunctionOnSet(L, S) = 0
        BY <2>2
      <4> HIDE DEF S, W, P, L, tot, T
      <4>5. \A i \in S : L[i] = 0
        BY <4>1, <4>3, <4>4, CyclesAreFair
      <4> QED
        BY <4>1, <4>5
    <3>3. Turns(m) * SlotWeight(m, k) - TotalWeight(m) * picks[m][Name(m, k)] = 0
      BY <3>2 DEF Lag
    <3>4. WeightIn(m, n) = SlotWeight(m, k)
      BY <2>1, <3>1, WeightOfName
    <3>5. \A x, y, z, u \in Int : x * y - z * u = 0 => u * z = x * y
      OBVIOUS
    <3>6. picks[m][n] * TotalWeight(m) = Turns(m) * SlotWeight(m, k)
      BY <2>2, <3>1, <3>3, <3>5
    <3> QED
      BY <3>4, <3>6
  <2> QED
    BY <2>3, <2>4
<1> QED
  BY <1>1, SharesAlways, PTL

\* And at every moment no backend of a model is a whole turn ahead of its share,
\* nor further behind it than the others can be ahead together.
THEOREM SharesAreSmooth ==
  ASSUME Separate
  PROVE  Spec /\ []Serial /\ []Undisturbed => []LagBounded
<1>1. Known /\ Calm => LagBounded
  <2> SUFFICES ASSUME Known, NEW m \in Models \ {NoModel}, NEW k \in 1..Len(Refs[m])
               PROVE  LET n == Refs[m][k].backend
                          lag == Turns(m) * WeightIn(m, n) - TotalWeight(m) * picks[m][n]
                      IN  /\ -lag < TotalWeight(m)
                          /\ lag <= (Len(Refs[m]) - 1) * (TotalWeight(m) - 1)
    BY DEF LagBounded
  <2>1. m \in Models /\ TypeOK /\ OthersUnpicked /\ NoTurnAhead /\ k \in Slots(m)
    BY DEF Known, Inv, FairInv, Slots
  <2>2. /\ \A i \in Slots(m) : Lag(m, i) \in Int /\ Lag(m, i) > -TotalWeight(m)
        /\ SumFunctionOnSet(Lags(m), Slots(m)) = 0
        /\ TotalWeight(m) \in Int
    BY <2>1, LagsOfModel DEF NoTurnAhead
  <2>3. Lag(m, k) = Turns(m) * WeightIn(m, Refs[m][k].backend)
                      - TotalWeight(m) * picks[m][Refs[m][k].backend]
    <3>1. WeightIn(m, Name(m, k)) = SlotWeight(m, k)
      BY <2>1, WeightOfName
    <3> QED
      BY <3>1 DEF Lag, Name
  <2>4. Lag(m, k) <= (Len(Refs[m]) - 1) * (TotalWeight(m) - 1)
    <3> DEFINE S == Slots(m)
               L == Lags(m)
               tot == TotalWeight(m)
               K == Len(Refs[m])
    <3>1. IsFiniteSet(S) /\ K \in Nat /\ Cardinality(S) = K /\ tot \in Int /\ k \in S
      BY <2>1, <2>2, SlotsTyped
    <3>2. \A i \in S : L[i] \in Int /\ L[i] > -tot /\ L[i] = Lag(m, i)
      BY <2>2 DEF Lags
    <3>3. SumFunctionOnSet(L, S) = 0
      BY <2>2
    <3> HIDE DEF S, L, tot, K
    <3>4. L[k] <= (K - 1) * (tot - 1)
      BY <3>1, <3>2, <3>3, BehindByTheRest
    <3> QED
      BY <3>1, <3>2, <3>4 DEF tot, K
  <2>5. -Lag(m, k) < TotalWeight(m)
    <3>1. Lag(m, k) \in Int /\ TotalWeight(m) \in Int /\ Lag(m, k) > -TotalWeight(m)
      BY <2>1, <2>2
    <3> QED
      BY <3>1
  <2> QED
    BY <2>3, <2>4, <2>5
<1> QED
  BY <1>1, SharesAlways, PTL

-----------------------------------------------------------------------------
(* The refinement.                                                         *)

\* A standstill is a stutter of every model's scheduler.
LEMMA StandstillStutters ==
  ASSUME Standstill, NEW m \in Models
  PROVE  (WRR(m)!vars)' = WRR(m)!vars
<1>1. picks' = picks /\ \A i \in Slots(m) : Credit(m, i)' = Credit(m, i)
  BY DEF Standstill
<1>2. [i \in 1..Len(Refs[m]) |-> Credit(m, i)]' = [i \in 1..Len(Refs[m]) |-> Credit(m, i)]
  BY <1>1 DEF Slots
<1> QED
  BY <1>1, <1>2 DEF WRR!vars, Turns

\* A pick of a model is a pick of its scheduler.
LEMMA PickIsPick ==
  ASSUME Known, Separate, NEW m \in Models, NEW b \in Slots(m), Picked(m, b)
  PROVE  WRR(m)!Pick(b)
<1> DEFINE C == [i \in Slots(m) |-> Credit(m, i)]
           W == [i \in Slots(m) |-> SlotWeight(m, i)]
           P == [i \in Slots(m) |-> picks[m][Name(m, i)]]
           R == [i \in Slots(m) |-> C[i] + W[i]]
<1>1. /\ Turns(m)' = Turns(m) + 1
      /\ picks'[m][Name(m, b)] = picks[m][Name(m, b)] + 1
      /\ \A i \in Slots(m) : i # b => picks'[m][Name(m, i)] = picks[m][Name(m, i)]
  BY PickTurns DEF Known, Inv
<1>2. Credit(m, b) \in Int /\ SlotWeight(m, b) \in Int /\ TotalWeight(m) \in Int
  BY LagsOfModel DEF Known, Inv, FairInv, CreditIsLag
<1>3. \A i \in 1..(b - 1) : i \in Slots(m)
  BY SlotsTyped DEF Slots
<1>4. WRR(m)!Raised = R /\ WRR(m)!Slots = Slots(m)
  BY DEF WRR!Raised, WRR!Slots, Slots
<1>5. WRR(m)!Total = TotalWeight(m)
  <2>1. TotalWeight(m) = SumFunctionOnSet(SlotWeights(m), Slots(m))
    BY TotalOfSlots
  <2>2. W = SlotWeights(m) /\ DOMAIN W = Slots(m)
    BY DEF SlotWeights
  <2>3. WRR(m)!Total = SumFunction(W)
    BY DEF WRR!Total, WRR!SumFunction, WRR!SumFunctionOnSet, WRR!FoldFunctionOnSet,
           WRR!MapThenFoldSet, SumFunction, SumFunctionOnSet, FoldFunctionOnSet,
           MapThenFoldSet, Slots
  <2> QED
    BY <2>1, <2>2, <2>3 DEF SumFunction
<1>6. WRR(m)!Leads(b)
  <2>1. /\ \A i \in Slots(m) : R[i] <= R[b]
        /\ \A i \in 1..(b - 1) : R[i] < R[b]
    BY <1>3 DEF Picked
  <2> HIDE DEF R
  <2> QED
    BY <1>4, <2>1 DEF WRR!Leads
<1>7. [i \in Slots(m) |-> Credit(m, i)'] = [R EXCEPT ![b] = R[b] - TotalWeight(m)]
  <2>1. /\ \A i \in Slots(m) : i # b => Credit(m, i)' = R[i]
        /\ Credit(m, b)' = R[b] - TotalWeight(m)
    <3>1. \A i \in Slots(m) : R[i] = Credit(m, i) + SlotWeight(m, i)
      OBVIOUS
    <3> HIDE DEF R
    <3>2. \A i \in Slots(m) : i # b => Credit(m, i)' = R[i]
      BY <3>1 DEF Picked
    <3>3. R[b] = Credit(m, b) + SlotWeight(m, b)
      BY <3>1
    <3>4. Credit(m, b)' = Credit(m, b) + SlotWeight(m, b) - TotalWeight(m)
      BY DEF Picked
    <3>5. Credit(m, b)' = R[b] - TotalWeight(m)
      BY <1>2, <3>3, <3>4
    <3> QED
      BY <3>2, <3>5
  <2>2. DOMAIN R = Slots(m)
    OBVIOUS
  <2> HIDE DEF R
  <2> QED
    BY <2>1, <2>2
<1>8. [i \in Slots(m) |-> picks'[m][Name(m, i)]] = [P EXCEPT ![b] = P[b] + 1]
  BY <1>1
<1> QED
  BY <1>1, <1>4, <1>5, <1>6, <1>7, <1>8 DEF WRR!Pick, Slots, Name

\* The other models' schedulers stutter.
LEMMA OthersStutter ==
  ASSUME Separate, TypeOK, NEW m \in Models, NEW b \in Slots(m), Picked(m, b),
         NEW j \in Models, j # m
  PROVE  (WRR(j)!vars)' = WRR(j)!vars
<1>1. picks'[j] = picks[j] /\ Turns(j)' = Turns(j)
  BY PickTurns
<1>2. \A i \in Slots(j) : Credit(j, i)' = Credit(j, i)
  BY DEF Picked
<1>3. [i \in 1..Len(Refs[j]) |-> Credit(j, i)]' = [i \in 1..Len(Refs[j]) |-> Credit(j, i)]
  BY <1>2 DEF Slots
<1> QED
  BY <1>1, <1>3 DEF WRR!vars

\* Under the same hypotheses the selections implement smooth weighted round-robin:
\* they begin where it does, and each step is a turn of one model's scheduler or a
\* stutter of all of them.
THEOREM SelectionImplementsSmoothWRR ==
  ASSUME Separate
  PROVE  Spec /\ []Serial /\ []Undisturbed => ImplementsSmoothWRR
<1>1. Init => \A m \in Models \ {NoModel} : WRR(m)!Init
  <2> SUFFICES ASSUME Init, NEW m \in Models PROVE WRR(m)!Init
    OBVIOUS
  <2>1. /\ Turns(m) = 0
        /\ \A i \in Slots(m) : Credit(m, i) = 0 /\ picks[m][Name(m, i)] = 0
    BY SharesAtStart
  <2> QED
    BY <2>1 DEF WRR!Init, WRR!Slots, Slots, Name
<1>2. /\ Known /\ Calm /\ Serial' /\ Undisturbed' /\ [Next]_vars
        => [\A m \in Models \ {NoModel} : [WRR(m)!Next]_(WRR(m)!vars)]_vars
  <2> SUFFICES ASSUME Known, Calm, Serial', Undisturbed', [Next]_vars,
                      NEW m \in Models
               PROVE  [WRR(m)!Next]_(WRR(m)!vars)
    OBVIOUS
  <2>1. TypeOK /\ Separate
    BY DEF Known, Inv, Calm
  <2>2. CASE Standstill
    BY <2>2, StandstillStutters
  <2>3. ASSUME NEW j \in Models, NEW b \in Slots(j), Picked(j, b)
        PROVE  [WRR(m)!Next]_(WRR(m)!vars)
    <3>1. CASE j = m
      <4>1. WRR(m)!Pick(b) /\ b \in Slots(m)
        BY <2>1, <2>3, <3>1, PickIsPick
      <4> QED
        BY <4>1 DEF WRR!Next, WRR!Slots, Slots
    <3>2. CASE j # m
      BY <2>1, <2>3, <3>2, OthersStutter
    <3> QED
      BY <3>1, <3>2
  <2> QED
    BY <2>2, <2>3, StepsOfShares
<1>3. Known /\ Calm => Serial /\ Undisturbed
  BY DEF Calm
<1> QED
  BY <1>1, <1>2, <1>3, SharesAlways, PTL DEF Spec, ImplementsSmoothWRR
=============================================================================
