--------------------------- MODULE LedgerTheorems ---------------------------
(***************************************************************************)
(* Facts about sums over finite sets and about ranks, for every set and    *)
(* every function, and what Balances makes of them: the order of the       *)
(* members, their stretches on the line of cents, and what a payment does  *)
(* to the debts.                                                           *)
(*                                                                         *)
(* No induction theorem of the library takes part: a set of good subsets   *)
(* stands for the predicate, and a smallest bad one contradicts it.        *)
(***************************************************************************)
EXTENDS Balances, TLAPS, FiniteSetTheorems, FunctionTheorems

-----------------------------------------------------------------------------
(* Induction *)

\* If a set is good whenever all its smaller subsets are, every finite set is.
LEMMA SubsetInduction ==
  ASSUME NEW S, IsFiniteSet(S), NEW Good,
         \A T \in SUBSET S : (\A U \in SUBSET T : U # T => U \in Good) => T \in Good
  PROVE  S \in Good
<1> DEFINE Bad == (SUBSET S) \ Good
           R == StrictSubsetOrdering(S)
<1> SUFFICES ASSUME Bad # {} PROVE FALSE
  OBVIOUS
<1>1. IsWellFoundedOn(R, SUBSET S)
  <2>1. IsWellFoundedOn(StrictSubsetOrdering(S), FiniteSubsetsOf(S))
    BY FS_StrictSubsetOrderingWellFounded
  <2>2. FiniteSubsetsOf(S) = SUBSET S
    BY FS_FiniteSubsetsOfFinite
  <2> QED
    BY <2>1, <2>2
<1>2. PICK T \in Bad : \A U \in Bad : ~(<<U, T>> \in R)
  <2> HIDE DEF R
  <2>1. Bad \subseteq SUBSET S
    OBVIOUS
  <2>2. Bad # {}
    OBVIOUS
  <2> HIDE DEF Bad
  <2> QED
    BY <1>1, <2>1, <2>2, WFMin
<1>3. ASSUME NEW U \in SUBSET T, U # T
      PROVE  U \in Good
  BY <1>2, <1>3 DEF StrictSubsetOrdering
<1> QED
  BY <1>2, <1>3

\* If {} is good and a good set stays good when it gets another element,
\* every finite set is good.
LEMMA SetInduction ==
  ASSUME NEW S, IsFiniteSet(S), NEW Good,
         {} \in Good,
         \A T \in SUBSET S : \A x \in S \ T : T \in Good => T \cup {x} \in Good
  PROVE  S \in Good
<1>1. ASSUME NEW T \in SUBSET S, \A U \in SUBSET T : U # T => U \in Good
      PROVE  T \in Good
  <2>1. CASE T = {}
    BY <2>1
  <2>2. CASE T # {}
    <3>1. PICK x \in T : TRUE
      BY <2>2
    <3>2. T \ {x} \in Good
      BY <1>1, <3>1
    <3>3. (T \ {x}) \cup {x} = T /\ x \in S \ (T \ {x}) /\ T \ {x} \in SUBSET S
      BY <3>1
    <3> QED
      BY <3>2, <3>3
  <2> QED
    BY <2>1, <2>2
<1> QED
  BY <1>1, SubsetInduction

\* A function has finitely many values on a finite set.
LEMMA FiniteRange ==
  ASSUME NEW S, IsFiniteSet(S), NEW f, DOMAIN f = S
  PROVE  IsFiniteSet({f[x] : x \in S})
<1> DEFINE T == {f[x] : x \in S}
           g == [x \in S |-> f[x]]
<1>1. g \in Surjection(S, T)
  BY DEF Surjection
<1> QED
  BY <1>1, FS_Surjection

\* There are n numbers from 1 to n, and from 0 to n - 1.
LEMMA FirstNumbers ==
  ASSUME NEW n \in Nat
  PROVE  /\ IsFiniteSet(1 .. n) /\ Cardinality(1 .. n) = n
         /\ IsFiniteSet(0 .. n - 1) /\ Cardinality(0 .. n - 1) = n
<1>1. IsFiniteSet(1 .. n) /\ Cardinality(1 .. n) = IF 1 > n THEN 0 ELSE n - 1 + 1
  BY FS_Interval
<1>2. IsFiniteSet(0 .. n - 1) /\ Cardinality(0 .. n - 1) = IF 0 > n - 1 THEN 0 ELSE (n - 1) - 0 + 1
  <2>1. n - 1 \in Int
    OBVIOUS
  <2> DEFINE m == n - 1
  <2> HIDE DEF m
  <2> QED
    BY <2>1, FS_Interval DEF m
<1> QED
  BY <1>1, <1>2

-----------------------------------------------------------------------------
(* The sum unfolds *)

First(s) == CHOOSE x \in s : TRUE
Rest(s) == s \ {First(s)}

SumStep(f, g, s) == IF s = {} THEN 0 ELSE f[First(s)] + g[Rest(s)]

Solves(f, S, g) == g = [s \in SUBSET S |-> SumStep(f, g, s)]

SolutionOf(f, S) == CHOOSE g : Solves(f, S, g)

\* SumFunctionOnSet is the recursive function that the library defines.
LEMMA SumIsSolution ==
  ASSUME NEW f, NEW S
  PROVE  SumFunctionOnSet(f, S) = SolutionOf(f, S)[S]
BY Zenon DEF SumFunctionOnSet, FoldFunctionOnSet, MapThenFoldSet, SolutionOf, Solves,
             SumStep, First, Rest

\* A set that is not empty splits into an element and the rest.
LEMMA FirstRest ==
  ASSUME NEW s, s # {}
  PROVE  First(s) \in s /\ Rest(s) \in SUBSET s /\ Rest(s) # s
BY DEF First, Rest

\* Two solutions agree wherever both are defined.
LEMMA SolutionsAgree ==
  ASSUME NEW f, NEW A, NEW B, NEW g, NEW h, Solves(f, A, g), Solves(f, B, h),
         NEW S, IsFiniteSet(S), S \subseteq A, S \subseteq B
  PROVE  g[S] = h[S]
<1> DEFINE Good == {s \in SUBSET S : g[s] = h[s]}
<1>1. ASSUME NEW T \in SUBSET S, \A U \in SUBSET T : U # T => U \in Good
      PROVE  T \in Good
  <2>1. g[T] = SumStep(f, g, T) /\ h[T] = SumStep(f, h, T)
    BY DEF Solves
  <2>2. T # {} => g[Rest(T)] = h[Rest(T)]
    BY <1>1, FirstRest
  <2>3. SumStep(f, g, T) = SumStep(f, h, T)
    BY <2>2 DEF SumStep
  <2> QED
    BY <2>1, <2>3
<1> HIDE DEF Good
<1>2. S \in Good
  BY <1>1, SubsetInduction
<1> QED
  BY <1>2 DEF Good

\* Every finite set has a solution.
LEMMA SolutionExists ==
  ASSUME NEW f, NEW S, IsFiniteSet(S)
  PROVE  \E g : Solves(f, S, g)
<1> DEFINE Good == {T \in SUBSET S : \E g : Solves(f, T, g)}
<1>1. ASSUME NEW T \in SUBSET S, \A U \in SUBSET T : U # T => U \in Good
      PROVE  T \in Good
  <2> DEFINE part(s) == IF s = {} THEN 0 ELSE f[First(s)] + SolutionOf(f, Rest(s))[Rest(s)]
             g == [s \in SUBSET T |-> part(s)]
  <2>1. ASSUME NEW s \in SUBSET T, s # {}
        PROVE  SolutionOf(f, Rest(s))[Rest(s)] = part(Rest(s))
    <3> DEFINE r == Rest(s)
               h == SolutionOf(f, r)
    <3>1. r \in SUBSET T /\ r # T /\ IsFiniteSet(r)
      BY <2>1, FirstRest, FS_Subset
    <3>2. Solves(f, r, h)
      BY <1>1, <3>1, Zenon DEF SolutionOf
    <3>3. h[r] = SumStep(f, h, r)
      <4> HIDE DEF h, r
      <4> QED
        BY <3>2 DEF Solves
    <3>4. CASE r = {}
      BY <3>3, <3>4 DEF SumStep
    <3>5. CASE r # {}
      <4>1. Rest(r) \in SUBSET T /\ Rest(r) # T /\ Rest(r) \in SUBSET r /\ IsFiniteSet(Rest(r))
        BY <3>1, <3>5, FirstRest, FS_Subset
      <4>2. Solves(f, Rest(r), SolutionOf(f, Rest(r)))
        BY <1>1, <4>1, Zenon DEF SolutionOf
      <4>3. h[Rest(r)] = SolutionOf(f, Rest(r))[Rest(r)]
        <5> HIDE DEF h, r
        <5> QED
          BY <3>2, <4>1, <4>2, SolutionsAgree
      <4> QED
        BY <3>3, <3>5, <4>3 DEF SumStep
    <3> QED
      BY <3>4, <3>5
  <2>2. ASSUME NEW s \in SUBSET T
        PROVE  part(s) = SumStep(f, g, s)
    <3>1. CASE s = {}
      BY <3>1 DEF SumStep
    <3>2. CASE s # {}
      <4>1. Rest(s) \in SUBSET T
        BY <3>2, FirstRest
      <4>2. g[Rest(s)] = part(Rest(s))
        BY <4>1
      <4>3. part(s) = f[First(s)] + SolutionOf(f, Rest(s))[Rest(s)]
        BY <3>2
      <4>4. SumStep(f, g, s) = f[First(s)] + g[Rest(s)]
        BY <3>2 DEF SumStep
      <4> HIDE DEF g, part
      <4> QED
        BY <2>1, <3>2, <4>2, <4>3, <4>4
    <3> QED
      BY <3>1, <3>2
  <2>3. g = [s \in SUBSET T |-> SumStep(f, g, s)]
    BY <2>2, Zenon
  <2> QED
    BY <2>3 DEF Solves
<1> HIDE DEF Good
<1>2. S \in Good
  BY <1>1, SubsetInduction
<1> QED
  BY <1>2 DEF Good

\* The sum over a set is that over the rest of it and one element.
LEMMA SumUnfold ==
  ASSUME NEW f, NEW S, IsFiniteSet(S)
  PROVE  SumFunctionOnSet(f, S)
           = IF S = {} THEN 0 ELSE f[First(S)] + SumFunctionOnSet(f, Rest(S))
<1> DEFINE g == SolutionOf(f, S)
           h == SolutionOf(f, Rest(S))
<1>1. Solves(f, S, g)
  BY SolutionExists, Zenon DEF SolutionOf
<1>2. g[S] = SumStep(f, g, S)
  <2> HIDE DEF g
  <2> QED
    BY <1>1 DEF Solves
<1>3. CASE S = {}
  BY <1>2, <1>3, SumIsSolution DEF SumStep
<1>4. CASE S # {}
  <2>1. IsFiniteSet(Rest(S)) /\ Rest(S) \subseteq S
    BY <1>4, FirstRest, FS_Subset
  <2>2. Solves(f, Rest(S), h)
    BY <2>1, SolutionExists, Zenon DEF SolutionOf
  <2>3. g[Rest(S)] = h[Rest(S)]
    <3> HIDE DEF g, h
    <3> QED
      BY <1>1, <2>1, <2>2, SolutionsAgree
  <2> QED
    BY <1>2, <1>4, <2>3, SumIsSolution DEF SumStep
<1> QED
  BY <1>3, <1>4

-----------------------------------------------------------------------------
(* Elements in and out *)

\* Nothing adds up to zero.
LEMMA SumEmpty ==
  ASSUME NEW f
  PROVE  SumFunctionOnSet(f, {}) = 0
BY SumUnfold, FS_EmptySet

\* A sum of integers is an integer.
LEMMA SumType ==
  ASSUME NEW S, IsFiniteSet(S), NEW f, \A x \in S : f[x] \in Int
  PROVE  SumFunctionOnSet(f, S) \in Int
<1> DEFINE Good == {T \in SUBSET S : SumFunctionOnSet(f, T) \in Int}
<1>1. ASSUME NEW T \in SUBSET S, \A U \in SUBSET T : U # T => U \in Good
      PROVE  T \in Good
  <2>1. IsFiniteSet(T)
    BY FS_Subset
  <2>2. CASE T = {}
    BY <2>2, SumEmpty
  <2>3. CASE T # {}
    <3>1. SumFunctionOnSet(f, T) = f[First(T)] + SumFunctionOnSet(f, Rest(T))
      BY <2>1, <2>3, SumUnfold
    <3>2. f[First(T)] \in Int /\ SumFunctionOnSet(f, Rest(T)) \in Int
      BY <1>1, <2>3, FirstRest
    <3> QED
      BY <3>1, <3>2
  <2> QED
    BY <2>2, <2>3
<1> HIDE DEF Good
<1>2. S \in Good
  BY <1>1, SubsetInduction
<1> QED
  BY <1>2 DEF Good

\* Any element may be taken out of a sum, not only the first.
LEMMA SumRemove ==
  ASSUME NEW S, IsFiniteSet(S), NEW f, \A x \in S : f[x] \in Int, NEW x \in S
  PROVE  SumFunctionOnSet(f, S) = f[x] + SumFunctionOnSet(f, S \ {x})
<1> DEFINE sum(T) == SumFunctionOnSet(f, T)
           Good == {T \in SUBSET S : \A y \in T : sum(T) = f[y] + sum(T \ {y})}
<1>1. ASSUME NEW T \in SUBSET S, \A U \in SUBSET T : U # T => U \in Good
      PROVE  T \in Good
  <2> SUFFICES ASSUME NEW y \in T PROVE sum(T) = f[y] + sum(T \ {y})
    OBVIOUS
  <2> DEFINE c == First(T)
  <2>1. IsFiniteSet(T) /\ T # {} /\ c \in T
    BY FS_Subset, FirstRest
  <2>2. sum(T) = f[c] + sum(T \ {c})
    BY <2>1, SumUnfold DEF Rest
  <2>3. CASE y = c
    BY <2>2, <2>3
  <2>4. CASE y # c
    <3>1. sum(T \ {c}) = f[y] + sum((T \ {c}) \ {y})
      BY <1>1, <2>1, <2>4
    <3>2. sum(T \ {y}) = f[c] + sum((T \ {y}) \ {c})
      BY <1>1, <2>1, <2>4
    <3>3. (T \ {c}) \ {y} = (T \ {y}) \ {c}
      OBVIOUS
    <3>4. sum((T \ {c}) \ {y}) \in Int /\ f[c] \in Int /\ f[y] \in Int
      BY <2>1, SumType, FS_Subset
    <3>5. sum(T \ {y}) = f[c] + sum((T \ {c}) \ {y})
      BY <3>2, <3>3
    <3>6. \A a, b, d, e, t \in Int :
            t = a + d /\ d = b + e => t = b + (a + e)
      OBVIOUS
    <3>7. sum(T \ {c}) \in Int /\ sum(T) \in Int
      BY <2>1, SumType, FS_Subset
    <3> HIDE DEF sum, c
    <3> QED
      BY <2>2, <3>1, <3>4, <3>5, <3>6, <3>7
  <2> QED
    BY <2>3, <2>4
<1> HIDE DEF Good
<1>2. S \in Good
  BY <1>1, SubsetInduction
<1> QED
  BY <1>2 DEF Good

\* A new element adds its value.
LEMMA SumAdd ==
  ASSUME NEW S, IsFiniteSet(S), NEW x, x \notin S,
         NEW f, \A y \in S \cup {x} : f[y] \in Int
  PROVE  SumFunctionOnSet(f, S \cup {x}) = SumFunctionOnSet(f, S) + f[x]
<1>1. IsFiniteSet(S \cup {x}) /\ x \in S \cup {x} /\ (S \cup {x}) \ {x} = S
  BY FS_AddElement
<1>2. SumFunctionOnSet(f, S \cup {x}) = f[x] + SumFunctionOnSet(f, S)
  BY <1>1, SumRemove
<1>3. SumFunctionOnSet(f, S) \in Int /\ f[x] \in Int
  BY SumType
<1> QED
  BY <1>2, <1>3

\* Functions that agree on a set have the same sum over it.
LEMMA SumSame ==
  ASSUME NEW S, IsFiniteSet(S), NEW f, \A x \in S : f[x] \in Int,
         NEW g, \A x \in S : g[x] = f[x]
  PROVE  SumFunctionOnSet(g, S) = SumFunctionOnSet(f, S)
<1> DEFINE Good == {T \in SUBSET S : SumFunctionOnSet(g, T) = SumFunctionOnSet(f, T)}
<1>1. {} \in Good
  BY SumEmpty
<1>2. ASSUME NEW T \in SUBSET S, NEW x \in S \ T, T \in Good
      PROVE  T \cup {x} \in Good
  <2>1. IsFiniteSet(T) /\ x \notin T /\ T \cup {x} \in SUBSET S
    BY FS_Subset
  <2>2. SumFunctionOnSet(f, T \cup {x}) = SumFunctionOnSet(f, T) + f[x]
    BY <2>1, SumAdd
  <2>3. SumFunctionOnSet(g, T \cup {x}) = SumFunctionOnSet(g, T) + g[x]
    BY <2>1, SumAdd
  <2> QED
    BY <1>2, <2>1, <2>2, <2>3
<1> HIDE DEF Good
<1>3. S \in Good
  BY <1>1, <1>2, SetInduction
<1> QED
  BY <1>3 DEF Good

\* The sum of a function is that over its domain.
LEMMA SumOfFunction ==
  ASSUME NEW f PROVE SumFunction(f) = SumFunctionOnSet(f, DOMAIN f)
BY DEF SumFunction

-----------------------------------------------------------------------------
(* Sums of sums, of differences, of multiples *)

\* Sums add up pointwise.
LEMMA SumPlus ==
  ASSUME NEW S, IsFiniteSet(S), NEW f, NEW g, NEW h,
         \A x \in S : f[x] \in Int /\ g[x] \in Int /\ h[x] = f[x] + g[x]
  PROVE  SumFunctionOnSet(h, S) = SumFunctionOnSet(f, S) + SumFunctionOnSet(g, S)
<1> DEFINE sum(k, T) == SumFunctionOnSet(k, T)
           Good == {T \in SUBSET S : sum(h, T) = sum(f, T) + sum(g, T)}
<1>0. \A x \in S : f[x] \in Int /\ g[x] \in Int /\ h[x] \in Int
  OBVIOUS
<1>1. {} \in Good
  BY SumEmpty
<1>2. ASSUME NEW T \in SUBSET S, NEW x \in S \ T, T \in Good
      PROVE  T \cup {x} \in Good
  <2>1. IsFiniteSet(T) /\ x \notin T /\ T \cup {x} \in SUBSET S
    BY FS_Subset
  <2>2. /\ sum(f, T \cup {x}) = sum(f, T) + f[x]
        /\ sum(g, T \cup {x}) = sum(g, T) + g[x]
        /\ sum(h, T \cup {x}) = sum(h, T) + h[x]
    BY <1>0, <2>1, SumAdd
  <2>3. sum(f, T) \in Int /\ sum(g, T) \in Int
    BY <2>1, SumType
  <2>4. f[x] \in Int /\ g[x] \in Int /\ h[x] = f[x] + g[x] /\ sum(h, T) = sum(f, T) + sum(g, T)
    BY <1>2
  <2> HIDE DEF sum
  <2> QED
    BY <2>1, <2>2, <2>3, <2>4
<1> HIDE DEF Good
<1>3. S \in Good
  BY <1>1, <1>2, SetInduction
<1> QED
  BY <1>3 DEF Good

\* So do differences.
LEMMA SumMinus ==
  ASSUME NEW S, IsFiniteSet(S), NEW f, NEW g, NEW h,
         \A x \in S : f[x] \in Int /\ g[x] \in Int /\ h[x] = f[x] - g[x]
  PROVE  SumFunctionOnSet(h, S) = SumFunctionOnSet(f, S) - SumFunctionOnSet(g, S)
<1>1. \A x \in S : h[x] \in Int /\ g[x] \in Int /\ f[x] = h[x] + g[x]
  OBVIOUS
<1>2. SumFunctionOnSet(f, S) = SumFunctionOnSet(h, S) + SumFunctionOnSet(g, S)
  BY <1>1, SumPlus
<1>3. SumFunctionOnSet(h, S) \in Int /\ SumFunctionOnSet(g, S) \in Int
  BY <1>1, SumType
<1> QED
  BY <1>2, <1>3

\* A common factor may be taken out.
LEMMA SumTimes ==
  ASSUME NEW S, IsFiniteSet(S), NEW c \in Int, NEW f, NEW h,
         \A x \in S : f[x] \in Int /\ h[x] = c * f[x]
  PROVE  SumFunctionOnSet(h, S) = c * SumFunctionOnSet(f, S)
<1> DEFINE sum(k, T) == SumFunctionOnSet(k, T)
           Good == {T \in SUBSET S : sum(h, T) = c * sum(f, T)}
<1>0. \A x \in S : h[x] \in Int
  OBVIOUS
<1>1. {} \in Good
  BY SumEmpty
<1>2. ASSUME NEW T \in SUBSET S, NEW x \in S \ T, T \in Good
      PROVE  T \cup {x} \in Good
  <2>1. IsFiniteSet(T) /\ x \notin T /\ T \cup {x} \in SUBSET S
    BY FS_Subset
  <2>2. /\ sum(f, T \cup {x}) = sum(f, T) + f[x]
        /\ sum(h, T \cup {x}) = sum(h, T) + h[x]
    BY <1>0, <2>1, SumAdd
  <2>3. sum(f, T) \in Int /\ f[x] \in Int /\ h[x] = c * f[x] /\ sum(h, T) = c * sum(f, T)
    BY <1>2, <2>1, SumType
  <2>4. c * (sum(f, T) + f[x]) = c * sum(f, T) + c * f[x]
    <3> HIDE DEF sum
    <3> QED
      BY <2>3
  <2> HIDE DEF sum
  <2> QED
    BY <2>1, <2>2, <2>3, <2>4
<1> HIDE DEF Good
<1>3. S \in Good
  BY <1>1, <1>2, SetInduction
<1> QED
  BY <1>3 DEF Good

\* A sum of smaller parts is smaller.
LEMMA SumLeq ==
  ASSUME NEW S, IsFiniteSet(S), NEW f, NEW g,
         \A x \in S : f[x] \in Int /\ g[x] \in Int /\ f[x] <= g[x]
  PROVE  SumFunctionOnSet(f, S) <= SumFunctionOnSet(g, S)
<1> DEFINE sum(k, T) == SumFunctionOnSet(k, T)
           Good == {T \in SUBSET S : sum(f, T) <= sum(g, T)}
<1>1. {} \in Good
  BY SumEmpty
<1>2. ASSUME NEW T \in SUBSET S, NEW x \in S \ T, T \in Good
      PROVE  T \cup {x} \in Good
  <2>1. IsFiniteSet(T) /\ x \notin T /\ T \cup {x} \in SUBSET S
    BY FS_Subset
  <2>2. /\ sum(f, T \cup {x}) = sum(f, T) + f[x]
        /\ sum(g, T \cup {x}) = sum(g, T) + g[x]
    BY <2>1, SumAdd
  <2>3. sum(f, T) \in Int /\ sum(g, T) \in Int
    BY <2>1, SumType
  <2>4. f[x] \in Int /\ g[x] \in Int /\ f[x] <= g[x] /\ sum(f, T) <= sum(g, T)
    BY <1>2
  <2> HIDE DEF sum
  <2> QED
    BY <2>1, <2>2, <2>3, <2>4
<1> HIDE DEF Good
<1>3. S \in Good
  BY <1>1, <1>2, SetInduction
<1> QED
  BY <1>3 DEF Good

\* Equal parts add up to a multiple of their number.
LEMMA SumConstant ==
  ASSUME NEW S, IsFiniteSet(S), NEW c \in Int, NEW f, \A x \in S : f[x] = c
  PROVE  SumFunctionOnSet(f, S) = c * Cardinality(S)
<1> DEFINE Good == {T \in SUBSET S : SumFunctionOnSet(f, T) = c * Cardinality(T)}
<1>1. {} \in Good
  BY SumEmpty, FS_EmptySet
<1>2. ASSUME NEW T \in SUBSET S, NEW x \in S \ T, T \in Good
      PROVE  T \cup {x} \in Good
  <2>1. IsFiniteSet(T) /\ x \notin T /\ T \cup {x} \in SUBSET S
    BY FS_Subset
  <2>2. SumFunctionOnSet(f, T \cup {x}) = SumFunctionOnSet(f, T) + f[x]
    BY <2>1, SumAdd
  <2>3. f[x] = c /\ Cardinality(T) \in Nat /\ Cardinality(T \cup {x}) = Cardinality(T) + 1
    BY <2>1, FS_CardinalityType, FS_AddElement
  <2>4. c * (Cardinality(T) + 1) = c * Cardinality(T) + c
    BY <2>3
  <2> QED
    BY <1>2, <2>1, <2>2, <2>3, <2>4
<1> HIDE DEF Good
<1>3. S \in Good
  BY <1>1, <1>2, SetInduction
<1> QED
  BY <1>3 DEF Good

\* A sum of numbers is at least each of them.
LEMMA SumOfNats ==
  ASSUME NEW S, IsFiniteSet(S), NEW f, \A x \in S : f[x] \in Nat
  PROVE  /\ SumFunctionOnSet(f, S) \in Nat
         /\ \A x \in S : f[x] <= SumFunctionOnSet(f, S)
<1>1. ASSUME NEW T \in SUBSET S
      PROVE  SumFunctionOnSet(f, T) \in Nat
  <2> DEFINE zero == [x \in T |-> 0]
  <2>1. IsFiniteSet(T) /\ Cardinality(T) \in Nat
    BY FS_Subset, FS_CardinalityType
  <2>2. SumFunctionOnSet(zero, T) = 0 * Cardinality(T)
    BY <2>1, SumConstant
  <2>3. SumFunctionOnSet(zero, T) <= SumFunctionOnSet(f, T)
    BY <2>1, SumLeq
  <2>4. SumFunctionOnSet(f, T) \in Int
    BY <2>1, SumType
  <2> QED
    BY <2>1, <2>2, <2>3, <2>4
<1>2. ASSUME NEW x \in S
      PROVE  f[x] <= SumFunctionOnSet(f, S)
  <2>1. SumFunctionOnSet(f, S) = f[x] + SumFunctionOnSet(f, S \ {x})
    BY SumRemove
  <2>2. SumFunctionOnSet(f, S \ {x}) \in Nat /\ f[x] \in Nat
    BY <1>1
  <2> QED
    BY <2>1, <2>2
<1> QED
  BY <1>1, <1>2

-----------------------------------------------------------------------------
(* Other ways to cut a set up *)

\* Sums over sets that share nothing add up.
LEMMA SumDisjoint ==
  ASSUME NEW S, IsFiniteSet(S), NEW T, IsFiniteSet(T), S \cap T = {},
         NEW f, \A x \in S \cup T : f[x] \in Int
  PROVE  SumFunctionOnSet(f, S \cup T) = SumFunctionOnSet(f, S) + SumFunctionOnSet(f, T)
<1> DEFINE sum(U) == SumFunctionOnSet(f, U)
           Good == {U \in SUBSET T : sum(S \cup U) = sum(S) + sum(U)}
<1>0. sum(S) \in Int
  BY SumType
<1>1. {} \in Good
  <2>1. S \cup {} = S
    OBVIOUS
  <2> QED
    BY <1>0, <2>1, SumEmpty
<1>2. ASSUME NEW U \in SUBSET T, NEW x \in T \ U, U \in Good
      PROVE  U \cup {x} \in Good
  <2>1. IsFiniteSet(U) /\ x \notin U /\ U \cup {x} \in SUBSET T
    BY FS_Subset
  <2>2. IsFiniteSet(S \cup U) /\ x \notin S \cup U /\ S \cup (U \cup {x}) = (S \cup U) \cup {x}
    BY <2>1, FS_Union
  <2>3. sum(U \cup {x}) = sum(U) + f[x]
    BY <2>1, SumAdd
  <2>4. sum((S \cup U) \cup {x}) = sum(S \cup U) + f[x]
    BY <2>2, SumAdd
  <2>5. sum(U) \in Int /\ f[x] \in Int /\ sum(S \cup U) = sum(S) + sum(U)
    BY <1>2, <2>1, SumType
  <2>6. sum(S \cup (U \cup {x})) = sum((S \cup U) \cup {x})
    BY <2>2
  <2>7. \A a, b, c, d, e, t \in Int :
          a = b + c /\ d = c + e /\ t = a + e => t = b + d
    OBVIOUS
  <2>8. sum((S \cup U) \cup {x}) = sum(S) + sum(U \cup {x})
    <3>1. sum(S \cup U) \in Int /\ sum(U \cup {x}) \in Int /\ sum((S \cup U) \cup {x}) \in Int
      BY <1>0, <2>3, <2>4, <2>5
    <3> HIDE DEF sum
    <3> QED
      BY <1>0, <2>3, <2>4, <2>5, <2>7, <3>1
  <2> QED
    BY <2>1, <2>6, <2>8
<1> HIDE DEF Good
<1>3. T \in Good
  BY <1>1, <1>2, SetInduction
<1> QED
  BY <1>3 DEF Good

\* Elements that count for nothing may be left out.
LEMMA SumWithin ==
  ASSUME NEW S, IsFiniteSet(S), NEW T \in SUBSET S,
         NEW f, \A x \in S : f[x] \in Int, \A x \in S \ T : f[x] = 0
  PROVE  SumFunctionOnSet(f, S) = SumFunctionOnSet(f, T)
<1>1. IsFiniteSet(T) /\ IsFiniteSet(S \ T) /\ T \cap (S \ T) = {} /\ T \cup (S \ T) = S
  BY FS_Subset
<1>2. SumFunctionOnSet(f, T \cup (S \ T)) = SumFunctionOnSet(f, T) + SumFunctionOnSet(f, S \ T)
  BY <1>1, SumDisjoint
<1>3. SumFunctionOnSet(f, S \ T) = 0 * Cardinality(S \ T) /\ Cardinality(S \ T) \in Nat
  BY <1>1, SumConstant, FS_CardinalityType
<1>4. SumFunctionOnSet(f, T) \in Int
  BY <1>1, SumType
<1>5. SumFunctionOnSet(f, S \ T) = 0
  BY <1>3
<1>6. SumFunctionOnSet(f, S) = SumFunctionOnSet(f, T \cup (S \ T))
  BY <1>1
<1> QED
  BY <1>2, <1>4, <1>5, <1>6

\* The sum over a part of a set, as a sum over the whole.
LEMMA SumSelect ==
  ASSUME NEW S, IsFiniteSet(S), NEW T \in SUBSET S,
         NEW f, \A x \in T : f[x] \in Int,
         NEW g, \A x \in S : g[x] = IF x \in T THEN f[x] ELSE 0
  PROVE  SumFunctionOnSet(g, S) = SumFunctionOnSet(f, T)
<1>1. SumFunctionOnSet(g, S) = SumFunctionOnSet(g, T)
  BY SumWithin
<1>2. SumFunctionOnSet(g, T) = SumFunctionOnSet(f, T)
  BY SumSame, FS_Subset
<1> QED
  BY <1>1, <1>2

\* Renaming the elements changes no sum.
LEMMA SumRename ==
  ASSUME NEW S, IsFiniteSet(S), NEW T, NEW p \in Bijection(S, T),
         NEW f, \A y \in T : f[y] \in Int,
         NEW g, \A x \in S : g[x] = f[p[x]]
  PROVE  SumFunctionOnSet(g, S) = SumFunctionOnSet(f, T)
<1> DEFINE image(U) == {p[x] : x \in U}
           Good == {U \in SUBSET S : IsFiniteSet(image(U)) /\
                      SumFunctionOnSet(g, U) = SumFunctionOnSet(f, image(U))}
<1>0. /\ p \in [S -> T]
      /\ \A x, y \in S : p[x] = p[y] => x = y
      /\ image(S) = T
  BY DEF Bijection, Injection, Surjection, IsInjective
<1>1. {} \in Good
  <2>1. image({}) = {}
    OBVIOUS
  <2> QED
    BY <2>1, SumEmpty, FS_EmptySet
<1>2. ASSUME NEW U \in SUBSET S, NEW x \in S \ U, U \in Good
      PROVE  U \cup {x} \in Good
  <2>1. IsFiniteSet(U) /\ x \notin U /\ U \cup {x} \in SUBSET S
    BY FS_Subset
  <2>2. image(U \cup {x}) = image(U) \cup {p[x]} /\ p[x] \notin image(U)
    BY <1>0, <2>1
  <2>3. IsFiniteSet(image(U)) /\ image(U) \subseteq T /\ p[x] \in T
    BY <1>0, <1>2
  <2>4. SumFunctionOnSet(f, image(U) \cup {p[x]}) = SumFunctionOnSet(f, image(U)) + f[p[x]]
    <3> DEFINE I == image(U)
               new == p[x]
    <3>1. IsFiniteSet(I) /\ new \notin I /\ \A y \in I \cup {new} : f[y] \in Int
      BY <2>2, <2>3
    <3> HIDE DEF I, new
    <3>2. SumFunctionOnSet(f, I \cup {new}) = SumFunctionOnSet(f, I) + f[new]
      BY <3>1, SumAdd
    <3> QED
      BY <3>2 DEF I, new
  <2>5. \A y \in S : g[y] \in Int
    BY <1>0
  <2>6. SumFunctionOnSet(g, U \cup {x}) = SumFunctionOnSet(g, U) + g[x]
    BY <2>1, <2>5, SumAdd
  <2>7. IsFiniteSet(image(U) \cup {p[x]})
    BY <2>3, FS_AddElement
  <2> QED
    BY <1>2, <2>1, <2>2, <2>4, <2>6, <2>7
<1> HIDE DEF Good
<1>3. S \in Good
  BY <1>1, <1>2, SetInduction
<1> QED
  BY <1>0, <1>3 DEF Good

\* What the elements of each key add up to.
SumsOfKeys(g, K, S, key, f) ==
  \A k \in K : g[k] = SumFunctionOnSet(f, {x \in S : key[x] = k})

\* A sum may be taken class by class.
LEMMA SumByKey ==
  ASSUME NEW S, IsFiniteSet(S), NEW K, IsFiniteSet(K),
         NEW key, \A x \in S : key[x] \in K,
         NEW f, \A x \in S : f[x] \in Int,
         NEW g, SumsOfKeys(g, K, S, key, f)
  PROVE  SumFunctionOnSet(g, K) = SumFunctionOnSet(f, S)
<1> USE DEF SumsOfKeys
<1> DEFINE class(k) == {x \in S : key[x] = k}
           classes(U) == {x \in S : key[x] \in U}
           Good == {U \in SUBSET K : SumFunctionOnSet(g, U) = SumFunctionOnSet(f, classes(U))}
<1>0. /\ \A k \in K : IsFiniteSet(class(k)) /\ g[k] \in Int
      /\ \A U \in SUBSET K : IsFiniteSet(classes(U))
  <2>1. ASSUME NEW U \in SUBSET K
        PROVE  IsFiniteSet(classes(U))
    BY FS_Subset
  <2>2. ASSUME NEW k \in K
        PROVE  IsFiniteSet(class(k)) /\ g[k] \in Int
    <3>1. IsFiniteSet(class(k)) /\ \A x \in class(k) : f[x] \in Int
      BY FS_Subset
    <3>2. SumFunctionOnSet(f, class(k)) \in Int
      <4> HIDE DEF class
      <4> QED
        BY <3>1, SumType
    <3> QED
      BY <3>1, <3>2
  <2> QED
    BY <2>1, <2>2
<1>1. {} \in Good
  <2>1. classes({}) = {}
    OBVIOUS
  <2> QED
    BY <2>1, SumEmpty
<1>2. ASSUME NEW U \in SUBSET K, NEW k \in K \ U, U \in Good
      PROVE  U \cup {k} \in Good
  <2>1. IsFiniteSet(U) /\ k \notin U /\ U \cup {k} \in SUBSET K
    BY FS_Subset
  <2>2. /\ classes(U \cup {k}) = classes(U) \cup class(k)
        /\ classes(U) \cap class(k) = {}
    BY <2>1
  <2>3. /\ IsFiniteSet(classes(U)) /\ IsFiniteSet(class(k))
        /\ \A x \in classes(U) \cup class(k) : f[x] \in Int
    BY <1>0
  <2>4. SumFunctionOnSet(f, classes(U) \cup class(k))
          = SumFunctionOnSet(f, classes(U)) + SumFunctionOnSet(f, class(k))
    <3> HIDE DEF classes, class
    <3> QED
      BY <2>2, <2>3, SumDisjoint
  <2>5. SumFunctionOnSet(g, U \cup {k}) = SumFunctionOnSet(g, U) + g[k]
    BY <1>0, <2>1, SumAdd
  <2> QED
    BY <1>2, <2>1, <2>2, <2>4, <2>5
<1> HIDE DEF Good
<1>3. K \in Good
  BY <1>1, <1>2, SetInduction
<1>4. classes(K) = S
  OBVIOUS
<1> QED
  BY <1>3, <1>4 DEF Good

\* How many elements there are of a kind, as a sum.
LEMMA SumCount ==
  ASSUME NEW S, IsFiniteSet(S), NEW T \in SUBSET S,
         NEW f, \A x \in S : f[x] = IF x \in T THEN 1 ELSE 0
  PROVE  SumFunctionOnSet(f, S) = Cardinality(T)
<1>1. SumFunctionOnSet(f, S) = SumFunctionOnSet(f, T)
  BY SumWithin
<1>2. IsFiniteSet(T) /\ Cardinality(T) \in Nat
  BY FS_Subset, FS_CardinalityType
<1>3. SumFunctionOnSet(f, T) = 1 * Cardinality(T)
  BY <1>2, SumConstant
<1> QED
  BY <1>1, <1>2, <1>3

\* A table, its rows added up by f and its columns by g.
TableOf(S, T, row, col, f, g) ==
  /\ \A x \in S, y \in T : row[x][y] \in Int /\ col[y][x] = row[x][y]
  /\ \A x \in S : f[x] = SumFunctionOnSet(row[x], T)
  /\ \A y \in T : g[y] = SumFunctionOnSet(col[y], S)

\* A table adds up to the same by rows and by columns.
LEMMA SumSwap ==
  ASSUME NEW S, IsFiniteSet(S), NEW T, IsFiniteSet(T), NEW row, NEW col, NEW f, NEW g,
         TableOf(S, T, row, col, f, g)
  PROVE  SumFunctionOnSet(f, S) = SumFunctionOnSet(g, T)
<1> DEFINE part(U) == [y \in T |-> SumFunctionOnSet(col[y], U)]
           Good == {U \in SUBSET S : SumFunctionOnSet(f, U) = SumFunctionOnSet(part(U), T)}
<1>1. \A U \in SUBSET S : U \in Good <=> SumFunctionOnSet(f, U) = SumFunctionOnSet(part(U), T)
  OBVIOUS
<1>2. \A U \in SUBSET S : \A y \in T : part(U)[y] = SumFunctionOnSet(col[y], U)
  OBVIOUS
<1>3. \A x \in S : f[x] \in Int
  BY SumType DEF TableOf
<1> HIDE DEF part, Good
<1>4. {} \in Good
  <2>1. \A y \in T : part({})[y] = 0
    BY <1>2, SumEmpty
  <2>2. SumFunctionOnSet(part({}), T) = 0 * Cardinality(T)
    BY <2>1, SumConstant
  <2>3. Cardinality(T) \in Nat
    BY FS_CardinalityType
  <2> QED
    BY <1>1, <2>2, <2>3, SumEmpty
<1>5. ASSUME NEW U \in SUBSET S, NEW x \in S \ U, U \in Good
      PROVE  U \cup {x} \in Good
  <2>1. IsFiniteSet(U) /\ U \cup {x} \in SUBSET S /\ x \notin U /\ x \in S
    BY FS_Subset
  <2>2. SumFunctionOnSet(f, U \cup {x}) = SumFunctionOnSet(f, U) + f[x]
    <3>1. \A y \in U \cup {x} : f[y] \in Int
      BY <1>3
    <3> QED
      BY <2>1, <3>1, SumAdd
  <2>3. ASSUME NEW y \in T
        PROVE  /\ part(U)[y] \in Int /\ row[x][y] \in Int
               /\ part(U \cup {x})[y] = part(U)[y] + row[x][y]
    <3> DEFINE c == col[y]
    <3>1. (\A z \in U \cup {x} : c[z] \in Int) /\ c[x] = row[x][y] /\ row[x][y] \in Int
      BY <2>1 DEF TableOf
    <3> HIDE DEF c
    <3>2. SumFunctionOnSet(c, U \cup {x}) = SumFunctionOnSet(c, U) + c[x]
      BY <2>1, <3>1, SumAdd
    <3>3. SumFunctionOnSet(c, U) \in Int
      BY <2>1, <3>1, SumType
    <3>4. /\ part(U)[y] = SumFunctionOnSet(col[y], U)
          /\ part(U \cup {x})[y] = SumFunctionOnSet(col[y], U \cup {x})
      BY <1>2, <2>1
    <3> QED
      BY <3>1, <3>2, <3>3, <3>4 DEF c
  <2>4. SumFunctionOnSet(part(U \cup {x}), T)
          = SumFunctionOnSet(part(U), T) + SumFunctionOnSet(row[x], T)
    <3> DEFINE p == part(U)
               q == part(U \cup {x})
               r == row[x]
    <3>1. \A y \in T : p[y] \in Int /\ r[y] \in Int /\ q[y] = p[y] + r[y]
      BY <2>3
    <3> HIDE DEF p, q, r
    <3>2. SumFunctionOnSet(q, T) = SumFunctionOnSet(p, T) + SumFunctionOnSet(r, T)
      BY <3>1, SumPlus
    <3> QED
      BY <3>2 DEF p, q, r
  <2> QED
    BY <1>1, <1>5, <2>1, <2>2, <2>4 DEF TableOf
<1>6. S \in Good
  BY <1>4, <1>5, SetInduction
<1>7. \A y \in T : g[y] = part(S)[y] /\ part(S)[y] \in Int
  BY <1>2, SumType DEF TableOf
<1>8. SumFunctionOnSet(g, T) = SumFunctionOnSet(part(S), T)
  BY <1>7, SumSame
<1> QED
  BY <1>1, <1>6, <1>8

-----------------------------------------------------------------------------
(* Ranks *)

Before(P, R, x) == {y \in P : <<y, x>> \in R}

IsStrictOrder(P, R) ==
  /\ \A x \in P : <<x, x>> \notin R
  /\ \A x, y, z \in P : <<x, y>> \in R /\ <<y, z>> \in R => <<x, z>> \in R
  /\ \A x, y \in P : x # y => <<x, y>> \in R \/ <<y, x>> \in R

\* Along a strict order ranks rise.
LEMMA RanksRise ==
  ASSUME NEW P, IsFiniteSet(P), NEW R, IsStrictOrder(P, R),
         NEW x \in P, NEW y \in P, <<x, y>> \in R
  PROVE  Cardinality(Before(P, R, x)) < Cardinality(Before(P, R, y))
<1>1. Before(P, R, x) \subseteq Before(P, R, y) /\ x \in Before(P, R, y) \ Before(P, R, x)
  BY DEF Before, IsStrictOrder
<1>2. IsFiniteSet(Before(P, R, x)) /\ IsFiniteSet(Before(P, R, y))
  BY FS_Subset DEF Before
<1>3. /\ Cardinality(Before(P, R, x)) \in Nat /\ Cardinality(Before(P, R, y)) \in Nat
      /\ Cardinality(Before(P, R, x)) <= Cardinality(Before(P, R, y))
      /\ Cardinality(Before(P, R, x)) # Cardinality(Before(P, R, y))
  BY <1>1, <1>2, FS_Subset, FS_CardinalityType
<1> QED
  BY <1>3

\* As many elements have a rank below n as n says.
LEMMA RankCount ==
  ASSUME NEW P, IsFiniteSet(P), NEW R, IsStrictOrder(P, R),
         NEW n \in 0 .. Cardinality(P)
  PROVE  Cardinality({x \in P : Cardinality(Before(P, R, x)) < n}) = n
<1> DEFINE size == Cardinality(P)
           rank == [x \in P |-> Cardinality(Before(P, R, x))]
           low == {x \in P : rank[x] < n}
<1>1. size \in Nat
  BY FS_CardinalityType
<1>2. ASSUME NEW x \in P
      PROVE  rank[x] \in 0 .. size - 1
  <2>1. Before(P, R, x) \in SUBSET P /\ Before(P, R, x) # P
    BY DEF Before, IsStrictOrder
  <2>2. /\ Cardinality(Before(P, R, x)) \in Nat
        /\ Cardinality(Before(P, R, x)) <= size
        /\ Cardinality(Before(P, R, x)) # size
    BY <2>1, FS_Subset, FS_CardinalityType
  <2> QED
    BY <1>1, <2>2
<1>3. rank \in Injection(P, 0 .. size - 1)
  <2>1. ASSUME NEW x \in P, NEW y \in P, x # y
        PROVE  rank[x] # rank[y]
    <3>1. <<x, y>> \in R \/ <<y, x>> \in R
      BY <2>1 DEF IsStrictOrder
    <3>2. rank[x] < rank[y] \/ rank[y] < rank[x]
      BY <3>1, RanksRise
    <3> QED
      BY <1>1, <1>2, <3>2
  <2>2. rank \in [P -> 0 .. size - 1]
    BY <1>2
  <2> HIDE DEF rank
  <2> QED
    BY <2>1, <2>2, Fun_IsInj
<1>4. rank \in Surjection(P, 0 .. size - 1)
  <2>1. IsFiniteSet(0 .. size - 1) /\ Cardinality(0 .. size - 1) = size
    BY <1>1, FirstNumbers
  <2> HIDE DEF rank
  <2> QED
    BY <1>3, <2>1, FS_Injection
<1>5. [x \in low |-> rank[x]] \in Bijection(low, 0 .. n - 1)
  <2> DEFINE r == [x \in low |-> rank[x]]
  <2>1. r \in [low -> 0 .. n - 1]
    BY <1>1, <1>2
  <2>2. \A x, y \in low : r[x] = r[y] => x = y
    BY <1>3 DEF Injection, IsInjective
  <2>3. ASSUME NEW k \in 0 .. n - 1
        PROVE  \E x \in low : r[x] = k
    <3>1. k \in 0 .. size - 1 /\ k < n
      BY <1>1
    <3>2. PICK x \in P : rank[x] = k
      BY <1>4, <3>1, Zenon DEF Surjection
    <3>3. x \in low
      BY <3>1, <3>2
    <3> QED
      BY <3>2, <3>3
  <2>4. /\ r \in [low -> 0 .. n - 1]
        /\ \A x, y \in low : r[x] = r[y] => x = y
        /\ \A k \in 0 .. n - 1 : \E x \in low : r[x] = k
    BY <2>1, <2>2, <2>3
  <2> SUFFICES r \in Bijection(low, 0 .. n - 1)
    OBVIOUS
  <2> HIDE DEF r, low
  <2> QED
    BY <2>4 DEF Bijection, Injection, Surjection, IsInjective
<1>6. ExistsBijection(low, 0 .. n - 1)
  BY <1>5 DEF ExistsBijection
<1>7. IsFiniteSet(low)
  BY FS_Subset
<1>8. Cardinality(low) = Cardinality(0 .. n - 1) /\ Cardinality(0 .. n - 1) = n
  BY <1>1, <1>6, <1>7, FS_Bijection, FirstNumbers
<1> QED
  BY <1>8

-----------------------------------------------------------------------------
(* The line of cents *)

\* Balances of finitely many members.
NetsOf(U) == [U -> Int]
Members(U) == IsFiniteSet(U) /\ U \subseteq Nat

\* What each member owes, is owed, and what the members up to one do.
DebtIn(net) == [u \in DOMAIN net |-> IF net[u] < 0 THEN -net[u] ELSE 0]
CreditIn(net) == [u \in DOMAIN net |-> IF net[u] > 0 THEN net[u] ELSE 0]
UpTo(f, u) == SumFunctionOnSet(f, {v \in DOMAIN f : v <= u})

\* A part of a set adds up to no more than the set.
LEMMA SumOfPart ==
  ASSUME NEW S, IsFiniteSet(S), NEW T \in SUBSET S, NEW f, \A x \in S : f[x] \in Nat
  PROVE  SumFunctionOnSet(f, T) <= SumFunctionOnSet(f, S)
<1>1. /\ IsFiniteSet(T) /\ IsFiniteSet(S \ T) /\ T \cap (S \ T) = {} /\ T \cup (S \ T) = S
  BY FS_Subset
<1>2. SumFunctionOnSet(f, T \cup (S \ T)) = SumFunctionOnSet(f, T) + SumFunctionOnSet(f, S \ T)
  <2>1. \A x \in T \cup (S \ T) : f[x] \in Int
    BY <1>1
  <2> QED
    BY <1>1, <2>1, SumDisjoint
<1>3. SumFunctionOnSet(f, T) \in Nat /\ SumFunctionOnSet(f, S \ T) \in Nat
  BY <1>1, SumOfNats
<1>4. SumFunctionOnSet(f, S) = SumFunctionOnSet(f, T) + SumFunctionOnSet(f, S \ T)
  BY <1>1, <1>2, Zenon
<1> QED
  BY <1>3, <1>4

\* Running totals are numbers of cents, rise along the members, and each
\* member adds its own part.
LEMMA RunningTotal ==
  ASSUME NEW U, Members(U), NEW f \in [U -> Nat]
  PROVE  /\ \A u \in U : UpTo(f, u) \in Nat /\ f[u] <= UpTo(f, u)
         /\ \A u, v \in U : u < v => UpTo(f, u) <= UpTo(f, v) - f[v]
<1> DEFINE upto(u) == {v \in U : v <= u}
           below(u) == {v \in U : v < u}
<1>1. IsFiniteSet(U) /\ \A v \in U : v \in Nat
  BY DEF Members
<1>2. ASSUME NEW u \in U
      PROVE  /\ IsFiniteSet(upto(u)) /\ u \in upto(u) /\ upto(u) \in SUBSET U
             /\ upto(u) \ {u} = below(u)
             /\ IsFiniteSet(below(u)) /\ below(u) \in SUBSET U
             /\ UpTo(f, u) = SumFunctionOnSet(f, upto(u))
  <2>1. IsFiniteSet(upto(u)) /\ IsFiniteSet(below(u))
    BY <1>1, FS_Subset
  <2>2. u \in upto(u)
    BY <1>1
  <2>3. \A v \in U : v <= u /\ v # u <=> v < u
    BY <1>1
  <2>4. upto(u) \ {u} = below(u)
    BY <2>3
  <2>5. UpTo(f, u) = SumFunctionOnSet(f, upto(u))
    BY DEF UpTo
  <2> QED
    BY <2>1, <2>2, <2>4, <2>5
<1>3. ASSUME NEW u \in U
      PROVE  /\ UpTo(f, u) \in Nat /\ f[u] <= UpTo(f, u)
             /\ SumFunctionOnSet(f, below(u)) \in Nat
             /\ UpTo(f, u) = f[u] + SumFunctionOnSet(f, below(u))
  <2> DEFINE low == upto(u)
             lower == below(u)
  <2>1. /\ IsFiniteSet(low) /\ u \in low /\ low \in SUBSET U
        /\ low \ {u} = lower
        /\ IsFiniteSet(lower) /\ lower \in SUBSET U
        /\ UpTo(f, u) = SumFunctionOnSet(f, low)
    BY <1>2
  <2> HIDE DEF low, lower
  <2>2. \A v \in low : f[v] \in Nat /\ f[v] \in Int
    BY <2>1
  <2>3. \A v \in lower : f[v] \in Nat
    BY <2>1
  <2>4. SumFunctionOnSet(f, low) \in Nat /\ f[u] <= SumFunctionOnSet(f, low)
    BY <2>1, <2>2, SumOfNats
  <2>5. SumFunctionOnSet(f, lower) \in Nat
    BY <2>1, <2>3, SumOfNats
  <2>6. SumFunctionOnSet(f, low) = f[u] + SumFunctionOnSet(f, low \ {u})
    BY <2>1, <2>2, SumRemove
  <2> QED
    BY <2>1, <2>4, <2>5, <2>6 DEF lower
<1>4. ASSUME NEW u \in U, NEW v \in U, u < v
      PROVE  UpTo(f, u) <= SumFunctionOnSet(f, below(v))
  <2> DEFINE low == upto(u)
             lower == below(v)
  <2>1. \A w \in U : w <= u => w < v
    BY <1>1, <1>4
  <2>2. /\ low \in SUBSET lower /\ IsFiniteSet(lower) /\ lower \in SUBSET U
        /\ UpTo(f, u) = SumFunctionOnSet(f, low)
    BY <1>2, <2>1
  <2> HIDE DEF low, lower
  <2>3. \A w \in lower : f[w] \in Nat
    BY <2>2
  <2>4. SumFunctionOnSet(f, low) <= SumFunctionOnSet(f, lower)
    BY <2>2, <2>3, SumOfPart
  <2> QED
    BY <2>2, <2>4 DEF lower
<1> HIDE DEF below, upto
<1>5. ASSUME NEW u \in U, NEW v \in U, u < v
      PROVE  UpTo(f, u) <= UpTo(f, v) - f[v]
  BY <1>3, <1>4, <1>5
<1> QED
  BY <1>3, <1>5

\* A part that one member loses is lost to every running total from there on.
LEMMA RunningTotalLowered ==
  ASSUME NEW U, Members(U), NEW f \in [U -> Nat], NEW x \in U, NEW p \in Nat, p <= f[x],
         NEW g \in [U -> Nat], \A u \in U : g[u] = IF u = x THEN f[u] - p ELSE f[u]
  PROVE  \A u \in U : UpTo(g, u) = UpTo(f, u) - (IF x <= u THEN p ELSE 0)
<1> SUFFICES ASSUME NEW u \in U PROVE UpTo(g, u) = UpTo(f, u) - (IF x <= u THEN p ELSE 0)
  OBVIOUS
<1> DEFINE upto == {v \in U : v <= u}
<1>1. g[x] = f[x] - p /\ (\A v \in U \ {x} : g[v] = f[v]) /\ \A v \in U : g[v] \in Int
  OBVIOUS
<1>2. IsFiniteSet(upto)
  BY FS_Subset DEF Members
<1>3. UpTo(f, u) = SumFunctionOnSet(f, upto) /\ UpTo(g, u) = SumFunctionOnSet(g, upto)
  BY <1>1 DEF UpTo
<1>4. u \in Nat /\ x \in Nat /\ UpTo(f, u) \in Nat
  BY RunningTotal DEF Members
<1>5. CASE x <= u
  <2>1. x \in upto
    BY <1>5
  <2>2. \A v \in upto : f[v] \in Int /\ g[v] \in Int
    BY <1>1
  <2> HIDE DEF upto
  <2>3. /\ SumFunctionOnSet(f, upto) = f[x] + SumFunctionOnSet(f, upto \ {x})
        /\ SumFunctionOnSet(g, upto) = g[x] + SumFunctionOnSet(g, upto \ {x})
    BY <1>2, <2>1, <2>2, SumRemove
  <2>4. SumFunctionOnSet(g, upto \ {x}) = SumFunctionOnSet(f, upto \ {x})
        /\ SumFunctionOnSet(f, upto \ {x}) \in Int
    <3>1. IsFiniteSet(upto \ {x})
      BY <1>2, FS_Subset
    <3>2. \A v \in upto \ {x} : f[v] \in Int /\ g[v] = f[v]
      BY <1>1, <2>2 DEF upto
    <3> QED
      BY <3>1, <3>2, SumSame, SumType
  <2> QED
    BY <1>1, <1>3, <1>5, <2>3, <2>4
<1>6. CASE ~(x <= u)
  <2>1. \A v \in upto : f[v] \in Int /\ g[v] = f[v]
    BY <1>1, <1>6
  <2> HIDE DEF upto
  <2>2. SumFunctionOnSet(g, upto) = SumFunctionOnSet(f, upto)
    BY <1>2, <2>1, SumSame
  <2> QED
    BY <1>3, <1>4, <1>6, <2>2
<1> QED
  BY <1>5, <1>6

\* The length that two stretches have in common.
Common(x0, x1, y0, y1) ==
  LET end == IF x1 <= y1 THEN x1 ELSE y1
      start == IF x0 >= y0 THEN x0 ELSE y0
  IN  IF end >= start THEN end - start ELSE 0

LEMMA SmallerLarger ==
  \A x, y \in Int : /\ Min({x, y}) = (IF x <= y THEN x ELSE y)
                    /\ Max({x, y}) = (IF x >= y THEN x ELSE y)
<1> SUFFICES ASSUME NEW x \in Int, NEW y \in Int
             PROVE  /\ Min({x, y}) = (IF x <= y THEN x ELSE y)
                    /\ Max({x, y}) = (IF x >= y THEN x ELSE y)
  OBVIOUS
<1> DEFINE low == IF x <= y THEN x ELSE y
           high == IF x >= y THEN x ELSE y
<1>1. /\ low \in {x, y} /\ \A z \in {x, y} : low <= z
      /\ \A l \in {x, y} : (\A z \in {x, y} : l <= z) => l = low
  OBVIOUS
<1>2. /\ high \in {x, y} /\ \A z \in {x, y} : high >= z
      /\ \A h \in {x, y} : (\A z \in {x, y} : h >= z) => h = high
  OBVIOUS
<1> HIDE DEF low, high
<1>3. Min({x, y}) = low
  BY <1>1 DEF Min
<1>4. Max({x, y}) = high
  BY <1>2 DEF Max
<1> QED
  BY <1>3, <1>4 DEF low, high

\* Debts and credits are amounts.
LEMMA DebtCreditType ==
  ASSUME NEW U, NEW net \in NetsOf(U)
  PROVE  DebtIn(net) \in [U -> Nat] /\ CreditIn(net) \in [U -> Nat]
<1>1. \A x \in Int : /\ (IF x < 0 THEN -x ELSE 0) \in Nat
                     /\ (IF x > 0 THEN x ELSE 0) \in Nat
  OBVIOUS
<1>2. DOMAIN net = U /\ \A u \in U : net[u] \in Int
  BY DEF NetsOf
<1> QED
  BY <1>1, <1>2 DEF DebtIn, CreditIn

\* The end of a member's stretch is the running total.
LEMMA EndIsRunningTotal ==
  ASSUME NEW U, Members(U), NEW net \in NetsOf(U), NEW u \in U
  PROVE  /\ EndOf(net, Debtors(net), u) = UpTo(DebtIn(net), u)
         /\ EndOf(net, Creditors(net), u) = UpTo(CreditIn(net), u)
<1>1. /\ IsFiniteSet(U) /\ DOMAIN net = U /\ \A v \in U : net[v] \in Int
      /\ DebtIn(net) \in [U -> Nat] /\ CreditIn(net) \in [U -> Nat]
  BY DebtCreditType DEF Members, NetsOf
<1> DEFINE upto == {v \in U : v <= u}
<1>2. IsFiniteSet(upto) /\ \A v \in upto : v \in U
  BY <1>1, FS_Subset
<1>3. \A x \in Int : x \in Nat => (IF -x < 0 THEN -(-x) ELSE -x) = x /\ (IF x < 0 THEN -x ELSE x) = x
  OBVIOUS
<1>4. EndOf(net, Debtors(net), u) = UpTo(DebtIn(net), u)
  <2> DEFINE f == DebtIn(net)
             mine == {v \in Debtors(net) : v <= u}
             g == [v \in mine |-> net[v]]
  <2>1. mine \in SUBSET upto /\ \A v \in upto \ mine : f[v] = 0
    BY <1>1 DEF Debtors, DebtIn
  <2>2. \A v \in mine : f[v] \in Int /\ g[v] = -1 * f[v]
    <3>1. \A x \in Int : x < 0 => x = -1 * (-x)
      OBVIOUS
    <3> QED
      BY <1>1, <3>1 DEF Debtors, DebtIn
  <2>3. UpTo(f, u) = SumFunctionOnSet(f, upto) /\ \A v \in upto : f[v] \in Nat /\ f[v] \in Int
    BY <1>1 DEF UpTo
  <2>4. IsFiniteSet(mine) /\ DOMAIN g = mine
    BY <1>2, <2>1, FS_Subset
  <2>5. EndOf(net, Debtors(net), u) = IF Sum(g) < 0 THEN -Sum(g) ELSE Sum(g)
    BY DEF EndOf
  <2> HIDE DEF f, mine, g, upto
  <2>6. SumFunctionOnSet(f, upto) = SumFunctionOnSet(f, mine)
    BY <1>2, <2>1, <2>3, SumWithin
  <2>7. SumFunctionOnSet(g, mine) = -SumFunctionOnSet(f, mine)
    <3> DEFINE c == -1
    <3>1. c \in Int
      OBVIOUS
    <3>2. \A v \in mine : f[v] \in Int /\ g[v] = c * f[v]
      BY <2>2
    <3> HIDE DEF c
    <3>3. SumFunctionOnSet(g, mine) = c * SumFunctionOnSet(f, mine)
      BY <2>4, <3>1, <3>2, SumTimes
    <3>4. SumFunctionOnSet(f, mine) \in Int
      BY <2>2, <2>4, SumType
    <3> QED
      BY <3>3, <3>4 DEF c
  <2>8. Sum(g) = SumFunctionOnSet(g, mine)
    BY <2>4, SumOfFunction DEF Sum
  <2>9. SumFunctionOnSet(f, upto) \in Nat
    BY <1>2, <2>3, SumOfNats
  <2> QED
    BY <2>3, <2>5, <2>6, <2>7, <2>8, <2>9 DEF f
<1>5. EndOf(net, Creditors(net), u) = UpTo(CreditIn(net), u)
  <2> DEFINE f == CreditIn(net)
             mine == {v \in Creditors(net) : v <= u}
             g == [v \in mine |-> net[v]]
  <2>1. mine \in SUBSET upto /\ \A v \in upto \ mine : f[v] = 0
    BY <1>1 DEF Creditors, CreditIn
  <2>2. \A v \in mine : f[v] \in Int /\ g[v] = f[v]
    BY <1>1 DEF Creditors, CreditIn
  <2>3. UpTo(f, u) = SumFunctionOnSet(f, upto) /\ \A v \in upto : f[v] \in Nat /\ f[v] \in Int
    BY <1>1 DEF UpTo
  <2>4. IsFiniteSet(mine) /\ DOMAIN g = mine
    BY <1>2, <2>1, FS_Subset
  <2>5. EndOf(net, Creditors(net), u) = IF Sum(g) < 0 THEN -Sum(g) ELSE Sum(g)
    BY DEF EndOf
  <2> HIDE DEF f, mine, g, upto
  <2>6. SumFunctionOnSet(f, upto) = SumFunctionOnSet(f, mine)
    BY <1>2, <2>1, <2>3, SumWithin
  <2>7. SumFunctionOnSet(g, mine) = SumFunctionOnSet(f, mine)
    BY <2>2, <2>4, SumSame
  <2>8. Sum(g) = SumFunctionOnSet(g, mine)
    BY <2>4, SumOfFunction DEF Sum
  <2>9. SumFunctionOnSet(f, upto) \in Nat
    BY <1>2, <2>3, SumOfNats
  <2> QED
    BY <2>3, <2>5, <2>6, <2>7, <2>8, <2>9 DEF f
<1> QED
  BY <1>4, <1>5

\* What is owed, for all members alike: of one who owes, or is owed, nothing
\* the stretch is empty.
LEMMA OwedIsCommon ==
  ASSUME NEW U, Members(U), NEW net \in NetsOf(U), NEW a \in U, NEW b \in U
  PROVE  LET aEnd == UpTo(DebtIn(net), a)
             bEnd == UpTo(CreditIn(net), b)
         IN  /\ aEnd \in Nat /\ bEnd \in Nat
             /\ DebtIn(net)[a] \in Nat /\ CreditIn(net)[b] \in Nat
             /\ DebtIn(net)[a] <= aEnd /\ CreditIn(net)[b] <= bEnd
             /\ Owed(net, a, b)
                  = Common(aEnd - DebtIn(net)[a], aEnd, bEnd - CreditIn(net)[b], bEnd)
<1> DEFINE aEnd == UpTo(DebtIn(net), a)
           bEnd == UpTo(CreditIn(net), b)
           debt == DebtIn(net)[a]
           credit == CreditIn(net)[b]
<1>1. /\ DOMAIN net = U /\ net[a] \in Int /\ net[b] \in Int
      /\ DebtIn(net) \in [U -> Nat] /\ CreditIn(net) \in [U -> Nat]
  BY DebtCreditType DEF NetsOf
<1>2. /\ aEnd \in Nat /\ bEnd \in Nat /\ debt \in Nat /\ credit \in Nat
      /\ debt <= aEnd /\ credit <= bEnd
  BY <1>1, RunningTotal
<1>3. debt = (IF net[a] < 0 THEN -net[a] ELSE 0) /\ credit = (IF net[b] > 0 THEN net[b] ELSE 0)
  BY <1>1 DEF DebtIn, CreditIn
<1>4. (a \in Debtors(net) <=> net[a] < 0) /\ (b \in Creditors(net) <=> net[b] > 0)
  BY <1>1 DEF Debtors, Creditors
<1>5. EndOf(net, Debtors(net), a) = aEnd /\ EndOf(net, Creditors(net), b) = bEnd
  BY EndIsRunningTotal
<1> HIDE DEF aEnd, bEnd, debt, credit
<1>6. CASE net[a] < 0 /\ net[b] > 0
  <2>1. Owed(net, a, b) = Max({Min({aEnd, bEnd}) - Max({aEnd + net[a], bEnd - net[b]}), 0})
    BY <1>4, <1>5, <1>6 DEF Owed
  <2>2. aEnd + net[a] = aEnd - debt /\ bEnd - net[b] = bEnd - credit
    BY <1>1, <1>2, <1>3, <1>6
  <2> DEFINE end == IF aEnd <= bEnd THEN aEnd ELSE bEnd
             start == IF aEnd - debt >= bEnd - credit THEN aEnd - debt ELSE bEnd - credit
  <2>3. aEnd \in Int /\ bEnd \in Int /\ aEnd - debt \in Int /\ bEnd - credit \in Int
    BY <1>2
  <2>4. Min({aEnd, bEnd}) = end /\ Max({aEnd - debt, bEnd - credit}) = start
    BY <2>3, SmallerLarger
  <2>5. end \in Int /\ start \in Int
    BY <2>3
  <2>6. Common(aEnd - debt, aEnd, bEnd - credit, bEnd) = IF end >= start THEN end - start ELSE 0
    BY DEF Common
  <2> HIDE DEF end, start
  <2>7. Max({end - start, 0}) = IF end - start >= 0 THEN end - start ELSE 0
    BY <2>5, SmallerLarger
  <2>8. Owed(net, a, b) = Common(aEnd - debt, aEnd, bEnd - credit, bEnd)
    <3>1. Owed(net, a, b) = Max({end - start, 0})
      BY <2>1, <2>2, <2>4, Zenon
    <3> QED
      BY <2>5, <2>6, <2>7, <3>1
  <2> QED
    BY <1>2, <2>8 DEF aEnd, bEnd, debt, credit
<1>7. CASE ~(net[a] < 0 /\ net[b] > 0)
  <2>1. Owed(net, a, b) = 0
    BY <1>4, <1>7 DEF Owed
  <2>2. debt = 0 \/ credit = 0
    BY <1>1, <1>3, <1>7
  <2>3. Common(aEnd - debt, aEnd, bEnd - credit, bEnd) = 0
    BY <1>2, <2>2 DEF Common
  <2> QED
    BY <1>2, <2>1, <2>3 DEF aEnd, bEnd, debt, credit
<1> QED
  BY <1>6, <1>7

\* A payment of what a member owes another, or part of it, lowers that debt
\* by its amount and leaves every other as it was.
THEOREM PayingMovesOneDebt ==
  ASSUME NEW U, Members(U), NEW net \in NetsOf(U), NEW from \in U, NEW to \in U,
         NEW paid \in Int, 0 < paid, paid <= Owed(net, from, to),
         NEW after \in NetsOf(U),
         \A u \in U : after[u] = net[u] + (IF u = from THEN paid ELSE 0)
                                        - (IF u = to THEN paid ELSE 0)
  PROVE  /\ from # to
         /\ \A a, b \in U :
              Owed(after, a, b)
                = Owed(net, a, b) - (IF a = from /\ b = to THEN paid ELSE 0)
<1> DEFINE debt == DebtIn(net)
           credit == CreditIn(net)
           debts == DebtIn(after)
           credits == CreditIn(after)
           x1 == UpTo(debt, from)
           x0 == x1 - debt[from]
           y1 == UpTo(credit, to)
           y0 == y1 - credit[to]
<1>1. /\ debt \in [U -> Nat] /\ credit \in [U -> Nat]
      /\ debts \in [U -> Nat] /\ credits \in [U -> Nat]
      /\ DOMAIN net = U /\ DOMAIN after = U
      /\ \A u \in U : net[u] \in Int /\ after[u] \in Int
  BY DebtCreditType DEF NetsOf
<1>2. /\ x1 \in Nat /\ y1 \in Nat /\ debt[from] \in Nat /\ credit[to] \in Nat
      /\ debt[from] <= x1 /\ credit[to] <= y1
      /\ Owed(net, from, to) = Common(x0, x1, y0, y1)
  BY OwedIsCommon
<1>3. /\ x0 \in Nat /\ y0 \in Nat /\ paid \in Nat
      /\ x0 + paid <= x1 /\ y0 + paid <= x1 /\ x0 + paid <= y1 /\ y0 + paid <= y1
  <2> HIDE DEF x1, y1, debt, credit
  <2> QED
    BY <1>2 DEF Common
<1>4. paid <= debt[from] /\ paid <= credit[to]
  <2> HIDE DEF x1, y1, debt, credit
  <2> QED
    BY <1>2, <1>3
<1>5. net[from] < 0 /\ debt[from] = -net[from] /\ net[to] > 0 /\ credit[to] = net[to]
  BY <1>1, <1>2, <1>3, <1>4 DEF DebtIn, CreditIn
<1>6. from # to
  BY <1>1, <1>5
<1>7. \A u \in U : debts[u] = IF u = from THEN debt[u] - paid ELSE debt[u]
  <2> SUFFICES ASSUME NEW u \in U
               PROVE  debts[u] = IF u = from THEN debt[u] - paid ELSE debt[u]
    OBVIOUS
  <2>1. debts[u] = IF after[u] < 0 THEN -after[u] ELSE 0
    BY <1>1 DEF DebtIn
  <2>2. debt[u] = IF net[u] < 0 THEN -net[u] ELSE 0
    BY <1>1 DEF DebtIn
  <2> HIDE DEF debts, debt, credit, x0, x1, y0, y1
  <2> QED
    BY <1>1, <1>4, <1>5, <1>6, <2>1, <2>2
<1>8. \A u \in U : credits[u] = IF u = to THEN credit[u] - paid ELSE credit[u]
  <2> SUFFICES ASSUME NEW u \in U
               PROVE  credits[u] = IF u = to THEN credit[u] - paid ELSE credit[u]
    OBVIOUS
  <2>1. credits[u] = IF after[u] > 0 THEN after[u] ELSE 0
    BY <1>1 DEF CreditIn
  <2>2. credit[u] = IF net[u] > 0 THEN net[u] ELSE 0
    BY <1>1 DEF CreditIn
  <2> HIDE DEF credits, debt, credit, x0, x1, y0, y1
  <2> QED
    BY <1>1, <1>4, <1>5, <1>6, <2>1, <2>2
<1> SUFFICES ASSUME NEW a \in U, NEW b \in U
             PROVE  Owed(after, a, b)
                      = Owed(net, a, b) - (IF a = from /\ b = to THEN paid ELSE 0)
  BY <1>6
<1> DEFINE d1 == UpTo(debt, a)
           c1 == UpTo(credit, b)
           d0 == d1 - debt[a]
           c0 == c1 - credit[b]
           dLess == IF from <= a THEN paid ELSE 0
           cLess == IF to <= b THEN paid ELSE 0
<1>9. /\ d1 \in Nat /\ c1 \in Nat /\ debt[a] \in Nat /\ credit[b] \in Nat
      /\ debt[a] <= d1 /\ credit[b] <= c1
      /\ Owed(net, a, b) = Common(d0, d1, c0, c1)
  BY OwedIsCommon
<1>10. /\ UpTo(debts, a) = d1 - dLess /\ UpTo(credits, b) = c1 - cLess
       /\ debts[a] = (IF a = from THEN debt[a] - paid ELSE debt[a])
       /\ credits[b] = (IF b = to THEN credit[b] - paid ELSE credit[b])
  <2>1. UpTo(debts, a) = UpTo(debt, a) - dLess
    <3>1. paid \in Nat /\ debt \in [U -> Nat] /\ debts \in [U -> Nat] /\ paid <= debt[from]
      BY <1>1, <1>3, <1>4
    <3>2. \A u \in U : debts[u] = IF u = from THEN debt[u] - paid ELSE debt[u]
      BY <1>7
    <3> HIDE DEF debt, debts
    <3>3. \A u \in U : UpTo(debts, u) = UpTo(debt, u) - (IF from <= u THEN paid ELSE 0)
      BY <3>1, <3>2, RunningTotalLowered
    <3> QED
      BY <3>3, Zenon
  <2>2. UpTo(credits, b) = UpTo(credit, b) - cLess
    <3>1. paid \in Nat /\ credit \in [U -> Nat] /\ credits \in [U -> Nat] /\ paid <= credit[to]
      BY <1>1, <1>3, <1>4
    <3>2. \A u \in U : credits[u] = IF u = to THEN credit[u] - paid ELSE credit[u]
      BY <1>8
    <3> HIDE DEF credit, credits
    <3>3. \A u \in U : UpTo(credits, u) = UpTo(credit, u) - (IF to <= u THEN paid ELSE 0)
      BY <3>1, <3>2, RunningTotalLowered
    <3> QED
      BY <3>3, Zenon
  <2> HIDE DEF debts, debt, credits, credit
  <2> QED
    BY <1>1, <1>7, <1>8, <2>1, <2>2
<1>11. Owed(after, a, b)
         = Common(UpTo(debts, a) - debts[a], UpTo(debts, a),
                  UpTo(credits, b) - credits[b], UpTo(credits, b))
  BY OwedIsCommon
\* The stretches of others lie wholly before or wholly behind.
<1>12. /\ a < from => d1 <= x0
       /\ from < a => x1 <= d0
       /\ b < to => c1 <= y0
       /\ to < b => y1 <= c0
  BY <1>1, RunningTotal
<1>13. /\ a \in Nat /\ b \in Nat /\ from \in Nat /\ to \in Nat
       /\ a = from => d1 = x1 /\ d0 = x0
       /\ b = to => c1 = y1 /\ c0 = y0
  BY DEF Members
<1>14. /\ x0 \in Int /\ x1 \in Int /\ y0 \in Int /\ y1 \in Int
       /\ d0 \in Int /\ d1 \in Int /\ c0 \in Int /\ c1 \in Int
       /\ d0 <= d1 /\ c0 <= c1 /\ d0 >= 0 /\ c0 >= 0
       /\ debt[a] = d1 - d0 /\ credit[b] = c1 - c0
  <2> HIDE DEF d1, c1, x1, y1, debt, credit
  <2> QED
    BY <1>2, <1>9
<1>15. Owed(after, a, b)
         = Common(d0 - (IF from < a THEN paid ELSE 0), d1 - dLess,
                  c0 - (IF to < b THEN paid ELSE 0), c1 - cLess)
  <2>1. UpTo(debts, a) - debts[a] = d0 - (IF from < a THEN paid ELSE 0)
    <3> HIDE DEF d1, d0, c1, c0, debt, debts, credit, credits, x0, x1, y0, y1
    <3> QED
      BY <1>10, <1>13, <1>14
  <2>2. UpTo(credits, b) - credits[b] = c0 - (IF to < b THEN paid ELSE 0)
    <3> HIDE DEF d1, d0, c1, c0, debt, debts, credit, credits, x0, x1, y0, y1
    <3> QED
      BY <1>10, <1>13, <1>14
  <2> HIDE DEF d1, d0, c1, c0, debt, debts, credit, credits, x0, x1, y0, y1, dLess, cLess
  <2> QED
    BY <1>10, <1>11, <2>1, <2>2
<1>16. paid \in Nat
  BY <1>3
<1> HIDE DEF d1, d0, c1, c0, debt, debts, credit, credits, x0, x1, y0, y1
<1>17. CASE a < from
  BY <1>3, <1>9, <1>12, <1>13, <1>14, <1>15, <1>17 DEF Common
<1>18. CASE a = from
  <2>1. CASE b < to
    BY <1>3, <1>9, <1>12, <1>13, <1>14, <1>15, <1>18, <2>1 DEF Common
  <2>2. CASE b = to
    BY <1>3, <1>9, <1>12, <1>13, <1>14, <1>15, <1>18, <2>2 DEF Common
  <2>3. CASE b > to
    BY <1>3, <1>9, <1>12, <1>13, <1>14, <1>15, <1>18, <2>3 DEF Common
  <2> QED
    BY <1>13, <2>1, <2>2, <2>3
<1>19. CASE a > from
  BY <1>3, <1>9, <1>12, <1>13, <1>14, <1>15, <1>19 DEF Common
<1> QED
  BY <1>13, <1>17, <1>18, <1>19

-----------------------------------------------------------------------------
(* The members in order of their ids *)

\* The k-th member of a list sorted by id, and the position of a member.
LEMMA ByIdOrder ==
  ASSUME NEW S, Members(S)
  PROVE  /\ Cardinality(S) \in Nat
         /\ \A k \in 1 .. Cardinality(S) : ById(S)[k] \in S
         /\ \A k, l \in 1 .. Cardinality(S) : k < l => ById(S)[k] < ById(S)[l]
         /\ \A u \in S : \E k \in 1 .. Cardinality(S) : ById(S)[k] = u
<1> DEFINE size == Cardinality(S)
           R == {r \in S \X S : r[1] < r[2]}
           upto(u) == {v \in S : v <= u}
           rank(u) == Cardinality(upto(u))
<1>1. IsFiniteSet(S) /\ size \in Nat /\ \A u \in S : u \in Nat
  BY FS_CardinalityType DEF Members
<1>2. \A x, y \in S : <<x, y>> \in R <=> x < y
  OBVIOUS
<1>3. IsStrictOrder(S, R)
  <2> HIDE DEF R
  <2> QED
    BY <1>1, <1>2 DEF IsStrictOrder
<1> HIDE DEF R
<1>4. ASSUME NEW u \in S
      PROVE  /\ Cardinality(Before(S, R, u)) \in Nat
             /\ rank(u) = Cardinality(Before(S, R, u)) + 1
  <2>1. upto(u) = Before(S, R, u) \cup {u} /\ u \notin Before(S, R, u)
    BY <1>1, <1>2 DEF Before
  <2>2. IsFiniteSet(Before(S, R, u))
    BY <1>1, FS_Subset DEF Before
  <2>3. Cardinality(Before(S, R, u) \cup {u}) = Cardinality(Before(S, R, u)) + 1
    BY <2>1, <2>2, FS_AddElement
  <2> QED
    BY <2>1, <2>2, <2>3, FS_CardinalityType
<1>5. ASSUME NEW u \in S, NEW v \in S, u < v
      PROVE  rank(u) < rank(v)
  <2>1. Cardinality(Before(S, R, u)) < Cardinality(Before(S, R, v))
    BY <1>1, <1>2, <1>3, <1>5, RanksRise
  <2> QED
    BY <1>4, <2>1
<1>6. ASSUME NEW k \in 1 .. size
      PROVE  \E u \in S : rank(u) = k
  <2> DEFINE low(n) == {u \in S : Cardinality(Before(S, R, u)) < n}
  <2>0. k \in Nat /\ \A v \in S : Cardinality(Before(S, R, v)) \in Nat
    <3>1. k \in Nat
      BY <1>1
    <3>2. \A v \in S : Cardinality(Before(S, R, v)) \in Nat
      BY <1>4, Zenon
    <3> QED
      BY <3>1, <3>2
  <2>1. k \in 0 .. size /\ k - 1 \in 0 .. size
    BY <1>1
  <2>2. Cardinality(low(k)) = k /\ Cardinality(low(k - 1)) = k - 1
    BY <1>1, <1>3, <2>1, RankCount
  <2>3. PICK u \in low(k) : u \notin low(k - 1)
    <3>1. low(k - 1) \subseteq low(k)
      <4>1. k \in Nat /\ \A v \in S : Cardinality(Before(S, R, v)) \in Nat
        BY <2>0
      <4>2. \A n \in Nat : n < k - 1 => n < k
        BY <4>1
      <4> QED
        BY <4>1, <4>2
    <3>2. low(k) # low(k - 1)
      <4> HIDE DEF low
      <4> QED
        BY <2>2
    <3> QED
      BY <3>1, <3>2
  <2>4. Cardinality(Before(S, R, u)) = k - 1
    <3>1. k \in Nat /\ Cardinality(Before(S, R, u)) \in Nat
      BY <2>0, <2>3
    <3>2. Cardinality(Before(S, R, u)) < k /\ ~(Cardinality(Before(S, R, u)) < k - 1)
      BY <2>3
    <3> QED
      BY <3>1, <3>2
  <2> QED
    BY <1>4, <2>3, <2>4
<1>7. ASSUME NEW u \in S
      PROVE  rank(u) \in 1 .. size
  <2>1. IsFiniteSet(upto(u)) /\ Cardinality(upto(u)) <= size
    BY <1>1, FS_Subset
  <2> QED
    BY <1>1, <1>4, <2>1
<1> HIDE DEF upto
<1>8. ASSUME NEW k \in 1 .. size
      PROVE  ById(S)[k] \in S /\ rank(ById(S)[k]) = k
  <2>1. ById(S)[k] = CHOOSE u \in S : rank(u) = k
    BY DEF ById, upto
  <2>2. \E u \in S : rank(u) = k
    BY <1>6
  <2> HIDE DEF rank
  <2> QED
    BY <2>1, <2>2
<1> HIDE DEF rank
<1>9. ASSUME NEW k \in 1 .. size, NEW l \in 1 .. size, k < l
      PROVE  ById(S)[k] < ById(S)[l]
  <2>1. /\ ById(S)[k] \in S /\ rank(ById(S)[k]) = k
        /\ ById(S)[l] \in S /\ rank(ById(S)[l]) = l
    BY <1>8
  <2>2. ~(ById(S)[l] < ById(S)[k]) /\ ById(S)[l] # ById(S)[k]
    BY <1>5, <1>9, <2>1
  <2> QED
    BY <1>1, <2>1, <2>2
<1>10. ASSUME NEW u \in S
       PROVE  ById(S)[rank(u)] = u
  <2>1. ById(S)[rank(u)] \in S /\ rank(ById(S)[rank(u)]) = rank(u) /\ rank(u) \in Nat
    BY <1>7, <1>8
  <2>2. ~(ById(S)[rank(u)] < u) /\ ~(u < ById(S)[rank(u)])
    BY <1>5, <2>1
  <2> QED
    BY <1>1, <2>1, <2>2
<1> QED
  BY <1>1, <1>7, <1>8, <1>9, <1>10

\* Those who have a part, and where each one's stretch ends.
Havers(f) == {u \in DOMAIN f : f[u] > 0}
Stretches(f) ==
  [k \in 0 .. Cardinality(Havers(f)) |-> IF k = 0 THEN 0 ELSE UpTo(f, ById(Havers(f))[k])]

Rises(end, f, user, size) ==
  /\ end \in [0 .. size -> Nat] /\ end[0] = 0
  /\ \A k \in 1 .. size :
       /\ end[k] = UpTo(f, user[k])
       /\ end[k] = end[k - 1] + f[user[k]]
       /\ \A h \in 0 .. k - 1 : end[h] < end[k]

\* Laid out one after the other in order of their ids, the parts of those who
\* have one make up their running totals.
LEMMA LineOfCents ==
  ASSUME NEW U, Members(U), NEW f \in [U -> Nat]
  PROVE  Rises(Stretches(f), f, ById(Havers(f)), Cardinality(Havers(f)))
<1> DEFINE S == Havers(f)
           end == Stretches(f)
<1>0. S = {u \in U : f[u] > 0}
  BY DEF Havers
<1> DEFINE size == Cardinality(S)
           user == ById(S)
<1>1. /\ IsFiniteSet(U) /\ \A u \in U : u \in Nat
      /\ S \subseteq U /\ IsFiniteSet(S) /\ Members(S)
  BY <1>0, FS_Subset DEF Members
<1> HIDE DEF S
<1>2. /\ size \in Nat
      /\ \A k \in 1 .. size : user[k] \in S /\ user[k] \in U /\ f[user[k]] \in Nat /\ f[user[k]] > 0
      /\ \A k, l \in 1 .. size : k < l => user[k] < user[l]
      /\ \A u \in S : \E k \in 1 .. size : user[k] = u
  BY <1>0, <1>1, ByIdOrder
<1> HIDE DEF size, user, end
<1>3. /\ end = [k \in 0 .. size |-> end[k]] /\ end[0] = 0
      /\ \A k \in 1 .. size : end[k] = UpTo(f, user[k])
  <2>1. end = [k \in 0 .. size |-> IF k = 0 THEN 0 ELSE UpTo(f, user[k])]
    BY DEF size, user, end, S, Stretches
  <2>2. 0 \in 0 .. size /\ \A k \in 1 .. size : k \in 0 .. size /\ k # 0
    BY <1>2
  <2> QED
    BY <2>1, <2>2, Zenon
<1>4. /\ \A u \in U : UpTo(f, u) \in Nat /\ f[u] <= UpTo(f, u)
      /\ \A u, v \in U : u < v => UpTo(f, u) <= UpTo(f, v) - f[v]
  BY RunningTotal
<1>5. end \in [0 .. size -> Nat] /\ end[0] = 0
  <2>1. end = [k \in 0 .. size |-> end[k]]
    BY <1>3, Zenon
  <2>2. \A k \in 0 .. size : k = 0 \/ k \in 1 .. size
    BY <1>2
  <2>3. \A k \in 0 .. size : end[k] \in Nat
    <3>1. end[0] = 0 /\ \A k \in 1 .. size : end[k] = UpTo(f, user[k])
      BY <1>3, Zenon
    <3> QED
      BY <1>2, <1>4, <2>2, <3>1
  <2> QED
    BY <1>3, <2>1, <2>3, Zenon
<1>6. ASSUME NEW k \in 1 .. size, NEW h \in 0 .. k - 1
      PROVE  end[h] < end[k]
  <2>1. end[k] = UpTo(f, user[k])
    BY <1>2, <1>3
  <2>2. CASE h = 0
    BY <1>2, <1>4, <1>5, <2>1, <2>2
  <2>3. CASE h # 0
    <3>1. h \in 1 .. size /\ h < k
      BY <1>2, <2>3
    <3>2. end[h] = UpTo(f, user[h]) /\ user[h] < user[k]
      BY <1>2, <1>3, <3>1
    <3>3. UpTo(f, user[h]) <= UpTo(f, user[k]) - f[user[k]]
      BY <1>2, <1>4, <3>1, <3>2
    <3> QED
      BY <1>2, <1>4, <2>1, <3>1, <3>2, <3>3
  <2> QED
    BY <2>2, <2>3
<1>7. ASSUME NEW k \in 1 .. size
      PROVE  end[k] = end[k - 1] + f[user[k]]
  <2> DEFINE part(u) == {v \in S : v <= u}
             last == IF k = 1 THEN {} ELSE part(user[k - 1])
  <2>1. ASSUME NEW u \in U
        PROVE  UpTo(f, u) = SumFunctionOnSet(f, part(u))
    <3> DEFINE all == {v \in U : v <= u}
    <3>1. UpTo(f, u) = SumFunctionOnSet(f, all)
      BY DEF UpTo
    <3>2. /\ IsFiniteSet(all) /\ part(u) \in SUBSET all
          /\ \A v \in all : f[v] \in Int
          /\ \A v \in all \ part(u) : f[v] = 0
      BY <1>0, <1>1, FS_Subset
    <3> HIDE DEF all, part
    <3> QED
      BY <3>1, <3>2, SumWithin
  <2>2. part(user[k]) = last \cup {user[k]} /\ user[k] \notin last
    <3>1. ASSUME NEW v \in S
          PROVE  v <= user[k] <=> v = user[k] \/ v \in last
      <4>1. PICK l \in 1 .. size : user[l] = v
        BY <1>2
      <4>2. CASE l > k
        <5>1. user[k] < user[l]
          BY <1>2, <4>2
        <5>2. k # 1 => user[k - 1] < user[k]
          BY <1>2
        <5>3. k # 1 => k - 1 \in 1 .. size
          BY <1>2
        <5> QED
          BY <1>1, <1>2, <4>1, <5>1, <5>2, <5>3
      <4>3. CASE l = k
        BY <1>1, <1>2, <4>1, <4>3
      <4>4. CASE l < k
        <5>1. k # 1 /\ k - 1 \in 1 .. size /\ (l = k - 1 \/ l < k - 1)
          BY <1>2, <4>4
        <5>2. user[l] < user[k] /\ (user[l] = user[k - 1] \/ user[l] < user[k - 1])
          BY <1>2, <4>4, <5>1
        <5> QED
          BY <1>1, <1>2, <4>1, <5>1, <5>2
      <4> QED
        BY <1>2, <4>2, <4>3, <4>4
    <3>2. user[k] \notin last
      <4>1. k # 1 => k - 1 \in 1 .. size /\ user[k - 1] < user[k]
        BY <1>2
      <4> QED
        BY <1>1, <1>2, <4>1
    <3>3. last \subseteq S
      OBVIOUS
    <3>4. user[k] \in S
      BY <1>2
    <3> QED
      BY <3>1, <3>2, <3>3, <3>4
  <2>3. IsFiniteSet(last) /\ \A v \in last \cup {user[k]} : f[v] \in Int
    BY <1>1, <1>2, FS_Subset, FS_EmptySet
  <2>4. end[k - 1] = SumFunctionOnSet(f, last) /\ end[k - 1] \in Nat
    <3>1. CASE k = 1
      BY <1>5, <3>1, SumEmpty
    <3>2. CASE k # 1
      <4>1. k - 1 \in 1 .. size
        BY <1>2, <3>2
      <4>2. end[k - 1] = UpTo(f, user[k - 1])
        BY <1>2, <1>3, <4>1
      <4> QED
        BY <1>2, <1>4, <2>1, <3>2, <4>1, <4>2
    <3> QED
      BY <3>1, <3>2
  <2>5. end[k] = SumFunctionOnSet(f, part(user[k]))
    BY <1>2, <1>3, <2>1
  <2> HIDE DEF part, last
  <2>6. SumFunctionOnSet(f, last \cup {user[k]}) = SumFunctionOnSet(f, last) + f[user[k]]
    BY <2>2, <2>3, SumAdd
  <2> QED
    BY <2>2, <2>4, <2>5, <2>6
<1> QED
  BY <1>3, <1>5, <1>6, <1>7 DEF size, user, end, S, Rises

\* The line ends where everybody's parts are counted.
LEMMA EndOfLine ==
  ASSUME NEW U, Members(U), NEW f \in [U -> Nat]
  PROVE  Stretches(f)[Cardinality(Havers(f))] = SumFunctionOnSet(f, U)
<1> DEFINE S == Havers(f)
           size == Cardinality(S)
           last == ById(S)[size]
<1>1. /\ IsFiniteSet(U) /\ \A u \in U : u \in Nat /\ f[u] \in Nat
      /\ S = {u \in U : f[u] > 0}
  BY DEF Members, Havers
<1> HIDE DEF S
<1>2. S \in SUBSET U
  BY <1>1
<1>3. IsFiniteSet(S) /\ Members(S) /\ \A u \in U \ S : f[u] = 0
  <2>1. IsFiniteSet(S) /\ \A u \in S : u \in Nat
    BY <1>1, <1>2, FS_Subset
  <2>2. \A u \in U : u \notin S => f[u] = 0
    BY <1>1
  <2> QED
    BY <2>1, <2>2 DEF Members
<1>4. /\ size \in Nat
      /\ \A k \in 1 .. size : ById(S)[k] \in S
      /\ \A k, l \in 1 .. size : k < l => ById(S)[k] < ById(S)[l]
      /\ \A u \in S : \E k \in 1 .. size : ById(S)[k] = u
  BY <1>3, ByIdOrder
<1>5. Stretches(f)[size] = IF size = 0 THEN 0 ELSE UpTo(f, last)
  <2>1. Stretches(f) = [k \in 0 .. size |-> IF k = 0 THEN 0 ELSE UpTo(f, ById(S)[k])]
    BY DEF Stretches, S
  <2> HIDE DEF size
  <2>2. size \in 0 .. size
    BY <1>4
  <2> QED
    BY <2>1, <2>2, Zenon
<1>6. CASE size = 0
  <2>1. S = {}
    BY <1>3, <1>6, FS_EmptySet
  <2>2. SumFunctionOnSet(f, U) = SumFunctionOnSet(f, {})
    <3>1. \A u \in U : f[u] \in Int
      BY <1>1
    <3> QED
      BY <1>1, <1>3, <2>1, <3>1, SumWithin
  <2> QED
    BY <1>5, <1>6, <2>2, SumEmpty DEF S
<1>7. CASE size # 0
  <2> DEFINE all == {v \in U : v <= last}
  <2>1. size \in 1 .. size
    BY <1>4, <1>7
  <2>2. \A v \in S : v <= last
    <3> SUFFICES ASSUME NEW v \in S PROVE v <= last
      OBVIOUS
    <3>1. PICK k \in 1 .. size : ById(S)[k] = v
      BY <1>4
    <3>2. v \in Nat /\ last \in Nat
      BY <1>1, <1>2, <1>4, <2>1
    <3> HIDE DEF size
    <3>3. k = size \/ k < size
      BY <1>4
    <3>4. v = last \/ v < last
      BY <1>4, <2>1, <3>1, <3>3
    <3> QED
      BY <3>2, <3>4
  <2>3. all \in SUBSET U /\ \A u \in U \ all : f[u] = 0
    BY <1>3, <2>2
  <2>4. SumFunctionOnSet(f, U) = SumFunctionOnSet(f, all)
    <3>1. \A u \in U : f[u] \in Int
      BY <1>1
    <3> HIDE DEF all
    <3> QED
      BY <1>1, <2>3, <3>1, SumWithin
  <2>5. UpTo(f, last) = SumFunctionOnSet(f, all)
    BY DEF UpTo
  <2> QED
    BY <1>5, <1>7, <2>4, <2>5 DEF S
<1> QED
  BY <1>6, <1>7

\* Balances that add up to zero owe as much as they are owed.
LEMMA ZeroTotal ==
  ASSUME NEW U, Members(U), NEW net \in NetsOf(U), SumFunction(net) = 0
  PROVE  SumFunctionOnSet(DebtIn(net), U) = SumFunctionOnSet(CreditIn(net), U)
<1> DEFINE debt == DebtIn(net)
           credit == CreditIn(net)
<1>1. /\ IsFiniteSet(U) /\ DOMAIN net = U /\ \A u \in U : net[u] \in Int
      /\ debt \in [U -> Nat] /\ credit \in [U -> Nat]
  BY DebtCreditType DEF Members, NetsOf
<1>2. \A u \in U : net[u] = credit[u] - debt[u]
  <2> SUFFICES ASSUME NEW u \in U PROVE net[u] = credit[u] - debt[u]
    OBVIOUS
  <2>1. /\ debt[u] = (IF net[u] < 0 THEN -net[u] ELSE 0)
        /\ credit[u] = (IF net[u] > 0 THEN net[u] ELSE 0)
        /\ net[u] \in Int
    BY <1>1 DEF DebtIn, CreditIn
  <2> HIDE DEF debt, credit
  <2> QED
    BY <2>1
<1>3. SumFunction(net) = SumFunctionOnSet(net, U)
  BY <1>1, SumOfFunction
<1> HIDE DEF debt, credit
<1>4. \A u \in U : debt[u] \in Int /\ credit[u] \in Int /\ debt[u] \in Nat /\ credit[u] \in Nat
  BY <1>1
<1>5. SumFunctionOnSet(net, U) = SumFunctionOnSet(credit, U) - SumFunctionOnSet(debt, U)
  BY <1>1, <1>2, <1>4, SumMinus
<1>6. SumFunctionOnSet(credit, U) \in Nat /\ SumFunctionOnSet(debt, U) \in Nat
  BY <1>1, <1>4, SumOfNats
<1> QED
  BY <1>3, <1>5, <1>6 DEF debt, credit

\* A sum over a set that may have got another element.
LEMMA LongerSum ==
  ASSUME NEW S, IsFiniteSet(S), NEW n, n \notin S, NEW T, T = S \/ T = S \cup {n},
         NEW f, DOMAIN f = S, \A x \in S : f[x] \in Int,
         NEW g, DOMAIN g = T, \A x \in T : g[x] \in Int, \A x \in S : g[x] = f[x]
  PROVE  /\ SumFunction(f) \in Int
         /\ SumFunction(g) = SumFunction(f) + (IF n \in T THEN g[n] ELSE 0)
<1>1. SumFunction(f) = SumFunctionOnSet(f, S) /\ SumFunctionOnSet(f, S) \in Int
  BY SumOfFunction, SumType
<1>2. SumFunctionOnSet(g, S) = SumFunctionOnSet(f, S)
  BY SumSame
<1>3. SumFunction(g) = SumFunctionOnSet(g, T)
  BY SumOfFunction
<1>4. CASE n \in T
  <2>1. T = S \cup {n} /\ \A x \in S \cup {n} : g[x] \in Int
    BY <1>4
  <2>2. SumFunctionOnSet(g, S \cup {n}) = SumFunctionOnSet(g, S) + g[n]
    BY <2>1, SumAdd
  <2> QED
    BY <1>1, <1>2, <1>3, <1>4, <2>1, <2>2
<1>5. CASE n \notin T
  <2>1. T = S
    BY <1>5
  <2> QED
    BY <1>1, <1>2, <1>3, <1>5, <2>1
<1> QED
  BY <1>4, <1>5

\* The same, when g is said to be f with or without n.
MayAdd(f, n, g) ==
  /\ IsFiniteSet(DOMAIN f) /\ n \notin DOMAIN f
  /\ \A x \in DOMAIN f : f[x] \in Int /\ g[x] = f[x]
  /\ \A x \in DOMAIN g : g[x] \in Int
  /\ DOMAIN g = DOMAIN f \/ DOMAIN g = DOMAIN f \cup {n}

LEMMA MayAddSum ==
  ASSUME NEW f, NEW n, NEW g, MayAdd(f, n, g)
  PROVE  /\ SumFunction(f) \in Int
         /\ n \in DOMAIN g => SumFunction(g) = SumFunction(f) + g[n]
         /\ n \notin DOMAIN g => SumFunction(g) = SumFunction(f)
<1> DEFINE S == DOMAIN f
           T == DOMAIN g
<1>1. IsFiniteSet(S) /\ n \notin S /\ (T = S \/ T = S \cup {n})
  BY DEF MayAdd
<1>2. /\ DOMAIN f = S /\ DOMAIN g = T
      /\ \A x \in S : f[x] \in Int
      /\ \A x \in T : g[x] \in Int
      /\ \A x \in S : g[x] = f[x]
  BY DEF MayAdd
<1>3. \A x \in T : g[x] \in Int
  BY <1>2
<1> HIDE DEF S, T
<1>4. SumFunction(f) \in Int /\ SumFunction(g) = SumFunction(f) + (IF n \in T THEN g[n] ELSE 0)
  BY <1>1, <1>2, LongerSum
<1> QED
  BY <1>2, <1>4

-----------------------------------------------------------------------------
(* Balances of a ledger *)

\* Finitely many rows, all of them amounts.
ExpenseRows(expenses) ==
  /\ IsFiniteSet(expenses)
  /\ \A x \in expenses : /\ x.amount \in Int
                         /\ \A u \in DOMAIN x.shares : x.shares[u] \in Int
PaymentRows(payments) ==
  IsFiniteSet(payments) /\ \A s \in payments : s.amount \in Int

\* A new payment counts for the one who makes it and against the one who
\* gets it.
LEMMA PaymentCounts ==
  ASSUME NEW U, NEW expenses, ExpenseRows(expenses),
         NEW payments, PaymentRows(payments),
         NEW s, s \notin payments, s.amount \in Int
  PROVE  LET before == NetBalances(U, expenses, payments)
             after == NetBalances(U, expenses, payments \cup {s})
         IN  /\ before \in NetsOf(U) /\ after \in NetsOf(U)
             /\ \A u \in U : after[u] = before[u] + (IF u = s.from THEN s.amount ELSE 0)
                                                  - (IF u = s.to THEN s.amount ELSE 0)
<1> DEFINE more == payments \cup {s}
           before == NetBalances(U, expenses, payments)
           after == NetBalances(U, expenses, more)
<1>1. /\ DOMAIN before = U /\ DOMAIN after = U
      /\ before = [u \in U |-> before[u]] /\ after = [u \in U |-> after[u]]
  BY Zenon DEF NetBalances
<1>2. ASSUME NEW u \in U
      PROVE  /\ before[u] \in Int /\ after[u] \in Int
             /\ after[u] = before[u] + (IF u = s.from THEN s.amount ELSE 0)
                                     - (IF u = s.to THEN s.amount ELSE 0)
  <2> DEFINE paidFor == {x \in expenses : x.payer = u}
             sharedBy == {x \in expenses : u \in DOMAIN x.shares}
             made == {p \in payments : p.from = u}
             got == {p \in payments : p.to = u}
             madeMore == {p \in more : p.from = u}
             gotMore == {p \in more : p.to = u}
             a == [x \in paidFor |-> x.amount]
             b == [x \in sharedBy |-> x.shares[u]]
             c == [p \in made |-> p.amount]
             d == [p \in got |-> p.amount]
             e == [p \in madeMore |-> p.amount]
             f == [p \in gotMore |-> p.amount]
  <2>1. /\ before[u] = SumFunction(a) - SumFunction(b) + SumFunction(c) - SumFunction(d)
        /\ after[u] = SumFunction(a) - SumFunction(b) + SumFunction(e) - SumFunction(f)
    BY Zenon DEF NetBalances, Sum
  <2>2. /\ IsFiniteSet(paidFor) /\ DOMAIN a = paidFor /\ \A x \in paidFor : a[x] \in Int
        /\ IsFiniteSet(sharedBy) /\ DOMAIN b = sharedBy /\ \A x \in sharedBy : b[x] \in Int
        /\ IsFiniteSet(made) /\ DOMAIN c = made /\ \A x \in made : c[x] \in Int
        /\ IsFiniteSet(got) /\ DOMAIN d = got /\ \A x \in got : d[x] \in Int
    BY FS_Subset DEF ExpenseRows, PaymentRows
  <2>3. /\ DOMAIN e = madeMore /\ \A x \in madeMore : e[x] \in Int
        /\ DOMAIN f = gotMore /\ \A x \in gotMore : f[x] \in Int
    BY DEF PaymentRows
  <2>4. /\ s \notin made /\ (madeMore = made \/ madeMore = made \cup {s})
        /\ (s \in madeMore <=> s.from = u)
        /\ s \notin got /\ (gotMore = got \/ gotMore = got \cup {s})
        /\ (s \in gotMore <=> s.to = u)
    OBVIOUS
  <2>5. /\ \A x \in made : e[x] = c[x]
        /\ \A x \in got : f[x] = d[x]
        /\ s \in madeMore => e[s] = s.amount
        /\ s \in gotMore => f[s] = s.amount
    OBVIOUS
  <2> HIDE DEF paidFor, sharedBy, made, got, madeMore, gotMore, a, b, c, d, e, f, before, after
  <2>6. SumFunction(a) \in Int /\ SumFunction(b) \in Int
    BY <2>2, SumOfFunction, SumType
  <2>7. /\ SumFunction(c) \in Int
        /\ SumFunction(e) = SumFunction(c) + (IF s \in madeMore THEN e[s] ELSE 0)
    BY <2>2, <2>3, <2>4, <2>5, LongerSum
  <2>8. /\ SumFunction(d) \in Int
        /\ SumFunction(f) = SumFunction(d) + (IF s \in gotMore THEN f[s] ELSE 0)
    BY <2>2, <2>3, <2>4, <2>5, LongerSum
  <2> QED
    BY <2>1, <2>4, <2>5, <2>6, <2>7, <2>8
<1> HIDE DEF before, after
<1>3. before \in [U -> Int] /\ after \in [U -> Int]
  BY <1>1, <1>2
<1> QED
  BY <1>2, <1>3 DEF NetsOf, before, after

\* Every expense is by and for members, and shared out to the cent; every
\* payment is between members.
SharedAmong(expenses, U) ==
  \A x \in expenses : /\ x.payer \in U /\ DOMAIN x.shares \subseteq U
                      /\ SumFunction(x.shares) = x.amount
PaidAmong(payments, U) == \A s \in payments : s.from \in U /\ s.to \in U

\* What the rows of each member add up to.
TotalsOf(g, U, rows, key, value) ==
  \A u \in U : g[u] = SumFunction([x \in {x \in rows : key[x] = u} |-> value[x]])

\* The rows of each member, added up, are all the rows.
LEMMA TotalByMember ==
  ASSUME NEW rows, IsFiniteSet(rows), NEW U, IsFiniteSet(U),
         NEW key, \A x \in rows : key[x] \in U,
         NEW value, \A x \in rows : value[x] \in Int,
         NEW g, TotalsOf(g, U, rows, key, value)
  PROVE  /\ \A u \in U : g[u] \in Int
         /\ SumFunctionOnSet(g, U) = SumFunctionOnSet(value, rows)
<1>1. ASSUME NEW u \in U
      PROVE  /\ g[u] = SumFunctionOnSet(value, {x \in rows : key[x] = u})
             /\ g[u] \in Int
  <2> DEFINE T == {x \in rows : key[x] = u}
             f == [x \in T |-> value[x]]
  <2>1. g[u] = SumFunction(f) /\ IsFiniteSet(T)
    BY FS_Subset DEF TotalsOf
  <2>2. DOMAIN f = T /\ \A x \in T : f[x] = value[x] /\ value[x] \in Int
    OBVIOUS
  <2> HIDE DEF T, f
  <2>3. SumFunction(f) = SumFunctionOnSet(value, T)
    BY <2>1, <2>2, SumOfFunction, SumSame
  <2>4. SumFunctionOnSet(value, T) \in Int
    BY <2>1, <2>2, SumType
  <2> QED
    BY <2>1, <2>3, <2>4 DEF T
<1>2. \A u \in U : g[u] = SumFunctionOnSet(value, {x \in rows : key[x] = u})
  BY <1>1
<1>3. SumFunctionOnSet(g, U) = SumFunctionOnSet(value, rows)
  <2>1. SumsOfKeys(g, U, rows, key, value)
    BY <1>2, Zenon DEF SumsOfKeys
  <2> QED
    BY <2>1, SumByKey
<1> QED
  BY <1>1, <1>3

\* The shares of each member, added up, are the amounts.
LEMMA TotalOfShares ==
  ASSUME NEW expenses, ExpenseRows(expenses), NEW U, IsFiniteSet(U), SharedAmong(expenses, U),
         NEW g, \A u \in U : g[u] = SumFunction([x \in {x \in expenses : u \in DOMAIN x.shares}
                                                   |-> x.shares[u]]),
         NEW amount, \A x \in expenses : amount[x] = x.amount
  PROVE  /\ \A u \in U : g[u] \in Int
         /\ SumFunctionOnSet(g, U) = SumFunctionOnSet(amount, expenses)
<1> DEFINE share(x, u) == IF u \in DOMAIN x.shares THEN x.shares[u] ELSE 0
           row == [x \in expenses |-> [u \in U |-> share(x, u)]]
           col == [u \in U |-> [x \in expenses |-> share(x, u)]]
<1>1. /\ IsFiniteSet(expenses)
      /\ \A x \in expenses : /\ x.amount \in Int /\ DOMAIN x.shares \in SUBSET U
                             /\ \A u \in DOMAIN x.shares : x.shares[u] \in Int
                             /\ SumFunction(x.shares) = x.amount
  BY DEF ExpenseRows, SharedAmong
<1>2. \A x \in expenses : \A u \in U : share(x, u) \in Int
  BY <1>1
<1>3. \A x \in expenses : \A u \in U : row[x][u] = share(x, u) /\ col[u][x] = share(x, u)
  OBVIOUS
<1>4. ASSUME NEW x \in expenses
      PROVE  amount[x] = SumFunctionOnSet(row[x], U)
  <2> DEFINE T == DOMAIN x.shares
             f == x.shares
             r == row[x]
  <2>1. T \in SUBSET U /\ \A u \in T : f[u] \in Int
    BY <1>1
  <2>2. \A u \in U : r[u] = IF u \in T THEN f[u] ELSE 0
    OBVIOUS
  <2>3. SumFunction(f) = SumFunctionOnSet(f, T) /\ SumFunction(f) = amount[x]
    BY <1>1, SumOfFunction
  <2> HIDE DEF T, f, r
  <2>4. SumFunctionOnSet(r, U) = SumFunctionOnSet(f, T)
    BY <2>1, <2>2, SumSelect
  <2> QED
    BY <2>3, <2>4 DEF r
<1>5. ASSUME NEW u \in U
      PROVE  g[u] = SumFunctionOnSet(col[u], expenses) /\ g[u] \in Int
  <2> DEFINE T == {x \in expenses : u \in DOMAIN x.shares}
             f == [x \in T |-> x.shares[u]]
             c == col[u]
  <2>1. T \in SUBSET expenses /\ DOMAIN f = T /\ \A x \in T : f[x] \in Int
    BY <1>1
  <2>2. \A x \in expenses : c[x] = IF x \in T THEN f[x] ELSE 0
    OBVIOUS
  <2>3. g[u] = SumFunction(f)
    OBVIOUS
  <2> HIDE DEF T, f, c
  <2>4. SumFunction(f) = SumFunctionOnSet(f, T) /\ SumFunctionOnSet(f, T) \in Int
    BY <1>1, <2>1, SumOfFunction, SumType, FS_Subset
  <2>5. SumFunctionOnSet(c, expenses) = SumFunctionOnSet(f, T)
    BY <1>1, <2>1, <2>2, SumSelect
  <2> QED
    BY <2>3, <2>4, <2>5 DEF c
<1> HIDE DEF share, row, col
<1>6. TableOf(expenses, U, row, col, amount, g)
  BY <1>2, <1>3, <1>4, <1>5 DEF TableOf
<1> QED
  BY <1>1, <1>5, <1>6, SumSwap

\* Balances add up to zero: what is shared out to the cent is owed to
\* somebody, and what one member pays another gets.
THEOREM BalancesCancel ==
  ASSUME NEW U, Members(U), NEW expenses, ExpenseRows(expenses), SharedAmong(expenses, U),
         NEW payments, PaymentRows(payments), PaidAmong(payments, U)
  PROVE  /\ NetBalances(U, expenses, payments) \in NetsOf(U)
         /\ SumFunction(NetBalances(U, expenses, payments)) = 0
<1> DEFINE a == [u \in U |-> SumFunction([x \in {x \in expenses : x.payer = u} |-> x.amount])]
           b == [u \in U |-> SumFunction([x \in {x \in expenses : u \in DOMAIN x.shares}
                                            |-> x.shares[u]])]
           c == [u \in U |-> SumFunction([s \in {s \in payments : s.from = u} |-> s.amount])]
           d == [u \in U |-> SumFunction([s \in {s \in payments : s.to = u} |-> s.amount])]
           net == NetBalances(U, expenses, payments)
           amount == [x \in expenses |-> x.amount]
           paid == [s \in payments |-> s.amount]
<1>1. net = [u \in U |-> a[u] - b[u] + c[u] - d[u]]
  BY Zenon DEF NetBalances, Sum
<1>2. /\ IsFiniteSet(U) /\ IsFiniteSet(expenses) /\ IsFiniteSet(payments)
      /\ \A x \in expenses : amount[x] \in Int
      /\ \A s \in payments : paid[s] \in Int
  BY DEF Members, ExpenseRows, PaymentRows
<1>3. /\ \A u \in U : a[u] \in Int
      /\ SumFunctionOnSet(a, U) = SumFunctionOnSet(amount, expenses)
  <2> DEFINE key == [x \in expenses |-> x.payer]
  <2>1. \A x \in expenses : key[x] \in U
    BY DEF SharedAmong
  <2>2. \A u \in U :
          a[u] = SumFunction([x \in {x \in expenses : key[x] = u} |-> amount[x]])
    <3> SUFFICES ASSUME NEW u \in U
                 PROVE  a[u] = SumFunction([x \in {x \in expenses : key[x] = u} |-> amount[x]])
      OBVIOUS
    <3>1. {x \in expenses : key[x] = u} = {x \in expenses : x.payer = u}
      OBVIOUS
    <3>2. [x \in {x \in expenses : key[x] = u} |-> amount[x]]
            = [x \in {x \in expenses : x.payer = u} |-> x.amount]
      BY <3>1
    <3> QED
      BY <3>2
  <2>3. TotalsOf(a, U, expenses, key, amount)
    BY <2>2, Zenon DEF TotalsOf
  <2> HIDE DEF a, amount, key
  <2> QED
    BY <1>2, <2>1, <2>3, TotalByMember
<1>4. /\ \A u \in U : b[u] \in Int
      /\ SumFunctionOnSet(b, U) = SumFunctionOnSet(amount, expenses)
  <2>1. /\ \A u \in U : b[u] = SumFunction([x \in {x \in expenses : u \in DOMAIN x.shares}
                                              |-> x.shares[u]])
        /\ \A x \in expenses : amount[x] = x.amount
    OBVIOUS
  <2> HIDE DEF b, amount
  <2> QED
    BY <1>2, <2>1, TotalOfShares
<1>5. /\ \A u \in U : c[u] \in Int
      /\ SumFunctionOnSet(c, U) = SumFunctionOnSet(paid, payments)
  <2> DEFINE key == [s \in payments |-> s.from]
  <2>1. \A s \in payments : key[s] \in U
    BY DEF PaidAmong
  <2>2. \A u \in U : c[u] = SumFunction([s \in {s \in payments : key[s] = u} |-> paid[s]])
    <3> SUFFICES ASSUME NEW u \in U
                 PROVE  c[u] = SumFunction([s \in {s \in payments : key[s] = u} |-> paid[s]])
      OBVIOUS
    <3>1. {s \in payments : key[s] = u} = {s \in payments : s.from = u}
      OBVIOUS
    <3>2. [s \in {s \in payments : key[s] = u} |-> paid[s]]
            = [s \in {s \in payments : s.from = u} |-> s.amount]
      BY <3>1
    <3> QED
      BY <3>2
  <2>3. TotalsOf(c, U, payments, key, paid)
    BY <2>2, Zenon DEF TotalsOf
  <2> HIDE DEF c, paid, key
  <2> QED
    BY <1>2, <2>1, <2>3, TotalByMember
<1>6. /\ \A u \in U : d[u] \in Int
      /\ SumFunctionOnSet(d, U) = SumFunctionOnSet(paid, payments)
  <2> DEFINE key == [s \in payments |-> s.to]
  <2>1. \A s \in payments : key[s] \in U
    BY DEF PaidAmong
  <2>2. \A u \in U : d[u] = SumFunction([s \in {s \in payments : key[s] = u} |-> paid[s]])
    <3> SUFFICES ASSUME NEW u \in U
                 PROVE  d[u] = SumFunction([s \in {s \in payments : key[s] = u} |-> paid[s]])
      OBVIOUS
    <3>1. {s \in payments : key[s] = u} = {s \in payments : s.to = u}
      OBVIOUS
    <3>2. [s \in {s \in payments : key[s] = u} |-> paid[s]]
            = [s \in {s \in payments : s.to = u} |-> s.amount]
      BY <3>1
    <3> QED
      BY <3>2
  <2>3. TotalsOf(d, U, payments, key, paid)
    BY <2>2, Zenon DEF TotalsOf
  <2> HIDE DEF d, paid, key
  <2> QED
    BY <1>2, <2>1, <2>3, TotalByMember
<1> HIDE DEF a, b, c, d, net, amount, paid
<1> DEFINE e == [u \in U |-> a[u] - b[u]]
           f == [u \in U |-> c[u] - d[u]]
<1>7. \A u \in U : e[u] \in Int /\ f[u] \in Int /\ net[u] = e[u] + f[u] /\ net[u] \in Int
  BY <1>1, <1>3, <1>4, <1>5, <1>6
<1>8. \A u \in U : e[u] = a[u] - b[u] /\ f[u] = c[u] - d[u]
  OBVIOUS
<1> HIDE DEF e, f
<1>9. /\ SumFunctionOnSet(e, U) = SumFunctionOnSet(a, U) - SumFunctionOnSet(b, U)
      /\ SumFunctionOnSet(f, U) = SumFunctionOnSet(c, U) - SumFunctionOnSet(d, U)
      /\ SumFunctionOnSet(net, U) = SumFunctionOnSet(e, U) + SumFunctionOnSet(f, U)
  BY <1>2, <1>3, <1>4, <1>5, <1>6, <1>7, <1>8, SumMinus, SumPlus
<1>10. SumFunctionOnSet(amount, expenses) \in Int /\ SumFunctionOnSet(paid, payments) \in Int
  BY <1>2, SumType
<1>11. SumFunctionOnSet(net, U) = 0
  BY <1>3, <1>4, <1>5, <1>6, <1>9, <1>10
<1>12. net \in [U -> Int]
  BY <1>1, <1>7
<1>13. DOMAIN net = U
  BY <1>1
<1> QED
  BY <1>11, <1>12, <1>13, SumOfFunction DEF NetsOf, net

-----------------------------------------------------------------------------
(* What a member owes, and is owed, in all *)

\* Common is symmetric.
LEMMA CommonTurned ==
  ASSUME NEW a \in Int, NEW b \in Int, NEW x \in Int, NEW y \in Int
  PROVE  Common(a, b, x, y) = Common(x, y, a, b)
BY DEF Common

\* The last of some members.
LEMMA LastMember ==
  ASSUME NEW S, Members(S), S # {}
  PROVE  \E m \in S : \A u \in S : u <= m
<1>1. /\ Cardinality(S) \in Nat
      /\ \A k \in 1 .. Cardinality(S) : ById(S)[k] \in S
      /\ \A k, l \in 1 .. Cardinality(S) : k < l => ById(S)[k] < ById(S)[l]
      /\ \A u \in S : \E k \in 1 .. Cardinality(S) : ById(S)[k] = u
  BY ByIdOrder
<1> DEFINE n == Cardinality(S)
           id == ById(S)
<1>2. PICK k \in 1 .. n : TRUE
  BY <1>1
<1>3. n \in 1 .. n /\ \A l \in 1 .. n : l = n \/ l < n
  BY <1>1, <1>2
<1>4. id[n] \in S /\ \A u \in S : u = id[n] \/ u < id[n]
  BY <1>1, <1>3
<1>5. \A u \in S : u \in Nat
  BY DEF Members
<1> QED
  BY <1>4, <1>5

\* What the stretch from x to y shares with that of each member.
Sections(h, f, x, y) ==
  \A u \in DOMAIN f : h[u] = Common(UpTo(f, u) - f[u], UpTo(f, u), x, y)

\* The stretches of the members up to one cover the line up to its end.
LEMMA StretchesCover ==
  ASSUME NEW U, Members(U), NEW f \in [U -> Nat],
         NEW x \in Nat, NEW y \in Nat, x <= y, y <= SumFunctionOnSet(f, U),
         NEW h, Sections(h, f, x, y)
  PROVE  SumFunctionOnSet(h, U) = y - x
<1> DEFINE covered(T) == Common(0, SumFunctionOnSet(f, T), x, y)
           Closed(T) == \A u \in T : \A v \in U : v <= u => v \in T
           Good == {T \in SUBSET U : Closed(T) => SumFunctionOnSet(h, T) = covered(T)}
<1>1. /\ IsFiniteSet(U) /\ \A u \in U : u \in Nat
      /\ \A u \in U : f[u] \in Nat /\ f[u] \in Int /\ UpTo(f, u) \in Nat /\ f[u] <= UpTo(f, u)
  <2>1. \A u \in U : UpTo(f, u) \in Nat /\ f[u] <= UpTo(f, u)
    BY RunningTotal
  <2>2. IsFiniteSet(U) /\ \A u \in U : u \in Nat
    BY DEF Members
  <2> QED
    BY <2>1, <2>2
<1>2. \A u \in U : h[u] \in Int
  <2> SUFFICES ASSUME NEW u \in U PROVE h[u] \in Int
    OBVIOUS
  <2> DEFINE e == UpTo(f, u)
             s == e - f[u]
  <2>1. e \in Int /\ s \in Int /\ h[u] = Common(s, e, x, y)
    BY <1>1 DEF Sections
  <2> HIDE DEF e, s
  <2> QED
    BY <2>1 DEF Common
<1>3. ASSUME NEW T \in SUBSET U, \A V \in SUBSET T : V # T => V \in Good
      PROVE  T \in Good
  <2> SUFFICES ASSUME Closed(T) PROVE SumFunctionOnSet(h, T) = covered(T)
    OBVIOUS
  <2>1. CASE T = {}
    <3>1. SumFunctionOnSet(h, T) = 0 /\ SumFunctionOnSet(f, T) = 0
      BY <2>1, SumEmpty
    <3> QED
      BY <3>1 DEF Common
  <2>2. CASE T # {}
    <3>1. Members(T)
      BY <1>1, FS_Subset DEF Members
    <3>2. PICK m \in T : \A u \in T : u <= m
      BY <2>2, <3>1, LastMember
    <3> DEFINE V == T \ {m}
               e == UpTo(f, m)
               rest == SumFunctionOnSet(f, V)
    <3>3. Closed(V)
      <4> SUFFICES ASSUME NEW u \in V, NEW v \in U, v <= u PROVE v \in V
        OBVIOUS
      <4>1. u \in Nat /\ v \in Nat /\ m \in Nat /\ u <= m /\ u # m
        BY <1>1, <3>2
      <4>2. v # m
        BY <4>1
      <4>3. u \in T
        OBVIOUS
      <4>4. v \in T
        BY <4>3
      <4> QED
        BY <4>2, <4>4
    <3>4. SumFunctionOnSet(h, V) = covered(V)
      BY <1>3, <3>3
    <3>5. T = {v \in U : v <= m}
      BY <3>2
    <3>6. e = SumFunctionOnSet(f, T)
      BY <3>5 DEF UpTo
    <3>7. IsFiniteSet(T) /\ m \in T /\ (\A u \in T : f[u] \in Int) /\ \A u \in T : h[u] \in Int
      BY <1>1, <1>2, <3>1 DEF Members
    <3>8. /\ SumFunctionOnSet(f, T) = f[m] + rest
          /\ SumFunctionOnSet(h, T) = h[m] + SumFunctionOnSet(h, V)
      BY <3>7, SumRemove
    <3>9. rest \in Nat
      BY <1>1, <3>7, FS_Subset, SumOfNats
    <3>10. h[m] = Common(e - f[m], e, x, y) /\ f[m] \in Nat
      BY <1>1 DEF Sections
    <3> DEFINE p == f[m]
    <3>11. e = rest + p /\ e - f[m] = rest
      BY <3>6, <3>8, <3>9, <3>10
    <3>12. /\ SumFunctionOnSet(h, T) = Common(rest, rest + p, x, y) + Common(0, rest, x, y)
           /\ covered(T) = Common(0, rest + p, x, y)
      BY <3>4, <3>6, <3>8, <3>10, <3>11
    <3> HIDE DEF rest, p, covered
    <3>13. Common(0, rest + p, x, y) = Common(0, rest, x, y) + Common(rest, rest + p, x, y)
           /\ Common(0, rest, x, y) \in Nat /\ Common(rest, rest + p, x, y) \in Nat
      BY <3>9, <3>10 DEF Common, p
    <3> QED
      BY <3>12, <3>13
  <2> QED
    BY <2>1, <2>2
<1> HIDE DEF Good
<1>4. U \in Good
  BY <1>1, <1>3, SubsetInduction
<1>5. SumFunctionOnSet(h, U) = Common(0, SumFunctionOnSet(f, U), x, y)
  BY <1>4 DEF Good
<1>6. SumFunctionOnSet(f, U) \in Nat
  BY <1>1, SumOfNats
<1>7. Common(0, SumFunctionOnSet(f, U), x, y) = y - x
  BY <1>6 DEF Common
<1> QED
  BY <1>5, <1>7

\* When balances add up to zero, what the others owe a member is the
\* member's whole credit, and what the member owes them the whole debt.
THEOREM OwedInAll ==
  ASSUME NEW U, Members(U), NEW net \in NetsOf(U), SumFunction(net) = 0, NEW u \in U
  PROVE  /\ SumFunctionOnSet([v \in U |-> Owed(net, v, u)], U) = CreditIn(net)[u]
         /\ SumFunctionOnSet([v \in U |-> Owed(net, u, v)], U) = DebtIn(net)[u]
<1> DEFINE debt == DebtIn(net)
           credit == CreditIn(net)
           dEnd == UpTo(debt, u)
           cEnd == UpTo(credit, u)
           toMe == [v \in U |-> Owed(net, v, u)]
           byMe == [v \in U |-> Owed(net, u, v)]
<1>1. debt \in [U -> Nat] /\ credit \in [U -> Nat]
  BY DebtCreditType
<1>2. SumFunctionOnSet(debt, U) = SumFunctionOnSet(credit, U)
  BY ZeroTotal
<1>3. /\ \A v \in U : toMe[v] = Owed(net, v, u) /\ byMe[v] = Owed(net, u, v)
  OBVIOUS
<1>4. \A v, w \in U :
        /\ UpTo(debt, v) \in Nat /\ UpTo(credit, w) \in Nat
        /\ debt[v] \in Nat /\ credit[w] \in Nat
        /\ debt[v] <= UpTo(debt, v) /\ credit[w] <= UpTo(credit, w)
        /\ Owed(net, v, w) = Common(UpTo(debt, v) - debt[v], UpTo(debt, v),
                                    UpTo(credit, w) - credit[w], UpTo(credit, w))
  BY OwedIsCommon
<1> HIDE DEF debt, credit, toMe, byMe
<1>5. /\ UpTo(debt, u) <= SumFunctionOnSet(debt, U)
      /\ UpTo(credit, u) <= SumFunctionOnSet(credit, U)
  <2>1. /\ \A f \in [U -> Nat] : UpTo(f, u) <= SumFunctionOnSet(f, U)
    <3> SUFFICES ASSUME NEW f \in [U -> Nat] PROVE UpTo(f, u) <= SumFunctionOnSet(f, U)
      OBVIOUS
    <3>1. IsFiniteSet(U) /\ (\A v \in U : f[v] \in Nat) /\ {v \in U : v <= u} \in SUBSET U
      BY DEF Members
    <3>2. UpTo(f, u) = SumFunctionOnSet(f, {v \in U : v <= u})
      BY DEF UpTo
    <3> QED
      BY <3>1, <3>2, SumOfPart
  <2> QED
    BY <1>1, <2>1
<1>6. SumFunctionOnSet(toMe, U) = credit[u]
  <2> DEFINE x == cEnd - credit[u]
             y == cEnd
  <2>1. x \in Nat /\ y \in Nat /\ x <= y /\ y <= SumFunctionOnSet(debt, U) /\ y - x = credit[u]
    BY <1>2, <1>4, <1>5
  <2>2. \A v \in U : toMe[v] = Common(UpTo(debt, v) - debt[v], UpTo(debt, v), x, y)
    BY <1>3, <1>4
  <2>3. Sections(toMe, debt, x, y)
    BY <1>1, <2>2 DEF Sections
  <2> HIDE DEF x, y
  <2> QED
    BY <1>1, <2>1, <2>3, StretchesCover
<1>7. SumFunctionOnSet(byMe, U) = debt[u]
  <2> DEFINE x == dEnd - debt[u]
             y == dEnd
  <2>1. x \in Nat /\ y \in Nat /\ x <= y /\ y <= SumFunctionOnSet(credit, U) /\ y - x = debt[u]
    BY <1>2, <1>4, <1>5
  <2>2. \A v \in U : byMe[v] = Common(UpTo(credit, v) - credit[v], UpTo(credit, v), x, y)
    <3> SUFFICES ASSUME NEW v \in U
                 PROVE  byMe[v] = Common(UpTo(credit, v) - credit[v], UpTo(credit, v), x, y)
      OBVIOUS
    <3> DEFINE a == UpTo(credit, v)
               b == a - credit[v]
    <3>1. byMe[v] = Common(x, y, b, a)
      BY <1>3, <1>4
    <3>2. a \in Int /\ b \in Int /\ x \in Int /\ y \in Int
      BY <1>4, <2>1
    <3> HIDE DEF a, b, x, y
    <3> QED
      BY <3>1, <3>2, CommonTurned DEF a, b
  <2>3. Sections(byMe, credit, x, y)
    BY <1>1, <2>2 DEF Sections
  <2> HIDE DEF x, y
  <2> QED
    BY <1>1, <2>1, <2>3, StretchesCover
<1> QED
  BY <1>6, <1>7 DEF toMe, byMe, debt, credit

=============================================================================
