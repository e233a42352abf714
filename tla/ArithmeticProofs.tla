-------------------------- MODULE ArithmeticProofs --------------------------
(***************************************************************************)
(* Proofs about the sums of SplitMath, ImportMath and Summary, for the     *)
(* calls of SplitCalls, ImportCalls and SummaryCalls.                      *)
(***************************************************************************)
EXTENDS SummaryCalls, LedgerTheorems

-----------------------------------------------------------------------------
(* The parts of distributeProportionally *)

\* A question with an answer: every position names another user, weights are
\* not negative and not all zero.
WellPosed(total, users, weights) ==
  /\ total \in Nat
  /\ users \in Seq(Int) /\ IsInjective(users)
  /\ weights \in Seq(Nat) /\ Len(weights) = Len(users)
  /\ SumFunction(weights) > 0

Floors(total, users, weights) ==
  [i \in DOMAIN users |-> (total * weights[i]) \div SumFunction(weights)]

Fracs(total, users, weights) ==
  [i \in DOMAIN users |-> (total * weights[i]) % SumFunction(weights)]

Rems(total, users, weights) ==
  [i \in DOMAIN users |-> [frac |-> (total * weights[i]) % SumFunction(weights),
                           user |-> users[i], pos |-> i]]

Leftover(total, users, weights) == total - SumFunction(Floors(total, users, weights))

\* The order in which leftover cents are handed out.
Queue(total, users, weights) ==
  {pair \in (DOMAIN users) \X (DOMAIN users) :
     largestFirst(Rems(total, users, weights)[pair[1]], Rems(total, users, weights)[pair[2]])}

Bumped(total, users, weights) ==
  {i \in DOMAIN users :
     Cardinality(Before(DOMAIN users, Queue(total, users, weights), i))
       < Leftover(total, users, weights)}

\* Division with remainder.
LEMMA DivMod ==
  ASSUME NEW a \in Nat, NEW b \in Nat, b > 0
  PROVE  /\ a \div b \in Nat /\ a % b \in Nat
         /\ a = b * (a \div b) + (a % b)
         /\ a % b < b
OBVIOUS

\* Positions are finitely many, and what is known of each.
LEMMA PositionFacts ==
  ASSUME NEW total, NEW users, NEW weights, WellPosed(total, users, weights)
  PROVE  /\ DOMAIN users = 1 .. Len(users) /\ Len(users) \in Nat /\ DOMAIN weights = DOMAIN users
         /\ IsFiniteSet(DOMAIN users) /\ Cardinality(DOMAIN users) = Len(users)
         /\ SumFunction(weights) \in Nat
         /\ \A i \in DOMAIN users :
              /\ users[i] \in Int /\ weights[i] \in Nat /\ total * weights[i] \in Nat
              /\ Floors(total, users, weights)[i] \in Nat
              /\ Fracs(total, users, weights)[i] \in Nat
              /\ Fracs(total, users, weights)[i] < SumFunction(weights)
              /\ total * weights[i] = SumFunction(weights) * Floors(total, users, weights)[i]
                                        + Fracs(total, users, weights)[i]
<1> USE DEF WellPosed
<1>1. /\ DOMAIN users = 1 .. Len(users) /\ Len(users) \in Nat /\ DOMAIN weights = DOMAIN users
      /\ \A i \in DOMAIN users : users[i] \in Int /\ weights[i] \in Nat
  OBVIOUS
<1>2. IsFiniteSet(DOMAIN users) /\ Cardinality(DOMAIN users) = Len(users)
  BY <1>1, FirstNumbers
<1>3. SumFunction(weights) \in Nat
  BY <1>1, <1>2, SumOfNats, SumOfFunction
<1>4. ASSUME NEW i \in DOMAIN users
      PROVE  total * weights[i] \in Nat
  BY <1>1
<1>5. ASSUME NEW i \in DOMAIN users
      PROVE  /\ Floors(total, users, weights)[i] \in Nat
             /\ Fracs(total, users, weights)[i] \in Nat
             /\ Fracs(total, users, weights)[i] < SumFunction(weights)
             /\ total * weights[i] = SumFunction(weights) * Floors(total, users, weights)[i]
                                       + Fracs(total, users, weights)[i]
  <2>1. /\ Floors(total, users, weights)[i] = (total * weights[i]) \div SumFunction(weights)
        /\ Fracs(total, users, weights)[i] = (total * weights[i]) % SumFunction(weights)
    BY DEF Floors, Fracs
  <2>2. total * weights[i] \in Nat /\ SumFunction(weights) \in Nat /\ SumFunction(weights) > 0
    BY <1>3, <1>4
  <2> QED
    BY <2>1, <2>2, DivMod
<1> QED
  BY <1>1, <1>2, <1>3, <1>4, <1>5

-----------------------------------------------------------------------------
(* The leftover cents *)

\* Remainders, then ids, order the positions strictly.
LEMMA QueueIsOrder ==
  ASSUME NEW total, NEW users, NEW weights, WellPosed(total, users, weights)
  PROVE  /\ IsStrictOrder(DOMAIN users, Queue(total, users, weights))
         /\ \A i, j \in DOMAIN users :
              <<i, j>> \in Queue(total, users, weights) <=>
                \/ Fracs(total, users, weights)[i] > Fracs(total, users, weights)[j]
                \/ /\ Fracs(total, users, weights)[i] = Fracs(total, users, weights)[j]
                   /\ users[i] < users[j]
<1> DEFINE frac == Fracs(total, users, weights)
           P == DOMAIN users
           R == Queue(total, users, weights)
<1>1. \A i \in P : users[i] \in Int /\ frac[i] \in Nat
  BY PositionFacts
<1>2. \A i, j \in P : users[i] = users[j] => i = j
  BY DEF WellPosed, IsInjective
<1>3. P \subseteq Nat
  BY PositionFacts
<1>4. ASSUME NEW i \in P, NEW j \in P
      PROVE  <<i, j>> \in R <=> frac[i] > frac[j] \/ (frac[i] = frac[j] /\ users[i] < users[j])
  <2>1. <<i, j>> \in R <=> largestFirst(Rems(total, users, weights)[i], Rems(total, users, weights)[j])
    BY DEF Queue
  <2>2. Rems(total, users, weights)[i] = [frac |-> frac[i], user |-> users[i], pos |-> i]
    BY DEF Rems, Fracs
  <2>3. Rems(total, users, weights)[j] = [frac |-> frac[j], user |-> users[j], pos |-> j]
    BY DEF Rems, Fracs
  <2> HIDE DEF R, frac
  <2> QED
    BY <1>1, <1>2, <1>3, <2>1, <2>2, <2>3 DEF largestFirst
<1>5. IsStrictOrder(P, R)
  <2> HIDE DEF P, R, frac
  <2> QED
    BY <1>1, <1>2, <1>4 DEF IsStrictOrder
<1> QED
  BY <1>4, <1>5

\* What is left over is a number.
LEMMA LeftoverIsInt ==
  ASSUME NEW total, NEW users, NEW weights, WellPosed(total, users, weights)
  PROVE  Leftover(total, users, weights) \in Int
<1> DEFINE floor == Floors(total, users, weights)
<1>1. IsFiniteSet(DOMAIN users) /\ DOMAIN floor = DOMAIN users /\ \A i \in DOMAIN users : floor[i] \in Int
  BY PositionFacts DEF Floors
<1>2. SumFunction(floor) \in Int
  BY <1>1, SumType, SumOfFunction
<1>3. total \in Int
  BY DEF WellPosed
<1> QED
  BY <1>2, <1>3 DEF Leftover

\* The leftover cents are no more than the positions with a remainder.
LEMMA LeftoverFits ==
  ASSUME NEW total, NEW users, NEW weights, WellPosed(total, users, weights)
  PROVE  LET some == {i \in DOMAIN users : Fracs(total, users, weights)[i] > 0}
         IN  /\ Leftover(total, users, weights) \in 0 .. Cardinality(some)
             /\ Cardinality(some) \in 0 .. Cardinality(DOMAIN users)
<1> DEFINE P == DOMAIN users
           W == SumFunction(weights)
           floor == Floors(total, users, weights)
           frac == Fracs(total, users, weights)
           some == {i \in P : frac[i] > 0}
           part == [i \in P |-> total * weights[i]]
           whole == [i \in P |-> W * floor[i]]
           bound == [i \in P |-> IF i \in some THEN W ELSE 0]
           Q == SumFunction(floor)
<1>1. /\ IsFiniteSet(P) /\ W \in Nat /\ W > 0 /\ DOMAIN weights = P /\ total \in Nat
      /\ DOMAIN floor = P
      /\ \A i \in P : /\ weights[i] \in Nat /\ floor[i] \in Nat /\ frac[i] \in Nat /\ frac[i] < W
                      /\ part[i] \in Nat /\ part[i] = W * floor[i] + frac[i]
  BY PositionFacts DEF WellPosed, Floors
<1>2. Q \in Int /\ Q = SumFunctionOnSet(floor, P) /\ W = SumFunctionOnSet(weights, P)
  BY <1>1, SumType, SumOfFunction
<1> HIDE DEF W, Q, floor, frac, P
<1>3. SumFunctionOnSet(part, P) = total * W
  <2>1. \A i \in P : weights[i] \in Int /\ part[i] = total * weights[i]
    BY <1>1
  <2> QED
    BY <1>1, <1>2, <2>1, SumTimes
<1>4. SumFunctionOnSet(whole, P) = W * Q
  <2>1. \A i \in P : floor[i] \in Int /\ whole[i] = W * floor[i]
    BY <1>1
  <2> QED
    BY <1>1, <1>2, <2>1, SumTimes
<1>5. SumFunctionOnSet(part, P) = W * Q + SumFunctionOnSet(frac, P)
  <2>1. \A i \in P : whole[i] \in Int /\ frac[i] \in Int /\ part[i] = whole[i] + frac[i]
    BY <1>1
  <2> HIDE DEF whole, part
  <2>2. SumFunctionOnSet(part, P) = SumFunctionOnSet(whole, P) + SumFunctionOnSet(frac, P)
    BY <1>1, <2>1, SumPlus
  <2> QED
    BY <1>4, <2>2
<1>6. SumFunctionOnSet(frac, P) \in Nat
  BY <1>1, SumOfNats
<1>7. IsFiniteSet(some) /\ Cardinality(some) \in Nat /\ Cardinality(some) <= Cardinality(P)
      /\ Cardinality(P) \in Nat
  BY <1>1, FS_Subset, FS_CardinalityType
<1>8. SumFunctionOnSet(frac, P) <= W * Cardinality(some)
  <2>1. \A i \in P : frac[i] \in Int /\ bound[i] \in Int /\ frac[i] <= bound[i]
    BY <1>1
  <2>2. SumFunctionOnSet(frac, P) <= SumFunctionOnSet(bound, P)
    <3> HIDE DEF bound
    <3> QED
      BY <1>1, <2>1, SumLeq
  <2>3. /\ some \in SUBSET P
        /\ \A i \in P : bound[i] \in Int
        /\ \A i \in P \ some : bound[i] = 0
        /\ \A i \in some : bound[i] = W
    BY <1>1
  <2> HIDE DEF bound, some
  <2>4. SumFunctionOnSet(bound, P) = SumFunctionOnSet(bound, some)
    BY <1>1, <2>3, SumWithin
  <2>5. SumFunctionOnSet(bound, some) = W * Cardinality(some)
    BY <1>1, <1>7, <2>3, SumConstant
  <2> QED
    BY <2>2, <2>4, <2>5
<1>9. total - Q \in 0 .. Cardinality(some)
  <2> DEFINE n == Cardinality(some)
             left == total - Q
             F == SumFunctionOnSet(frac, P)
  <2>1. left \in Int /\ n \in Nat /\ W \in Nat /\ W > 0 /\ F \in Nat /\ F <= W * n
    BY <1>1, <1>2, <1>6, <1>7, <1>8
  <2>2. F = W * left
    <3>1. total * W = W * Q + F
      BY <1>3, <1>5
    <3> HIDE DEF F
    <3> QED
      BY <1>1, <1>2, <2>1, <3>1
  <2> HIDE DEF n, left, F
  <2>3. left >= 0
    <3>1. \A a \in Int, b \in Int : a > 0 /\ a * b >= 0 => b >= 0
      OBVIOUS
    <3> QED
      BY <2>1, <2>2, <3>1
  <2>4. left <= n
    <3>1. \A a, b, c \in Int : a > 0 /\ a * b <= a * c => b <= c
      OBVIOUS
    <3> QED
      BY <2>1, <2>2, <3>1
  <2> QED
    BY <2>1, <2>3, <2>4 DEF n, left
<1> QED
  BY <1>7, <1>9 DEF Leftover, Q, floor, frac, P

\* Exactly the leftover cents are handed out, and none to a position without
\* a remainder.
LEMMA LeftoverHandedOut ==
  ASSUME NEW total, NEW users, NEW weights, WellPosed(total, users, weights)
  PROVE  /\ Cardinality(Bumped(total, users, weights)) = Leftover(total, users, weights)
         /\ \A i \in Bumped(total, users, weights) : Fracs(total, users, weights)[i] > 0
<1> DEFINE P == DOMAIN users
           R == Queue(total, users, weights)
           frac == Fracs(total, users, weights)
           left == Leftover(total, users, weights)
           some == {i \in P : frac[i] > 0}
<1>1. IsFiniteSet(P) /\ IsStrictOrder(P, R) /\ \A i \in P : frac[i] \in Nat
  BY PositionFacts, QueueIsOrder
<1>2. left \in 0 .. Cardinality(some) /\ Cardinality(some) \in 0 .. Cardinality(P)
  BY LeftoverFits
<1>3. Cardinality(P) \in Nat /\ Cardinality(some) \in Nat
  BY <1>1, FS_Subset, FS_CardinalityType
<1>4. Cardinality(Bumped(total, users, weights)) = left
  <2>1. left \in 0 .. Cardinality(P)
    BY <1>2, <1>3
  <2> HIDE DEF left, R
  <2> QED
    BY <1>1, <2>1, RankCount DEF Bumped, left, R
<1>5. ASSUME NEW i \in Bumped(total, users, weights), ~(frac[i] > 0)
      PROVE  FALSE
  <2>1. i \in P /\ Cardinality(Before(P, R, i)) < left
    BY DEF Bumped
  <2>2. some \subseteq Before(P, R, i)
    BY <1>1, <1>5, <2>1, QueueIsOrder DEF Before
  <2>3. IsFiniteSet(Before(P, R, i))
    BY <1>1, FS_Subset DEF Before
  <2>4. Cardinality(some) <= Cardinality(Before(P, R, i)) /\ Cardinality(Before(P, R, i)) \in Nat
    BY <2>2, <2>3, FS_Subset, FS_CardinalityType
  <2> QED
    BY <1>2, <1>3, <2>1, <2>4
<1> QED
  BY <1>4, <1>5

-----------------------------------------------------------------------------
(* What distributeProportionally returns *)

\* Each user gets the floor of its position, and perhaps a cent.
LEMMA DistributeParts ==
  ASSUME NEW total, NEW users, NEW weights, WellPosed(total, users, weights)
  PROVE  LET split == distributeProportionally(total, users, weights)
         IN  /\ split = [u \in Range(users) |-> split[u]]
             /\ \A i \in DOMAIN users :
                  split[users[i]] = Floors(total, users, weights)[i]
                                      + (IF i \in Bumped(total, users, weights) THEN 1 ELSE 0)
<1> DEFINE P == DOMAIN users
           bumped == Bumped(total, users, weights)
           floor == Floors(total, users, weights)
           at(u) == {i \in P : users[i] = u}
           split == distributeProportionally(total, users, weights)
<1>1. split = [u \in Range(users) |-> floor[Max(at(u))] + Cardinality(at(u) \cap bumped)]
  <2>1. bumped = {i \in P :
                    Cardinality({j \in P : largestFirst(Rems(total, users, weights)[j],
                                                        Rems(total, users, weights)[i])})
                      < total - SumFunction(floor)}
    <3>1. ASSUME NEW i \in P
          PROVE  Before(P, Queue(total, users, weights), i)
                   = {j \in P : largestFirst(Rems(total, users, weights)[j],
                                             Rems(total, users, weights)[i])}
      BY DEF Before, Queue
    <3> QED
      BY <3>1 DEF Bumped, Leftover
  <2>2. ~(SumFunction(weights) <= 0)
    <3>1. SumFunction(weights) \in Nat /\ SumFunction(weights) > 0
      BY PositionFacts DEF WellPosed
    <3> QED
      BY <3>1
  <2> DEFINE handed == {i \in P :
                          Cardinality({j \in P : largestFirst(Rems(total, users, weights)[j],
                                                              Rems(total, users, weights)[i])})
                            < total - SumFunction(floor)}
  <2>3. split = IF SumFunction(weights) <= 0
                THEN << >>
                ELSE [u \in Range(users) |-> floor[Max(at(u))] + Cardinality(at(u) \cap handed)]
    BY Zenon DEF distributeProportionally, Rems, Floors
  <2>4. handed = bumped
    BY <2>1
  <2> HIDE DEF handed, bumped, floor, at, split
  <2> QED
    BY <2>2, <2>3, <2>4
<1>2. ASSUME NEW i \in P
      PROVE  split[users[i]] = floor[i] + (IF i \in bumped THEN 1 ELSE 0)
  <2>1. at(users[i]) = {i}
    BY DEF WellPosed, IsInjective
  <2>2. Max({i}) = i
    <3>1. i \in Int
      BY PositionFacts
    <3>2. \A y \in {i} : i >= y
      BY <3>1
    <3> QED
      BY <3>2 DEF Max
  <2>3. users[i] \in Range(users)
    BY DEF Range
  <2>4. split[users[i]] = floor[i] + Cardinality({i} \cap bumped)
    <3> HIDE DEF floor, bumped
    <3> QED
      BY <1>1, <2>1, <2>2, <2>3
  <2>5. Cardinality({i} \cap bumped) = IF i \in bumped THEN 1 ELSE 0
    <3>1. CASE i \in bumped
      <4>1. {i} \cap bumped = {i}
        BY <3>1
      <4> QED
        BY <3>1, <4>1, FS_Singleton
    <3>2. CASE i \notin bumped
      <4>1. {i} \cap bumped = {}
        BY <3>2
      <4> QED
        BY <3>2, <4>1, FS_EmptySet
    <3> QED
      BY <3>1, <3>2
  <2> QED
    BY <2>4, <2>5
<1>3. split = [u \in Range(users) |-> split[u]]
  <2> HIDE DEF split, floor, bumped, at
  <2> QED
    BY <1>1
<1> QED
  BY <1>2, <1>3

\* A list that names nobody twice is a bijection from its positions to the
\* users it names.
LEMMA ListIsBijection ==
  ASSUME NEW users, users \in Seq(Int), IsInjective(users)
  PROVE  /\ users \in Bijection(DOMAIN users, Range(users))
         /\ IsFiniteSet(DOMAIN users) /\ IsFiniteSet(Range(users))
<1>1. users \in [DOMAIN users -> Range(users)] /\ \A r \in Range(users) : \E i \in DOMAIN users : users[i] = r
  BY DEF Range
<1>2. users \in Bijection(DOMAIN users, Range(users))
  BY <1>1 DEF Bijection, Injection, Surjection, IsInjective
<1>3. DOMAIN users = 1 .. Len(users) /\ Len(users) \in Nat
  OBVIOUS
<1>4. IsFiniteSet(DOMAIN users)
  BY <1>3, FirstNumbers
<1>5. ExistsBijection(DOMAIN users, Range(users))
  BY <1>2 DEF ExistsBijection
<1> QED
  BY <1>2, <1>4, <1>5, FS_Bijection

\* No cent is lost or invented, whatever the amount and the weights: the
\* comment on distributeProportionally, for lists that name nobody twice.
THEOREM DistributeAddsUp ==
  ASSUME NEW total, NEW users, NEW weights, WellPosed(total, users, weights)
  PROVE  LET split == distributeProportionally(total, users, weights)
         IN  /\ split \in [Range(users) -> Nat]
             /\ SumFunction(split) = total
<1> DEFINE P == DOMAIN users
           split == distributeProportionally(total, users, weights)
           floor == Floors(total, users, weights)
           bumped == Bumped(total, users, weights)
           cent == [i \in P |-> IF i \in bumped THEN 1 ELSE 0]
           part == [i \in P |-> split[users[i]]]
<1>1. /\ IsFiniteSet(P) /\ DOMAIN floor = P
      /\ \A i \in P : floor[i] \in Nat
  BY PositionFacts DEF Floors
<1>2. /\ DOMAIN split = Range(users)
      /\ split = [u \in Range(users) |-> split[u]]
      /\ \A i \in P : split[users[i]] = floor[i] + cent[i]
  BY DistributeParts
<1>3. users \in Bijection(P, Range(users)) /\ IsFiniteSet(Range(users))
  BY ListIsBijection DEF WellPosed
<1>4. bumped \in SUBSET P /\ Cardinality(bumped) = total - SumFunctionOnSet(floor, P)
  <2>1. bumped \in SUBSET P
    BY DEF Bumped
  <2> QED
    BY <1>1, <2>1, LeftoverHandedOut, SumOfFunction DEF Leftover
<1> HIDE DEF P, split, floor, bumped
<1>5. SumFunctionOnSet(cent, P) = Cardinality(bumped)
  BY <1>1, <1>4, SumCount
<1>6. SumFunctionOnSet(part, P) = SumFunctionOnSet(floor, P) + SumFunctionOnSet(cent, P)
  <2>1. \A i \in P : floor[i] \in Int /\ cent[i] \in Int /\ part[i] = floor[i] + cent[i]
    BY <1>1, <1>2
  <2> HIDE DEF cent, part
  <2> QED
    BY <1>1, <2>1, SumPlus
<1>7. split \in [Range(users) -> Nat]
  <2>1. ASSUME NEW u \in Range(users)
        PROVE  split[u] \in Nat
    <3>1. PICK i \in P : users[i] = u
      BY DEF Range, P
    <3> QED
      BY <1>1, <1>2, <3>1
  <2> QED
    BY <1>2, <2>1
<1>8. SumFunctionOnSet(part, P) = SumFunctionOnSet(split, Range(users))
  <2>1. \A u \in Range(users) : split[u] \in Int
    BY <1>7
  <2>2. \A i \in P : part[i] = split[users[i]]
    OBVIOUS
  <2> HIDE DEF part
  <2> QED
    BY <1>1, <1>3, <2>1, <2>2, SumRename
<1>9. total \in Int /\ SumFunctionOnSet(floor, P) \in Int
  BY <1>1, SumType DEF WellPosed
<1>10. SumFunction(split) = SumFunctionOnSet(split, Range(users))
  BY <1>2, SumOfFunction
<1> QED
  BY <1>4, <1>5, <1>6, <1>7, <1>8, <1>9, <1>10 DEF split

\* Every part is within one cent of the exact proportion.
THEOREM DistributeIsFair ==
  ASSUME NEW total, NEW users, NEW weights, WellPosed(total, users, weights),
         NEW i \in DOMAIN users
  PROVE  LET gap == distributeProportionally(total, users, weights)[users[i]]
                      * SumFunction(weights) - total * weights[i]
         IN  gap < SumFunction(weights) /\ -gap < SumFunction(weights)
<1> DEFINE W == SumFunction(weights)
           part == distributeProportionally(total, users, weights)[users[i]]
           floor == Floors(total, users, weights)[i]
           frac == Fracs(total, users, weights)[i]
           exact == total * weights[i]
           cent == IF i \in Bumped(total, users, weights) THEN 1 ELSE 0
<1>1. /\ W \in Nat /\ floor \in Nat /\ frac \in Nat /\ frac < W /\ exact \in Nat
      /\ exact = W * floor + frac
  BY PositionFacts
<1>2. part = floor + cent
  BY DistributeParts
<1>3. cent = 0 \/ (cent = 1 /\ frac > 0)
  BY LeftoverHandedOut
<1> HIDE DEF W, part, floor, frac, exact, cent
<1>4. CASE cent = 0
  <2>1. part * W - exact = -frac
    BY <1>1, <1>2, <1>4
  <2> QED
    BY <1>1, <2>1 DEF W, part, exact
<1>5. CASE cent = 1 /\ frac > 0
  <2>1. part * W - exact = W - frac
    BY <1>1, <1>2, <1>5
  <2> QED
    BY <1>1, <1>5, <2>1 DEF W, part, exact
<1> QED
  BY <1>3, <1>4, <1>5

\* Rounding never reverses the order of two weights.
THEOREM DistributeKeepsOrder ==
  ASSUME NEW total, NEW users, NEW weights, WellPosed(total, users, weights),
         NEW i \in DOMAIN users, NEW j \in DOMAIN users, weights[i] > weights[j]
  PROVE  distributeProportionally(total, users, weights)[users[i]]
           >= distributeProportionally(total, users, weights)[users[j]]
<1> DEFINE P == DOMAIN users
           W == SumFunction(weights)
           R == Queue(total, users, weights)
           split == distributeProportionally(total, users, weights)
           floor == Floors(total, users, weights)
           frac == Fracs(total, users, weights)
           bumped == Bumped(total, users, weights)
           rank(k) == Cardinality(Before(P, R, k))
<1>1. /\ W \in Nat /\ W > 0 /\ total \in Nat /\ weights[i] \in Nat /\ weights[j] \in Nat
      /\ floor[i] \in Nat /\ floor[j] \in Nat /\ frac[i] \in Nat /\ frac[j] \in Nat
      /\ frac[i] < W /\ frac[j] < W
      /\ total * weights[i] = W * floor[i] + frac[i]
      /\ total * weights[j] = W * floor[j] + frac[j]
  BY PositionFacts DEF WellPosed
<1>2. /\ split[users[i]] = floor[i] + (IF i \in bumped THEN 1 ELSE 0)
      /\ split[users[j]] = floor[j] + (IF j \in bumped THEN 1 ELSE 0)
  BY DistributeParts
<1>3. total * weights[i] >= total * weights[j]
  <2>1. \A a, b, c \in Nat : b > c => a * b >= a * c
    OBVIOUS
  <2> QED
    BY <1>1, <2>1
<1>4. floor[i] >= floor[j]
  <2>1. \A w, p, q, r, s \in Nat :
          w > 0 /\ r < w /\ s < w /\ w * p + r >= w * q + s => p >= q
    <3> SUFFICES ASSUME NEW w \in Nat, NEW p \in Nat, NEW q \in Nat, NEW r \in Nat, NEW s \in Nat,
                        w > 0, r < w, w * p + r >= w * q + s, q >= p + 1
                 PROVE  FALSE
      OBVIOUS
    <3>1. w * q >= w * (p + 1)
      OBVIOUS
    <3>2. w * (p + 1) = w * p + w
      OBVIOUS
    <3> QED
      BY <3>1, <3>2
  <2> QED
    BY <1>1, <1>3, <2>1
<1>5. CASE floor[i] > floor[j]
  BY <1>1, <1>2, <1>5
<1>6. CASE floor[i] = floor[j]
  <2>1. frac[i] >= frac[j]
    BY <1>1, <1>3, <1>6
  <2>2. CASE total = 0
    <3>1. ~(j \in bumped)
      <4>1. frac[j] = 0
        <5>1. W * floor[j] \in Nat /\ total * weights[j] = 0
          BY <1>1, <2>2
        <5> HIDE DEF W, floor, frac
        <5> QED
          BY <1>1, <5>1
      <4> QED
        BY <4>1, LeftoverHandedOut
    <3> QED
      BY <1>1, <1>2, <1>6, <3>1
  <2>3. CASE total > 0
    <3>1. frac[i] > frac[j]
      <4>1. \A a, b, c \in Nat : a > 0 /\ b > c => a * b > a * c
        OBVIOUS
      <4> QED
        BY <1>1, <1>6, <2>3, <4>1
    <3>2. <<i, j>> \in R /\ IsFiniteSet(P) /\ IsStrictOrder(P, R)
      BY <3>1, QueueIsOrder, PositionFacts
    <3>3. rank(i) < rank(j)
      BY <3>2, RanksRise
    <3>4. rank(i) \in Nat /\ rank(j) \in Nat /\ Leftover(total, users, weights) \in Int
      <4>1. IsFiniteSet(Before(P, R, i)) /\ IsFiniteSet(Before(P, R, j))
        BY <3>2, FS_Subset DEF Before
      <4>2. Leftover(total, users, weights) \in Int
        BY LeftoverIsInt
      <4> QED
        BY <4>1, <4>2, FS_CardinalityType
    <3>5. j \in bumped => i \in bumped
      BY <3>3, <3>4 DEF Bumped
    <3> QED
      BY <1>1, <1>2, <1>6, <3>5
  <2> QED
    BY <1>1, <2>2, <2>3
<1> QED
  <2>1. floor[i] > floor[j] \/ floor[i] = floor[j]
    <3>1. \A p, q \in Nat : p >= q => p > q \/ p = q
      OBVIOUS
    <3>2. floor[i] \in Nat /\ floor[j] \in Nat
      BY <1>1
    <3> QED
      BY <1>4, <3>1, <3>2
  <2> QED
    BY <2>1, <1>5, <1>6

-----------------------------------------------------------------------------
(* The order of the list *)

\* A list in another order is as well posed, and adds up to the same.
LEMMA ReorderedIsWellPosed ==
  ASSUME NEW total, NEW users, NEW weights, WellPosed(total, users, weights),
         NEW p \in Bijection(DOMAIN users, DOMAIN users)
  PROVE  LET us == [i \in DOMAIN users |-> users[p[i]]]
             ws == [i \in DOMAIN users |-> weights[p[i]]]
         IN  /\ WellPosed(total, us, ws)
             /\ SumFunction(ws) = SumFunction(weights)
             /\ Range(us) = Range(users)
<1> DEFINE P == DOMAIN users
           us == [i \in P |-> users[p[i]]]
           ws == [i \in P |-> weights[p[i]]]
<1>1. /\ p \in [P -> P]
      /\ \A x, y \in P : p[x] = p[y] => x = y
      /\ \A y \in P : \E x \in P : p[x] = y
  BY DEF Bijection, Injection, Surjection, IsInjective
<1>2. /\ P = 1 .. Len(users) /\ Len(users) \in Nat /\ IsFiniteSet(P) /\ DOMAIN weights = P
      /\ \A i \in P : users[i] \in Int /\ weights[i] \in Nat
  BY PositionFacts
<1>3. us \in Seq(Int) /\ ws \in Seq(Nat) /\ Len(us) = Len(users) /\ Len(ws) = Len(users)
  <2>1. us \in [1 .. Len(users) -> Int] /\ ws \in [1 .. Len(users) -> Nat]
    BY <1>1, <1>2
  <2>2. \A S : \A n \in Nat : \A f \in [1 .. n -> S] : f \in Seq(S) /\ Len(f) = n
    OBVIOUS
  <2> HIDE DEF us, ws
  <2> QED
    BY <1>2, <2>1, <2>2
<1>4. SumFunction(ws) = SumFunction(weights)
  <2>1. \A i \in P : weights[i] \in Int /\ ws[i] = weights[p[i]]
    BY <1>2
  <2>2. DOMAIN ws = P
    OBVIOUS
  <2> HIDE DEF ws, P
  <2>3. SumFunctionOnSet(ws, P) = SumFunctionOnSet(weights, P)
    BY <1>2, <2>1, SumRename DEF P
  <2> QED
    BY <1>2, <2>2, <2>3, SumOfFunction
<1>5. IsInjective(us)
  <2>1. \A x, y \in P : users[x] = users[y] => x = y
    BY DEF WellPosed, IsInjective
  <2>2. \A x, y \in P : us[x] = us[y] => x = y
    BY <1>1, <2>1
  <2>3. DOMAIN us = P
    OBVIOUS
  <2> HIDE DEF us
  <2> QED
    BY <2>2, <2>3 DEF IsInjective
<1>6. Range(us) = Range(users)
  BY <1>1 DEF Range
<1> QED
  BY <1>3, <1>4, <1>5, <1>6 DEF WellPosed

\* The split does not depend on the order of the list.
THEOREM DistributeIgnoresOrder ==
  ASSUME NEW total, NEW users, NEW weights, WellPosed(total, users, weights),
         NEW p \in Bijection(DOMAIN users, DOMAIN users)
  PROVE  distributeProportionally(total, [i \in DOMAIN users |-> users[p[i]]],
                                         [i \in DOMAIN users |-> weights[p[i]]])
           = distributeProportionally(total, users, weights)
<1> DEFINE P == DOMAIN users
           us == [i \in P |-> users[p[i]]]
           ws == [i \in P |-> weights[p[i]]]
           W == SumFunction(weights)
           floor == Floors(total, users, weights)
           floors == Floors(total, us, ws)
           frac == Fracs(total, users, weights)
           fracs == Fracs(total, us, ws)
           R == Queue(total, users, weights)
           Rs == Queue(total, us, ws)
           left == Leftover(total, users, weights)
           split == distributeProportionally(total, users, weights)
           splits == distributeProportionally(total, us, ws)
<1>1. /\ p \in [P -> P]
      /\ \A x, y \in P : p[x] = p[y] => x = y
      /\ \A y \in P : \E x \in P : p[x] = y
  BY DEF Bijection, Injection, Surjection, IsInjective
<1>2. /\ WellPosed(total, us, ws)
      /\ SumFunction(ws) = W
      /\ Range(us) = Range(users)
      /\ DOMAIN us = P
  BY ReorderedIsWellPosed
<1>3. \A i \in P : floors[i] = floor[p[i]] /\ fracs[i] = frac[p[i]]
  BY <1>1, <1>2 DEF Floors, Fracs
<1>4. /\ IsFiniteSet(P) /\ DOMAIN floor = P /\ DOMAIN floors = P
      /\ \A i \in P : floor[i] \in Int
  BY <1>2, PositionFacts DEF Floors
<1>5. Leftover(total, us, ws) = left
  <2>1. /\ p \in Bijection(P, P) /\ IsFiniteSet(P)
        /\ \A y \in P : floor[y] \in Int
        /\ \A x \in P : floors[x] = floor[p[x]]
    BY <1>3, <1>4
  <2> HIDE DEF floor, floors, P
  <2>2. SumFunctionOnSet(floors, P) = SumFunctionOnSet(floor, P)
    BY <2>1, SumRename
  <2>3. SumFunction(floors) = SumFunction(floor)
    BY <1>4, <2>2, SumOfFunction
  <2> QED
    BY <2>3 DEF Leftover, floor, floors, P
<1>6. \A i, j \in P : <<i, j>> \in Rs <=> <<p[i], p[j]>> \in R
  <2>1. \A i, j \in P : <<i, j>> \in Rs <=> fracs[i] > fracs[j] \/ (fracs[i] = fracs[j] /\ us[i] < us[j])
    BY <1>2, QueueIsOrder
  <2>2. \A i, j \in P : <<i, j>> \in R <=> frac[i] > frac[j] \/ (frac[i] = frac[j] /\ users[i] < users[j])
    BY QueueIsOrder
  <2> SUFFICES ASSUME NEW i \in P, NEW j \in P
               PROVE  <<i, j>> \in Rs <=> <<p[i], p[j]>> \in R
    OBVIOUS
  <2>3. p[i] \in P /\ p[j] \in P
    BY <1>1
  <2>4. <<i, j>> \in Rs <=> fracs[i] > fracs[j] \/ (fracs[i] = fracs[j] /\ us[i] < us[j])
    BY <2>1, Zenon
  <2>5. <<p[i], p[j]>> \in R
          <=> frac[p[i]] > frac[p[j]] \/ (frac[p[i]] = frac[p[j]] /\ users[p[i]] < users[p[j]])
    BY <2>2, <2>3, Zenon
  <2>6. /\ us[i] = users[p[i]] /\ us[j] = users[p[j]]
        /\ fracs[i] = frac[p[i]] /\ fracs[j] = frac[p[j]]
    BY <1>3
  <2> QED
    BY <2>4, <2>5, <2>6, Zenon
<1>7. ASSUME NEW i \in P
      PROVE  Cardinality(Before(P, Rs, i)) = Cardinality(Before(P, R, p[i]))
  <2> DEFINE A == Before(P, Rs, i)
             B == Before(P, R, p[i])
             q == [x \in A |-> p[x]]
  <2>1. q \in [A -> B] /\ \A x, y \in A : q[x] = q[y] => x = y
    BY <1>1, <1>6 DEF Before
  <2>2. ASSUME NEW y \in B
        PROVE  \E x \in A : q[x] = y
    <3>1. PICK x \in P : p[x] = y
      BY <1>1 DEF Before
    <3>2. x \in A
      BY <1>6, <3>1 DEF Before
    <3> QED
      BY <3>1, <3>2
  <2>3. IsFiniteSet(A)
    BY <1>4, FS_Subset DEF Before
  <2>4. ExistsBijection(A, B)
    <3>1. /\ q \in [A -> B]
          /\ \A x, y \in A : q[x] = q[y] => x = y
          /\ \A y \in B : \E x \in A : q[x] = y
      BY <2>1, <2>2
    <3> HIDE DEF q, A, B
    <3>2. q \in Bijection(A, B)
      BY <3>1 DEF Bijection, Injection, Surjection, IsInjective
    <3> QED
      BY <3>2 DEF ExistsBijection
  <2> QED
    BY <2>3, <2>4, FS_Bijection
<1>8. \A i \in P : i \in Bumped(total, us, ws) <=> p[i] \in Bumped(total, users, weights)
  BY <1>1, <1>2, <1>5, <1>7 DEF Bumped
<1>9. \A i \in P : splits[us[i]] = split[users[p[i]]]
  <2>1. \A i \in P : split[users[i]] = floor[i] + (IF i \in Bumped(total, users, weights) THEN 1 ELSE 0)
    BY DistributeParts
  <2>2. \A i \in P : splits[us[i]] = floors[i] + (IF i \in Bumped(total, us, ws) THEN 1 ELSE 0)
    BY <1>2, DistributeParts
  <2> SUFFICES ASSUME NEW i \in P PROVE splits[us[i]] = split[users[p[i]]]
    OBVIOUS
  <2>3. p[i] \in P
    BY <1>1
  <2>4. split[users[p[i]]] = floor[p[i]] + (IF p[i] \in Bumped(total, users, weights) THEN 1 ELSE 0)
    BY <2>1, <2>3, Zenon
  <2>5. splits[us[i]] = floors[i] + (IF i \in Bumped(total, us, ws) THEN 1 ELSE 0)
    BY <2>2, Zenon
  <2>6. floors[i] = floor[p[i]] /\ (i \in Bumped(total, us, ws) <=> p[i] \in Bumped(total, users, weights))
    BY <1>3, <1>8, Zenon
  <2> QED
    BY <2>4, <2>5, <2>6, Zenon
<1>10. \A u \in Range(users) : splits[u] = split[u]
  <2> SUFFICES ASSUME NEW u \in Range(users) PROVE splits[u] = split[u]
    OBVIOUS
  <2>1. PICK k \in P : users[k] = u
    BY DEF Range
  <2>2. PICK i \in P : p[i] = k
    BY <1>1
  <2>3. us[i] = u
    BY <2>1, <2>2
  <2> QED
    BY <1>9, <2>1, <2>2, <2>3
<1>11. split = [u \in Range(users) |-> split[u]] /\ splits = [u \in Range(users) |-> splits[u]]
  BY <1>2, DistributeParts
<1> HIDE DEF split, splits
<1>12. splits = split
  BY <1>10, <1>11
<1> QED
  BY <1>12 DEF split, splits

-----------------------------------------------------------------------------
(* The requests *)

\* A function on the first numbers is a sequence.
LEMMA ListIsSeq ==
  \A S : \A n \in Nat : \A f \in [1 .. n -> S] : f \in Seq(S) /\ Len(f) = n /\ DOMAIN f = 1 .. n
OBVIOUS

\* A list is empty when it has no positions.
LEMMA EmptyList == \A S : \A s \in Seq(S) : s = << >> <=> DOMAIN s = {}
<1> SUFFICES ASSUME NEW S, NEW s \in Seq(S) PROVE s = << >> <=> DOMAIN s = {}
  OBVIOUS
<1>1. DOMAIN s = 1 .. Len(s) /\ Len(s) \in Nat
  OBVIOUS
<1>2. s = << >> => DOMAIN s = {}
  OBVIOUS
<1>3. DOMAIN s = {} => Len(s) = 0
  BY <1>1
<1> QED
  BY <1>2, <1>3

\* What a request carries.
LEMMA RequestShape ==
  ASSUME NEW c \in SplitRequests
  PROVE  /\ c.method \in Methods
         /\ c.amount \in Nat /\ c.amount > 0
         /\ c.inputs \in Seq([user : SplitUsers, value : Int])
         /\ \A i \in DOMAIN c.inputs : c.inputs[i].user \in Nat /\ c.inputs[i].value \in Int
         /\ RepeatUsers \/ IsInjective(UsersOf(c.inputs))
         /\ c.members = SplitUsers
<1>1. PICK m \in Methods :
        c \in [method : {m}, amount : Amounts[m], inputs : InputLists(m), members : {SplitUsers}]
  BY DEF SplitRequests
<1>2. /\ c.method = m /\ c.amount \in Amounts[m] /\ c.inputs \in InputLists(m)
      /\ c.members = SplitUsers
  BY <1>1
<1>3. Amounts[m] \subseteq Nat \ {0} /\ Values[m] \subseteq Int
  BY RequestAssumption
<1>4. c.inputs \in BoundedSeq([user : SplitUsers, value : Values[m]], MaxInputs)
      /\ (RepeatUsers \/ IsInjective(UsersOf(c.inputs)))
  BY <1>2 DEF InputLists, NamedOnce
<1>5. PICK n \in 0 .. MaxInputs : c.inputs \in [1 .. n -> [user : SplitUsers, value : Values[m]]]
  BY <1>4 DEF BoundedSeq, SeqOf
<1>6. n \in Nat
  BY RequestAssumption
<1>7. c.inputs \in [1 .. n -> [user : SplitUsers, value : Int]]
  BY <1>3, <1>5
<1>8. c.inputs \in Seq([user : SplitUsers, value : Int])
  BY <1>6, <1>7, ListIsSeq
<1>9. ASSUME NEW i \in DOMAIN c.inputs
      PROVE  c.inputs[i].user \in Nat /\ c.inputs[i].value \in Int
  <2>1. c.inputs[i] \in [user : SplitUsers, value : Int]
    BY <1>7, <1>9
  <2> QED
    BY <2>1, RequestAssumption
<1> QED
  BY <1>2, <1>3, <1>4, <1>8, <1>9

\* The users a request asks about and the weights it gives them.
AskedUsers(c) ==
  IF c.method = "equal" /\ c.inputs = << >> THEN SetToSeq(c.members) ELSE UsersOf(c.inputs)
AskedWeights(c) ==
  IF c.method = "equal" THEN [i \in DOMAIN AskedUsers(c) |-> 1] ELSE ValuesOf(c.inputs)

FixedCents(c) == [i \in DOMAIN c.inputs |-> roundedCents(c.inputs[i].value)]

\* The members of the group as a list.
LEMMA MembersListed ==
  /\ SetToSeq(SplitUsers) \in Seq(Int)
  /\ IsInjective(SetToSeq(SplitUsers))
<1> DEFINE n == Cardinality(SplitUsers)
           lists == {f \in [1 .. n -> SplitUsers] : IsInjective(f)}
<1>1. n \in Nat
  BY RequestAssumption, FS_CardinalityType
<1>2. PICK f : f \in Bijection(1 .. n, SplitUsers)
  BY <1>1, RequestAssumption, FS_CountingElements, FS_NatBijection DEF ExistsBijection
<1>3. \E g \in [1 .. n -> SplitUsers] : IsInjective(g)
  BY <1>2 DEF Bijection, Injection, IsInjective
<1>4. SetToSeq(SplitUsers) \in [1 .. n -> SplitUsers] /\ IsInjective(SetToSeq(SplitUsers))
  BY <1>3 DEF SetToSeq
<1>5. SplitUsers \subseteq Int
  BY RequestAssumption
<1>6. SetToSeq(SplitUsers) \in [1 .. n -> Int]
  BY <1>4, <1>5
<1> QED
  BY <1>1, <1>4, <1>6, ListIsSeq

\* What calculateSplitAmounts asks of a request.
Accepts(c) ==
  /\ c.method = "equal" => AskedUsers(c) # << >>
  /\ c.method = "percentage" =>
       /\ c.inputs # << >>
       /\ \A i \in DOMAIN c.inputs : c.inputs[i].value >= 0
       /\ SumFunction(ValuesOf(c.inputs)) - HundredPercent
            \in -PercentTolerance .. PercentTolerance
  /\ c.method = "fixed" =>
       /\ c.inputs # << >>
       /\ \A i \in DOMAIN c.inputs : c.inputs[i].value >= 0
       /\ SumFunction(FixedCents(c)) = c.amount
  /\ c.method = "shares" =>
       c.inputs # << >> /\ \A i \in DOMAIN c.inputs : c.inputs[i].value > 0

\* What it then answers.
Answer(c) ==
  IF c.method = "fixed"
  THEN [u \in Range(UsersOf(c.inputs)) |->
          FixedCents(c)[Max({i \in DOMAIN c.inputs : c.inputs[i].user = u})]]
  ELSE distributeProportionally(c.amount, AskedUsers(c), AskedWeights(c))

\* The four methods, in one form.
LEMMA SplitOfRequest ==
  ASSUME NEW c \in SplitRequests
  PROVE  Split(c) = IF Accepts(c) THEN Answer(c) ELSE NoSplit
<1>1. CASE c.method = "equal"
  <2> DEFINE asked == AskedUsers(c)
             ones == [i \in DOMAIN asked |-> 1]
  <2>1. AskedWeights(c) = ones
    BY <1>1 DEF AskedWeights
  <2>2. Split(c) = splitEqual(c.amount, c.inputs, c.members)
    BY <1>1 DEF Split, calculateSplitAmounts
  <2>3. asked = IF c.inputs # << >> THEN UsersOf(c.inputs) ELSE SetToSeq(c.members)
    BY <1>1 DEF AskedUsers
  <2>4. Split(c) = IF asked = << >> THEN NoSplit
                   ELSE distributeProportionally(c.amount, asked, ones)
    BY <2>2, <2>3 DEF splitEqual
  <2>5. Accepts(c) <=> asked # << >>
    BY <1>1 DEF Accepts
  <2>6. Answer(c) = distributeProportionally(c.amount, asked, ones)
    BY <1>1, <2>1 DEF Answer
  <2> QED
    BY <2>4, <2>5, <2>6
<1>2. c.method # "equal" =>
        AskedUsers(c) = UsersOf(c.inputs) /\ AskedWeights(c) = ValuesOf(c.inputs)
  BY DEF AskedUsers, AskedWeights
<1>3. CASE c.method = "percentage"
  <2>1. Split(c) = splitByPercentage(c.amount, c.inputs)
    BY <1>3 DEF Split, calculateSplitAmounts
  <2> QED
    BY <1>2, <1>3, <2>1 DEF splitByPercentage, Accepts, Answer
<1>4. CASE c.method = "fixed"
  <2>1. Split(c) = splitByFixedAmount(c.amount, c.inputs)
    BY <1>4 DEF Split, calculateSplitAmounts
  <2> QED
    BY <1>4, <2>1 DEF splitByFixedAmount, FixedCents, Accepts, Answer
<1>5. CASE c.method = "shares"
  <2>1. Split(c) = splitByShares(c.amount, c.inputs)
    BY <1>5 DEF Split, calculateSplitAmounts
  <2> QED
    BY <1>2, <1>5, <2>1 DEF splitByShares, Accepts, Answer
<1> QED
  BY <1>1, <1>3, <1>4, <1>5, RequestShape DEF Methods

\* Unless the amounts are fixed, distributeProportionally is asked a question
\* that has an answer.
LEMMA AskedIsWellPosed ==
  ASSUME NEW c \in SplitRequests, RepeatUsers = FALSE, Accepts(c), c.method # "fixed"
  PROVE  WellPosed(c.amount, AskedUsers(c), AskedWeights(c))
<1> DEFINE inputs == c.inputs
           users == UsersOf(inputs)
           values == ValuesOf(inputs)
           n == Len(inputs)
<1>1. /\ inputs \in Seq([user : SplitUsers, value : Int]) /\ c.amount \in Nat
      /\ n \in Nat /\ DOMAIN inputs = 1 .. n
      /\ \A i \in 1 .. n : inputs[i].user \in Nat /\ inputs[i].value \in Int
      /\ IsInjective(users) /\ c.members = SplitUsers
      /\ inputs # << >> => n > 0
  <2>1. /\ inputs \in Seq([user : SplitUsers, value : Int]) /\ c.amount \in Nat
        /\ \A i \in DOMAIN inputs : inputs[i].user \in Nat /\ inputs[i].value \in Int
        /\ IsInjective(users) /\ c.members = SplitUsers
    BY RequestShape, Zenon
  <2> HIDE DEF inputs, users
  <2>2. n \in Nat /\ DOMAIN inputs = 1 .. n /\ (inputs # << >> => n > 0)
    BY <2>1
  <2> QED
    BY <2>1, <2>2
<1>2. /\ users \in Seq(Int) /\ Len(users) = n /\ DOMAIN users = 1 .. n
      /\ values \in Seq(Int) /\ Len(values) = n /\ DOMAIN values = 1 .. n
      /\ \A i \in 1 .. n : values[i] = inputs[i].value
  <2>1. users \in [1 .. n -> Int] /\ values \in [1 .. n -> Int]
    BY <1>1 DEF UsersOf, ValuesOf
  <2>2. \A i \in 1 .. n : values[i] = inputs[i].value
    BY <1>1 DEF ValuesOf
  <2> QED
    BY <1>1, <2>1, <2>2, ListIsSeq
<1>3. SumFunction(values) \in Int
  <2>1. IsFiniteSet(1 .. n)
    BY <1>1, FirstNumbers
  <2>2. \A i \in 1 .. n : values[i] \in Int
    BY <1>1, <1>2
  <2> HIDE DEF values
  <2> QED
    BY <1>2, <2>1, <2>2, SumType, SumOfFunction
<1>4. CASE c.method = "equal"
  <2> DEFINE asked == AskedUsers(c)
             ones == [i \in DOMAIN asked |-> 1]
  <2>1. asked \in Seq(Int) /\ IsInjective(asked)
    BY <1>1, <1>2, MembersListed DEF AskedUsers
  <2>2. AskedWeights(c) = ones
    BY <1>4 DEF AskedWeights
  <2>4. asked # << >>
    BY <1>4 DEF Accepts
  <2>5. /\ Len(asked) \in Nat /\ Len(asked) > 0 /\ DOMAIN asked = 1 .. Len(asked)
    <3> HIDE DEF asked
    <3> QED
      BY <2>1, <2>4
  <2>6. ones \in Seq(Nat) /\ Len(ones) = Len(asked)
    <3>1. ones \in [1 .. Len(asked) -> Nat]
      BY <2>5
    <3> HIDE DEF ones, asked
    <3> QED
      BY <2>5, <3>1, ListIsSeq
  <2>7. SumFunction(ones) > 0
    <3>1. /\ IsFiniteSet(1 .. Len(asked)) /\ Cardinality(1 .. Len(asked)) = Len(asked)
      BY <2>5, FirstNumbers
    <3>2. DOMAIN ones = 1 .. Len(asked) /\ \A i \in 1 .. Len(asked) : ones[i] = 1
      BY <2>5
    <3> HIDE DEF ones, asked
    <3>3. SumFunctionOnSet(ones, 1 .. Len(asked)) = 1 * Cardinality(1 .. Len(asked))
      BY <3>1, <3>2, SumConstant
    <3> QED
      BY <2>5, <3>1, <3>2, <3>3, SumOfFunction
  <2> HIDE DEF asked, ones
  <2>8. WellPosed(c.amount, asked, ones)
    BY <1>1, <2>1, <2>6, <2>7 DEF WellPosed
  <2> QED
    BY <2>2, <2>8 DEF asked
<1>5. c.method # "equal" => AskedUsers(c) = users /\ AskedWeights(c) = values
  BY DEF AskedUsers, AskedWeights
<1>6. ASSUME \A i \in 1 .. n : values[i] \in Nat, SumFunction(values) > 0
      PROVE  WellPosed(c.amount, users, values)
  <2>1. values \in Seq(Nat)
    <3>1. values \in [1 .. n -> Nat]
      BY <1>2, <1>6 DEF ValuesOf
    <3> QED
      BY <1>1, <3>1, ListIsSeq
  <2> QED
    BY <1>1, <1>2, <1>6, <2>1 DEF WellPosed
<1>7. CASE c.method = "percentage"
  <2>2. /\ \A i \in DOMAIN inputs : inputs[i].value >= 0
        /\ SumFunction(values) - HundredPercent \in -PercentTolerance .. PercentTolerance
    BY <1>7 DEF Accepts
  <2>3. \A i \in 1 .. n : values[i] \in Nat
    <3>1. \A i \in 1 .. n : inputs[i].value \in Int /\ inputs[i].value >= 0
      BY <1>1, <2>2, Zenon
    <3>2. \A i \in 1 .. n : inputs[i].value \in Nat
      BY <3>1
    <3> QED
      BY <1>2, <3>2, Zenon
  <2> HIDE DEF values
  <2>4. SumFunction(values) > 0
    BY <1>3, <2>2 DEF HundredPercent, PercentTolerance
  <2> QED
    BY <1>5, <1>6, <1>7, <2>3, <2>4
<1>8. CASE c.method = "shares"
  <2>2. /\ \A i \in DOMAIN inputs : inputs[i].value > 0
        /\ inputs # << >>
    BY <1>8 DEF Accepts
  <2>3. /\ \A i \in 1 .. n : values[i] \in Nat /\ values[i] > 0
        /\ n > 0
    <3>1. \A i \in 1 .. n : inputs[i].value \in Int /\ inputs[i].value > 0
      BY <1>1, <2>2, Zenon
    <3>2. \A i \in 1 .. n : inputs[i].value \in Nat /\ inputs[i].value > 0
      BY <3>1
    <3> QED
      BY <1>1, <1>2, <2>2, <3>2, Zenon
  <2>4. IsFiniteSet(1 .. n) /\ 1 \in 1 .. n
    BY <1>1, <2>3, FirstNumbers
  <2> HIDE DEF values
  <2>5. SumFunction(values) > 0
    <3>1. values[1] <= SumFunctionOnSet(values, 1 .. n)
      BY <2>3, <2>4, SumOfNats
    <3>2. SumFunctionOnSet(values, 1 .. n) = SumFunction(values)
      BY <1>2, SumOfFunction
    <3> QED
      BY <1>3, <2>3, <2>4, <3>1, <3>2
  <2> QED
    BY <1>5, <1>6, <1>8, <2>3, <2>5
<1> QED
  BY <1>4, <1>7, <1>8, RequestShape DEF Methods

\* An accepted list of fixed amounts is answered with those amounts, rounded.
LEMMA FixedAmounts ==
  ASSUME NEW c \in SplitRequests, RepeatUsers = FALSE, Accepts(c), c.method = "fixed"
  PROVE  /\ \A i \in DOMAIN c.inputs : c.inputs[i].value \in Nat /\ FixedCents(c)[i] \in Nat
         /\ SumFunction(FixedCents(c)) = c.amount
         /\ DOMAIN Answer(c) = Range(UsersOf(c.inputs))
         /\ Answer(c) = [u \in Range(UsersOf(c.inputs)) |-> Answer(c)[u]]
         /\ \A i \in DOMAIN c.inputs : Answer(c)[UsersOf(c.inputs)[i]] = FixedCents(c)[i]
<1> DEFINE inputs == c.inputs
           users == UsersOf(inputs)
           cents == FixedCents(c)
           last(u) == Max({i \in DOMAIN inputs : inputs[i].user = u})
<1>1. /\ \A i \in DOMAIN inputs : inputs[i].user \in Nat /\ inputs[i].value \in Int
      /\ IsInjective(users) /\ inputs \in Seq([user : SplitUsers, value : Int])
  BY RequestShape, Zenon
<1>3. /\ \A i \in DOMAIN inputs : inputs[i].value >= 0
      /\ SumFunction(cents) = c.amount
      /\ Answer(c) = [u \in Range(users) |-> cents[last(u)]]
  BY DEF Accepts, Answer
<1>4. \A i \in DOMAIN inputs : inputs[i].value \in Nat
  <2>1. \A i \in DOMAIN inputs : inputs[i].value \in Int /\ inputs[i].value >= 0
    BY <1>1, <1>3, Zenon
  <2> QED
    BY <2>1
<1>5. \A i \in DOMAIN inputs : cents[i] \in Nat
  <2>1. \A v \in Nat : roundedCents(v) \in Nat
    BY DEF roundedCents, TenthsPerCent
  <2>2. \A i \in DOMAIN inputs : cents[i] = roundedCents(inputs[i].value)
    BY DEF FixedCents
  <2> QED
    BY <1>4, <2>1, <2>2, Zenon
<1>6. \A i \in DOMAIN inputs : users[i] \in Range(users) /\ last(users[i]) = i
  <2> SUFFICES ASSUME NEW i \in DOMAIN inputs PROVE users[i] \in Range(users) /\ last(users[i]) = i
    OBVIOUS
  <2>1. {k \in DOMAIN inputs : inputs[k].user = users[i]} = {i}
    BY <1>1 DEF UsersOf, IsInjective
  <2>2. i \in Int
    <3>1. \A k \in DOMAIN inputs : k \in Nat
      <4> HIDE DEF inputs
      <4> QED
        BY <1>1
    <3> QED
      BY <3>1
  <2>3. Max({i}) = i
    BY <2>2 DEF Max
  <2> QED
    BY <2>1, <2>3 DEF UsersOf, Range
<1>7. \A i \in DOMAIN inputs : Answer(c)[users[i]] = cents[i]
  BY <1>3, <1>6, Zenon
<1> HIDE DEF cents, users, last
<1>8. Answer(c) = [u \in Range(users) |-> Answer(c)[u]] /\ DOMAIN Answer(c) = Range(users)
  BY <1>3
<1> QED
  BY <1>3, <1>4, <1>5, <1>7, <1>8 DEF cents, users

\* The weight of a user is that of the one position that names it.
LEMMA WeightAsked ==
  ASSUME call \in SplitRequests, RepeatUsers = FALSE,
         NEW i \in DOMAIN AskedUsers(call)
  PROVE  Weight(AskedUsers(call)[i]) = AskedWeights(call)[i]
<1>1. CASE call.method = "equal"
  BY <1>1 DEF Weight, AskedWeights
<1>2. CASE call.method # "equal"
  <2>1. /\ AskedUsers(call) = UsersOf(call.inputs) /\ AskedWeights(call) = ValuesOf(call.inputs)
    BY <1>2 DEF AskedUsers, AskedWeights
  <2>2. i \in DOMAIN call.inputs /\ UsersOf(call.inputs)[i] = call.inputs[i].user
    BY <2>1 DEF UsersOf
  <2>3. IsInjective(UsersOf(call.inputs))
    BY RequestShape
  <2>4. \A k \in DOMAIN call.inputs : call.inputs[k].user = call.inputs[i].user => k = i
    BY <2>2, <2>3 DEF IsInjective, UsersOf
  <2>5. (CHOOSE k \in DOMAIN call.inputs : call.inputs[k].user = call.inputs[i].user) = i
    BY <2>2, <2>4
  <2>6. Weight(call.inputs[i].user) = call.inputs[i].value
    BY <1>2, <2>5, Zenon DEF Weight
  <2>7. ValuesOf(call.inputs)[i] = call.inputs[i].value
    BY <2>2 DEF ValuesOf
  <2> QED
    BY <2>1, <2>2, <2>6, <2>7
<1> QED
  BY <1>1, <1>2

-----------------------------------------------------------------------------
(* The properties *)

\* Between two calls nothing is asked; during one, the answer is the split of
\* what was asked.
CallOK ==
  \/ call = Idle
  \/ call \in SplitRequests /\ result = Split(call)

\* What was asked is what is answered, in every state.
LEMMA CallInvariance == SplitSpec => []CallOK
<1>1. SplitInit => CallOK
  BY DEF SplitInit, CallOK
<1>2. CallOK /\ [SplitNext]_splitVars => CallOK'
  <2> SUFFICES ASSUME CallOK, [SplitNext]_splitVars PROVE CallOK'
    OBVIOUS
  <2>1. CASE AskSplit
    <3>1. PICK c \in SplitRequests : call' = c /\ result' = Split(c)
      BY <2>1 DEF AskSplit
    <3> QED
      BY <3>1 DEF CallOK
  <2>2. CASE NextCall
    BY <2>2 DEF NextCall, CallOK
  <2>3. CASE UNCHANGED splitVars
    BY <2>3 DEF splitVars, CallOK
  <2> QED
    BY <2>1, <2>2, <2>3 DEF SplitNext
<1> QED
  BY <1>1, <1>2, PTL DEF SplitSpec

\* An answer is that of a request.
LEMMA AnsweredRequest ==
  ASSUME CallOK, Answered
  PROVE  call \in SplitRequests /\ Accepts(call) /\ result = Answer(call)
<1>1. call # Idle
  BY DEF Answered, Idle, Methods
<1>2. call \in SplitRequests /\ result = Split(call) /\ Split(call) # NoSplit
  BY <1>1 DEF CallOK, Answered
<1> QED
  BY <1>2, SplitOfRequest

\* An accepted split, unless of fixed amounts, by position.
LEMMA AnswerShape ==
  ASSUME CallOK, Answered, RepeatUsers = FALSE, call.method # "fixed"
  PROVE  LET users == AskedUsers(call)
             weights == AskedWeights(call)
         IN  /\ WellPosed(call.amount, users, weights)
             /\ result = distributeProportionally(call.amount, users, weights)
             /\ result \in [Range(users) -> Nat]
             /\ \A i \in DOMAIN users : Weight(users[i]) = weights[i]
             /\ WeightSum = SumFunction(weights)
<1> DEFINE users == AskedUsers(call)
           weights == AskedWeights(call)
           weightOf == [u \in DOMAIN result |-> Weight(u)]
           P == DOMAIN users
<1>1. /\ WellPosed(call.amount, users, weights)
      /\ result = distributeProportionally(call.amount, users, weights)
  BY AnsweredRequest, AskedIsWellPosed DEF Answer
<1>2. result \in [Range(users) -> Nat]
  BY <1>1, DistributeAddsUp
<1>3. \A i \in P : Weight(users[i]) = weights[i]
  BY AnsweredRequest, WeightAsked
<1>4. /\ users \in Bijection(P, Range(users))
      /\ IsFiniteSet(P) /\ DOMAIN weights = P
      /\ \A i \in P : weights[i] \in Nat /\ users[i] \in Range(users)
  <2>1. users \in Bijection(P, Range(users))
    BY <1>1, ListIsBijection DEF WellPosed
  <2>2. IsFiniteSet(P) /\ DOMAIN weights = P /\ \A i \in P : weights[i] \in Nat
    BY <1>1, PositionFacts
  <2> HIDE DEF users, weights
  <2> QED
    BY <2>1, <2>2 DEF Range
<1>5. DOMAIN weightOf = Range(users)
  BY <1>2
<1>6. \A i \in P : weights[i] = weightOf[users[i]]
  BY <1>3, <1>4, <1>5
<1>7. \A u \in Range(users) : weightOf[u] \in Int
  <2> SUFFICES ASSUME NEW u \in Range(users) PROVE weightOf[u] \in Int
    OBVIOUS
  <2>1. PICK i \in P : users[i] = u
    BY DEF Range
  <2> HIDE DEF weightOf, weights, users
  <2> QED
    BY <1>4, <1>6, <2>1
<1>8. WeightSum = SumFunction(weights)
  <2>1. WeightSum = SumFunction(weightOf)
    BY DEF WeightSum
  <2> HIDE DEF weightOf, weights, users
  <2>2. SumFunctionOnSet(weights, P) = SumFunctionOnSet(weightOf, Range(users))
    BY <1>4, <1>6, <1>7, SumRename
  <2> QED
    BY <1>4, <1>5, <2>1, <2>2, SumOfFunction
<1> QED
  BY <1>1, <1>2, <1>3, <1>8

\* An accepted list of fixed amounts, by position.
LEMMA FixedShape ==
  ASSUME CallOK, Answered, RepeatUsers = FALSE, call.method = "fixed"
  PROVE  LET users == UsersOf(call.inputs)
             cents == FixedCents(call)
         IN  /\ SumFunction(cents) = call.amount
             /\ users \in Bijection(DOMAIN users, Range(users))
             /\ IsFiniteSet(DOMAIN users) /\ DOMAIN cents = DOMAIN users
             /\ DOMAIN result = Range(users)
             /\ \A i \in DOMAIN users :
                  /\ result[users[i]] = cents[i] /\ cents[i] \in Nat
                  /\ cents[i] = roundedCents(Weight(users[i]))
                  /\ Weight(users[i]) \in Nat
<1> DEFINE users == UsersOf(call.inputs)
           cents == FixedCents(call)
           P == DOMAIN users
<1>1. call \in SplitRequests /\ Accepts(call) /\ result = Answer(call)
  BY AnsweredRequest
<1>2. /\ \A i \in P : call.inputs[i].value \in Nat /\ cents[i] \in Nat /\ result[users[i]] = cents[i]
      /\ SumFunction(cents) = call.amount
      /\ DOMAIN result = Range(users)
  BY <1>1, FixedAmounts DEF UsersOf
<1>3. P = DOMAIN call.inputs /\ DOMAIN cents = P
  BY DEF UsersOf, FixedCents
<1>4. users \in Seq(Int) /\ IsInjective(users)
  <2>1. /\ call.inputs \in Seq([user : SplitUsers, value : Int])
        /\ \A i \in DOMAIN call.inputs : call.inputs[i].user \in Nat
        /\ IsInjective(users)
    BY <1>1, RequestShape, Zenon
  <2>2. Len(call.inputs) \in Nat /\ DOMAIN call.inputs = 1 .. Len(call.inputs)
    BY <2>1
  <2>3. users \in [1 .. Len(call.inputs) -> Int]
    BY <2>1, <2>2 DEF UsersOf
  <2> QED
    BY <2>1, <2>2, <2>3, ListIsSeq
<1>5. users \in Bijection(P, Range(users)) /\ IsFiniteSet(P)
  BY <1>4, ListIsBijection
<1>6. \A i \in P : Weight(users[i]) = call.inputs[i].value
  <2> SUFFICES ASSUME NEW i \in P PROVE Weight(users[i]) = call.inputs[i].value
    OBVIOUS
  <2>1. AskedUsers(call) = users /\ AskedWeights(call) = ValuesOf(call.inputs)
    BY DEF AskedUsers, AskedWeights
  <2>2. Weight(users[i]) = ValuesOf(call.inputs)[i]
    BY <1>1, <2>1, WeightAsked
  <2> QED
    BY <1>3, <2>2 DEF ValuesOf
<1>7. \A i \in P : cents[i] = roundedCents(call.inputs[i].value)
  BY <1>3 DEF FixedCents
<1> HIDE DEF users, cents
<1> QED
  BY <1>2, <1>3, <1>5, <1>6, <1>7 DEF users, cents

\* No split that is answered loses or invents a cent.
THEOREM SplitsAddUp ==
  ASSUME RepeatUsers = FALSE
  PROVE  SplitSpec => []NoCentLostOrInvented
<1>1. CallOK => NoCentLostOrInvented
  <2> SUFFICES ASSUME CallOK, Answered PROVE SumFunction(result) = call.amount
    BY DEF NoCentLostOrInvented
  <2>1. CASE call.method # "fixed"
    <3> DEFINE users == AskedUsers(call)
               weights == AskedWeights(call)
    <3>1. /\ WellPosed(call.amount, users, weights)
          /\ result = distributeProportionally(call.amount, users, weights)
      BY <2>1, AnswerShape
    <3> HIDE DEF users, weights
    <3> QED
      BY <3>1, DistributeAddsUp
  <2>2. CASE call.method = "fixed"
    <3> DEFINE users == UsersOf(call.inputs)
               cents == FixedCents(call)
               P == DOMAIN users
    <3>1. /\ SumFunction(cents) = call.amount
          /\ users \in Bijection(P, Range(users))
          /\ IsFiniteSet(P) /\ DOMAIN cents = P /\ DOMAIN result = Range(users)
          /\ \A i \in P : result[users[i]] = cents[i] /\ cents[i] \in Nat
      BY <2>2, FixedShape
    <3>2. \A u \in Range(users) : result[u] \in Int
      <4> SUFFICES ASSUME NEW u \in Range(users) PROVE result[u] \in Int
        OBVIOUS
      <4>1. PICK i \in P : users[i] = u
        BY DEF Range
      <4> HIDE DEF users, cents
      <4> QED
        BY <3>1, <4>1
    <3> HIDE DEF users, cents
    <3>3. SumFunctionOnSet(cents, P) = SumFunctionOnSet(result, Range(users))
      <4>1. \A i \in P : cents[i] = result[users[i]]
        BY <3>1
      <4> QED
        BY <3>1, <3>2, <4>1, SumRename
    <3> QED
      BY <3>1, <3>3, SumOfFunction
  <2> QED
    BY <2>1, <2>2
<1> QED
  BY <1>1, CallInvariance, PTL

\* Every part is within a cent of what the weights say, and a fixed part is
\* the amount asked for to the nearest cent.
THEOREM SplitsAreFair ==
  ASSUME RepeatUsers = FALSE
  PROVE  SplitSpec => []WithinOneCent
<1>1. CallOK => WithinOneCent
  <2> SUFFICES ASSUME CallOK, Answered, NEW u \in DOMAIN result
               PROVE  IF call.method = "fixed"
                      THEN LET gap == TenthsPerCent * result[u] - Weight(u)
                           IN  2 * gap <= TenthsPerCent /\ -2 * gap < TenthsPerCent
                      ELSE LET gap == result[u] * WeightSum - call.amount * Weight(u)
                           IN  gap < WeightSum /\ -gap < WeightSum
    BY Zenon DEF WithinOneCent
  <2>1. CASE call.method # "fixed"
    <3> DEFINE users == AskedUsers(call)
               weights == AskedWeights(call)
    <3>1. /\ WellPosed(call.amount, users, weights)
          /\ result = distributeProportionally(call.amount, users, weights)
          /\ result \in [Range(users) -> Nat]
          /\ \A i \in DOMAIN users : Weight(users[i]) = weights[i]
          /\ WeightSum = SumFunction(weights)
      BY <2>1, AnswerShape
    <3>2. PICK i \in DOMAIN users : users[i] = u
      BY <3>1 DEF Range
    <3>3. LET gap == result[users[i]] * WeightSum - call.amount * weights[i]
          IN  gap < WeightSum /\ -gap < WeightSum
      BY <3>1, DistributeIsFair
    <3> HIDE DEF users, weights
    <3>4. Weight(u) = weights[i]
      BY <3>1, <3>2
    <3> QED
      BY <2>1, <3>2, <3>3, <3>4
  <2>2. CASE call.method = "fixed"
    <3>1. PICK i \in DOMAIN UsersOf(call.inputs) : UsersOf(call.inputs)[i] = u
      BY <2>2, FixedShape DEF Range
    <3>2. result[u] = roundedCents(Weight(u)) /\ Weight(u) \in Nat
      BY <2>2, <3>1, FixedShape
    <3>3. \A w \in Nat : /\ 2 * (10 * ((w + 5) \div 10) - w) <= 10
                         /\ -2 * (10 * ((w + 5) \div 10) - w) < 10
      <4> SUFFICES ASSUME NEW w \in Nat
                   PROVE  /\ 2 * (10 * ((w + 5) \div 10) - w) <= 10
                          /\ -2 * (10 * ((w + 5) \div 10) - w) < 10
        OBVIOUS
      <4>1. /\ (w + 5) \div 10 \in Nat /\ (w + 5) % 10 \in Nat
            /\ w + 5 = 10 * ((w + 5) \div 10) + ((w + 5) % 10)
            /\ (w + 5) % 10 < 10
        BY DivMod
      <4> QED
        BY <4>1
    <3> QED
      BY <2>2, <3>2, <3>3 DEF roundedCents, TenthsPerCent
  <2> QED
    BY <2>1, <2>2
<1> QED
  BY <1>1, CallInvariance, PTL

\* Rounding never reverses the order of two weights.
THEOREM HeavierPayMore ==
  ASSUME RepeatUsers = FALSE
  PROVE  SplitSpec => []HeavierNeverOwesLess
<1>1. CallOK => HeavierNeverOwesLess
  <2> SUFFICES ASSUME CallOK, Answered, NEW u \in DOMAIN result, NEW v \in DOMAIN result,
                      Weight(u) > Weight(v)
               PROVE  result[u] >= result[v]
    BY DEF HeavierNeverOwesLess
  <2>1. CASE call.method # "fixed"
    <3> DEFINE users == AskedUsers(call)
               weights == AskedWeights(call)
    <3>1. /\ WellPosed(call.amount, users, weights)
          /\ result = distributeProportionally(call.amount, users, weights)
          /\ result \in [Range(users) -> Nat]
          /\ \A i \in DOMAIN users : Weight(users[i]) = weights[i]
      BY <2>1, AnswerShape
    <3>2. PICK i \in DOMAIN users : users[i] = u
      BY <3>1 DEF Range
    <3>3. PICK j \in DOMAIN users : users[j] = v
      BY <3>1 DEF Range
    <3> HIDE DEF users, weights
    <3>4. weights[i] > weights[j]
      BY <3>1, <3>2, <3>3
    <3>5. distributeProportionally(call.amount, users, weights)[users[i]]
            >= distributeProportionally(call.amount, users, weights)[users[j]]
      BY <3>1, <3>4, DistributeKeepsOrder
    <3> QED
      BY <3>1, <3>2, <3>3, <3>5
  <2>2. CASE call.method = "fixed"
    <3>1. PICK i \in DOMAIN UsersOf(call.inputs) : UsersOf(call.inputs)[i] = u
      BY <2>2, FixedShape DEF Range
    <3>2. PICK j \in DOMAIN UsersOf(call.inputs) : UsersOf(call.inputs)[j] = v
      BY <2>2, FixedShape DEF Range
    <3>3. /\ result[u] = roundedCents(Weight(u)) /\ Weight(u) \in Nat
          /\ result[v] = roundedCents(Weight(v)) /\ Weight(v) \in Nat
      BY <2>2, <3>1, <3>2, FixedShape
    <3>4. \A x, y \in Nat : x > y => (x + 5) \div 10 >= (y + 5) \div 10
      OBVIOUS
    <3> QED
      BY <3>3, <3>4 DEF roundedCents, TenthsPerCent
  <2> QED
    BY <2>1, <2>2
<1> QED
  BY <1>1, CallInvariance, PTL

\* The same request with its inputs in another order.
Reordered(c, p) == [c EXCEPT !.inputs = [i \in DOMAIN c.inputs |-> c.inputs[p[i]]]]

\* That too is a request, and what it says.
LEMMA ReorderedRequest ==
  ASSUME NEW c \in SplitRequests, NEW p \in Bijection(DOMAIN c.inputs, DOMAIN c.inputs)
  PROVE  LET d == Reordered(c, p)
             D == DOMAIN c.inputs
         IN  /\ d \in SplitRequests
             /\ d.method = c.method /\ d.amount = c.amount /\ d.members = c.members
             /\ d.inputs = [i \in D |-> c.inputs[p[i]]]
             /\ UsersOf(d.inputs) = [i \in D |-> UsersOf(c.inputs)[p[i]]]
             /\ ValuesOf(d.inputs) = [i \in D |-> ValuesOf(c.inputs)[p[i]]]
             /\ FixedCents(d) = [i \in D |-> FixedCents(c)[p[i]]]
<1> DEFINE D == DOMAIN c.inputs
           d == Reordered(c, p)
<1>1. /\ \A i \in D : p[i] \in D
      /\ \A i, j \in D : p[i] = p[j] => i = j
  BY DEF Bijection, Injection, IsInjective
<1>2. PICK m \in Methods :
        c \in [method : {m}, amount : Amounts[m], inputs : InputLists(m), members : {SplitUsers}]
  BY DEF SplitRequests
<1>3. d = [method |-> c.method, amount |-> c.amount, members |-> c.members,
           inputs |-> [i \in D |-> c.inputs[p[i]]]]
  BY <1>2 DEF Reordered
<1>4. c.inputs \in BoundedSeq([user : SplitUsers, value : Values[m]], MaxInputs)
      /\ (RepeatUsers \/ NamedOnce(c.inputs))
  BY <1>2 DEF InputLists
<1>5. PICK n \in 0 .. MaxInputs : c.inputs \in [1 .. n -> [user : SplitUsers, value : Values[m]]]
  BY <1>4 DEF BoundedSeq, SeqOf
<1>6. [i \in D |-> c.inputs[p[i]]] \in [1 .. n -> [user : SplitUsers, value : Values[m]]]
  BY <1>1, <1>5
<1>7. NamedOnce(c.inputs) => NamedOnce([i \in D |-> c.inputs[p[i]]])
  <2> SUFFICES ASSUME NamedOnce(c.inputs) PROVE NamedOnce([i \in D |-> c.inputs[p[i]]])
    OBVIOUS
  <2> DEFINE swapped == [i \in D |-> c.inputs[p[i]]]
  <2>1. \A i, j \in D : c.inputs[i].user = c.inputs[j].user => i = j
    BY DEF NamedOnce, IsInjective, UsersOf
  <2>2. \A i, j \in D : c.inputs[p[i]].user = c.inputs[p[j]].user => i = j
    BY <1>1, <2>1, Zenon
  <2>3. DOMAIN swapped = D /\ \A i \in D : swapped[i] = c.inputs[p[i]]
    OBVIOUS
  <2> HIDE DEF swapped
  <2>4. \A i, j \in D : swapped[i].user = swapped[j].user => i = j
    BY <2>2, <2>3
  <2>5. NamedOnce(swapped)
    BY <2>3, <2>4 DEF NamedOnce, IsInjective, UsersOf
  <2> QED
    BY <2>5 DEF swapped
<1>8. [i \in D |-> c.inputs[p[i]]] \in InputLists(m)
  BY <1>4, <1>5, <1>6, <1>7 DEF InputLists, BoundedSeq, SeqOf
<1>9. d \in SplitRequests
  BY <1>2, <1>3, <1>8 DEF SplitRequests
<1>10. /\ d.method = c.method /\ d.amount = c.amount /\ d.members = c.members
       /\ d.inputs = [i \in D |-> c.inputs[p[i]]]
  BY <1>3
<1>11. /\ UsersOf(d.inputs) = [i \in D |-> UsersOf(c.inputs)[p[i]]]
       /\ ValuesOf(d.inputs) = [i \in D |-> ValuesOf(c.inputs)[p[i]]]
       /\ FixedCents(d) = [i \in D |-> FixedCents(c)[p[i]]]
  BY <1>1, <1>10 DEF UsersOf, ValuesOf, FixedCents
<1> QED
  BY <1>9, <1>10, <1>11

\* A sum over a list does not depend on its order.
LEMMA SumReordered ==
  ASSUME NEW n \in Nat, NEW f \in [1 .. n -> Int], NEW p \in Bijection(1 .. n, 1 .. n)
  PROVE  SumFunction([i \in 1 .. n |-> f[p[i]]]) = SumFunction(f)
<1> DEFINE g == [i \in 1 .. n |-> f[p[i]]]
<1>1. IsFiniteSet(1 .. n)
  BY FirstNumbers
<1>2. SumFunctionOnSet(g, 1 .. n) = SumFunctionOnSet(f, 1 .. n)
  <2>1. /\ \A i \in 1 .. n : g[i] = f[p[i]]
        /\ \A i \in 1 .. n : f[i] \in Int
    OBVIOUS
  <2> HIDE DEF g
  <2> QED
    BY <1>1, <2>1, SumRename
<1> QED
  BY <1>2, SumOfFunction

\* A reordered request is accepted when the request is.
LEMMA AcceptsReordered ==
  ASSUME NEW c \in SplitRequests, NEW p \in Bijection(DOMAIN c.inputs, DOMAIN c.inputs)
  PROVE  Accepts(Reordered(c, p)) <=> Accepts(c)
<1> DEFINE D == DOMAIN c.inputs
           d == Reordered(c, p)
           n == Len(c.inputs)
<1>1. /\ c.inputs \in Seq([user : SplitUsers, value : Int])
      /\ \A i \in D : c.inputs[i].value \in Int
      /\ n \in Nat /\ D = 1 .. n
  <2>1. /\ c.inputs \in Seq([user : SplitUsers, value : Int])
        /\ \A i \in D : c.inputs[i].value \in Int
    BY RequestShape, Zenon
  <2> QED
    BY <2>1
<1>2. /\ d.method = c.method /\ d.amount = c.amount /\ d.members = c.members
      /\ d.inputs = [i \in D |-> c.inputs[p[i]]]
      /\ UsersOf(d.inputs) = [i \in D |-> UsersOf(c.inputs)[p[i]]]
      /\ ValuesOf(d.inputs) = [i \in D |-> ValuesOf(c.inputs)[p[i]]]
      /\ FixedCents(d) = [i \in D |-> FixedCents(c)[p[i]]]
  BY ReorderedRequest
<1>3. /\ \A i \in D : p[i] \in D
      /\ \A k \in D : \E i \in D : p[i] = k
  BY DEF Bijection, Surjection
<1>4. DOMAIN d.inputs = D /\ (d.inputs = << >> <=> c.inputs = << >>)
  <2>1. DOMAIN d.inputs = D
    BY <1>2
  <2>2. c.inputs = << >> <=> D = {}
    BY <1>1, EmptyList, Zenon
  <2>3. d.inputs = << >> <=> D = {}
    <3>1. d \in SplitRequests
      BY ReorderedRequest
    <3>2. d.inputs \in Seq([user : SplitUsers, value : Int])
      BY <3>1, RequestShape, Zenon
    <3> QED
      BY <2>1, <3>2, EmptyList, Zenon
  <2> QED
    BY <2>1, <2>2, <2>3
<1>5. (\A i \in D : d.inputs[i].value >= 0) <=> (\A i \in D : c.inputs[i].value >= 0)
  <2>1. \A i \in D : d.inputs[i] = c.inputs[p[i]]
    BY <1>2
  <2> HIDE DEF d, D
  <2> QED
    BY <1>3, <2>1
<1>6. (\A i \in D : d.inputs[i].value > 0) <=> (\A i \in D : c.inputs[i].value > 0)
  <2>1. \A i \in D : d.inputs[i] = c.inputs[p[i]]
    BY <1>2
  <2> HIDE DEF d, D
  <2> QED
    BY <1>3, <2>1
<1>7. SumFunction(ValuesOf(d.inputs)) = SumFunction(ValuesOf(c.inputs))
  <2>1. ValuesOf(c.inputs) \in [1 .. n -> Int]
    BY <1>1 DEF ValuesOf
  <2> DEFINE f == ValuesOf(c.inputs)
  <2>2. p \in Bijection(1 .. n, 1 .. n) /\ ValuesOf(d.inputs) = [i \in 1 .. n |-> f[p[i]]]
    BY <1>1, <1>2
  <2> HIDE DEF f, n, d
  <2> QED
    BY <1>1, <2>1, <2>2, SumReordered DEF f
<1>8. SumFunction(FixedCents(d)) = SumFunction(FixedCents(c))
  <2>1. \A v \in Int : roundedCents(v) \in Int
    BY DEF roundedCents, TenthsPerCent
  <2>2. FixedCents(c) \in [1 .. n -> Int]
    BY <1>1, <2>1 DEF FixedCents
  <2> DEFINE f == FixedCents(c)
  <2>3. p \in Bijection(1 .. n, 1 .. n) /\ FixedCents(d) = [i \in 1 .. n |-> f[p[i]]]
    BY <1>1, <1>2
  <2> HIDE DEF f, n, d
  <2> QED
    BY <1>1, <2>2, <2>3, SumReordered DEF f
<1>9. c.method = "equal" => (AskedUsers(d) = << >> <=> AskedUsers(c) = << >>)
  <2> SUFFICES ASSUME c.method = "equal" PROVE AskedUsers(d) = << >> <=> AskedUsers(c) = << >>
    OBVIOUS
  <2>1. CASE c.inputs = << >>
    BY <1>2, <1>4, <2>1 DEF AskedUsers
  <2>2. CASE c.inputs # << >>
    <3>1. AskedUsers(c) = UsersOf(c.inputs) /\ AskedUsers(d) = UsersOf(d.inputs)
      BY <1>4, <2>2 DEF AskedUsers
    <3>2. D # {} /\ DOMAIN UsersOf(c.inputs) = D /\ DOMAIN UsersOf(d.inputs) = D
      BY <1>1, <1>4, <2>2 DEF UsersOf
    <3>3. DOMAIN << >> = {}
      OBVIOUS
    <3> QED
      BY <3>1, <3>2, <3>3
  <2> QED
    BY <2>1, <2>2
<1> HIDE DEF d
<1>10. Accepts(d) <=> Accepts(c)
  BY <1>2, <1>4, <1>5, <1>6, <1>7, <1>8, <1>9 DEF Accepts
<1> QED
  BY <1>10 DEF d

\* A split does not depend on the order in which its request lists the members.
THEOREM OrderDoesNotMatter ==
  ASSUME RepeatUsers = FALSE
  PROVE  SplitSpec => []OrderIsIrrelevant
<1>1. CallOK => OrderIsIrrelevant
  <2> SUFFICES ASSUME CallOK, call \in SplitRequests, result = Split(call),
                      NEW p \in Bijection(DOMAIN call.inputs, DOMAIN call.inputs)
               PROVE  Split(Reordered(call, p)) = result
    <3>1. call.method \in Methods => call # Idle
      BY DEF Idle, Methods
    <3> QED
      BY <3>1 DEF CallOK, OrderIsIrrelevant, Reordered
  <2> DEFINE d == Reordered(call, p)
             D == DOMAIN call.inputs
             users == UsersOf(call.inputs)
             values == ValuesOf(call.inputs)
  <2>1. /\ d \in SplitRequests
        /\ d.method = call.method /\ d.amount = call.amount /\ d.members = call.members
        /\ d.inputs = [i \in D |-> call.inputs[p[i]]]
        /\ UsersOf(d.inputs) = [i \in D |-> users[p[i]]]
        /\ ValuesOf(d.inputs) = [i \in D |-> values[p[i]]]
        /\ FixedCents(d) = [i \in D |-> FixedCents(call)[p[i]]]
    BY ReorderedRequest
  <2>2. Accepts(d) <=> Accepts(call)
    BY AcceptsReordered
  <2>3. Split(d) = (IF Accepts(d) THEN Answer(d) ELSE NoSplit)
        /\ Split(call) = (IF Accepts(call) THEN Answer(call) ELSE NoSplit)
    BY <2>1, SplitOfRequest
  <2> SUFFICES ASSUME Accepts(call) PROVE Answer(d) = Answer(call)
    BY <2>2, <2>3
  <2>4. DOMAIN users = D /\ DOMAIN values = D /\ DOMAIN d.inputs = D
    BY <2>1 DEF UsersOf, ValuesOf
  <2>5. /\ \A i \in D : p[i] \in D
        /\ \A k \in D : \E i \in D : p[i] = k
    BY DEF Bijection, Surjection
  <2>6. CASE call.method = "fixed"
    <3>1. /\ DOMAIN Answer(call) = Range(users)
          /\ Answer(call) = [u \in Range(users) |-> Answer(call)[u]]
          /\ \A i \in D : Answer(call)[users[i]] = FixedCents(call)[i]
      BY <2>6, FixedAmounts
    <3>2. /\ DOMAIN Answer(d) = Range(UsersOf(d.inputs))
          /\ Answer(d) = [u \in Range(UsersOf(d.inputs)) |-> Answer(d)[u]]
          /\ \A i \in D : Answer(d)[UsersOf(d.inputs)[i]] = FixedCents(d)[i]
      BY <2>1, <2>2, <2>4, <2>6, FixedAmounts
    <3>3. \A i \in D : Answer(d)[users[p[i]]] = FixedCents(call)[p[i]]
      BY <2>1, <3>2
    <3>4. Range(UsersOf(d.inputs)) = Range(users)
      <4> DEFINE moved == UsersOf(d.inputs)
      <4>1. DOMAIN moved = D /\ \A i \in D : moved[i] = users[p[i]]
        BY <2>1
      <4> HIDE DEF moved, users, D
      <4>2. ASSUME NEW u \in Range(moved) PROVE u \in Range(users)
        <5>1. PICK i \in D : moved[i] = u
          BY <4>1 DEF Range
        <5> QED
          BY <2>4, <2>5, <4>1, <5>1 DEF Range
      <4>3. ASSUME NEW u \in Range(users) PROVE u \in Range(moved)
        <5>1. PICK k \in D : users[k] = u
          BY <2>4 DEF Range
        <5>2. PICK i \in D : p[i] = k
          BY <2>5
        <5> QED
          BY <4>1, <5>1, <5>2 DEF Range
      <4> QED
        BY <4>2, <4>3 DEF moved
    <3>5. \A u \in Range(users) : Answer(d)[u] = Answer(call)[u]
      <4> SUFFICES ASSUME NEW u \in Range(users) PROVE Answer(d)[u] = Answer(call)[u]
        OBVIOUS
      <4>1. PICK k \in D : users[k] = u
        BY <2>4 DEF Range
      <4>2. PICK i \in D : p[i] = k
        BY <2>5
      <4> QED
        BY <3>1, <3>3, <4>1, <4>2
    <3> HIDE DEF d, users
    <3> QED
      BY <3>1, <3>2, <3>4, <3>5
  <2>7. CASE call.method # "fixed"
    <3> DEFINE asked == AskedUsers(call)
               weights == AskedWeights(call)
    <3>1. WellPosed(call.amount, asked, weights)
      BY <2>7, AskedIsWellPosed
    <3>2. /\ Answer(call) = distributeProportionally(call.amount, asked, weights)
          /\ Answer(d) = distributeProportionally(call.amount, AskedUsers(d), AskedWeights(d))
      BY <2>1, <2>7 DEF Answer
    <3>3. CASE call.method = "equal" /\ call.inputs = << >>
      <4>1. d.inputs = << >>
        BY <2>1, <3>3
      <4>2. AskedUsers(d) = asked
        BY <2>1, <3>3, <4>1 DEF AskedUsers
      <4>3. AskedWeights(d) = weights
        BY <2>1, <3>3, <4>2 DEF AskedWeights
      <4> QED
        BY <3>2, <4>2, <4>3
    <3>4. CASE call.method = "equal" /\ call.inputs # << >>
      <4>1. asked = users /\ weights = [i \in D |-> 1]
        BY <2>4, <3>4 DEF AskedUsers, AskedWeights
      <4>2. d.inputs # << >>
        <5>1. D # {}
          <6>1. call.inputs \in Seq([user : SplitUsers, value : Int])
            BY RequestShape
          <6> QED
            BY <3>4, <6>1, EmptyList, Zenon
        <5>2. DOMAIN << >> = {}
          OBVIOUS
        <5> QED
          BY <2>4, <5>1, <5>2
      <4>3. AskedUsers(d) = [i \in D |-> users[p[i]]]
        BY <2>1, <3>4, <4>2 DEF AskedUsers
      <4>4. AskedWeights(d) = [i \in D |-> weights[p[i]]]
        BY <2>1, <2>5, <3>4, <4>1, <4>3 DEF AskedWeights
      <4> HIDE DEF d, D, users, asked, weights
      <4>5. distributeProportionally(call.amount, [i \in DOMAIN asked |-> asked[p[i]]],
                                     [i \in DOMAIN asked |-> weights[p[i]]])
              = distributeProportionally(call.amount, asked, weights)
        BY <2>4, <3>1, <4>1, DistributeIgnoresOrder DEF D
      <4> QED
        BY <2>4, <3>2, <4>1, <4>3, <4>4, <4>5
    <3>5. CASE call.method # "equal"
      <4>1. asked = users /\ weights = values
        BY <3>5 DEF AskedUsers, AskedWeights
      <4>2. AskedUsers(d) = [i \in D |-> asked[p[i]]] /\ AskedWeights(d) = [i \in D |-> weights[p[i]]]
        BY <2>1, <3>5, <4>1 DEF AskedUsers, AskedWeights
      <4> HIDE DEF d, D, users, values, asked, weights
      <4>3. distributeProportionally(call.amount, [i \in DOMAIN asked |-> asked[p[i]]],
                                     [i \in DOMAIN asked |-> weights[p[i]]])
              = distributeProportionally(call.amount, asked, weights)
        BY <2>4, <3>1, <4>1, DistributeIgnoresOrder DEF D
      <4> QED
        BY <2>4, <3>2, <4>1, <4>2, <4>3
    <3> QED
      BY <3>3, <3>4, <3>5
  <2> QED
    BY <2>6, <2>7
<1> QED
  BY <1>1, CallInvariance, PTL

-----------------------------------------------------------------------------
(* The splits of an imported row *)

ImportCallOK ==
  /\ call.method = "resolve" => call \in RowCalls
  /\ call.method = "workbook" => call \in WorkbookCalls
  /\ call.method = "round trip" => call \in LedgerCalls

\* The kinds of calls are told apart by their methods.
LEMMA CallMethods ==
  /\ \A c \in SplitRequests : c.method \in Methods
  /\ \A c \in RowCalls : c.method = "resolve"
  /\ \A c \in WorkbookCalls : c.method = "workbook"
  /\ \A c \in LedgerCalls : c.method = "round trip"
  /\ \A c \in HomeCalls : c.method = "home"
  /\ \A c \in FeedCalls : c.method = "feed"
<1>1. \A c \in SplitRequests : c.method \in Methods
  BY DEF SplitRequests
<1>2. \A c \in RowCalls : c.method = "resolve"
  BY DEF RowCalls
<1>3. \A c \in WorkbookCalls : c.method = "workbook"
  BY DEF WorkbookCalls
<1>4. \A c \in LedgerCalls : c.method = "round trip"
  <2> SUFFICES ASSUME NEW c \in LedgerCalls PROVE c.method = "round trip"
    OBVIOUS
  <2>1. PICK l \in Ledgers : c = [method |-> "round trip", group |-> l.group,
                                  expenses |-> l.expenses, settlements |-> l.settlements]
    BY Zenon DEF LedgerCalls
  <2> QED
    BY <2>1
<1>5. \A c \in HomeCalls : c.method = "home"
  BY DEF HomeCalls
<1>6. \A c \in FeedCalls : c.method = "feed"
  BY DEF FeedCalls
<1> QED
  BY <1>1, <1>2, <1>3, <1>4, <1>5, <1>6

LEMMA ImportCallInvariance == ImportSpec => []ImportCallOK
<1>1. SplitInit => ImportCallOK
  BY DEF SplitInit, Idle, ImportCallOK
<1>2. ImportCallOK /\ [ImportNext]_splitVars => ImportCallOK'
  <2> SUFFICES ASSUME ImportCallOK, [ImportNext]_splitVars PROVE ImportCallOK'
    OBVIOUS
  <2>1. CASE UNCHANGED splitVars
    BY <2>1, Zenon DEF splitVars, ImportCallOK
  <2>2. CASE AskSplit
    BY <2>2, CallMethods DEF AskSplit, ImportCallOK, Methods
  <2>3. CASE NextCall
    BY <2>3 DEF NextCall, Idle, ImportCallOK
  <2>4. CASE AskImport
    BY <2>4, CallMethods DEF AskImport, ImportCallOK
  <2> QED
    BY <2>1, <2>2, <2>3, <2>4 DEF ImportNext, SplitNext
<1> QED
  BY <1>1, <1>2, PTL DEF ImportSpec

\* The shares of the mapped columns, and the columns whose share is kept.
ShareOf(row, payerCol, mapped) ==
  [col \in mapped |-> IF col = payerCol THEN row.amount - row.nets[col] ELSE -row.nets[col]]
KeptFor(u, share, mapped, mapping) == {col \in mapped : mapping[col] = u /\ share[col] > 0}
SplitBefore(share, mapped, mapping) ==
  [u \in {u \in Range(mapping) : KeptFor(u, share, mapped, mapping) # {}} |->
     SumFunction([col \in KeptFor(u, share, mapped, mapping) |-> share[col]])]

PositivePart(f, mapped) == [col \in mapped |-> IF f[col] > 0 THEN f[col] ELSE 0]

LEMMA ResolvedIn ==
  ASSUME NEW row, NEW mapping, NEW payerCol,
         NEW mapped, mapped = DOMAIN row.nets \cap DOMAIN mapping
  PROVE  resolveSplits(row, mapping, payerCol)
           = reconcile(SplitBefore(ShareOf(row, payerCol, mapped), mapped, mapping),
                       mapping[payerCol],
                       row.amount - SumFunction(ShareOf(row, payerCol, mapped)))
BY Zenon DEF resolveSplits, SplitBefore, ShareOf, KeptFor

\* Kept by user, the positive shares add up to themselves.
LEMMA KeptShares ==
  ASSUME NEW mapped, IsFiniteSet(mapped),
         NEW mapping, mapped \subseteq DOMAIN mapping,
         NEW share, \A col \in mapped : share[col] \in Int
  PROVE  /\ IsFiniteSet(DOMAIN SplitBefore(share, mapped, mapping))
         /\ \A u \in DOMAIN SplitBefore(share, mapped, mapping) :
              SplitBefore(share, mapped, mapping)[u] \in Int
         /\ SumFunction(SplitBefore(share, mapped, mapping))
              = SumFunctionOnSet(PositivePart(share, mapped), mapped)
<1> DEFINE split == SplitBefore(share, mapped, mapping)
           K == DOMAIN split
           P == {col \in mapped : share[col] > 0}
           kept(u) == {col \in P : mapping[col] = u}
<1>1. K = {u \in Range(mapping) : kept(u) # {}}
  BY DEF SplitBefore, KeptFor
<1>2. \A col \in P : mapping[col] \in K
  BY <1>1 DEF Range
<1>3. IsFiniteSet(P) /\ P \subseteq mapped /\ \A col \in P : share[col] \in Int
  BY FS_Subset
<1>4. IsFiniteSet(K)
  <2>1. IsFiniteSet({mapping[col] : col \in mapped})
    <3> DEFINE m == [col \in mapped |-> mapping[col]]
    <3>1. IsFiniteSet({m[col] : col \in mapped})
      BY FiniteRange
    <3> QED
      BY <3>1
  <2> QED
    BY <2>1, <1>1, FS_Subset
<1>5. \A u \in K : split[u] = SumFunctionOnSet(share, kept(u))
  <2> SUFFICES ASSUME NEW u \in K PROVE split[u] = SumFunctionOnSet(share, kept(u))
    OBVIOUS
  <2> DEFINE part == [col \in kept(u) |-> share[col]]
  <2>1. KeptFor(u, share, mapped, mapping) = kept(u)
    BY DEF KeptFor
  <2>2. split[u] = SumFunction(part)
    BY <2>1, Zenon DEF SplitBefore
  <2>3. SumFunction(part) = SumFunctionOnSet(part, kept(u))
    BY SumOfFunction
  <2>4. IsFiniteSet(kept(u)) /\ \A col \in kept(u) : share[col] \in Int /\ part[col] = share[col]
    BY <1>3, FS_Subset
  <2> HIDE DEF part
  <2>5. SumFunctionOnSet(part, kept(u)) = SumFunctionOnSet(share, kept(u))
    BY <2>4, SumSame
  <2> QED
    BY <2>2, <2>3, <2>5
<1>6. \A u \in K : split[u] \in Int
  <2> SUFFICES ASSUME NEW u \in K PROVE split[u] \in Int
    OBVIOUS
  <2>1. IsFiniteSet(kept(u)) /\ \A col \in kept(u) : share[col] \in Int
    BY <1>3, FS_Subset
  <2>2. SumFunctionOnSet(share, kept(u)) \in Int
    BY <2>1, SumType
  <2> QED
    BY <2>2, <1>5
<1>7. SumFunctionOnSet(share, P) = SumFunctionOnSet(PositivePart(share, mapped), mapped)
  <2> DEFINE pos == PositivePart(share, mapped)
  <2>1. /\ \A col \in mapped : pos[col] \in Int
        /\ \A col \in mapped \ P : pos[col] = 0
        /\ \A col \in P : pos[col] = share[col]
    BY DEF PositivePart
  <2> HIDE DEF pos, P
  <2>2. SumFunctionOnSet(pos, P) = SumFunctionOnSet(pos, mapped)
    BY <1>3, <2>1, SumWithin
  <2>3. SumFunctionOnSet(pos, P) = SumFunctionOnSet(share, P)
    BY <1>3, <2>1, SumSame
  <2> QED
    BY <2>2, <2>3 DEF pos
<1>8. SumFunctionOnSet(split, K) = SumFunctionOnSet(share, P)
  <2>1. SumsOfKeys(split, K, P, mapping, share)
    BY <1>5 DEF SumsOfKeys
  <2> HIDE DEF split, K, P
  <2> QED
    BY <1>2, <1>3, <1>4, <2>1, SumByKey
<1>9. SumFunction(split) = SumFunctionOnSet(split, K)
  BY SumOfFunction
<1> QED
  BY <1>4, <1>6, <1>7, <1>8, <1>9

\* Reconciled, a split adds up to what it did and the difference, if there is
\* a place for it; otherwise it is left as it was.
LEMMA ReconciledSum ==
  ASSUME NEW split, IsFiniteSet(DOMAIN split), \A u \in DOMAIN split : split[u] \in Int,
         NEW payer, NEW diff \in Int
  PROVE  SumFunction(reconcile(split, payer, diff))
           = SumFunction(split) + (IF payer \in DOMAIN split \/ diff >= 0 THEN diff ELSE 0)
<1> DEFINE D == DOMAIN split
           after == reconcile(split, payer, diff)
           total == SumFunction(after)
           before == SumFunction(split)
<1>0. before \in Int
  BY SumType, SumOfFunction
<1>1. ASSUME payer \in D PROVE total = before + diff
  <2>1. after = [split EXCEPT ![payer] = @ + diff]
    BY <1>1 DEF reconcile
  <2>2. DOMAIN after = D /\ after[payer] = split[payer] + diff
        /\ \A u \in D \ {payer} : after[u] = split[u]
    BY <2>1, <1>1
  <2>3. \A u \in D : after[u] \in Int
    BY <2>2
  <2> DEFINE rest == D \ {payer}
  <2>4. SumFunction(split) = SumFunctionOnSet(split, D)
        /\ SumFunction(after) = SumFunctionOnSet(after, D)
    BY <2>2, SumOfFunction
  <2> HIDE DEF after
  <2>5. SumFunctionOnSet(split, D) = split[payer] + SumFunctionOnSet(split, rest)
    BY <1>1, SumRemove
  <2>6. SumFunctionOnSet(after, D) = after[payer] + SumFunctionOnSet(after, rest)
    BY <1>1, <2>3, SumRemove
  <2>7. IsFiniteSet(rest) /\ \A u \in rest : split[u] \in Int /\ after[u] = split[u]
    BY <2>2, FS_Subset
  <2>8. SumFunctionOnSet(after, rest) = SumFunctionOnSet(split, rest)
    BY <2>7, SumSame
  <2>9. SumFunctionOnSet(split, rest) \in Int
    BY <2>7, SumType
  <2>10. split[payer] \in Int
    BY <1>1
  <2> HIDE DEF rest, D
  <2> QED
    BY <2>2, <2>4, <2>5, <2>6, <2>8, <2>9, <2>10 DEF after
<1>2. ASSUME payer \notin D, diff > 0 PROVE total = before + diff
  <2>1. after = [u \in D \cup {payer} |-> IF u = payer THEN diff ELSE split[u]]
    BY <1>2 DEF reconcile
  <2>2. DOMAIN after = D \cup {payer} /\ after[payer] = diff /\ \A u \in D : after[u] = split[u]
    BY <1>2, <2>1
  <2>3. \A u \in D \cup {payer} : after[u] \in Int
    BY <2>2
  <2> HIDE DEF after
  <2>4. SumFunction(after) = SumFunction(split) + (IF payer \in D \cup {payer} THEN after[payer] ELSE 0)
    BY <1>2, <2>2, <2>3, LongerSum
  <2> QED
    BY <2>2, <2>4 DEF after
<1>3. ASSUME payer \notin D, ~(diff > 0) PROVE total = before
  BY <1>3 DEF reconcile
<1> HIDE DEF D, total, before
<1>4. total = before + (IF payer \in D \/ diff >= 0 THEN diff ELSE 0)
  BY <1>0, <1>1, <1>2, <1>3
<1> QED
  BY <1>4, Zenon DEF D, total, before, after

\* Whatever the amount and nets of an imported row, whatever columns are
\* mapped and to whom, the splits resolveSplits makes of it add up to its
\* amount and what OwedTooMuch says, and to nothing else.
THEOREM RowsAddUp == ImportSpec => []ImportedSplitsAddUp
<1>1. ImportCallOK => ImportedSplitsAddUp
  <2> SUFFICES ASSUME ImportCallOK, call.method = "resolve" PROVE ImportedSplitsAddUp
    BY DEF ImportedSplitsAddUp
  <2> DEFINE row == call.row
             nets == row.nets
             mapping == call.mapping
             payerCol == call.payerCol
             mapped == DOMAIN nets \cap DOMAIN mapping
             share == ShareOf(row, payerCol, mapped)
             paid == Paid(row, payerCol, mapped)
             payer == mapping[payerCol]
             split == SplitBefore(share, mapped, mapping)
             net == [c \in mapped |-> nets[c]]
             keeps == PayerKeepsShare(paid, mapping, payerCol)
  <2>1. row \in Rows /\ mapping \in Mappings /\ payerCol \in mapped
    BY DEF ImportCallOK, RowCalls, PayerColumns
  <2>2. IsFiniteSet(mapped) /\ row.amount \in Int /\ \A c \in mapped : nets[c] \in Int
    BY <2>1, ImportAssumption, FS_Subset
  <2>3. OwedTooMuch(row, mapping, payerCol)
          = SumFunction(PositivePart(paid, mapped))
              + (IF SumFunction(net) >= 0 \/ keeps THEN 0 ELSE -SumFunction(net))
    BY Zenon DEF OwedTooMuch, PositivePart
  <2>4. resolveSplits(row, mapping, payerCol)
          = reconcile(split, payer, row.amount - SumFunction(share))
    BY ResolvedIn
  <2>5. DOMAIN share = mapped /\ \A c \in mapped : share[c] \in Int /\ share[c] = -paid[c]
    BY <2>2 DEF ShareOf, Paid
  <2>6. /\ IsFiniteSet(DOMAIN split) /\ \A u \in DOMAIN split : split[u] \in Int
        /\ SumFunction(split) = SumFunctionOnSet(PositivePart(share, mapped), mapped)
    <3> mapped \subseteq DOMAIN mapping
      OBVIOUS
    <3> HIDE DEF mapped, share, mapping
    <3> QED
      BY <2>2, <2>5, KeptShares
  <2>7. SumFunction(share) = SumFunctionOnSet(share, mapped)
    BY <2>5, SumOfFunction
  <2>8. SumFunctionOnSet(share, mapped) = row.amount - SumFunction(net)
        /\ SumFunction(net) \in Int
    <3>1. SumFunction(net) = SumFunctionOnSet(net, mapped)
      BY SumOfFunction
    <3>2. \A c \in mapped : net[c] = nets[c] /\ net[c] \in Int
      BY <2>2
    <3> DEFINE whole == [c \in mapped |-> IF c \in {payerCol} THEN row.amount ELSE 0]
               only == [c \in {payerCol} |-> row.amount]
    <3>3. \A c \in mapped : whole[c] \in Int /\ share[c] = whole[c] - net[c]
      BY <2>2, <3>2 DEF ShareOf
    <3>4. /\ \A c \in {payerCol} : only[c] \in Int
          /\ \A c \in mapped : whole[c] = IF c \in {payerCol} THEN only[c] ELSE 0
          /\ only[payerCol] = row.amount
          /\ {payerCol} \in SUBSET mapped
      BY <2>1, <2>2
    <3> HIDE DEF net, whole, only, share, mapped
    <3>5. SumFunctionOnSet(share, mapped)
            = SumFunctionOnSet(whole, mapped) - SumFunctionOnSet(net, mapped)
      BY <2>2, <3>2, <3>3, SumMinus
    <3>6. SumFunctionOnSet(whole, mapped) = SumFunctionOnSet(only, {payerCol})
      BY <2>2, <3>4, SumSelect
    <3>7. SumFunctionOnSet(only, {payerCol}) = only[payerCol] + SumFunctionOnSet(only, {payerCol} \ {payerCol})
      <4>1. IsFiniteSet({payerCol})
        BY FS_Singleton
      <4> QED
        BY <4>1, <3>4, SumRemove
    <3>8. SumFunctionOnSet(only, {payerCol} \ {payerCol}) = 0
      <4>1. {payerCol} \ {payerCol} = {}
        OBVIOUS
      <4> QED
        BY <4>1, SumEmpty
    <3>9. SumFunctionOnSet(net, mapped) \in Int
      BY <2>2, <3>2, SumType
    <3> QED
      BY <2>2, <3>1, <3>4, <3>5, <3>6, <3>7, <3>8, <3>9
  <2>9. SumFunctionOnSet(PositivePart(share, mapped), mapped)
          = SumFunctionOnSet(share, mapped) + SumFunction(PositivePart(paid, mapped))
    <3> DEFINE more == PositivePart(share, mapped)
               less == PositivePart(paid, mapped)
    <3>1. \A c \in mapped : paid[c] \in Int
      BY <2>2 DEF Paid
    <3> HIDE DEF share, paid, mapped
    <3>2. /\ DOMAIN less = mapped
          /\ \A c \in mapped : more[c] \in Int /\ less[c] \in Int /\ share[c] = more[c] - less[c]
      BY <2>5, <3>1 DEF PositivePart
    <3>3. SumFunction(less) = SumFunctionOnSet(less, mapped)
      BY <3>2, SumOfFunction
    <3> HIDE DEF more, less
    <3>4. SumFunctionOnSet(share, mapped)
            = SumFunctionOnSet(more, mapped) - SumFunctionOnSet(less, mapped)
      BY <2>2, <3>2, SumMinus
    <3>5. SumFunctionOnSet(more, mapped) \in Int /\ SumFunctionOnSet(less, mapped) \in Int
      BY <2>2, <3>2, SumType
    <3> QED
      BY <3>3, <3>4, <3>5 DEF more, less
  <2>10. payer \in DOMAIN split <=> keeps
    <3>1. payer \in Range(mapping)
      BY <2>1 DEF Range
    <3>2. payer \in DOMAIN split <=> \E c \in mapped : mapping[c] = payer /\ share[c] > 0
      BY <3>1 DEF SplitBefore, KeptFor
    <3>3. DOMAIN paid = mapped /\ \A c \in mapped : paid[c] \in Int
      BY <2>2 DEF Paid
    <3> HIDE DEF share, paid, mapped, payer
    <3>4. \A c \in mapped : share[c] > 0 <=> paid[c] < 0
      BY <2>5, <3>3
    <3> QED
      BY <3>2, <3>3, <3>4 DEF PayerKeepsShare, payer
  <2>11. SumFunction(PositivePart(paid, mapped)) \in Int
    <3> DEFINE less == PositivePart(paid, mapped)
    <3>1. DOMAIN less = mapped /\ \A c \in mapped : less[c] \in Int
      BY <2>2 DEF Paid, PositivePart
    <3> HIDE DEF less, mapped, paid
    <3> QED
      BY <2>2, <3>1, SumOfFunction, SumType DEF less
  <2> DEFINE diff == row.amount - SumFunction(share)
  <2>12. diff = SumFunction(net) /\ diff \in Int
    BY <2>2, <2>7, <2>8
  <2> SUFFICES SumFunction(resolveSplits(row, mapping, payerCol))
                 = row.amount + OwedTooMuch(row, mapping, payerCol)
    BY Zenon DEF ImportedSplitsAddUp
  <2> HIDE DEF row, nets, mapping, payerCol, mapped, share, paid, payer, split, net, keeps
  <2>13. SumFunction(reconcile(split, payer, diff))
           = SumFunction(split) + (IF payer \in DOMAIN split \/ diff >= 0 THEN diff ELSE 0)
    <3> HIDE DEF diff
    <3> QED
      BY <2>6, <2>12, ReconciledSum
  <2> QED
    BY <2>2, <2>3, <2>4, <2>6, <2>8, <2>9, <2>10, <2>11, <2>12, <2>13
<1> QED
  BY <1>1, ImportCallInvariance, PTL

-----------------------------------------------------------------------------
(* The months of the workbooks *)

LEMMA ElementsOfSeq == \A S : \A s \in Seq(S) : \A i \in 1 .. Len(s) : s[i] \in S
OBVIOUS

\* Months start one after the other.
LEMMA MonthsRise ==
  \A m, n \in 1 .. Len(MonthStart) : m < n => MonthStart[m] < MonthStart[n]
<1> DEFINE L == Len(MonthStart)
<1> USE MonthAssumption
<1>1. L \in Nat /\ \A m \in 1 .. L : MonthStart[m] \in Int
  OBVIOUS
<1>2. \A m \in 1 .. L : m < L => MonthStart[m] < MonthStart[m + 1]
  BY <1>1
<1> SUFFICES ASSUME NEW m \in 1 .. L, NEW n \in 1 .. L, m < n
             PROVE  MonthStart[m] < MonthStart[n]
  OBVIOUS
<1> HIDE DEF L
<1> HIDE MonthAssumption
<1> DEFINE S == {k \in m .. L : \A j \in m + 1 .. k : MonthStart[m] < MonthStart[j]}
<1>3. Members(S) /\ m \in S
  <2>1. S \subseteq 1 .. L /\ S \subseteq Nat
    BY <1>1
  <2>2. IsFiniteSet(1 .. L)
    BY <1>1, FirstNumbers
  <2>3. m \in S
    BY <1>1
  <2> QED
    BY <2>1, <2>2, <2>3, FS_Subset DEF Members
<1>4. PICK k \in S : \A j \in S : j <= k
  <2> HIDE DEF S
  <2> QED
    BY <1>3, LastMember
<1>5. CASE k = L
  BY <1>1, <1>4, <1>5
<1>6. CASE k # L
  <2>1. k \in m .. L /\ k + 1 \in m .. L /\ k \in 1 .. L /\ k + 1 \in 1 .. L /\ k < L
    BY <1>1, <1>4, <1>6
  <2>2. MonthStart[k] < MonthStart[k + 1]
    BY <1>2, <2>1
  <2>3. MonthStart[m] <= MonthStart[k]
    BY <1>1, <1>4, <2>1
  <2>4. MonthStart[m] < MonthStart[k + 1]
    BY <1>1, <2>1, <2>2, <2>3
  <2>5. \A j \in m + 1 .. k + 1 : j \in m + 1 .. k \/ j = k + 1
    BY <1>1, <2>1
  <2>6. k + 1 \in S
    BY <1>4, <2>1, <2>4, <2>5
  <2> QED
    BY <1>1, <1>4, <2>1, <2>6
<1> QED
  BY <1>5, <1>6

\* A day between the first start and the last lies in one of the months.
LEMMA MonthOfDay ==
  ASSUME NEW d \in Int, MonthStart[1] <= d, d <= MonthStart[Len(MonthStart)] - 1
  PROVE  \E m \in 1 .. Len(MonthStart) - 1 : MonthStart[m] <= d /\ d <= MonthStart[m + 1] - 1
<1> DEFINE L == Len(MonthStart)
           S == {k \in 1 .. L : MonthStart[k] <= d}
<1>1. L \in Nat /\ L >= 1 /\ \A m \in 1 .. L : MonthStart[m] \in Int
  BY MonthAssumption
<1> HIDE DEF L
<1>2. Members(S) /\ 1 \in S
  <2>1. S \subseteq 1 .. L /\ S \subseteq Nat /\ 1 \in S
    BY <1>1
  <2>2. IsFiniteSet(1 .. L)
    BY <1>1, FirstNumbers
  <2> QED
    BY <2>1, <2>2, FS_Subset DEF Members
<1>3. PICK k \in S : \A j \in S : j <= k
  <2> HIDE DEF S
  <2> QED
    BY <1>2, LastMember
<1>4. k # L
  BY <1>1, <1>3 DEF L
<1>5. k \in 1 .. L - 1 /\ k + 1 \in 1 .. L /\ ~(k + 1 <= k)
  BY <1>1, <1>3, <1>4
<1>6. ~(MonthStart[k + 1] <= d)
  BY <1>3, <1>5
<1> QED
  BY <1>1, <1>3, <1>5, <1>6 DEF L

\* A workbook counts every expense of the year in one month (monthFilter).
THEOREM MonthsShareOut == ImportSpec => []EachInOneMonth
<1>1. ImportCallOK => EachInOneMonth
  <2> DEFINE list == call.expenses
             last == Len(MonthStart) - 1
             always == [from |-> MonthStart[1], to |-> MonthStart[last + 1] - 1]
             I == DOMAIN list
             K == 1 .. last
  <2> SUFFICES ASSUME ImportCallOK, call.method = "workbook",
                      NEW c \in {list[i].category : i \in I}
               PROVE  SumFunction([month \in K |->
                                     CategoryTotal(list, monthFilter(month, MonthStart), c)])
                        = CategoryTotal(list, always, c)
    BY DEF EachInOneMonth
  <2>1. list \in Workbooks
    BY DEF ImportCallOK, WorkbookCalls
  <2>2. IsFiniteSet(I) /\ \A i \in I : list[i].amount \in Int /\ list[i].date \in Int
    <3>1. list \in Seq([date : Int, amount : Int, category : STRING])
      BY <2>1, MonthAssumption
    <3>2. I = 1 .. Len(list) /\ Len(list) \in Nat
      BY <3>1
    <3>3. \A i \in 1 .. Len(list) : list[i] \in [date : Int, amount : Int, category : STRING]
      BY <3>1, ElementsOfSeq, Zenon
    <3>4. IsFiniteSet(1 .. Len(list))
      BY <3>2, FirstNumbers
    <3> HIDE DEF list
    <3> QED
      BY <3>2, <3>3, <3>4
  <2>3. /\ Len(MonthStart) \in Nat /\ Len(MonthStart) >= 1
        /\ \A m \in 1 .. Len(MonthStart) : MonthStart[m] \in Int
    BY MonthAssumption
  <2>4. last \in Nat /\ last + 1 = Len(MonthStart) /\ IsFiniteSet(K)
    BY <2>3, FirstNumbers
  <2> DEFINE InMonth(d, m) == MonthStart[m] <= d /\ d <= MonthStart[m + 1] - 1
             S == {i \in I : InRange(list[i], always) /\ list[i].category = c}
             key == [i \in S |-> CHOOSE m \in K : InMonth(list[i].date, m)]
             value == [i \in I |-> list[i].amount]
             g == [month \in K |-> CategoryTotal(list, monthFilter(month, MonthStart), c)]
  <2>5. \A i \in S : MonthStart[1] <= list[i].date /\ list[i].date <= MonthStart[last + 1] - 1
    BY DEF InRange
  <2>6. \A i \in S : key[i] \in K /\ InMonth(list[i].date, key[i])
    <3> SUFFICES ASSUME NEW i \in S PROVE key[i] \in K /\ InMonth(list[i].date, key[i])
      OBVIOUS
    <3>1. \E m \in K : InMonth(list[i].date, m)
      <4>1. list[i].date \in Int
        BY <2>2
      <4> HIDE DEF list
      <4> QED
        BY <2>4, <2>5, <4>1, MonthOfDay
    <3> QED
      BY <3>1
  <2>7. \A i \in I, m, n \in K : InMonth(list[i].date, m) /\ InMonth(list[i].date, n) => m = n
    <3> SUFFICES ASSUME NEW d \in Int, NEW m \in K, NEW n \in K, m < n, InMonth(d, m), InMonth(d, n)
                 PROVE  FALSE
      BY <2>2, <2>4
    <3>1. m + 1 \in 1 .. Len(MonthStart) /\ n \in 1 .. Len(MonthStart) /\ (m + 1 < n \/ m + 1 = n)
      BY <2>3, <2>4
    <3>2. MonthStart[m + 1] <= MonthStart[n]
      BY <2>3, <3>1, MonthsRise
    <3> QED
      BY <2>3, <3>1, <3>2
  <2>8. \A i \in I, m \in K : InMonth(list[i].date, m) => InRange(list[i], always)
    <3> SUFFICES ASSUME NEW i \in I, NEW m \in K, InMonth(list[i].date, m)
                 PROVE  InRange(list[i], always)
      OBVIOUS
    <3>1. /\ m \in 1 .. Len(MonthStart) /\ m + 1 \in 1 .. Len(MonthStart)
          /\ 1 \in 1 .. Len(MonthStart) /\ last + 1 \in 1 .. Len(MonthStart)
          /\ (1 < m \/ 1 = m) /\ (m + 1 < last + 1 \/ m + 1 = last + 1)
      <4>1. m \in 1 .. last
        OBVIOUS
      <4> HIDE DEF last, InMonth
      <4> QED
        BY <4>1, <2>3, <2>4
    <3>2. MonthStart[1] <= MonthStart[m] /\ MonthStart[m + 1] <= MonthStart[last + 1]
      BY <2>3, <3>1, MonthsRise
    <3>3. list[i].date \in Int
      BY <2>2
    <3>4. MonthStart[1] <= list[i].date /\ list[i].date <= MonthStart[last + 1] - 1
      BY <2>3, <3>1, <3>2, <3>3
    <3> QED
      BY <3>4 DEF InRange
  <2>9. \A m \in K : g[m] = SumFunctionOnSet(value, {i \in S : key[i] = m})
    <3> SUFFICES ASSUME NEW m \in K
                 PROVE  g[m] = SumFunctionOnSet(value, {i \in S : key[i] = m})
      OBVIOUS
    <3> DEFINE T == {i \in I : /\ InRange(list[i], monthFilter(m, MonthStart))
                               /\ list[i].category = c}
               part == [i \in T |-> list[i].amount]
    <3>1. \A i \in I : InRange(list[i], monthFilter(m, MonthStart)) <=> InMonth(list[i].date, m)
      BY DEF InRange, monthFilter
    <3>2. T = {i \in S : key[i] = m}
      BY <2>6, <2>7, <2>8, <3>1
    <3>3. g[m] = SumFunction(part)
      BY Zenon DEF CategoryTotal
    <3>4. SumFunction(part) = SumFunctionOnSet(part, T)
      BY SumOfFunction
    <3>5. IsFiniteSet(T) /\ \A i \in T : part[i] = value[i] /\ value[i] \in Int
      BY <2>2, FS_Subset
    <3>6. SumFunctionOnSet(part, T) = SumFunctionOnSet(value, T)
      <4> HIDE DEF part, T, value
      <4> QED
        BY <3>5, SumSame
    <3> QED
      BY <3>2, <3>3, <3>4, <3>6
  <2>10. SumFunctionOnSet(g, K) = SumFunctionOnSet(value, S)
    <3>1. IsFiniteSet(S) /\ \A i \in S : value[i] \in Int
      BY <2>2, FS_Subset
    <3>2. SumsOfKeys(g, K, S, key, value)
      BY <2>9 DEF SumsOfKeys
    <3>3. \A i \in S : key[i] \in K
      BY <2>6
    <3> HIDE DEF g, K, S, key, value
    <3> QED
      BY <2>4, <3>1, <3>2, <3>3, SumByKey
  <2>11. SumFunction(g) = SumFunctionOnSet(g, K)
    BY SumOfFunction
  <2>12. CategoryTotal(list, always, c) = SumFunctionOnSet(value, S)
    <3> DEFINE part == [i \in S |-> list[i].amount]
    <3>1. CategoryTotal(list, always, c) = SumFunction(part)
      BY Zenon DEF CategoryTotal
    <3>2. SumFunction(part) = SumFunctionOnSet(part, S)
      BY SumOfFunction
    <3>3. IsFiniteSet(S) /\ \A i \in S : part[i] = value[i] /\ value[i] \in Int
      BY <2>2, FS_Subset
    <3>4. SumFunctionOnSet(part, S) = SumFunctionOnSet(value, S)
      <4> HIDE DEF part, S, value
      <4> QED
        BY <3>3, SumSame
    <3> QED
      BY <3>1, <3>2, <3>4
  <2> HIDE DEF g, value, S
  <2> QED
    BY <2>10, <2>11, <2>12 DEF g
<1> QED
  BY <1>1, ImportCallInvariance, PTL

-----------------------------------------------------------------------------
(* The home screen *)

SummaryCallOK ==
  /\ call.method = "home" => call \in HomeCalls
  /\ call.method = "feed" => call \in FeedCalls

LEMMA SummaryCallInvariance == SummarySpec => []SummaryCallOK
<1>1. SplitInit => SummaryCallOK
  BY DEF SplitInit, Idle, SummaryCallOK
<1>2. SummaryCallOK /\ [SummaryNext]_splitVars => SummaryCallOK'
  <2> SUFFICES ASSUME SummaryCallOK, [SummaryNext]_splitVars PROVE SummaryCallOK'
    OBVIOUS
  <2>1. CASE UNCHANGED splitVars
    BY <2>1, Zenon DEF splitVars, SummaryCallOK
  <2>2. CASE AskSplit
    BY <2>2, CallMethods DEF AskSplit, SummaryCallOK, Methods
  <2>3. CASE NextCall
    BY <2>3 DEF NextCall, Idle, SummaryCallOK
  <2>4. CASE AskImport
    BY <2>4, CallMethods DEF AskImport, SummaryCallOK
  <2>5. CASE AskSummary
    BY <2>5, CallMethods DEF AskSummary, SummaryCallOK
  <2> QED
    BY <2>1, <2>2, <2>3, <2>4, <2>5 DEF SummaryNext, ImportNext, SplitNext
<1> QED
  BY <1>1, <1>2, PTL DEF SummarySpec

\* The balance the home screen works out for a member, row by row, is the one
\* that the group's debts come from.
LEMMA NetOfMember ==
  ASSUME NEW U, NEW expenses, ExpenseRows(expenses), NEW payments, PaymentRows(payments),
         NEW u \in U
  PROVE  /\ userNet(u, expenses, payments) = NetBalances(U, expenses, payments)[u]
         /\ userNet(u, expenses, payments) \in Int
<1> DEFINE A == {x \in expenses : x.payer = u}
           B == {x \in expenses : u \in DOMAIN x.shares}
           C == {s \in payments : s.from = u}
           D == {s \in payments : s.to = u}
           a == [x \in A |-> x.amount]
           b == [x \in B |-> x.shares[u]]
           c == [s \in C |-> s.amount]
           d == [s \in D |-> s.amount]
           aa == [x \in expenses |-> IF x \in A THEN a[x] ELSE 0]
           bb == [x \in expenses |-> IF x \in B THEN b[x] ELSE 0]
           cc == [s \in payments |-> IF s \in C THEN c[s] ELSE 0]
           dd == [s \in payments |-> IF s \in D THEN d[s] ELSE 0]
           ab == [x \in expenses |-> (IF x.payer = u THEN x.amount ELSE 0)
                                       - (IF u \in DOMAIN x.shares THEN x.shares[u] ELSE 0)]
           cd == [s \in payments |-> (IF s.from = u THEN s.amount ELSE 0)
                                       - (IF s.to = u THEN s.amount ELSE 0)]
<1>1. /\ IsFiniteSet(expenses) /\ IsFiniteSet(payments)
      /\ \A x \in expenses : x.amount \in Int /\ \A v \in DOMAIN x.shares : x.shares[v] \in Int
      /\ \A s \in payments : s.amount \in Int
  BY DEF ExpenseRows, PaymentRows
<1>2. /\ A \in SUBSET expenses /\ B \in SUBSET expenses
      /\ C \in SUBSET payments /\ D \in SUBSET payments
      /\ IsFiniteSet(A) /\ IsFiniteSet(B) /\ IsFiniteSet(C) /\ IsFiniteSet(D)
  BY <1>1, FS_Subset
<1>3. /\ \A x \in A : a[x] \in Int
      /\ \A x \in B : b[x] \in Int
      /\ \A s \in C : c[s] \in Int
      /\ \A s \in D : d[s] \in Int
  BY <1>1
<1>4. /\ \A x \in expenses : aa[x] = IF x \in A THEN a[x] ELSE 0
      /\ \A x \in expenses : bb[x] = IF x \in B THEN b[x] ELSE 0
      /\ \A s \in payments : cc[s] = IF s \in C THEN c[s] ELSE 0
      /\ \A s \in payments : dd[s] = IF s \in D THEN d[s] ELSE 0
  OBVIOUS
<1>5. \A x \in expenses : aa[x] \in Int /\ bb[x] \in Int /\ ab[x] = aa[x] - bb[x]
  BY <1>1
<1>6. \A s \in payments : cc[s] \in Int /\ dd[s] \in Int /\ cd[s] = cc[s] - dd[s]
  BY <1>1
<1>7. userNet(u, expenses, payments) = SumFunction(ab) + SumFunction(cd)
  BY Zenon DEF userNet
<1>8. NetBalances(U, expenses, payments)[u]
        = SumFunction(a) - SumFunction(b) + SumFunction(c) - SumFunction(d)
  BY Zenon DEF NetBalances, Sum
<1>9. /\ SumFunction(a) = SumFunctionOnSet(a, A) /\ SumFunction(b) = SumFunctionOnSet(b, B)
      /\ SumFunction(c) = SumFunctionOnSet(c, C) /\ SumFunction(d) = SumFunctionOnSet(d, D)
      /\ SumFunction(ab) = SumFunctionOnSet(ab, expenses)
      /\ SumFunction(cd) = SumFunctionOnSet(cd, payments)
  BY SumOfFunction
<1> HIDE DEF A, B, C, D, a, b, c, d, aa, bb, cc, dd, ab, cd
<1>10. /\ SumFunctionOnSet(ab, expenses)
             = SumFunctionOnSet(aa, expenses) - SumFunctionOnSet(bb, expenses)
  BY <1>1, <1>5, SumMinus
<1>11. /\ SumFunctionOnSet(cd, payments)
             = SumFunctionOnSet(cc, payments) - SumFunctionOnSet(dd, payments)
  BY <1>1, <1>6, SumMinus
<1>12. SumFunctionOnSet(aa, expenses) = SumFunctionOnSet(a, A)
  BY <1>1, <1>2, <1>3, <1>4, SumSelect
<1>13. SumFunctionOnSet(bb, expenses) = SumFunctionOnSet(b, B)
  BY <1>1, <1>2, <1>3, <1>4, SumSelect
<1>14. SumFunctionOnSet(cc, payments) = SumFunctionOnSet(c, C)
  BY <1>1, <1>2, <1>3, <1>4, SumSelect
<1>15. SumFunctionOnSet(dd, payments) = SumFunctionOnSet(d, D)
  BY <1>1, <1>2, <1>3, <1>4, SumSelect
<1>16. /\ SumFunctionOnSet(a, A) \in Int /\ SumFunctionOnSet(b, B) \in Int
       /\ SumFunctionOnSet(c, C) \in Int /\ SumFunctionOnSet(d, D) \in Int
  BY <1>2, <1>3, SumType
<1> QED
  BY <1>7, <1>8, <1>9, <1>10, <1>11, <1>12, <1>13, <1>14, <1>15, <1>16

\* What a member of a group is owed and owes by the debts it lists.
OwedTo(g, u) ==
  LET net == NetBalances(g.members, g.expenses, g.settlements)
  IN  SumFunction([v \in g.members |-> Owed(net, v, u)])
OwesTo(g, u) ==
  LET net == NetBalances(g.members, g.expenses, g.settlements)
  IN  SumFunction([v \in g.members |-> Owed(net, u, v)])

BalancesOf(g) == NetBalances(g.members, g.expenses, g.settlements)

LEMMA BalancesOfGroup ==
  ASSUME NEW g, GroupOK(g)
  PROVE  /\ Members(g.members) /\ BalancesOf(g) \in NetsOf(g.members)
         /\ \A u \in g.members : /\ userNet(u, g.expenses, g.settlements) = BalancesOf(g)[u]
                                 /\ userNet(u, g.expenses, g.settlements) \in Int
<1> DEFINE U == g.members
           net == BalancesOf(g)
<1>1. Members(U) /\ ExpenseRows(g.expenses) /\ PaymentRows(g.settlements)
  BY DEF GroupOK, Members, ExpenseRows, PaymentRows
<1>2. \A u \in U : /\ userNet(u, g.expenses, g.settlements) = net[u]
                   /\ userNet(u, g.expenses, g.settlements) \in Int
  BY <1>1, NetOfMember, Zenon DEF BalancesOf
<1> DEFINE bal(u) == Sum([x \in {x \in g.expenses : x.payer = u} |-> x.amount])
                       - Sum([x \in {x \in g.expenses : u \in DOMAIN x.shares} |-> x.shares[u]])
                       + Sum([s \in {s \in g.settlements : s.from = u} |-> s.amount])
                       - Sum([s \in {s \in g.settlements : s.to = u} |-> s.amount])
<1>3. net = [u \in U |-> bal(u)]
  BY Zenon DEF NetBalances, BalancesOf
<1> HIDE DEF bal, net
<1>4. net \in [U -> Int]
  BY <1>2, <1>3
<1> QED
  BY <1>1, <1>2, <1>4 DEF NetsOf, net

\* It is one or the other, and as much as the balance of the home screen, if
\* the balances of the group cancel out.
LEMMA MemberOfGroup ==
  ASSUME NEW g, GroupOK(g), SumFunction(BalancesOf(g)) = 0, NEW u \in g.members
  PROVE  /\ OwedTo(g, u) = IF userNet(u, g.expenses, g.settlements) > 0
                           THEN userNet(u, g.expenses, g.settlements) ELSE 0
         /\ OwesTo(g, u) = IF userNet(u, g.expenses, g.settlements) < 0
                           THEN -userNet(u, g.expenses, g.settlements) ELSE 0
<1> DEFINE U == g.members
           net == BalancesOf(g)
           mine == userNet(u, g.expenses, g.settlements)
<1>1. /\ Members(U) /\ net \in NetsOf(U) /\ SumFunction(net) = 0
      /\ mine = net[u]
  BY BalancesOfGroup
<1>2. net[u] \in Int /\ DOMAIN net = U
  BY <1>1 DEF NetsOf
<1>3. /\ OwedTo(g, u) = SumFunctionOnSet([v \in U |-> Owed(net, v, u)], U)
      /\ OwesTo(g, u) = SumFunctionOnSet([v \in U |-> Owed(net, u, v)], U)
  <2> DEFINE to == [v \in U |-> Owed(net, v, u)]
             by == [v \in U |-> Owed(net, u, v)]
  <2>1. OwedTo(g, u) = SumFunction(to) /\ OwesTo(g, u) = SumFunction(by)
    BY Zenon DEF OwedTo, OwesTo, BalancesOf
  <2>2. SumFunction(to) = SumFunctionOnSet(to, U) /\ SumFunction(by) = SumFunctionOnSet(by, U)
    BY SumOfFunction
  <2> QED
    BY <2>1, <2>2
<1> HIDE DEF net, mine
<1>4. /\ OwedTo(g, u) = CreditIn(net)[u]
      /\ OwesTo(g, u) = DebtIn(net)[u]
  BY <1>1, <1>3, OwedInAll
<1>5. /\ CreditIn(net)[u] = IF net[u] > 0 THEN net[u] ELSE 0
      /\ DebtIn(net)[u] = IF net[u] < 0 THEN -net[u] ELSE 0
  BY <1>2 DEF CreditIn, DebtIn
<1> QED
  BY <1>1, <1>2, <1>4, <1>5 DEF mine

\* What the groups of one currency list for a user, added up.
LEMMA OneCurrency ==
  ASSUME NEW gs, IsFiniteSet(gs), NEW net, \A g \in gs : net[g] \in Int,
         NEW to, \A g \in gs : to[g] = IF net[g] > 0 THEN net[g] ELSE 0,
         NEW by, \A g \in gs : by[g] = IF net[g] < 0 THEN -net[g] ELSE 0
  PROVE  LET owed == {g \in gs : net[g] > 0}
         IN  /\ SumFunctionOnSet(to, gs) = SumFunctionOnSet(net, owed)
             /\ SumFunctionOnSet(by, gs) = -SumFunctionOnSet(net, gs \ owed)
             /\ SumFunctionOnSet(net, gs)
                  = SumFunctionOnSet(net, owed) + SumFunctionOnSet(net, gs \ owed)
<1> DEFINE owed == {g \in gs : net[g] > 0}
           rest == gs \ owed
           minus == [g \in gs |-> -net[g]]
<1>1. \A g \in gs : /\ net[g] \in Int
                    /\ to[g] = IF net[g] > 0 THEN net[g] ELSE 0
                    /\ by[g] = IF net[g] < 0 THEN -net[g] ELSE 0
  OBVIOUS
<1>2. /\ owed \in SUBSET gs /\ rest \in SUBSET gs
      /\ IsFiniteSet(owed) /\ IsFiniteSet(rest)
  BY FS_Subset
<1>3. /\ \A g \in gs : to[g] = IF g \in owed THEN net[g] ELSE 0
      /\ \A g \in gs : by[g] = IF g \in rest THEN minus[g] ELSE 0
  BY <1>1
<1>4. /\ \A g \in gs : minus[g] \in Int /\ minus[g] = (-1) * net[g]
      /\ \A g \in gs : to[g] \in Int /\ by[g] \in Int /\ net[g] = to[g] - by[g]
  BY <1>1
<1> HIDE DEF owed, rest, minus
<1>5. SumFunctionOnSet(to, gs) = SumFunctionOnSet(net, owed)
  BY <1>1, <1>2, <1>3, SumSelect
<1>6. SumFunctionOnSet(by, gs) = SumFunctionOnSet(minus, rest)
  BY <1>2, <1>3, <1>4, SumSelect
<1>7. SumFunctionOnSet(minus, rest) = (-1) * SumFunctionOnSet(net, rest)
  <2>1. \A g \in rest : net[g] \in Int /\ minus[g] = (-1) * net[g]
    BY <1>1, <1>2, <1>4
  <2>2. -1 \in Int
    OBVIOUS
  <2> QED
    BY <1>2, <2>1, <2>2, SumTimes
<1>8. SumFunctionOnSet(net, rest) \in Int /\ SumFunctionOnSet(net, owed) \in Int
  BY <1>1, <1>2, SumType
<1>9. SumFunctionOnSet(net, gs) = SumFunctionOnSet(to, gs) - SumFunctionOnSet(by, gs)
  BY <1>4, SumMinus
<1> QED
  BY <1>5, <1>6, <1>7, <1>8, <1>9 DEF owed, rest

\* A sum over some groups is one of the same values given in another way.
LEMMA SumGiven ==
  ASSUME NEW gs, IsFiniteSet(gs), NEW f, DOMAIN f = gs,
         NEW h, \A g \in gs : h[g] \in Int /\ f[g] = h[g]
  PROVE  SumFunction(f) = SumFunctionOnSet(h, gs)
<1>1. SumFunction(f) = SumFunctionOnSet(f, gs)
  BY SumOfFunction
<1>2. SumFunctionOnSet(f, gs) = SumFunctionOnSet(h, gs)
  BY SumSame
<1> QED
  BY <1>1, <1>2

\* What the home screen shows agrees with the balances and, where they cancel
\* out, with the debts of the groups (GetHomeSummary, CalculateGroupDebts),
\* whatever the groups, their currencies and their splits.
THEOREM HomeIsRight == SummarySpec => []HomeAgreesWithDebts
<1>1. SummaryCallOK => HomeAgreesWithDebts
  <2> DEFINE groups == Range(call.groups)
             nets == [g \in groups |-> NetBalances(g.members, g.expenses, g.settlements)]
             owed(g, u) == SumFunction([v \in g.members |-> Owed(nets[g], v, u)])
             owes(g, u) == SumFunction([v \in g.members |-> Owed(nets[g], u, v)])
             Mine(u) == {g \in groups : u \in g.members}
             In(u, c) == {g \in Mine(u) : g.currency = c}
             home(u) == GetHomeSummary(u, Mine(u))
             Balance(u) ==
               \A g \in Mine(u) :
                 /\ home(u).yourBalance[g] = nets[g][u]
                 /\ SumFunction(nets[g]) = 0 => home(u).yourBalance[g] = owed(g, u) - owes(g, u)
             Overall(u) ==
               \A c \in {g.currency : g \in Mine(u)} :
                 /\ home(u).overall[c].net = SumFunction([g \in In(u, c) |-> nets[g][u]])
                 /\ home(u).overall[c].net = home(u).overall[c].owed - home(u).overall[c].owe
                 /\ (\A g \in In(u, c) : SumFunction(nets[g]) = 0) =>
                       /\ home(u).overall[c].owed = SumFunction([g \in In(u, c) |-> owed(g, u)])
                       /\ home(u).overall[c].owe = SumFunction([g \in In(u, c) |-> owes(g, u)])
  <2> SUFFICES ASSUME SummaryCallOK, call.method = "home",
                      NEW u \in UNION {g.members : g \in groups}
               PROVE  Balance(u) /\ Overall(u)
    BY Zenon DEF HomeAgreesWithDebts
  <2> DEFINE mine == Mine(u)
             net == [g \in mine |-> userNet(u, g.expenses, g.settlements)]
  <2>1. IsFiniteSet(groups) /\ \A g \in groups : GroupOK(g)
    <3>1. call.groups \in Homes
      BY DEF SummaryCallOK, HomeCalls
    <3> QED
      BY <3>1, SummaryAssumption
  <2>2. IsFiniteSet(mine) /\ \A g \in mine : GroupOK(g) /\ u \in g.members /\ g \in groups
    BY <2>1, FS_Subset
  <2>3. \A g \in mine : /\ nets[g] = BalancesOf(g)
                        /\ owed(g, u) = OwedTo(g, u) /\ owes(g, u) = OwesTo(g, u)
    <3> SUFFICES ASSUME NEW g \in mine
                 PROVE  /\ nets[g] = BalancesOf(g)
                        /\ owed(g, u) = OwedTo(g, u) /\ owes(g, u) = OwesTo(g, u)
      OBVIOUS
    <3>1. nets[g] = NetBalances(g.members, g.expenses, g.settlements)
      OBVIOUS
    <3> HIDE DEF nets
    <3> QED
      BY <3>1, Zenon DEF OwedTo, OwesTo, BalancesOf
  <2>4. home(u).yourBalance = net
    BY Zenon DEF GetHomeSummary
  <2>5. \A g \in mine : net[g] = nets[g][u] /\ net[g] \in Int
    <3> SUFFICES ASSUME NEW g \in mine PROVE net[g] = nets[g][u] /\ net[g] \in Int
      OBVIOUS
    <3>1. nets[g] = BalancesOf(g) /\ GroupOK(g) /\ u \in g.members
      BY <2>2, <2>3
    <3>2. net[g] = userNet(u, g.expenses, g.settlements)
      OBVIOUS
    <3> HIDE DEF net, nets
    <3> QED
      BY <3>1, <3>2, BalancesOfGroup
  <2>6. \A g \in mine : SumFunction(nets[g]) = 0 =>
          /\ owed(g, u) = IF net[g] > 0 THEN net[g] ELSE 0
          /\ owes(g, u) = IF net[g] < 0 THEN -net[g] ELSE 0
    <3> SUFFICES ASSUME NEW g \in mine, SumFunction(nets[g]) = 0
                 PROVE  /\ owed(g, u) = IF net[g] > 0 THEN net[g] ELSE 0
                        /\ owes(g, u) = IF net[g] < 0 THEN -net[g] ELSE 0
      OBVIOUS
    <3>1. /\ GroupOK(g) /\ u \in g.members /\ SumFunction(BalancesOf(g)) = 0
          /\ owed(g, u) = OwedTo(g, u) /\ owes(g, u) = OwesTo(g, u)
      BY <2>2, <2>3
    <3>2. net[g] = userNet(u, g.expenses, g.settlements)
      OBVIOUS
    <3> HIDE DEF net, nets, owed, owes
    <3> QED
      BY <3>1, <3>2, MemberOfGroup
  <2>7. Balance(u)
    <3> SUFFICES ASSUME NEW g \in mine
                 PROVE  /\ net[g] = nets[g][u]
                        /\ SumFunction(nets[g]) = 0 => net[g] = owed(g, u) - owes(g, u)
      BY <2>4, Zenon
    <3>1. /\ net[g] = nets[g][u] /\ net[g] \in Int
          /\ SumFunction(nets[g]) = 0 =>
               /\ owed(g, u) = IF net[g] > 0 THEN net[g] ELSE 0
               /\ owes(g, u) = IF net[g] < 0 THEN -net[g] ELSE 0
      BY <2>5, <2>6
    <3> HIDE DEF net, nets, owed, owes
    <3> QED
      BY <3>1
  <2>8. Overall(u)
    <3> SUFFICES ASSUME NEW c \in {g.currency : g \in mine}
                 PROVE  LET overall == home(u).overall[c]
                            gs == In(u, c)
                        IN  /\ overall.net = SumFunction([g \in gs |-> nets[g][u]])
                            /\ overall.net = overall.owed - overall.owe
                            /\ (\A g \in gs : SumFunction(nets[g]) = 0) =>
                                 /\ overall.owed = SumFunction([g \in gs |-> owed(g, u)])
                                 /\ overall.owe = SumFunction([g \in gs |-> owes(g, u)])
      BY Zenon
    <3> DEFINE gs == In(u, c)
               up == {g \in gs : net[g] > 0}
               sum(part) == SumFunction([g \in part |-> net[g]])
               overall == home(u).overall[c]
               plus == [g \in gs |-> IF net[g] > 0 THEN net[g] ELSE 0]
               minus == [g \in gs |-> IF net[g] < 0 THEN -net[g] ELSE 0]
               balances == [g \in gs |-> nets[g][u]]
               tos == [g \in gs |-> owed(g, u)]
               bys == [g \in gs |-> owes(g, u)]
    <3>1. overall = [net |-> sum(gs), owed |-> sum(up), owe |-> -sum(gs \ up)]
      BY Zenon DEF GetHomeSummary
    <3>2. overall.net = sum(gs) /\ overall.owed = sum(up) /\ overall.owe = -sum(gs \ up)
      <4> HIDE DEF sum, overall, up, gs
      <4> QED
        BY <3>1
    <3>3. /\ IsFiniteSet(gs) /\ IsFiniteSet(up) /\ IsFiniteSet(gs \ up)
          /\ gs \subseteq mine /\ up \subseteq gs /\ gs \ up \subseteq gs
      BY <2>2, FS_Subset
    <3>4. \A g \in gs : net[g] \in Int /\ net[g] = nets[g][u]
      BY <2>5, <3>3
    <3>5. ASSUME NEW part \in SUBSET gs PROVE sum(part) = SumFunctionOnSet(net, part)
      <4> DEFINE values == [g \in part |-> net[g]]
      <4>1. /\ IsFiniteSet(part) /\ DOMAIN values = part
            /\ \A g \in part : values[g] = net[g] /\ net[g] \in Int
        BY <3>3, <3>4, FS_Subset
      <4> HIDE DEF values, net
      <4>2. SumFunction(values) = SumFunctionOnSet(net, part)
        BY <4>1, SumGiven
      <4> QED
        BY <4>2 DEF values
    <3>6. sum(gs) = SumFunctionOnSet(net, gs) /\ sum(up) = SumFunctionOnSet(net, up)
          /\ sum(gs \ up) = SumFunctionOnSet(net, gs \ up)
      <4> HIDE DEF sum, up, gs
      <4> QED
        BY <3>3, <3>5
    <3>7. /\ SumFunctionOnSet(plus, gs) = SumFunctionOnSet(net, up)
          /\ SumFunctionOnSet(minus, gs) = -SumFunctionOnSet(net, gs \ up)
          /\ SumFunctionOnSet(net, gs)
               = SumFunctionOnSet(net, up) + SumFunctionOnSet(net, gs \ up)
      <4>1. /\ \A g \in gs : plus[g] = IF net[g] > 0 THEN net[g] ELSE 0
            /\ \A g \in gs : minus[g] = IF net[g] < 0 THEN -net[g] ELSE 0
        OBVIOUS
      <4>2. IsFiniteSet(gs) /\ \A g \in gs : net[g] \in Int
        BY <3>3, <3>4
      <4> HIDE DEF gs, net, plus, minus, nets
      <4> QED
        BY <4>1, <4>2, OneCurrency
    <3>8. /\ SumFunctionOnSet(net, up) \in Int /\ SumFunctionOnSet(net, gs \ up) \in Int
      <4> HIDE DEF gs, net, up
      <4> QED
        BY <3>3, <3>4, SumType
    <3>9. SumFunction(balances) = SumFunctionOnSet(net, gs)
      <4>1. DOMAIN balances = gs /\ \A g \in gs : net[g] \in Int /\ balances[g] = net[g]
        BY <3>4
      <4> HIDE DEF balances, net, gs
      <4> QED
        BY <3>3, <4>1, SumGiven
    <3>10. ASSUME \A g \in gs : SumFunction(nets[g]) = 0
           PROVE  /\ SumFunction(tos) = SumFunctionOnSet(plus, gs)
                  /\ SumFunction(bys) = SumFunctionOnSet(minus, gs)
      <4>1. \A g \in gs : /\ owed(g, u) = IF net[g] > 0 THEN net[g] ELSE 0
                          /\ owes(g, u) = IF net[g] < 0 THEN -net[g] ELSE 0
        BY <2>6, <3>3, <3>10
      <4>2. /\ DOMAIN tos = gs /\ \A g \in gs : tos[g] = owed(g, u)
            /\ DOMAIN bys = gs /\ \A g \in gs : bys[g] = owes(g, u)
        OBVIOUS
      <4>3. /\ \A g \in gs : plus[g] = IF net[g] > 0 THEN net[g] ELSE 0
            /\ \A g \in gs : minus[g] = IF net[g] < 0 THEN -net[g] ELSE 0
        OBVIOUS
      <4> HIDE DEF owed, owes, net, nets, gs, tos, bys, plus, minus
      <4>4. \A g \in gs : plus[g] \in Int /\ tos[g] = plus[g]
        BY <3>4, <4>1, <4>2, <4>3
      <4>5. \A g \in gs : minus[g] \in Int /\ bys[g] = minus[g]
        BY <3>4, <4>1, <4>2, <4>3
      <4>6. IsFiniteSet(gs) /\ DOMAIN tos = gs /\ DOMAIN bys = gs
        BY <3>3, <4>2
      <4>7. SumFunction(tos) = SumFunctionOnSet(plus, gs)
        BY <4>4, <4>6, SumGiven
      <4>8. SumFunction(bys) = SumFunctionOnSet(minus, gs)
        BY <4>5, <4>6, SumGiven
      <4> QED
        BY <4>7, <4>8
    <3> DEFINE cancel == \A g \in gs : SumFunction(nets[g]) = 0
    <3> SUFFICES /\ overall.net = SumFunction(balances)
                 /\ overall.net = overall.owed - overall.owe
                 /\ cancel => overall.owed = SumFunction(tos) /\ overall.owe = SumFunction(bys)
      BY Zenon
    <3> HIDE DEF gs, net, sum, up, home, owed, owes, overall, balances, tos, bys, plus, minus, nets
    <3>11. overall.net = SumFunction(balances) /\ overall.net = overall.owed - overall.owe
      BY <3>2, <3>6, <3>7, <3>8, <3>9
    <3>12. cancel => overall.owed = SumFunction(tos) /\ overall.owe = SumFunction(bys)
      BY <3>2, <3>6, <3>7, <3>10
    <3> QED
      BY <3>11, <3>12
  <2> QED
    BY <2>7, <2>8
<1> QED
  BY <1>1, SummaryCallInvariance, PTL

-----------------------------------------------------------------------------
(* The feed *)

\* The start of a list.
LEMMA StartOfList ==
  \A S : \A s \in Seq(S) : \A n \in 0 .. Len(s) :
    /\ Len(SubSeq(s, 1, n)) = n /\ DOMAIN SubSeq(s, 1, n) = 1 .. n
    /\ \A i \in 1 .. n : SubSeq(s, 1, n)[i] = s[i]
OBVIOUS

\* A list of all the members of a set, each once, with their dates falling.
ListOf(s, S) ==
  /\ s \in Seq(S) /\ Len(s) \in Nat
  /\ \A e \in S : \E i \in 1 .. Len(s) : s[i] = e
  /\ \A i, j \in 1 .. Len(s) : i < j => s[i].date >= s[j].date

LEMMA NewestFirstLists ==
  ASSUME NEW S, IsFiniteSet(S), \A e \in S : e.date \in Int, NEW s \in NewestFirst(S)
  PROVE  ListOf(s, S)
<1> DEFINE n == Cardinality(S)
<1>1. n \in Nat /\ IsFiniteSet(1 .. n) /\ Cardinality(1 .. n) = n
  BY FS_CardinalityType, FirstNumbers
<1>2. /\ s \in [1 .. n -> S]
      /\ \A i, j \in 1 .. n : i # j => s[i] # s[j]
      /\ \A i \in 1 .. Len(s) - 1 : s[i].date >= s[i + 1].date
  BY Zenon DEF NewestFirst, SetToSeqs
<1> HIDE DEF n
<1>3. s \in Seq(S) /\ Len(s) = n
  BY <1>1, <1>2, ListIsSeq
<1>4. \A e \in S : \E i \in 1 .. n : s[i] = e
  <2>1. s \in Injection(1 .. n, S)
    BY <1>2 DEF Injection, IsInjective
  <2>2. s \in Surjection(1 .. n, S)
    BY <1>1, <2>1, FS_Injection DEF n
  <2> QED
    BY <2>2 DEF Surjection
<1>5. \A i \in 1 .. n : s[i].date \in Int
  BY <1>2
<1>6. ASSUME NEW i \in 1 .. n, NEW j \in 1 .. n, i < j PROVE s[i].date >= s[j].date
  <2> DEFINE date == [k \in 1 .. n |-> s[k].date]
             K == {k \in i .. n : \A l \in i + 1 .. k : date[i] >= date[l]}
  <2>1. /\ \A k \in 1 .. n : date[k] \in Int
        /\ \A k \in 1 .. n : k < n => date[k] >= date[k + 1]
        /\ date[i] = s[i].date /\ date[j] = s[j].date
    BY <1>1, <1>2, <1>3, <1>5
  <2> HIDE DEF date
  <2>2. Members(K) /\ i \in K
    <3>1. K \subseteq 1 .. n /\ K \subseteq Nat /\ i \in K
      BY <1>1
    <3> QED
      BY <1>1, <3>1, FS_Subset DEF Members
  <2>3. PICK k \in K : \A l \in K : l <= k
    <3> HIDE DEF K
    <3> QED
      BY <2>2, LastMember
  <2>4. CASE k = n
    BY <1>1, <1>6, <2>1, <2>3, <2>4
  <2>5. CASE k # n
    <3>1. k \in i .. n /\ k + 1 \in i .. n /\ k \in 1 .. n /\ k + 1 \in 1 .. n /\ k < n
      BY <1>1, <2>3, <2>5
    <3>2. date[k] >= date[k + 1]
      BY <2>1, <3>1
    <3>3. date[i] >= date[k]
      BY <2>1, <2>3, <3>1
    <3>4. date[i] >= date[k + 1]
      BY <2>1, <3>1, <3>2, <3>3
    <3>5. \A l \in i + 1 .. k + 1 : l \in i + 1 .. k \/ l = k + 1
      BY <1>1, <3>1
    <3>6. k + 1 \in K
      BY <2>3, <3>1, <3>4, <3>5
    <3> QED
      BY <1>1, <2>3, <3>1, <3>6
  <2> QED
    BY <2>4, <2>5
<1> QED
  BY <1>1, <1>3, <1>4, <1>6 DEF ListOf

\* A page is the newest part of what was found.
LEMMA PageIsNewest ==
  ASSUME NEW S, NEW s, ListOf(s, S)
  PROVE  /\ Range(Page(s)) \subseteq S
         /\ \A e \in S \ Range(Page(s)) :
              Len(Page(s)) = maxEvents /\ \A f \in Range(Page(s)) : f.date >= e.date
<1> DEFINE n == IF Len(s) > maxEvents THEN maxEvents ELSE Len(s)
           page == Page(s)
<1>1. maxEvents \in Nat /\ Len(s) \in Nat /\ s \in Seq(S)
  BY SummaryAssumption DEF ListOf
<1>2. page = SubSeq(s, 1, n)
  BY Zenon DEF Page
<1>3. n \in 0 .. Len(s)
  BY <1>1
<1>4. (n = maxEvents /\ n < Len(s)) \/ n = Len(s)
  BY <1>1
<1> HIDE DEF n, page
<1>5. Len(page) = n /\ DOMAIN page = 1 .. n /\ \A i \in 1 .. n : page[i] = s[i]
  BY <1>1, <1>2, <1>3, StartOfList
<1>6. \A i \in 1 .. n : i \in 1 .. Len(s)
  BY <1>1, <1>3
<1>7. \A i \in 1 .. Len(s) : s[i] \in S
  BY <1>1, ElementsOfSeq
<1>8. Range(page) \subseteq S
  BY <1>5, <1>6, <1>7 DEF Range
<1>9. ASSUME NEW e \in S \ Range(page)
      PROVE  Len(page) = maxEvents /\ \A f \in Range(page) : f.date >= e.date
  <2>1. PICK j \in 1 .. Len(s) : s[j] = e
    BY DEF ListOf
  <2>2. j \notin 1 .. n
    BY <1>5, <1>9, <2>1 DEF Range
  <2>3. n = maxEvents /\ \A i \in 1 .. n : i < j
    BY <1>1, <1>3, <1>4, <2>2
  <2>4. \A i \in 1 .. n : s[i].date >= s[j].date
    BY <1>6, <2>3 DEF ListOf
  <2> QED
    BY <1>5, <2>1, <2>3, <2>4 DEF Range
<1> QED
  BY <1>8, <1>9 DEF page

\* The events of a group are finitely many, dated as their rows, and those of
\* a comment come with the one commented on.
Parents(g) ==
  {[type |-> "expense", row |-> x] : x \in g.expenses}
    \cup {[type |-> "settlement", row |-> s] : s \in {s \in g.settlements : ~s.deleted}}
Commented(g) ==
  {pair \in {c \in g.comments : ~c.deleted} \X Parents(g) :
     pair[1].on = [type |-> pair[2].type, id |-> pair[2].row.id]}
EventOf(type, id, key, row, actor, deleted, parent) ==
  [type |-> type, id |-> id, key |-> key, actor |-> actor, date |-> row.date,
   title |-> row.title, deleted |-> deleted, parent |-> parent, unread |-> FALSE]
Spent(x) == EventOf("expense", x.id, x.id, x, x.payer, x.deleted, NoParent)
PaymentEvent(s) == EventOf("settlement", s.id, s.id, s, s.from, FALSE, NoParent)
Remark(pair) ==
  EventOf("comment", pair[2].row.id, pair[1].id, pair[1], pair[1].user, FALSE,
          [type |-> pair[2].type, title |-> pair[2].row.title])

LEMMA EventsAre ==
  \A g : EventsOf(g) = {Spent(x) : x \in g.expenses}
                         \cup {PaymentEvent(s) : s \in {s \in g.settlements : ~s.deleted}}
                         \cup {Remark(pair) : pair \in Commented(g)}
BY Zenon DEF EventsOf, Spent, PaymentEvent, Remark, EventOf, Commented, Parents

LEMMA EventsFinite ==
  ASSUME NEW g, HistoryOK(g)
  PROVE  IsFiniteSet(EventsOf(g)) /\ \A e \in EventsOf(g) : e.date \in Int
<1> DEFINE X == g.expenses
           P == {s \in g.settlements : ~s.deleted}
           C == {c \in g.comments : ~c.deleted}
<1>1. /\ IsFiniteSet(X) /\ IsFiniteSet(P) /\ IsFiniteSet(C)
      /\ \A row \in X \cup P \cup C : row.date \in Int
  BY FS_Subset DEF HistoryOK
<1>2. IsFiniteSet(Parents(g))
  <2> DEFINE a == [x \in X |-> [type |-> "expense", row |-> x]]
             b == [s \in P |-> [type |-> "settlement", row |-> s]]
  <2>1. IsFiniteSet({a[x] : x \in X}) /\ IsFiniteSet({b[s] : s \in P})
    BY <1>1, FiniteRange
  <2>2. IsFiniteSet({a[x] : x \in X} \cup {b[s] : s \in P})
    BY <2>1, FS_Union
  <2>3. Parents(g) = {a[x] : x \in X} \cup {b[s] : s \in P}
    BY DEF Parents
  <2> QED
    BY <2>2, <2>3
<1>3. IsFiniteSet(Commented(g))
  <2>1. IsFiniteSet(C \X Parents(g))
    BY <1>1, <1>2, FS_Product
  <2>2. Commented(g) \subseteq C \X Parents(g)
    BY DEF Commented
  <2> QED
    BY <2>1, <2>2, FS_Subset
<1>4. IsFiniteSet(EventsOf(g))
  <2> DEFINE K == Commented(g)
             a == [x \in X |-> Spent(x)]
             b == [s \in P |-> PaymentEvent(s)]
             c == [pair \in K |-> Remark(pair)]
  <2>1. IsFiniteSet({a[x] : x \in X}) /\ IsFiniteSet({b[s] : s \in P})
        /\ IsFiniteSet({c[pair] : pair \in K})
    BY <1>1, <1>3, FiniteRange
  <2>2. IsFiniteSet({a[x] : x \in X} \cup {b[s] : s \in P} \cup {c[pair] : pair \in K})
    BY <2>1, FS_Union
  <2>3. EventsOf(g) = {a[x] : x \in X} \cup {b[s] : s \in P} \cup {c[pair] : pair \in K}
    BY EventsAre
  <2> QED
    BY <2>2, <2>3
<1>5. \A e \in EventsOf(g) : e.date \in Int
  <2>1. \A x \in X : Spent(x).date = x.date
    BY DEF Spent, EventOf
  <2>2. \A s \in P : PaymentEvent(s).date = s.date
    BY DEF PaymentEvent, EventOf
  <2>3. \A pair \in Commented(g) : pair[1] \in C /\ Remark(pair).date = pair[1].date
    BY DEF Remark, EventOf, Commented
  <2>4. \A e \in EventsOf(g) : \/ \E x \in X : e = Spent(x)
                               \/ \E s \in P : e = PaymentEvent(s)
                               \/ \E pair \in Commented(g) : e = Remark(pair)
    BY EventsAre
  <2> QED
    BY <1>1, <2>1, <2>2, <2>3, <2>4
<1> QED
  BY <1>4, <1>5

\* A comment's event has that of its parent next to it.
LEMMA ParentIsThere ==
  ASSUME NEW g, NEW e \in EventsOf(g), e.type = "comment"
  PROVE  \E f \in EventsOf(g) :
           f.type = e.parent.type /\ f.id = e.id /\ f.title = e.parent.title
<1>1. PICK pair \in Commented(g) : e = Remark(pair)
  <2>1. \A x : Spent(x).type = "expense" /\ PaymentEvent(x).type = "settlement"
    BY DEF Spent, PaymentEvent, EventOf
  <2>2. \/ \E x \in g.expenses : e = Spent(x)
        \/ \E s \in {s \in g.settlements : ~s.deleted} : e = PaymentEvent(s)
        \/ \E pair \in Commented(g) : e = Remark(pair)
    BY EventsAre
  <2> QED
    BY <2>1, <2>2
<1>2. pair[2] \in Parents(g)
  BY DEF Commented
<1>3. /\ e.id = pair[2].row.id
      /\ e.parent.type = pair[2].type /\ e.parent.title = pair[2].row.title
  BY <1>1 DEF Remark, EventOf
<1>4. CASE \E x \in g.expenses : pair[2] = [type |-> "expense", row |-> x]
  <2>1. PICK x \in g.expenses : pair[2] = [type |-> "expense", row |-> x]
    BY <1>4
  <2>2. pair[2].type = "expense" /\ pair[2].row = x
    BY <2>1
  <2>3. Spent(x) \in EventsOf(g)
    BY EventsAre
  <2>4. Spent(x).type = "expense" /\ Spent(x).id = x.id /\ Spent(x).title = x.title
    BY DEF Spent, EventOf
  <2> QED
    BY <1>3, <2>2, <2>3, <2>4
<1>5. CASE \E s \in g.settlements : ~s.deleted /\ pair[2] = [type |-> "settlement", row |-> s]
  <2>1. PICK s \in g.settlements : ~s.deleted /\ pair[2] = [type |-> "settlement", row |-> s]
    BY <1>5
  <2>2. pair[2].type = "settlement" /\ pair[2].row = s
    BY <2>1
  <2>3. PaymentEvent(s) \in EventsOf(g)
    BY <2>1, EventsAre
  <2>4. PaymentEvent(s).type = "settlement" /\ PaymentEvent(s).id = s.id /\ PaymentEvent(s).title = s.title
    BY DEF PaymentEvent, EventOf
  <2> QED
    BY <1>3, <2>2, <2>3, <2>4
<1> QED
  BY <1>2, <1>4, <1>5 DEF Parents

\* Marking an event as read or unread leaves the rest of it.
LEMMA MarkedOnly ==
  ASSUME NEW g, NEW e \in EventsOf(g), NEW b
  PROVE  LET marked == [e EXCEPT !.unread = b]
         IN  /\ marked.date = e.date /\ marked.actor = e.actor /\ marked.type = e.type
             /\ marked.id = e.id /\ marked.title = e.title /\ marked.parent = e.parent
             /\ marked.unread = b
<1>1. PICK type, id, key, row, actor, deleted, parent :
        e = EventOf(type, id, key, row, actor, deleted, parent)
  <2>1. \/ \E x \in g.expenses : e = Spent(x)
        \/ \E s \in {s \in g.settlements : ~s.deleted} : e = PaymentEvent(s)
        \/ \E pair \in Commented(g) : e = Remark(pair)
    BY EventsAre
  <2> QED
    BY <2>1 DEF Spent, PaymentEvent, Remark
<1> QED
  BY <1>1 DEF EventOf

\* Read marks do not move events in time, nor do they part comments from
\* what they are on.
LEMMA FeedEvents ==
  ASSUME NEW u, NEW lastSeen, NEW groups, IsFiniteSet(groups), \A g \in groups : HistoryOK(g),
         NEW all, all = buildActivityEvents(u, lastSeen, groups)
  PROVE  /\ IsFiniteSet(all) /\ \A e \in all : e.date \in Int
         /\ \A e \in all : e.unread = (e.date > lastSeen /\ e.actor # u)
         /\ \A e \in all : e.type = "comment" =>
              \E f \in all : f.type = e.parent.type /\ f.id = e.id /\ f.title = e.parent.title
<1> DEFINE each == [g \in groups |-> EventsOf(g)]
           E == UNION {EventsOf(g) : g \in groups}
           Marked(e) == [e EXCEPT !.unread = e.date > lastSeen /\ e.actor # u]
           mark == [e \in E |-> Marked(e)]
<1>1. IsFiniteSet(E)
  <2>1. IsFiniteSet({each[g] : g \in groups})
    BY FiniteRange
  <2>2. \A T \in {each[g] : g \in groups} : IsFiniteSet(T)
    BY EventsFinite
  <2>3. {EventsOf(g) : g \in groups} = {each[g] : g \in groups}
    OBVIOUS
  <2> QED
    BY <2>1, <2>2, <2>3, FS_UNION
<1>2. all = {mark[e] : e \in E}
  <2>1. all = {Marked(e) : e \in E}
    BY Zenon DEF buildActivityEvents
  <2> HIDE DEF E
  <2>2. {Marked(e) : e \in E} = {mark[e] : e \in E}
    OBVIOUS
  <2> QED
    BY <2>1, <2>2
<1>3. \A e \in E : \E g \in groups : e \in EventsOf(g)
  OBVIOUS
<1>4. \A g \in groups : EventsOf(g) \subseteq E
  OBVIOUS
<1>5. \A e \in E : e.date \in Int
  BY <1>3, EventsFinite
<1>6. \A e \in E :
        /\ mark[e].date = e.date /\ mark[e].actor = e.actor /\ mark[e].type = e.type
        /\ mark[e].id = e.id /\ mark[e].title = e.title /\ mark[e].parent = e.parent
        /\ mark[e].unread = (e.date > lastSeen /\ e.actor # u)
  <2> SUFFICES ASSUME NEW e \in E
               PROVE  /\ mark[e].date = e.date /\ mark[e].actor = e.actor
                      /\ mark[e].type = e.type /\ mark[e].id = e.id
                      /\ mark[e].title = e.title /\ mark[e].parent = e.parent
                      /\ mark[e].unread = (e.date > lastSeen /\ e.actor # u)
    OBVIOUS
  <2> DEFINE b == e.date > lastSeen /\ e.actor # u
  <2>1. mark[e] = [e EXCEPT !.unread = b]
    OBVIOUS
  <2>2. PICK g \in groups : e \in EventsOf(g)
    BY <1>3
  <2> HIDE DEF b, mark, E
  <2>3. LET marked == [e EXCEPT !.unread = b]
        IN  /\ marked.date = e.date /\ marked.actor = e.actor /\ marked.type = e.type
            /\ marked.id = e.id /\ marked.title = e.title /\ marked.parent = e.parent
            /\ marked.unread = b
    BY <2>2, MarkedOnly, Zenon
  <2> QED
    BY <2>1, <2>3, Zenon DEF b
<1> HIDE DEF E, mark
<1>7. IsFiniteSet(all)
  <2>1. DOMAIN mark = E
    BY DEF mark
  <2> QED
    BY <1>1, <1>2, <2>1, FiniteRange
<1>8. \A e \in all : e.date \in Int /\ e.unread = (e.date > lastSeen /\ e.actor # u)
  BY <1>2, <1>5, <1>6
<1>9. ASSUME NEW e \in all, e.type = "comment"
      PROVE  \E f \in all : f.type = e.parent.type /\ f.id = e.id /\ f.title = e.parent.title
  <2>1. PICK d \in E : e = mark[d]
    BY <1>2
  <2>2. PICK g \in groups : d \in EventsOf(g)
    BY <1>3
  <2>3. d.type = "comment" /\ e.parent = d.parent /\ e.id = d.id
    BY <1>6, <1>9, <2>1
  <2>4. PICK f \in EventsOf(g) : f.type = d.parent.type /\ f.id = d.id /\ f.title = d.parent.title
    BY <2>2, <2>3, ParentIsThere
  <2>5. f \in E
    BY <1>4, <2>4
  <2>6. mark[f] \in all
    BY <1>2, <2>5
  <2>7. mark[f].type = e.parent.type /\ mark[f].id = e.id /\ mark[f].title = e.parent.title
    BY <1>6, <2>3, <2>4, <2>5
  <2> QED
    BY <2>6, <2>7
<1> QED
  BY <1>7, <1>8, <1>9

\* A page of the feed holds the newest of what was asked for, comments come
\* below what they are on, and the badge counts the unread (GetActivity,
\* GetUnreadActivityCount), whatever the history.
THEOREM FeedIsRight == SummarySpec => []FeedIsCoherent
<1>1. SummaryCallOK => FeedIsCoherent
  <2> DEFINE reader == call.reader
             groups == call.groups
             query == call.query
             all == buildActivityEvents(reader, call.lastSeen, groups)
             matched == {e \in all : query \in {"", e.title}}
             Pages == GetActivity(reader, call.lastSeen, groups, query)
             NewestOnly(page) ==
               LET shown == Range(page)
               IN  /\ shown \subseteq matched
                   /\ \A e \in matched \ shown :
                        Len(page) = maxEvents /\ \A f \in shown : f.date >= e.date
                   /\ shown = all =>
                        Cardinality({e \in shown : e.unread})
                          = GetUnreadActivityCount(reader, call.lastSeen, groups)
             Below(e) ==
               \E f \in all : f.type = e.parent.type /\ f.id = e.id /\ f.title = e.parent.title
             NoBadge(seen) ==
               (\A e \in all : e.date <= seen)
                 => GetUnreadActivityCount(reader, seen, groups) = 0
  <2> SUFFICES ASSUME SummaryCallOK, call.method = "feed"
               PROVE  /\ \A page \in Pages : NewestOnly(page)
                      /\ \A e \in all : e.type = "comment" => Below(e)
                      /\ \A seen \in {e.date : e \in all} : NoBadge(seen)
    BY Zenon DEF FeedIsCoherent
  <2>1. IsFiniteSet(groups) /\ \A g \in groups : HistoryOK(g)
    BY SummaryAssumption DEF SummaryCallOK, FeedCalls
  <2>2. /\ IsFiniteSet(all) /\ \A e \in all : e.date \in Int
        /\ \A e \in all : e.type = "comment" => Below(e)
    <3> HIDE DEF reader, groups
    <3> QED
      BY <2>1, FeedEvents
  <2>3. ASSUME NEW page \in Pages PROVE NewestOnly(page)
    <3>1. matched = {e \in all : query = "" \/ e.title = query}
      OBVIOUS
    <3>2. Pages = {Page(s) : s \in NewestFirst(matched)}
      <4>1. Pages = ActivityPages(all, query)
        BY Zenon DEF GetActivity
      <4> HIDE DEF all, query, Pages, matched
      <4>2. ActivityPages(all, query)
              = {Page(s) : s \in NewestFirst({e \in all : query = "" \/ e.title = query})}
        BY Zenon DEF ActivityPages
      <4> QED
        BY <3>1, <4>1, <4>2
    <3>3. IsFiniteSet(matched) /\ \A e \in matched : e.date \in Int
      BY <2>2, FS_Subset
    <3> HIDE DEF matched
    <3>4. PICK s \in NewestFirst(matched) : page = Page(s)
      BY <3>2, <2>3
    <3>5. ListOf(s, matched)
      BY <3>3, NewestFirstLists
    <3>6. /\ Range(page) \subseteq matched
          /\ \A e \in matched \ Range(page) :
               Len(page) = maxEvents /\ \A f \in Range(page) : f.date >= e.date
      BY <3>4, <3>5, PageIsNewest
    <3>7. GetUnreadActivityCount(reader, call.lastSeen, groups) = Cardinality({e \in all : e.unread})
      BY Zenon DEF GetUnreadActivityCount
    <3> HIDE DEF all, reader, groups
    <3> QED
      BY <3>6, <3>7, Zenon
  <2>4. ASSUME NEW seen \in {e.date : e \in all} PROVE NoBadge(seen)
    <3> DEFINE later == buildActivityEvents(reader, seen, groups)
               E == UNION {EventsOf(g) : g \in groups}
    <3> SUFFICES ASSUME \A e \in all : e.date <= seen
                 PROVE  GetUnreadActivityCount(reader, seen, groups) = 0
      OBVIOUS
    <3>1. \A d \in E : \E e \in all : e.date = d.date
      <4> SUFFICES ASSUME NEW d \in E PROVE \E e \in all : e.date = d.date
        OBVIOUS
      <4> DEFINE e == [d EXCEPT !.unread = d.date > call.lastSeen /\ d.actor # reader]
      <4>1. e \in all
        BY DEF buildActivityEvents
      <4>2. e.date = d.date
        BY MarkedOnly
      <4> QED
        BY <4>1, <4>2
    <3>2. \A e \in later : \E d \in E : e.date = d.date
      <4> SUFFICES ASSUME NEW e \in later PROVE \E d \in E : e.date = d.date
        OBVIOUS
      <4>1. PICK d \in E : e = [d EXCEPT !.unread = d.date > seen /\ d.actor # reader]
        BY Zenon DEF buildActivityEvents
      <4>2. PICK g \in groups : d \in EventsOf(g)
        OBVIOUS
      <4> HIDE DEF reader, groups, E
      <4> QED
        BY <4>1, <4>2, MarkedOnly
    <3>3. \A e \in later : e.date <= seen
      BY <3>1, <3>2
    <3>4. \A e \in later : e.date \in Int /\ e.unread = (e.date > seen /\ e.actor # reader)
      <4> HIDE DEF reader, groups
      <4> QED
        BY <2>1, FeedEvents
    <3>5. seen \in Int
      BY <2>2
    <3>6. {e \in later : e.unread} = {}
      <4> HIDE DEF later, all
      <4> SUFFICES ASSUME NEW e \in later, e.unread PROVE FALSE
        OBVIOUS
      <4>1. e.date > seen
        BY <3>4
      <4>2. e.date <= seen /\ e.date \in Int
        BY <3>3, <3>4
      <4> QED
        BY <3>5, <4>1, <4>2
    <3>7. GetUnreadActivityCount(reader, seen, groups) = Cardinality({e \in later : e.unread})
      BY Zenon DEF GetUnreadActivityCount
    <3> QED
      BY <3>6, <3>7, FS_EmptySet
  <2> QED
    BY <2>2, <2>3, <2>4
<1> QED
  BY <1>1, SummaryCallInvariance, PTL

-----------------------------------------------------------------------------
(* From the ledger to a file and back *)

\* An amount written to a file is read back as it was (formatCents,
\* parseCents): the sign of less than one unit, and a zero before the last
\* digit, are kept.
THEOREM AmountsSurvive == \A cents \in Int : parseCents(formatCents(cents)) = cents
<1> SUFFICES ASSUME NEW cents \in Int PROVE parseCents(formatCents(cents)) = cents
  OBVIOUS
<1> DEFINE size == IF cents < 0 THEN -cents ELSE cents
           text == formatCents(cents)
           tens == (size % 100) \div 10
           ones == size % 10
<1>1. /\ text.sign = IF cents < 0 THEN "-" ELSE ""
      /\ text.whole = size \div 100
      /\ text.frac = <<tens, ones>>
  BY DEF formatCents
<1>2. DOMAIN <<tens, ones>> = {1, 2} /\ <<tens, ones>>[1] = tens /\ <<tens, ones>>[2] = ones
  OBVIOUS
<1>3. size \in Nat
  OBVIOUS
<1>4. (size \div 100) * 100 + tens * 10 + ones = size
  <2> HIDE DEF size
  <2> QED
    BY <1>3
<1> HIDE DEF text, size, tens, ones
<1>5. parseCents(text) = LET read == text.whole * 100 + tens * 10 + ones
                         IN  IF text.sign = "-" THEN -read ELSE read
  BY <1>1, <1>2 DEF parseCents
<1>6. parseCents(text) = IF cents < 0 THEN -size ELSE size
  BY <1>1, <1>4, <1>5
<1>7. (IF cents < 0 THEN -size ELSE size) = cents
  BY DEF size
<1> QED
  BY <1>6, <1>7 DEF text

\* A row with a single payer and nets that cancel.
Balanced(row, q) ==
  /\ row.amount \in Int /\ IsFiniteSet(DOMAIN row.nets) /\ q \in DOMAIN row.nets
  /\ \A col \in DOMAIN row.nets : row.nets[col] \in Int /\ (col # q => row.nets[col] <= 0)
  /\ row.nets[q] <= row.amount /\ SumFunction(row.nets) = 0

\* What an expense does to the balance of a user.
Effect(x, u) ==
  (IF u = x.payer THEN x.amount ELSE 0) - (IF u \in DOMAIN x.shares THEN x.shares[u] ELSE 0)

\* Imported, a row of nets that cancel does to every balance what the row
\* says, whichever of the largest nets is taken for the payer's
\* (resolveSplits), and its parts add up to its amount.
THEOREM RowsKeepBalances ==
  ASSUME NEW row, NEW q, Balanced(row, q), row.amount > 0,
         NEW mapping, DOMAIN row.nets \subseteq DOMAIN mapping,
         \A a, b \in DOMAIN row.nets : mapping[a] = mapping[b] => a = b,
         NEW payerCol \in PayerColumns(row)
  PROVE  LET x == ImportedExpense(row, mapping, payerCol)
         IN  /\ \A col \in DOMAIN row.nets : Effect(x, mapping[col]) = row.nets[col]
             /\ DOMAIN x.shares \subseteq {mapping[col] : col \in DOMAIN row.nets}
             /\ \A u \in DOMAIN x.shares : x.shares[u] \in Nat \ {0}
             /\ SumFunction(x.shares) = x.amount
<1> DEFINE nets == row.nets
           C == DOMAIN nets
           amount == row.amount
           p == payerCol
           share == ShareOf(row, p, C)
           split == SplitBefore(share, C, mapping)
           x == ImportedExpense(row, mapping, p)
<1>1. /\ amount \in Int /\ amount > 0 /\ IsFiniteSet(C) /\ q \in C /\ p \in C
      /\ \A col \in C : nets[col] \in Int
      /\ \A col \in C : nets[col] <= nets[p]
      /\ \A col \in C \ {q} : nets[col] <= 0
      /\ nets[q] <= amount
  BY DEF Balanced, PayerColumns
<1>2. SumFunctionOnSet(nets, C) = 0
  BY SumOfFunction DEF Balanced
<1>3. \A col \in C \ {p} : nets[col] <= 0
  <2> DEFINE rest == C \ {q}
  <2>1. CASE p = q
    BY <1>1, <2>1
  <2>2. CASE p # q
    <3>1. nets[q] <= 0
      BY <1>1, <2>2
    <3> QED
      BY <1>1, <3>1
  <2> QED
    BY <2>1, <2>2
<1>4. nets[p] <= amount
  <2>1. CASE p = q
    BY <1>1, <2>1
  <2>2. CASE p # q
    <3>1. nets[p] <= 0
      BY <1>1, <2>2
    <3> QED
      BY <1>1, <3>1
  <2> QED
    BY <2>1, <2>2
<1>5. DOMAIN share = C /\ share[p] = amount - nets[p] /\ \A col \in C \ {p} : share[col] = -nets[col]
  BY <1>1 DEF ShareOf
<1>6. \A col \in C : share[col] \in Nat
  <2> HIDE DEF share, nets, C, amount, p
  <2>1. share[p] \in Nat
    BY <1>1, <1>4, <1>5
  <2>2. \A col \in C \ {p} : share[col] \in Nat
    BY <1>1, <1>3, <1>5
  <2> QED
    BY <2>1, <2>2
<1>7. SumFunction(share) = amount
  <2> DEFINE whole == [col \in C |-> IF col \in {p} THEN amount ELSE 0]
             only == [col \in {p} |-> amount]
  <2>1. \A col \in C : whole[col] \in Int /\ nets[col] \in Int /\ share[col] = whole[col] - nets[col]
    BY <1>1, <1>5
  <2>2. /\ \A col \in {p} : only[col] \in Int
        /\ \A col \in C : whole[col] = IF col \in {p} THEN only[col] ELSE 0
        /\ only[p] = amount /\ {p} \in SUBSET C
    BY <1>1
  <2>3. SumFunction(share) = SumFunctionOnSet(share, C)
    BY <1>5, SumOfFunction
  <2> HIDE DEF whole, only, share, nets, C, amount, p
  <2>4. SumFunctionOnSet(share, C) = SumFunctionOnSet(whole, C) - SumFunctionOnSet(nets, C)
    BY <1>1, <2>1, SumMinus
  <2>5. SumFunctionOnSet(whole, C) = SumFunctionOnSet(only, {p})
    BY <1>1, <2>2, SumSelect
  <2>6. SumFunctionOnSet(only, {p}) = only[p] + SumFunctionOnSet(only, {p} \ {p})
    <3>1. IsFiniteSet({p})
      BY FS_Singleton
    <3> QED
      BY <3>1, <2>2, SumRemove
  <2>7. SumFunctionOnSet(only, {p} \ {p}) = 0
    <3>1. {p} \ {p} = {}
      OBVIOUS
    <3> QED
      BY <3>1, SumEmpty
  <2> QED
    BY <1>1, <1>2, <2>2, <2>3, <2>4, <2>5, <2>6, <2>7
<1>8. x.payer = mapping[p] /\ x.amount = amount
      /\ x.shares = reconcile(split, mapping[p], amount - SumFunction(share))
  <2>1. C = C \cap DOMAIN mapping
    OBVIOUS
  <2>2. resolveSplits(row, mapping, p) = reconcile(split, mapping[p], amount - SumFunction(share))
    BY <2>1, ResolvedIn
  <2> QED
    BY <2>2 DEF ImportedExpense
<1>9. /\ IsFiniteSet(DOMAIN split) /\ \A u \in DOMAIN split : split[u] \in Int
      /\ SumFunction(split) = amount
  <2>1. SumFunction(share) = SumFunctionOnSet(share, C)
    BY <1>5, SumOfFunction
  <2> HIDE DEF C, share, nets, amount, split
  <2>2. /\ IsFiniteSet(DOMAIN SplitBefore(share, C, mapping))
        /\ \A u \in DOMAIN SplitBefore(share, C, mapping) :
             SplitBefore(share, C, mapping)[u] \in Int
        /\ SumFunction(SplitBefore(share, C, mapping)) = SumFunctionOnSet(share, C)
    <3>1. C \subseteq DOMAIN mapping
      BY DEF C, nets
    <3>2. SumFunctionOnSet(PositivePart(share, C), C) = SumFunctionOnSet(share, C)
      <4> DEFINE more == PositivePart(share, C)
      <4>1. \A col \in C : more[col] = IF share[col] > 0 THEN share[col] ELSE 0
        BY Zenon DEF PositivePart
      <4> HIDE DEF more
      <4>2. \A col \in C : share[col] \in Int /\ more[col] = share[col]
        <5>1. SUFFICES ASSUME NEW col \in C
                       PROVE  share[col] \in Int /\ more[col] = share[col]
          OBVIOUS
        <5>2. share[col] \in Nat
          BY <1>6
        <5> QED
          BY <4>1, <5>2
      <4>3. SumFunctionOnSet(more, C) = SumFunctionOnSet(share, C)
        BY <1>1, <4>2, SumSame
      <4> QED
        BY <4>3 DEF more
    <3> QED
      BY <1>1, <1>6, <3>1, <3>2, KeptShares
  <2> QED
    BY <1>7, <2>1, <2>2 DEF split
<1>10. x.shares = split
  <2>1. amount - SumFunction(share) = 0
    BY <1>1, <1>7
  <2>2. x.shares = reconcile(split, mapping[p], 0)
    BY <1>8, <2>1
  <2>3. reconcile(split, mapping[p], 0) = split
    <3> HIDE DEF split, p
    <3>1. CASE mapping[p] \in DOMAIN split
      <4>1. reconcile(split, mapping[p], 0) = [split EXCEPT ![mapping[p]] = @ + 0]
        BY <3>1 DEF reconcile
      <4>2. split[mapping[p]] + 0 = split[mapping[p]]
        BY <1>9, <3>1
      <4>3. split = [u \in DOMAIN split |-> split[u]]
        BY Zenon DEF split, SplitBefore
      <4> QED
        BY <4>1, <4>2, <4>3
    <3>2. CASE mapping[p] \notin DOMAIN split
      BY <3>2 DEF reconcile
    <3> QED
      BY <3>1, <3>2
  <2> QED
    BY <2>2, <2>3
<1>11. ASSUME NEW col \in C
       PROVE  KeptFor(mapping[col], share, C, mapping) = IF share[col] > 0 THEN {col} ELSE {}
  <2>1. \A d \in C : mapping[d] = mapping[col] => d = col
    OBVIOUS
  <2> HIDE DEF C, share
  <2> QED
    BY <2>1 DEF KeptFor
<1>12. ASSUME NEW col \in C
       PROVE  (IF mapping[col] \in DOMAIN split THEN split[mapping[col]] ELSE 0) = share[col]
  <2>1. mapping[col] \in Range(mapping)
    BY DEF Range
  <2>2. mapping[col] \in DOMAIN split <=> share[col] > 0
    BY <1>11, <2>1 DEF SplitBefore
  <2>3. CASE share[col] > 0
    <3> DEFINE only == [d \in {col} |-> share[d]]
    <3>1. split[mapping[col]] = SumFunction(only)
      <4>1. split[mapping[col]]
              = SumFunction([d \in KeptFor(mapping[col], share, C, mapping) |-> share[d]])
        BY <2>1, <2>2, <2>3, Zenon DEF SplitBefore
      <4>2. KeptFor(mapping[col], share, C, mapping) = {col}
        BY <1>11, <2>3
      <4> QED
        BY <4>1, <4>2, Zenon
    <3>2. SumFunction(only) = SumFunctionOnSet(only, {col})
      BY SumOfFunction
    <3>3. IsFiniteSet({col}) /\ \A d \in {col} : only[d] \in Int
      <4>1. IsFiniteSet({col})
        BY FS_Singleton
      <4> HIDE DEF share
      <4>2. \A d \in {col} : only[d] \in Int
        BY <1>6
      <4> QED
        BY <4>1, <4>2
    <3>4. only[col] = share[col] /\ share[col] \in Int
      BY <1>6
    <3> HIDE DEF only, share, split
    <3>5. SumFunctionOnSet(only, {col}) = only[col] + SumFunctionOnSet(only, {col} \ {col})
      BY <3>3, SumRemove
    <3>6. SumFunctionOnSet(only, {col} \ {col}) = 0
      <4>1. {col} \ {col} = {}
        OBVIOUS
      <4> QED
        BY <4>1, SumEmpty
    <3> QED
      BY <2>2, <2>3, <3>1, <3>2, <3>4, <3>5, <3>6
  <2>4. CASE ~(share[col] > 0)
    BY <1>6, <2>2, <2>4
  <2> QED
    BY <2>3, <2>4
<1>13. ASSUME NEW col \in C PROVE Effect(x, mapping[col]) = nets[col]
  <2>1. mapping[col] = mapping[p] <=> col = p
    BY <1>1
  <2>2. Effect(x, mapping[col]) = (IF col = p THEN amount ELSE 0) - share[col]
    <3>1. Effect(x, mapping[col])
            = (IF mapping[col] = mapping[p] THEN amount ELSE 0)
                - (IF mapping[col] \in DOMAIN split THEN split[mapping[col]] ELSE 0)
      BY <1>8, <1>10 DEF Effect
    <3> HIDE DEF x, split, share, amount, p, C
    <3> QED
      BY <1>12, <2>1, <3>1
  <2> HIDE DEF x, share, amount, p, C, nets
  <2> QED
    BY <1>1, <1>5, <2>2
<1>14. DOMAIN split \subseteq {mapping[col] : col \in C}
       /\ \A u \in DOMAIN split : split[u] \in Nat \ {0}
  <2> SUFFICES ASSUME NEW u \in DOMAIN split
               PROVE  u \in {mapping[col] : col \in C} /\ split[u] \in Nat \ {0}
    OBVIOUS
  <2>1. KeptFor(u, share, C, mapping) # {}
    BY DEF SplitBefore
  <2>2. PICK col \in C : u = mapping[col] /\ share[col] > 0
    BY <2>1 DEF KeptFor
  <2> HIDE DEF split, share, C
  <2> QED
    BY <1>6, <1>12, <2>2
<1> HIDE DEF x, split, C, nets, amount, p, share
<1>15. SumFunction(x.shares) = x.amount
  BY <1>8, <1>9, <1>10
<1> QED
  BY <1>10, <1>13, <1>14, <1>15 DEF x, C, nets, p

\* The lists that an export joins.
LEMMA JoinedLists ==
  \A S : \A s, t \in Seq(S) :
    /\ s \o t \in Seq(S) /\ Len(s \o t) = Len(s) + Len(t)
    /\ \A i \in 1 .. Len(s) : (s \o t)[i] = s[i]
    /\ \A i \in Len(s) + 1 .. Len(s) + Len(t) : (s \o t)[i] = t[i - Len(s)]
OBVIOUS

\* Categories survive the names they go by in the file, but for coffee.
LEMMA CategoriesSurvive ==
  \A slug \in DOMAIN splitwiseCategoryNameBySlug :
    mapSplitwiseCategory(splitwiseCategoryName(slug)) = IF slug = "coffee" THEN "food" ELSE slug
<1> SUFFICES ASSUME NEW slug \in DOMAIN splitwiseCategoryNameBySlug
             PROVE  mapSplitwiseCategory(splitwiseCategoryName(slug))
                      = IF slug = "coffee" THEN "food" ELSE slug
  OBVIOUS
<1> DEFINE name == splitwiseCategoryName(slug)
           target == IF slug = "coffee" THEN "food" ELSE slug
<1>1. name = splitwiseCategoryNameBySlug[slug]
  BY DEF splitwiseCategoryName
<1>2. slug \in {"food", "groceries", "coffee", "drinks", "transport", "fuel", "travel",
                "accommodation", "housing", "utilities", "internet", "entertainment", "sports",
                "shopping", "health", "education", "gifts", "pets", "household", "other"}
  BY DEF splitwiseCategoryNameBySlug
<1>3. DOMAIN EnglishNames
        = {"groceries", "food", "drinks", "shopping", "household", "housing", "pets",
           "utilities", "education", "gifts", "health", "transport", "fuel", "accommodation",
           "travel", "internet", "entertainment", "sports", "other"}
  BY DEF EnglishNames
<1>4. /\ EnglishNames["groceries"] = {"groceries"}
      /\ EnglishNames["food"] = {"dining out", "food and drink - other", "food and drink"}
      /\ EnglishNames["drinks"] = {"liquor"}
      /\ EnglishNames["shopping"] = {"electronics", "clothing"}
      /\ EnglishNames["household"] = {"furniture", "household supplies", "maintenance",
                                      "other home", "home", "cleaning"}
      /\ EnglishNames["housing"] = {"mortgage", "rent"}
      /\ EnglishNames["pets"] = {"pets"}
      /\ EnglishNames["utilities"] = {"services", "electricity", "heat/gas", "trash", "water",
                                      "other utilities"}
      /\ EnglishNames["education"] = {"education"}
      /\ EnglishNames["gifts"] = {"gifts"}
      /\ EnglishNames["health"] = {"medical expenses"}
      /\ EnglishNames["transport"] = {"bicycle", "bus/train", "car", "parking", "taxi",
                                      "other transportation", "transportation"}
      /\ EnglishNames["fuel"] = {"gas/fuel"}
      /\ EnglishNames["accommodation"] = {"hotel"}
      /\ EnglishNames["travel"] = {"plane"}
      /\ EnglishNames["internet"] = {"tv/phone/internet"}
      /\ EnglishNames["entertainment"] = {"games", "movies", "music", "other entertainment",
                                          "entertainment"}
      /\ EnglishNames["sports"] = {"sports"}
      /\ EnglishNames["other"] = {"childcare", "insurance", "taxes", "other life", "life",
                                  "general", "uncategorized"}
  BY DEF EnglishNames
<1>5. /\ splitwiseCategoryNameBySlug["food"] = "dining out"
      /\ splitwiseCategoryNameBySlug["groceries"] = "groceries"
      /\ splitwiseCategoryNameBySlug["coffee"] = "food and drink - other"
      /\ splitwiseCategoryNameBySlug["drinks"] = "liquor"
      /\ splitwiseCategoryNameBySlug["transport"] = "other transportation"
      /\ splitwiseCategoryNameBySlug["fuel"] = "gas/fuel"
      /\ splitwiseCategoryNameBySlug["travel"] = "plane"
      /\ splitwiseCategoryNameBySlug["accommodation"] = "hotel"
      /\ splitwiseCategoryNameBySlug["housing"] = "rent"
      /\ splitwiseCategoryNameBySlug["utilities"] = "other utilities"
      /\ splitwiseCategoryNameBySlug["internet"] = "tv/phone/internet"
      /\ splitwiseCategoryNameBySlug["entertainment"] = "other entertainment"
      /\ splitwiseCategoryNameBySlug["sports"] = "sports"
      /\ splitwiseCategoryNameBySlug["shopping"] = "clothing"
      /\ splitwiseCategoryNameBySlug["health"] = "medical expenses"
      /\ splitwiseCategoryNameBySlug["education"] = "education"
      /\ splitwiseCategoryNameBySlug["gifts"] = "gifts"
      /\ splitwiseCategoryNameBySlug["pets"] = "pets"
      /\ splitwiseCategoryNameBySlug["household"] = "household supplies"
      /\ splitwiseCategoryNameBySlug["other"] = "general"
  BY DEF splitwiseCategoryNameBySlug
<1> HIDE DEF name
<1>6. target \in DOMAIN EnglishNames /\ name \in EnglishNames[target]
  <2>1. CASE slug = "food"
    BY <1>1, <1>3, <1>4, <1>5, <2>1
  <2>2. CASE slug = "groceries"
    BY <1>1, <1>3, <1>4, <1>5, <2>2
  <2>3. CASE slug = "coffee"
    BY <1>1, <1>3, <1>4, <1>5, <2>3
  <2>4. CASE slug = "drinks"
    BY <1>1, <1>3, <1>4, <1>5, <2>4
  <2>5. CASE slug = "transport"
    BY <1>1, <1>3, <1>4, <1>5, <2>5
  <2>6. CASE slug = "fuel"
    BY <1>1, <1>3, <1>4, <1>5, <2>6
  <2>7. CASE slug = "travel"
    BY <1>1, <1>3, <1>4, <1>5, <2>7
  <2>8. CASE slug = "accommodation"
    BY <1>1, <1>3, <1>4, <1>5, <2>8
  <2>9. CASE slug = "housing"
    BY <1>1, <1>3, <1>4, <1>5, <2>9
  <2>10. CASE slug = "utilities"
    BY <1>1, <1>3, <1>4, <1>5, <2>10
  <2>11. CASE slug = "internet"
    BY <1>1, <1>3, <1>4, <1>5, <2>11
  <2>12. CASE slug = "entertainment"
    BY <1>1, <1>3, <1>4, <1>5, <2>12
  <2>13. CASE slug = "sports"
    BY <1>1, <1>3, <1>4, <1>5, <2>13
  <2>14. CASE slug = "shopping"
    BY <1>1, <1>3, <1>4, <1>5, <2>14
  <2>15. CASE slug = "health"
    BY <1>1, <1>3, <1>4, <1>5, <2>15
  <2>16. CASE slug = "education"
    BY <1>1, <1>3, <1>4, <1>5, <2>16
  <2>17. CASE slug = "gifts"
    BY <1>1, <1>3, <1>4, <1>5, <2>17
  <2>18. CASE slug = "pets"
    BY <1>1, <1>3, <1>4, <1>5, <2>18
  <2>19. CASE slug = "household"
    BY <1>1, <1>3, <1>4, <1>5, <2>19
  <2>20. CASE slug = "other"
    BY <1>1, <1>3, <1>4, <1>5, <2>20
  <2> QED
    BY <1>2, <2>1, <2>2, <2>3, <2>4, <2>5, <2>6, <2>7, <2>8, <2>9, <2>10, <2>11, <2>12,
       <2>13, <2>14, <2>15, <2>16, <2>17, <2>18, <2>19, <2>20
<1>7. ASSUME NEW o \in DOMAIN EnglishNames, name \in EnglishNames[o] PROVE o = target
  <2>1. CASE o = "groceries"
    BY <1>1, <1>2, <1>4, <1>5, <1>7, <2>1
  <2>2. CASE o = "food"
    BY <1>1, <1>2, <1>4, <1>5, <1>7, <2>2
  <2>3. CASE o = "drinks"
    BY <1>1, <1>2, <1>4, <1>5, <1>7, <2>3
  <2>4. CASE o = "shopping"
    BY <1>1, <1>2, <1>4, <1>5, <1>7, <2>4
  <2>5. CASE o = "household"
    BY <1>1, <1>2, <1>4, <1>5, <1>7, <2>5
  <2>6. CASE o = "housing"
    BY <1>1, <1>2, <1>4, <1>5, <1>7, <2>6
  <2>7. CASE o = "pets"
    BY <1>1, <1>2, <1>4, <1>5, <1>7, <2>7
  <2>8. CASE o = "utilities"
    BY <1>1, <1>2, <1>4, <1>5, <1>7, <2>8
  <2>9. CASE o = "education"
    BY <1>1, <1>2, <1>4, <1>5, <1>7, <2>9
  <2>10. CASE o = "gifts"
    BY <1>1, <1>2, <1>4, <1>5, <1>7, <2>10
  <2>11. CASE o = "health"
    BY <1>1, <1>2, <1>4, <1>5, <1>7, <2>11
  <2>12. CASE o = "transport"
    BY <1>1, <1>2, <1>4, <1>5, <1>7, <2>12
  <2>13. CASE o = "fuel"
    BY <1>1, <1>2, <1>4, <1>5, <1>7, <2>13
  <2>14. CASE o = "accommodation"
    BY <1>1, <1>2, <1>4, <1>5, <1>7, <2>14
  <2>15. CASE o = "travel"
    BY <1>1, <1>2, <1>4, <1>5, <1>7, <2>15
  <2>16. CASE o = "internet"
    BY <1>1, <1>2, <1>4, <1>5, <1>7, <2>16
  <2>17. CASE o = "entertainment"
    BY <1>1, <1>2, <1>4, <1>5, <1>7, <2>17
  <2>18. CASE o = "sports"
    BY <1>1, <1>2, <1>4, <1>5, <1>7, <2>18
  <2>19. CASE o = "other"
    BY <1>1, <1>2, <1>4, <1>5, <1>7, <2>19
  <2> QED
    BY <1>3, <2>1, <2>2, <2>3, <2>4, <2>5, <2>6, <2>7, <2>8, <2>9, <2>10, <2>11, <2>12,
       <2>13, <2>14, <2>15, <2>16, <2>17, <2>18, <2>19
<1> HIDE DEF target
<1> QED
  BY <1>6, <1>7 DEF mapSplitwiseCategory, name, target

IdsOf(members) == {m.id : m \in Range(members)}
NamesOf(members) == {m.name : m \in Range(members)}
UserOf(members) ==
  [n \in NamesOf(members) |-> (CHOOSE m \in Range(members) : m.name = n).id]

\* Every member has an id and a name of their own.
Named(members) ==
  /\ members \in Seq([id : Nat, name : Columns])
  /\ \A k, l \in DOMAIN members :
       k # l => members[k].id # members[l].id /\ members[k].name # members[l].name

\* The name of a column leads to the member it was written for.
LEMMA NamesLeadToMembers ==
  ASSUME NEW members, Named(members)
  PROVE  /\ Members(IdsOf(members)) /\ IsFiniteSet(NamesOf(members))
         /\ IdsOf(members) = {members[k].id : k \in DOMAIN members}
         /\ NamesOf(members) = {members[k].name : k \in DOMAIN members}
         /\ DOMAIN UserOf(members) = NamesOf(members)
         /\ \A k \in DOMAIN members : UserOf(members)[members[k].name] = members[k].id
         /\ UserOf(members) \in Bijection(NamesOf(members), IdsOf(members))
<1> DEFINE D == DOMAIN members
           ids == IdsOf(members)
           names == NamesOf(members)
           userOf == UserOf(members)
<1>1. D = 1 .. Len(members) /\ Len(members) \in Nat /\ IsFiniteSet(D)
  <2>1. D = 1 .. Len(members) /\ Len(members) \in Nat
    BY DEF Named
  <2> QED
    BY <2>1, FirstNumbers
<1>2. \A k \in D : members[k].id \in Nat /\ members[k].name \in Columns
  <2>1. \A k \in 1 .. Len(members) : members[k] \in [id : Nat, name : Columns]
    BY ElementsOfSeq, Zenon DEF Named
  <2> QED
    BY <1>1, <2>1
<1>3. ids = {members[k].id : k \in D} /\ names = {members[k].name : k \in D}
  BY DEF IdsOf, NamesOf, Range
<1>4. Members(ids) /\ IsFiniteSet(names)
  <2> DEFINE f == [k \in D |-> members[k].id]
             g == [k \in D |-> members[k].name]
  <2>1. IsFiniteSet({f[k] : k \in D}) /\ IsFiniteSet({g[k] : k \in D})
    <3> HIDE DEF f, g
    <3>1. DOMAIN f = D /\ DOMAIN g = D
      BY DEF f, g
    <3> QED
      BY <1>1, <3>1, FiniteRange
  <2>2. {f[k] : k \in D} = ids /\ {g[k] : k \in D} = names
    BY <1>3
  <2>3. ids \subseteq Nat
    BY <1>2, <1>3
  <2> QED
    BY <2>1, <2>2, <2>3 DEF Members
<1>5. DOMAIN userOf = names
  BY DEF UserOf
<1>6. ASSUME NEW k \in D PROVE userOf[members[k].name] = members[k].id
  <2> DEFINE m == CHOOSE m \in Range(members) : m.name = members[k].name
  <2>1. members[k] \in Range(members)
    BY DEF Range
  <2>2. m \in Range(members) /\ m.name = members[k].name
    BY <2>1
  <2>3. PICK l \in D : m = members[l]
    BY <2>2 DEF Range
  <2>4. l = k
    BY <2>2, <2>3 DEF Named
  <2>5. userOf[members[k].name] = m.id
    BY <1>3, Zenon DEF UserOf
  <2> QED
    BY <2>3, <2>4, <2>5
<1>7. userOf \in Bijection(names, ids)
  <2> HIDE DEF userOf, ids, names
  <2>1. \A n \in names : userOf[n] \in ids
    BY <1>3, <1>6
  <2> DEFINE picked(n) == (CHOOSE m \in Range(members) : m.name = n).id
  <2>2. userOf = [n \in names |-> picked(n)]
    BY Zenon DEF userOf, UserOf, names
  <2> HIDE DEF picked
  <2>3. userOf \in [names -> ids]
    <3>1. \A n \in names : picked(n) \in ids
      BY <2>1, <2>2
    <3> QED
      BY <2>2, <3>1
  <2>4. \A a, b \in names : userOf[a] = userOf[b] => a = b
    <3> SUFFICES ASSUME NEW a \in names, NEW b \in names, userOf[a] = userOf[b] PROVE a = b
      OBVIOUS
    <3>1. PICK k \in D : a = members[k].name
      BY <1>3
    <3>2. PICK l \in D : b = members[l].name
      BY <1>3
    <3>3. members[k].id = members[l].id
      BY <1>6, <3>1, <3>2
    <3> QED
      BY <3>1, <3>2, <3>3 DEF Named
  <2>5. \A u \in ids : \E n \in names : userOf[n] = u
    BY <1>3, <1>6
  <2> QED
    BY <2>3, <2>4, <2>5 DEF Bijection, Injection, Surjection, IsInjective
<1> QED
  BY <1>3, <1>4, <1>5, <1>6, <1>7

\* An amount is never written as an empty cell.
LEMMA WrittenIsText == \A c \in Int : formatCents(c) # NoText
<1> SUFFICES ASSUME NEW c \in Int PROVE formatCents(c) # NoText
  OBVIOUS
<1> DEFINE size == IF c < 0 THEN -c ELSE c
           tens == (size % 100) \div 10
           ones == size % 10
<1>1. size \in Nat
  OBVIOUS
<1>2. size \div 100 \in Nat /\ tens \in 0 .. 9 /\ ones \in 0 .. 9
  <2> HIDE DEF size
  <2> QED
    BY <1>1
<1>3. formatCents(c) = [sign |-> IF c < 0 THEN "-" ELSE "", whole |-> size \div 100,
                        frac |-> <<tens, ones>>]
  BY DEF formatCents
<1> HIDE DEF size, tens, ones
<1>4. <<tens, ones>> \in Seq(0 .. 9)
  BY <1>2
<1>5. (IF c < 0 THEN "-" ELSE "") \in {"", "-"}
  OBVIOUS
<1> DEFINE sign == IF c < 0 THEN "-" ELSE ""
           whole == size \div 100
           frac == <<tens, ones>>
           Text == [sign : {"", "-"}, whole : Nat, frac : Seq(0 .. 9)]
<1>6. formatCents(c) \in [sign : {"", "-"}, whole : Nat, frac : Seq(0 .. 9)]
  <2>1. sign \in {"", "-"} /\ whole \in Nat /\ frac \in Seq(0 .. 9)
    BY <1>2, <1>4, <1>5
  <2>2. formatCents(c) = [sign |-> sign, whole |-> whole, frac |-> frac]
    BY <1>3
  <2> HIDE DEF sign, whole, frac
  <2>3. [sign |-> sign, whole |-> whole, frac |-> frac] \in Text
    BY <2>1, Zenon
  <2> QED
    BY <2>2, <2>3
<1> QED
  BY <1>6, FileAssumption

\* The headings of the file, and a line that holds these nets and this amount.
HeadOf(members) == [k \in DOMAIN members |-> members[k].name]
Holds(line, nets, amount) == line.cells = CellsOf(nets) /\ line.cost = formatCents(amount)

\* The cells of a line are read back under the headings they were written to.
LEMMA LineReadBack ==
  ASSUME NEW members, Named(members), NEW nets \in [DOMAIN members -> Int],
         NEW amount \in Int, NEW line, Holds(line, nets, amount)
  PROVE  /\ RowOf(HeadOf(members), line).amount = amount
         /\ DOMAIN RowOf(HeadOf(members), line).nets = NamesOf(members)
         /\ \A k \in DOMAIN members :
              RowOf(HeadOf(members), line).nets[members[k].name] = nets[k]
<1> DEFINE n == Len(members)
           header == HeadOf(members)
           row == RowOf(header, line)
<1>1. n \in Nat /\ DOMAIN members = 1 .. n
      /\ \A k, l \in 1 .. n : k # l => members[k].name # members[l].name
  BY DEF Named
<1>2. DOMAIN header = 1 .. n /\ \A k \in 1 .. n : header[k] = members[k].name
  BY <1>1 DEF HeadOf
<1> HIDE DEF header
<1>3. /\ line.cells = [k \in 1 .. n |-> formatCents(nets[k])]
      /\ \A k \in 1 .. n : nets[k] \in Int
  BY <1>1 DEF CellsOf, Holds
<1>4. Len(line.cells) = n
  <2>1. [k \in 1 .. n |-> formatCents(nets[k])] \in [1 .. n -> {formatCents(nets[k]) : k \in 1 .. n}]
    OBVIOUS
  <2> HIDE DEF n
  <2> QED
    BY <1>1, <1>3, <2>1, ListIsSeq
<1>5. \A k \in 1 .. n : line.cells[k] = formatCents(nets[k])
  BY <1>3
<1>6. \A c \in Int : formatCents(c) # NoText
  BY WrittenIsText
<1>7. ASSUME NEW k \in 1 .. n PROVE ColumnsAt(header, line, members[k].name) = {k}
  <2>1. \A l \in 1 .. n : header[l] = members[k].name => l = k
    BY <1>1, <1>2
  <2>2. \A l \in 1 .. n : l <= Len(line.cells) /\ line.cells[l] # NoText
    BY <1>1, <1>3, <1>4, <1>5, <1>6
  <2> QED
    BY <1>2, <2>1, <2>2 DEF ColumnsAt
<1>8. Range(header) = {members[k].name : k \in 1 .. n}
  BY <1>1, <1>2 DEF Range
<1>9. \A name \in Range(header) : ColumnsAt(header, line, name) # {}
  BY <1>1, <1>7, <1>8
<1>10. {name \in Range(header) : ColumnsAt(header, line, name) # {}} = Range(header)
  BY <1>9
<1>11. /\ row.amount = parseCents(line.cost)
       /\ row.nets = [name \in Range(header) |->
                        parseCents(line.cells[Max(ColumnsAt(header, line, name))])]
  <2>1. row.nets = [name \in {name \in Range(header) : ColumnsAt(header, line, name) # {}} |->
                      parseCents(line.cells[Max(ColumnsAt(header, line, name))])]
    BY DEF RowOf
  <2>2. row.amount = parseCents(line.cost)
    BY DEF RowOf
  <2> HIDE DEF row
  <2> QED
    BY <1>10, <2>1, <2>2, Zenon
<1>12. ASSUME NEW k \in 1 .. n PROVE row.nets[members[k].name] = nets[k]
  <2>1. members[k].name \in Range(header)
    BY <1>1, <1>8
  <2>2. Max({k}) = k
    <3>1. k \in Int
      BY <1>1
    <3>2. Max({k, k}) = k
      BY <3>1, SmallerLarger
    <3>3. {k, k} = {k}
      OBVIOUS
    <3> QED
      BY <3>2, <3>3
  <2>3. row.nets[members[k].name] = parseCents(line.cells[Max({k})])
    <3> HIDE DEF row, n
    <3> QED
      BY <1>7, <1>11, <2>1
  <2> QED
    BY <1>3, <1>5, <2>2, <2>3, AmountsSurvive
<1>13. row.amount = amount
  BY <1>11, AmountsSurvive DEF Holds
<1>14. DOMAIN row.nets = Range(header)
  <2> HIDE DEF row
  <2> QED
    BY <1>11
<1>15. NamesOf(members) = {members[k].name : k \in 1 .. n}
  BY <1>1 DEF NamesOf, Range
<1> HIDE DEF n, row
<1> QED
  BY <1>1, <1>8, <1>12, <1>13, <1>14, <1>15 DEF row, header


\* What a line of the file does to the balances.
Does(eff, ids, payer, amount) ==
  /\ \A u \in ids : eff[u] \in Int /\ (u # payer => eff[u] <= 0)
  /\ payer \in ids /\ eff[payer] <= amount
  /\ SumFunctionOnSet(eff, ids) = 0

\* A line is imported as an expense that does what the line says.
LEMMA LineImported ==
  ASSUME NEW members, Named(members),
         NEW nets \in [DOMAIN members -> Int], NEW amount \in Int, amount > 0,
         NEW line, Holds(line, nets, amount),
         NEW eff, NEW payer, Does(eff, IdsOf(members), payer, amount),
         \A k \in DOMAIN members : nets[k] = eff[members[k].id],
         NEW col \in PayerColumns(RowOf(HeadOf(members), line))
  PROVE  LET x == ImportedExpense(RowOf(HeadOf(members), line), UserOf(members), col)
         IN  /\ x.amount = amount /\ SumFunction(x.shares) = amount
             /\ \A u \in DOMAIN x.shares : x.shares[u] \in Nat
             /\ \A u \in IdsOf(members) : Effect(x, u) = eff[u]
<1> DEFINE row == RowOf(HeadOf(members), line)
           ids == IdsOf(members)
           names == NamesOf(members)
           userOf == UserOf(members)
           x == ImportedExpense(row, userOf, col)
<1>1. /\ Members(ids) /\ IsFiniteSet(names)
      /\ ids = {members[k].id : k \in DOMAIN members}
      /\ names = {members[k].name : k \in DOMAIN members}
      /\ DOMAIN userOf = names
      /\ \A k \in DOMAIN members : userOf[members[k].name] = members[k].id
      /\ userOf \in Bijection(names, ids)
  BY NamesLeadToMembers
<1>2. /\ row.amount = amount /\ DOMAIN row.nets = names
      /\ \A k \in DOMAIN members : row.nets[members[k].name] = nets[k]
  BY LineReadBack
<1> HIDE DEF row, ids, names, userOf
<1>3. /\ \A n \in names : userOf[n] \in ids
      /\ \A a, b \in names : userOf[a] = userOf[b] => a = b
      /\ \A u \in ids : \E n \in names : userOf[n] = u
  BY <1>1 DEF Bijection, Injection, Surjection, IsInjective
<1>4. \A n \in names : row.nets[n] = eff[userOf[n]]
  <2> SUFFICES ASSUME NEW n \in names PROVE row.nets[n] = eff[userOf[n]]
    OBVIOUS
  <2>1. PICK k \in DOMAIN members : n = members[k].name
    BY <1>1
  <2> QED
    BY <1>1, <1>2, <2>1
<1>5. \A u \in ids : eff[u] \in Int /\ (u # payer => eff[u] <= 0)
  BY DEF Does, ids
<1>6. payer \in ids /\ eff[payer] <= amount /\ SumFunctionOnSet(eff, ids) = 0
  BY DEF Does, ids
<1>7. PICK q \in names : userOf[q] = payer
  BY <1>3, <1>6
<1>8. Balanced(row, q)
  <2>1. SumFunctionOnSet(row.nets, names) = SumFunctionOnSet(eff, ids)
    <3> DEFINE f == row.nets
    <3>1. \A n \in names : f[n] = eff[userOf[n]]
      BY <1>4
    <3>2. \A u \in ids : eff[u] \in Int
      BY <1>5
    <3> HIDE DEF f
    <3>3. SumFunctionOnSet(f, names) = SumFunctionOnSet(eff, ids)
      BY <1>1, <3>1, <3>2, SumRename
    <3> QED
      BY <3>3 DEF f
  <2>2. SumFunction(row.nets) = 0
    BY <1>2, <1>6, <2>1, SumOfFunction
  <2>3. \A n \in names : row.nets[n] \in Int /\ (n # q => row.nets[n] <= 0)
    BY <1>3, <1>4, <1>5, <1>7
  <2>4. row.nets[q] <= row.amount
    BY <1>2, <1>4, <1>6, <1>7
  <2> QED
    BY <1>1, <1>2, <1>7, <2>2, <2>3, <2>4 DEF Balanced
<1>9. /\ \A n \in names : Effect(x, userOf[n]) = row.nets[n]
      /\ \A u \in DOMAIN x.shares : x.shares[u] \in Nat \ {0}
      /\ SumFunction(x.shares) = x.amount
  <2>1. row.amount > 0 /\ DOMAIN row.nets \subseteq DOMAIN userOf
        /\ \A a, b \in DOMAIN row.nets : userOf[a] = userOf[b] => a = b
    BY <1>1, <1>2, <1>3
  <2>2. col \in PayerColumns(row)
    BY DEF row
  <2>3. LET y == ImportedExpense(row, userOf, col)
        IN  /\ \A n \in DOMAIN row.nets : Effect(y, userOf[n]) = row.nets[n]
            /\ \A u \in DOMAIN y.shares : y.shares[u] \in Nat \ {0}
            /\ SumFunction(y.shares) = y.amount
    BY <1>8, <2>1, <2>2, RowsKeepBalances
  <2> QED
    BY <1>2, <2>3
<1>10. x.amount = amount
  BY <1>2 DEF ImportedExpense
<1>11. \A u \in ids : Effect(x, u) = eff[u]
  <2> HIDE DEF x
  <2> QED
    BY <1>3, <1>4, <1>9
<1>12. SumFunction(x.shares) = amount /\ \A u \in DOMAIN x.shares : x.shares[u] \in Nat
  <2> HIDE DEF x
  <2> QED
    BY <1>9, <1>10
<1> HIDE DEF x
<1> QED
  BY <1>10, <1>11, <1>12 DEF x, row, userOf, ids

\* What an expense and a payment do to the balances of the members.
LEMMA ExpenseDoes ==
  ASSUME NEW ids, IsFiniteSet(ids), NEW e, e.amount \in Int, e.payer \in ids,
         DOMAIN e.shares \subseteq ids, \A u \in DOMAIN e.shares : e.shares[u] \in Nat,
         SumFunction(e.shares) = e.amount
  PROVE  Does([u \in ids |-> Effect(e, u)], ids, e.payer, e.amount)
<1> DEFINE payer == e.payer
           amount == e.amount
           shares == e.shares
           D == DOMAIN shares
           only == [u \in {payer} |-> amount]
           f == [u \in ids |-> IF u \in {payer} THEN only[u] ELSE 0]
           g == [u \in ids |-> IF u \in D THEN shares[u] ELSE 0]
           eff == [u \in ids |-> Effect(e, u)]
<1>1. /\ D \in SUBSET ids /\ IsFiniteSet(D)
      /\ {payer} \in SUBSET ids /\ IsFiniteSet({payer})
  BY FS_Subset, FS_Singleton
<1>2. /\ \A u \in {payer} : only[u] \in Int
      /\ \A u \in D : shares[u] \in Int
      /\ only[payer] = amount /\ amount \in Int
  OBVIOUS
<1>3. /\ \A u \in ids : f[u] = IF u \in {payer} THEN only[u] ELSE 0
      /\ \A u \in ids : g[u] = IF u \in D THEN shares[u] ELSE 0
  OBVIOUS
<1>4. \A u \in ids : eff[u] = f[u] - g[u]
  BY DEF Effect
<1>5. SumFunction(shares) = amount /\ SumFunction(shares) = SumFunctionOnSet(shares, D)
  BY SumOfFunction
<1>6. \A u \in D : shares[u] \in Nat
  OBVIOUS
<1>7. e.payer \in ids
  OBVIOUS
<1> HIDE DEF payer, amount, shares, D, only, f, g, eff
<1>8. \A u \in ids : f[u] \in Int /\ g[u] \in Nat /\ (u # payer => f[u] = 0)
  BY <1>2, <1>3, <1>6
<1>9. f[payer] = amount
  BY <1>1, <1>2, <1>3
<1>10. SumFunctionOnSet(f, ids) = SumFunctionOnSet(only, {payer})
  BY <1>1, <1>2, <1>3, SumSelect
<1>11. SumFunctionOnSet(g, ids) = SumFunctionOnSet(shares, D)
  BY <1>1, <1>2, <1>3, SumSelect
<1>12. SumFunctionOnSet(only, {payer}) = amount
  <2>1. SumFunctionOnSet(only, {payer}) = only[payer] + SumFunctionOnSet(only, {payer} \ {payer})
    BY <1>1, <1>2, SumRemove
  <2>2. {payer} \ {payer} = {}
    OBVIOUS
  <2>3. SumFunctionOnSet(only, {payer} \ {payer}) = 0
    BY <2>2, SumEmpty, Zenon
  <2> QED
    BY <1>2, <2>1, <2>3
<1>13. SumFunctionOnSet(eff, ids) = SumFunctionOnSet(f, ids) - SumFunctionOnSet(g, ids)
  <2>1. \A u \in ids : f[u] \in Int /\ g[u] \in Int /\ eff[u] = f[u] - g[u]
    BY <1>4, <1>8
  <2> QED
    BY <2>1, SumMinus
<1>14. SumFunctionOnSet(eff, ids) = 0
  BY <1>2, <1>5, <1>10, <1>11, <1>12, <1>13
<1>15. \A u \in ids : eff[u] \in Int /\ (u # payer => eff[u] <= 0)
  BY <1>4, <1>8
<1>16. payer \in ids /\ eff[payer] <= amount
  <2>1. payer \in ids
    BY <1>1
  <2>2. eff[payer] = amount - g[payer] /\ g[payer] \in Nat
    BY <1>4, <1>8, <1>9, <2>1
  <2> QED
    BY <1>2, <2>1, <2>2
<1> QED
  BY <1>14, <1>15, <1>16 DEF Does, eff, payer, amount

PaymentEffect(s, u) ==
  (IF u = s.from THEN s.amount ELSE 0) - (IF u = s.to THEN s.amount ELSE 0)

LEMMA PaymentDoes ==
  ASSUME NEW ids, IsFiniteSet(ids), NEW s, s.amount \in Nat, s.from \in ids, s.to \in ids
  PROVE  Does([u \in ids |-> PaymentEffect(s, u)], ids, s.from, s.amount)
<1> DEFINE e == [payer |-> s.from, amount |-> s.amount, shares |-> [u \in {s.to} |-> s.amount]]
           shares == [u \in {s.to} |-> s.amount]
<1>1. e.payer = s.from /\ e.amount = s.amount /\ e.shares = shares
  OBVIOUS
<1>2. DOMAIN shares = {s.to} /\ shares[s.to] = s.amount
  OBVIOUS
<1>3. SumFunction(shares) = s.amount
  <2>1. SumFunction(shares) = SumFunctionOnSet(shares, {s.to})
    BY <1>2, SumOfFunction
  <2> HIDE DEF shares
  <2>2. IsFiniteSet({s.to}) /\ \A u \in {s.to} : shares[u] \in Int
    <3>1. IsFiniteSet({s.to})
      BY FS_Singleton
    <3> QED
      BY <1>2, <3>1
  <2>3. SumFunctionOnSet(shares, {s.to})
          = shares[s.to] + SumFunctionOnSet(shares, {s.to} \ {s.to})
    BY <2>2, SumRemove
  <2>4. {s.to} \ {s.to} = {}
    OBVIOUS
  <2>5. SumFunctionOnSet(shares, {s.to} \ {s.to}) = 0
    BY <2>4, SumEmpty, Zenon
  <2> QED
    BY <1>2, <2>1, <2>3, <2>5
<1>4. \A u \in ids : Effect(e, u) = PaymentEffect(s, u)
  BY <1>1, <1>2 DEF Effect, PaymentEffect
<1> HIDE DEF e, shares
<1>5. Does([u \in ids |-> Effect(e, u)], ids, e.payer, e.amount)
  BY <1>1, <1>2, <1>3, ExpenseDoes
<1>6. [u \in ids |-> Effect(e, u)] = [u \in ids |-> PaymentEffect(s, u)]
  BY <1>4, Zenon
<1> QED
  BY <1>1, <1>5, <1>6

-----------------------------------------------------------------------------
Entries(l) == Len(l.expenses) + Len(l.settlements)
IsExpense(l, i) == i <= Len(l.expenses)
SettlementAt(l, i) == l.settlements[i - Len(l.expenses)]

\* What the i-th entry of a ledger says: its amount, who pays, what it does to
\* the balance of each member, and the nets of its line.
AmountAt(l, i) == IF IsExpense(l, i) THEN l.expenses[i].amount ELSE SettlementAt(l, i).amount
PayerAt(l, i) == IF IsExpense(l, i) THEN l.expenses[i].payer ELSE SettlementAt(l, i).from
DoneAt(l, i, u) == IF IsExpense(l, i) THEN Effect(l.expenses[i], u)
                                      ELSE PaymentEffect(SettlementAt(l, i), u)
EffectAt(l, i) == [u \in IdsOf(l.group.members) |-> DoneAt(l, i, u)]
NetsAt(l, i) == IF IsExpense(l, i) THEN expenseNets(l.group.members, l.expenses[i])
                                   ELSE settlementNets(l.group.members, SettlementAt(l, i))
CategoryAt(l, i) == IF IsExpense(l, i) THEN splitwiseCategoryName(l.expenses[i].category)
                                       ELSE "payment"

GoodExpense(e, ids) ==
  /\ e.date # NoDate /\ e.amount \in Nat \ {0}
  /\ e.category \in DOMAIN splitwiseCategoryNameBySlug
  /\ e.payer \in ids /\ DOMAIN e.shares \subseteq ids
  /\ \A u \in DOMAIN e.shares : e.shares[u] \in Nat
GoodSettlement(s, ids) ==
  s.date # NoDate /\ s.amount \in Nat \ {0} /\ s.from \in ids /\ s.to \in ids

\* The entries of a ledger, by their positions.
LEMMA LedgerEntries ==
  ASSUME NEW l, LedgerOK(l)
  PROVE  /\ Len(l.expenses) \in Nat /\ DOMAIN l.expenses = 1 .. Len(l.expenses)
         /\ Len(l.settlements) \in Nat /\ DOMAIN l.settlements = 1 .. Len(l.settlements)
         /\ \A i \in 1 .. Len(l.expenses) : GoodExpense(l.expenses[i], IdsOf(l.group.members))
         /\ \A j \in 1 .. Len(l.settlements) :
              GoodSettlement(l.settlements[j], IdsOf(l.group.members))
<1>2. l.expenses \in Seq(Range(l.expenses)) /\ l.settlements \in Seq(Range(l.settlements))
  BY Zenon DEF LedgerOK
<1>3. /\ Len(l.expenses) \in Nat /\ DOMAIN l.expenses = 1 .. Len(l.expenses)
      /\ Len(l.settlements) \in Nat /\ DOMAIN l.settlements = 1 .. Len(l.settlements)
  BY <1>2
<1>4. /\ \A e \in Range(l.expenses) : GoodExpense(e, IdsOf(l.group.members))
      /\ \A s \in Range(l.settlements) : GoodSettlement(s, IdsOf(l.group.members))
  BY Zenon DEF LedgerOK, GoodExpense, GoodSettlement, IdsOf
<1>5. /\ \A i \in 1 .. Len(l.expenses) : l.expenses[i] \in Range(l.expenses)
      /\ \A j \in 1 .. Len(l.settlements) : l.settlements[j] \in Range(l.settlements)
  BY <1>2, ElementsOfSeq, Zenon
<1> QED
  BY <1>3, <1>4, <1>5, Zenon

LEMMA FaithfulNames ==
  ASSUME NEW l, LedgerOK(l), Faithful(l)
  PROVE  /\ Named(l.group.members)
         /\ \A i \in 1 .. Len(l.expenses) : SumFunction(l.expenses[i].shares) = l.expenses[i].amount
<1> DEFINE members == l.group.members
<1>1. /\ members \in Seq([id : Nat, name : Columns])
      /\ \A k, m \in DOMAIN members : k # m => members[k].id # members[m].id
      /\ l.expenses \in Seq(Range(l.expenses))
  BY Zenon DEF LedgerOK
<1>2. /\ \A k, m \in DOMAIN members : k # m => members[k].name # members[m].name
      /\ \A e \in Range(l.expenses) : SumFunction(e.shares) = e.amount
  BY Zenon DEF Faithful
<1>3. \A i \in 1 .. Len(l.expenses) : l.expenses[i] \in Range(l.expenses)
  BY <1>1, ElementsOfSeq, Zenon
<1>4. Named(members)
  BY <1>1, <1>2, Zenon DEF Named
<1> QED
  BY <1>2, <1>3, <1>4, Zenon

LEMMA EntryAmount ==
  ASSUME NEW l, LedgerOK(l), NEW i \in 1 .. Entries(l)
  PROVE  AmountAt(l, i) \in Int /\ AmountAt(l, i) > 0
<1> DEFINE a == Len(l.expenses)
           b == Len(l.settlements)
           ids == IdsOf(l.group.members)
<1>1. /\ a \in Nat /\ b \in Nat
      /\ \A j \in 1 .. a : GoodExpense(l.expenses[j], ids)
      /\ \A j \in 1 .. b : GoodSettlement(l.settlements[j], ids)
  BY LedgerEntries, Zenon
<1>2. i \in 1 .. a + b
  BY Zenon DEF Entries
<1>3. CASE i <= a
  <2>1. i \in 1 .. a
    <3> HIDE DEF a, b
    <3> QED
      BY <1>1, <1>2, <1>3
  <2>2. AmountAt(l, i) = l.expenses[i].amount
    BY <1>3, Zenon DEF AmountAt, IsExpense
  <2> HIDE DEF a, b, ids
  <2> QED
    BY <1>1, <2>1, <2>2 DEF GoodExpense
<1>4. CASE ~(i <= a)
  <2>1. i - a \in 1 .. b
    <3> HIDE DEF a, b
    <3> QED
      BY <1>1, <1>2, <1>4
  <2>2. AmountAt(l, i) = l.settlements[i - a].amount
    BY <1>4, Zenon DEF AmountAt, SettlementAt, IsExpense
  <2> HIDE DEF a, b, ids
  <2> QED
    BY <1>1, <2>1, <2>2 DEF GoodSettlement
<1> QED
  BY <1>3, <1>4

\* What is written for an entry is what it does to the balances.
LEMMA EntryDoes ==
  ASSUME NEW l, LedgerOK(l), Faithful(l), NEW i \in 1 .. Entries(l)
  PROVE  /\ AmountAt(l, i) \in Int /\ AmountAt(l, i) > 0
         /\ Does(EffectAt(l, i), IdsOf(l.group.members), PayerAt(l, i), AmountAt(l, i))
         /\ NetsAt(l, i) \in [DOMAIN l.group.members -> Int]
         /\ \A k \in DOMAIN l.group.members :
              NetsAt(l, i)[k] = EffectAt(l, i)[l.group.members[k].id]
<1> DEFINE members == l.group.members
           ids == IdsOf(members)
           a == Len(l.expenses)
<1>1. /\ Named(members) /\ a \in Nat /\ Len(l.settlements) \in Nat
      /\ \A j \in 1 .. a : GoodExpense(l.expenses[j], ids)
      /\ \A j \in 1 .. Len(l.settlements) : GoodSettlement(l.settlements[j], ids)
      /\ \A j \in 1 .. a : SumFunction(l.expenses[j].shares) = l.expenses[j].amount
  BY LedgerEntries, FaithfulNames, Zenon
<1>2. IsFiniteSet(ids) /\ \A k \in DOMAIN members : members[k].id \in ids
  <2>1. Members(ids) /\ ids = {members[k].id : k \in DOMAIN members}
    BY <1>1, NamesLeadToMembers
  <2> HIDE DEF members, ids
  <2> QED
    BY <2>1 DEF Members
<1>3. /\ a \in Nat /\ Len(l.settlements) \in Nat
      /\ i \in Int /\ i >= 1 /\ i <= a + Len(l.settlements)
  <2>1. a \in Nat /\ Len(l.settlements) \in Nat
    BY <1>1, Zenon
  <2> HIDE DEF a
  <2>2. i \in 1 .. a + Len(l.settlements)
    BY DEF Entries, a
  <2> QED
    BY <2>1, <2>2
<1>4. CASE IsExpense(l, i)
  <2> DEFINE e == l.expenses[i]
             eff == [u \in ids |-> Effect(e, u)]
             nets == expenseNets(members, e)
  <2>1. GoodExpense(e, ids) /\ SumFunction(e.shares) = e.amount
    BY <1>1, <1>3, <1>4 DEF IsExpense
  <2>2. AmountAt(l, i) = e.amount /\ PayerAt(l, i) = e.payer /\ NetsAt(l, i) = nets
    BY <1>4, Zenon DEF AmountAt, PayerAt, NetsAt
  <2>3. EffectAt(l, i) = eff
    BY <1>4, Zenon DEF EffectAt, DoneAt
  <2> HIDE DEF members, ids, e
  <2>4. e.amount \in Int /\ e.amount > 0
    BY <2>1 DEF GoodExpense
  <2>5. Does(eff, ids, e.payer, e.amount)
    <3>1. /\ e.amount \in Int /\ e.payer \in ids /\ DOMAIN e.shares \subseteq ids
          /\ \A u \in DOMAIN e.shares : e.shares[u] \in Nat
          /\ SumFunction(e.shares) = e.amount
      BY <2>1, <2>4, Zenon DEF GoodExpense
    <3> QED
      BY <1>2, <3>1, ExpenseDoes
  <2>6. \A u \in ids : eff[u] \in Int
    BY <2>5, Zenon DEF Does
  <2>7. \A k \in DOMAIN members : nets[k] = eff[members[k].id]
    BY <1>2, Zenon DEF expenseNets, Effect
  <2> DEFINE net(k) == (IF members[k].id = e.payer THEN e.amount ELSE 0)
                         - (IF members[k].id \in DOMAIN e.shares THEN e.shares[members[k].id] ELSE 0)
  <2>8. nets = [k \in DOMAIN members |-> net(k)]
    BY Zenon DEF expenseNets
  <2> HIDE DEF net
  <2> HIDE DEF eff, nets
  <2>9. nets \in [DOMAIN members -> Int]
    BY <1>2, <2>6, <2>7, <2>8
  <2> QED
    BY <2>2, <2>3, <2>4, <2>5, <2>7, <2>9 DEF members, ids
<1>5. CASE ~IsExpense(l, i)
  <2> DEFINE s == SettlementAt(l, i)
             eff == [u \in ids |-> PaymentEffect(s, u)]
             nets == settlementNets(members, s)
  <2>1. GoodSettlement(s, ids)
    <3>1. i - a \in 1 .. Len(l.settlements)
      <4> DEFINE b == Len(l.settlements)
      <4>1. a \in Nat /\ b \in Nat /\ i \in Int /\ i <= a + b /\ ~(i <= a)
        BY <1>3, <1>5, Zenon DEF IsExpense
      <4> HIDE DEF a, b
      <4> QED
        BY <4>1 DEF b
    <3> QED
      BY <1>1, <3>1 DEF SettlementAt
  <2>2. AmountAt(l, i) = s.amount /\ PayerAt(l, i) = s.from /\ NetsAt(l, i) = nets
    BY <1>5, Zenon DEF AmountAt, PayerAt, NetsAt
  <2>3. EffectAt(l, i) = eff
    BY <1>5, Zenon DEF EffectAt, DoneAt
  <2> HIDE DEF members, ids, s
  <2>4. s.amount \in Nat /\ s.amount > 0
    BY <2>1 DEF GoodSettlement
  <2>5. Does(eff, ids, s.from, s.amount)
    <3>1. s.amount \in Nat /\ s.from \in ids /\ s.to \in ids
      BY <2>1, <2>4, Zenon DEF GoodSettlement
    <3> QED
      BY <1>2, <3>1, PaymentDoes
  <2>6. \A u \in ids : eff[u] \in Int
    BY <2>5, Zenon DEF Does
  <2>7. \A k \in DOMAIN members : nets[k] = eff[members[k].id]
    BY <1>2, Zenon DEF settlementNets, PaymentEffect
  <2> DEFINE net(k) == (IF members[k].id = s.from THEN s.amount ELSE 0)
                         - (IF members[k].id = s.to THEN s.amount ELSE 0)
  <2>8. nets = [k \in DOMAIN members |-> net(k)]
    BY Zenon DEF settlementNets
  <2> HIDE DEF net
  <2> HIDE DEF eff, nets
  <2>9. nets \in [DOMAIN members -> Int]
    BY <1>2, <2>6, <2>7, <2>8
  <2> QED
    BY <2>2, <2>3, <2>4, <2>5, <2>7, <2>9 DEF members, ids
<1> QED
  BY <1>4, <1>5

LineOf(l, date, category, amount, nets) ==
  [date |-> date, category |-> category, cost |-> formatCents(amount),
   currency |-> l.group.currency, cells |-> CellsOf(nets)]

\* A line of the file holds the i-th entry of the ledger.
Writes(line, l, i) ==
  /\ line.date # NoDate /\ line.currency = l.group.currency
  /\ line.category = CategoryAt(l, i) /\ Holds(line, NetsAt(l, i), AmountAt(l, i))

\* The file has the summary first, and then a line for each entry.
LEMMA LedgerWritten ==
  ASSUME NEW l, LedgerOK(l)
  PROVE  LET file == ExportGroupCSV(l.group, l.expenses, l.settlements)
         IN  /\ file.header = HeadOf(l.group.members)
             /\ Len(file.lines) = 1 + Entries(l)
             /\ DOMAIN file.lines = 1 .. 1 + Entries(l)
             /\ file.lines[1].date = NoDate
             /\ \A i \in 1 .. Entries(l) : Writes(file.lines[i + 1], l, i)
<1> DEFINE members == l.group.members
           ids == IdsOf(members)
           expenses == l.expenses
           settlements == l.settlements
           a == Len(expenses)
           b == Len(settlements)
           E(i) == LineOf(l, expenses[i].date, splitwiseCategoryName(expenses[i].category),
                          expenses[i].amount, expenseNets(members, expenses[i]))
           P(i) == LineOf(l, settlements[i].date, "payment", settlements[i].amount,
                          settlementNets(members, settlements[i]))
           paid == [i \in DOMAIN expenses |-> E(i)]
           settled == [i \in DOMAIN settlements |-> P(i)]
           nets == [i \in DOMAIN expenses |-> expenseNets(members, expenses[i])]
                     \o [i \in DOMAIN settlements |-> settlementNets(members, settlements[i])]
           totals == [k \in DOMAIN members |-> SumFunction([i \in DOMAIN nets |-> nets[i][k]])]
           summary == [date |-> NoDate, category |-> "", cost |-> NoText,
                       currency |-> NoText, cells |-> CellsOf(totals)]
           file == ExportGroupCSV(l.group, expenses, settlements)
<1>1. file = [header |-> HeadOf(members), lines |-> <<summary>> \o paid \o settled]
  BY Zenon DEF ExportGroupCSV, HeadOf, LineOf
<1>2. file.header = HeadOf(members) /\ file.lines = <<summary>> \o paid \o settled
  <2> DEFINE header == HeadOf(members)
             lines == <<summary>> \o paid \o settled
  <2> HIDE DEF file, header, lines
  <2> QED
    BY <1>1 DEF header, lines
<1>3. summary.date = NoDate
  <2> HIDE DEF totals
  <2> QED
    OBVIOUS
<1>4. /\ a \in Nat /\ DOMAIN expenses = 1 .. a
      /\ b \in Nat /\ DOMAIN settlements = 1 .. b
  BY LedgerEntries, Zenon
<1>5. /\ \A i \in 1 .. a : expenses[i].date # NoDate
      /\ \A i \in 1 .. b : settlements[i].date # NoDate
  BY LedgerEntries, Zenon DEF GoodExpense, GoodSettlement
<1>6. ASSUME NEW i \in 1 .. a PROVE Writes(E(i), l, i)
  <2> DEFINE e == expenses[i]
  <2>1. IsExpense(l, i)
    BY <1>4 DEF IsExpense
  <2>2. /\ CategoryAt(l, i) = splitwiseCategoryName(e.category)
        /\ NetsAt(l, i) = expenseNets(members, e) /\ AmountAt(l, i) = e.amount
    BY <2>1, Zenon DEF CategoryAt, NetsAt, AmountAt
  <2>3. /\ E(i).date = e.date /\ E(i).currency = l.group.currency
        /\ E(i).category = splitwiseCategoryName(e.category)
        /\ E(i).cost = formatCents(e.amount)
        /\ E(i).cells = CellsOf(expenseNets(members, e))
    BY DEF LineOf
  <2> HIDE DEF E
  <2> QED
    BY <1>5, <2>2, <2>3 DEF Writes, Holds
<1>7. ASSUME NEW j \in 1 .. b PROVE Writes(P(j), l, a + j)
  <2> DEFINE s == settlements[j]
             i == a + j
  <2>1. i - a = j /\ ~(i <= a)
    <3> HIDE DEF a, b
    <3> QED
      BY <1>4
  <2>2. ~IsExpense(l, i) /\ SettlementAt(l, i) = s
    BY <2>1, Zenon DEF IsExpense, SettlementAt
  <2>3. /\ CategoryAt(l, i) = "payment"
        /\ NetsAt(l, i) = settlementNets(members, s) /\ AmountAt(l, i) = s.amount
    BY <2>2, Zenon DEF CategoryAt, NetsAt, AmountAt
  <2>4. /\ P(j).date = s.date /\ P(j).currency = l.group.currency
        /\ P(j).category = "payment"
        /\ P(j).cost = formatCents(s.amount)
        /\ P(j).cells = CellsOf(settlementNets(members, s))
    BY DEF LineOf
  <2> HIDE DEF P, i
  <2> QED
    BY <1>5, <2>3, <2>4 DEF Writes, Holds, i
<1> HIDE DEF E, P, summary, file, a, b, expenses, settlements, members
<1>8. /\ paid \in [1 .. a -> {paid[i] : i \in 1 .. a}] /\ \A i \in 1 .. a : paid[i] = E(i)
      /\ settled \in [1 .. b -> {settled[i] : i \in 1 .. b}] /\ \A i \in 1 .. b : settled[i] = P(i)
  BY <1>4
<1> HIDE DEF paid, settled
<1> DEFINE S == {summary} \cup {paid[i] : i \in 1 .. a} \cup {settled[i] : i \in 1 .. b}
<1>9. /\ paid \in [1 .. a -> S] /\ settled \in [1 .. b -> S] /\ summary \in S
  BY <1>8
<1> HIDE DEF S
<1>10. /\ paid \in Seq(S) /\ Len(paid) = a /\ settled \in Seq(S) /\ Len(settled) = b
  BY <1>4, <1>9, ListIsSeq
<1>11. <<summary>> \in Seq(S) /\ Len(<<summary>>) = 1 /\ <<summary>>[1] = summary
  BY <1>9
<1> DEFINE first == <<summary>>
           most == first \o paid
           lines == most \o settled
<1> HIDE DEF first
<1>12. /\ most \in Seq(S) /\ Len(most) = 1 + a /\ most[1] = summary
       /\ \A i \in 1 .. a : most[i + 1] = E(i)
  <2>1. first \in Seq(S) /\ Len(first) = 1 /\ first[1] = summary
    BY <1>11 DEF first
  <2>2. /\ most \in Seq(S) /\ Len(most) = Len(first) + Len(paid)
        /\ \A i \in 1 .. Len(first) : most[i] = first[i]
        /\ \A i \in Len(first) + 1 .. Len(first) + Len(paid) :
             most[i] = paid[i - Len(first)]
    BY <1>10, <2>1, JoinedLists, Zenon
  <2> HIDE DEF most
  <2>3. \A i \in 1 .. a : i + 1 \in 1 + 1 .. 1 + a /\ (i + 1) - 1 = i
    BY <1>4
  <2> QED
    BY <1>8, <1>10, <2>1, <2>2, <2>3
<1> HIDE DEF most
<1>13. /\ lines \in Seq(S) /\ Len(lines) = 1 + a + b /\ lines[1] = summary
       /\ \A i \in 1 .. a : lines[i + 1] = E(i)
       /\ \A j \in 1 .. b : lines[a + j + 1] = P(j)
  <2>2. /\ lines \in Seq(S) /\ Len(lines) = Len(most) + Len(settled)
        /\ \A i \in 1 .. Len(most) : lines[i] = most[i]
        /\ \A i \in Len(most) + 1 .. Len(most) + Len(settled) :
             lines[i] = settled[i - Len(most)]
    <3>1. most \in Seq(S)
      BY <1>12
    <3>2. settled \in Seq(S)
      BY <1>10
    <3> QED
      BY <3>1, <3>2, JoinedLists, Zenon
  <2> HIDE DEF lines
  <2>3. /\ Len(most) = 1 + a /\ Len(settled) = b /\ a \in Nat /\ b \in Nat
    BY <1>4, <1>10, <1>12
  <2>4. lines[1] = summary
    <3>1. 1 \in 1 .. Len(most)
      BY <2>3
    <3> QED
      BY <1>12, <2>2, <3>1
  <2>5. ASSUME NEW i \in 1 .. a PROVE lines[i + 1] = E(i)
    <3>1. i + 1 \in 1 .. Len(most)
      BY <2>3
    <3> QED
      BY <1>12, <2>2, <3>1
  <2>6. ASSUME NEW j \in 1 .. b PROVE lines[a + j + 1] = P(j)
    <3> DEFINE k == a + j + 1
    <3>1. k \in Len(most) + 1 .. Len(most) + Len(settled) /\ k - Len(most) = j
      BY <2>3
    <3> HIDE DEF k
    <3>2. lines[k] = settled[k - Len(most)]
      BY <2>2, <3>1, Zenon
    <3>3. lines[k] = P(j)
      BY <1>8, <3>1, <3>2
    <3> QED
      BY <3>3 DEF k
  <2>7. Len(lines) = 1 + a + b
    BY <2>2, <2>3
  <2> QED
    BY <2>2, <2>4, <2>5, <2>6, <2>7
<1>14. file.lines = lines
  BY <1>2 DEF lines, most, first
<1> HIDE DEF lines
<1>15. Entries(l) = a + b
  BY DEF Entries, a, b, expenses, settlements
<1>16. ASSUME NEW i \in 1 .. Entries(l) PROVE Writes(lines[i + 1], l, i)
  <2>1. CASE i <= a
    <3>1. i \in 1 .. a
      BY <1>4, <1>15, <2>1
    <3> QED
      BY <1>6, <1>13, <3>1
  <2>2. CASE ~(i <= a)
    <3> DEFINE j == i - a
    <3>1. j \in 1 .. b /\ i = a + j
      BY <1>4, <1>15, <2>2
    <3> HIDE DEF j
    <3> QED
      BY <1>7, <1>13, <3>1
  <2> QED
    BY <2>1, <2>2
<1>17. Len(lines) = 1 + Entries(l) /\ DOMAIN lines = 1 .. 1 + Entries(l)
  BY <1>4, <1>13, <1>15
<1> QED
  BY <1>2, <1>3, <1>13, <1>14, <1>16, <1>17 DEF file, expenses, settlements, members

\* Read back, there is a row for each entry, and none for the summary.
LEMMA LedgerRead ==
  ASSUME NEW l, LedgerOK(l)
  PROVE  LET rows == ParsePreview(l.group.currency,
                                  ExportGroupCSV(l.group, l.expenses, l.settlements)).rows
         IN  /\ DOMAIN rows = 2 .. 1 + Entries(l)
             /\ \A i \in 1 .. Entries(l) :
                  \E line : /\ Writes(line, l, i)
                            /\ rows[i + 1] = RowOf(HeadOf(l.group.members), line)
<1> DEFINE n == Entries(l)
           currency == l.group.currency
           header == HeadOf(l.group.members)
           file == ExportGroupCSV(l.group, l.expenses, l.settlements)
           lines == file.lines
           rows == ParsePreview(currency, file).rows
           dated == {i \in DOMAIN lines : lines[i].date # NoDate}
           readable(line) == /\ line.currency = currency /\ line.cost # NoText
                             /\ parseCents(line.cost) # 0
           good == {i \in dated : readable(lines[i])}
<1>1. /\ file.header = header /\ DOMAIN lines = 1 .. 1 + n
      /\ lines[1].date = NoDate
      /\ \A i \in 1 .. n : Writes(lines[i + 1], l, i)
  BY LedgerWritten, Zenon
<1>2. n \in Nat
  <2> DEFINE a == Len(l.expenses)
             b == Len(l.settlements)
  <2>1. a \in Nat /\ b \in Nat
    BY LedgerEntries, Zenon
  <2>2. n = a + b
    BY DEF Entries
  <2> HIDE DEF n, a, b
  <2> QED
    BY <2>1, <2>2
<1>3. rows = [i \in good |-> RowOf(file.header, lines[i])]
  <2> DEFINE r == [i \in good |-> RowOf(file.header, lines[i])]
             s == Len(lines) - Cardinality(good)
             m == good = {} /\ \E i \in dated : lines[i].currency # currency
  <2>1. ParsePreview(currency, file) = [rows |-> r, skipped |-> s, mismatch |-> m]
    BY Zenon DEF ParsePreview
  <2> HIDE DEF r, s, m
  <2>2. rows = r
    BY <2>1
  <2> QED
    BY <2>2 DEF r
<1>4. ASSUME NEW i \in 1 .. n PROVE lines[i + 1].date # NoDate /\ readable(lines[i + 1])
  <2>1. Writes(lines[i + 1], l, i)
    BY <1>1
  <2>2. AmountAt(l, i) \in Int /\ AmountAt(l, i) > 0
    BY EntryAmount
  <2>3. formatCents(AmountAt(l, i)) # NoText
        /\ parseCents(formatCents(AmountAt(l, i))) = AmountAt(l, i)
    BY <2>2, WrittenIsText, AmountsSurvive
  <2> HIDE DEF lines
  <2>4. /\ lines[i + 1].cost = formatCents(AmountAt(l, i))
        /\ lines[i + 1].currency = currency /\ lines[i + 1].date # NoDate
    BY <2>1 DEF Writes, Holds
  <2> QED
    BY <2>2, <2>3, <2>4
<1> HIDE DEF lines, readable, header, rows
<1>5. good = 2 .. 1 + n
  <2>1. ASSUME NEW i \in 2 .. 1 + n PROVE i \in good
    <3> DEFINE j == i - 1
    <3>1. j \in 1 .. n /\ i = j + 1 /\ i \in 1 .. 1 + n
      BY <1>2
    <3> HIDE DEF j
    <3> QED
      BY <1>1, <1>4, <3>1
  <2>2. ASSUME NEW i \in good PROVE i \in 2 .. 1 + n
    <3>1. i \in 1 .. 1 + n /\ i # 1
      BY <1>1
    <3> QED
      BY <1>2, <3>1
  <2> QED
    BY <2>1, <2>2
<1>6. ASSUME NEW i \in 1 .. n PROVE i + 1 \in good
  BY <1>2, <1>5
<1> HIDE DEF good
<1>7. DOMAIN rows = 2 .. 1 + n
      /\ \A i \in 1 .. n : rows[i + 1] = RowOf(header, lines[i + 1])
  BY <1>1, <1>3, <1>5, <1>6
<1> QED
  BY <1>1, <1>7 DEF rows, header

AsRow(i, e) == [id |-> i, payer |-> e.payer, amount |-> e.amount, shares |-> e.shares]
AsPayment(i, s) == [id |-> i, from |-> s.from, to |-> s.to, amount |-> s.amount]

\* What all the entries of a ledger do to the balance of each member.
TotalDone(l) ==
  [u \in IdsOf(l.group.members) |->
     SumFunctionOnSet([i \in 1 .. Entries(l) |-> DoneAt(l, i, u)], 1 .. Entries(l))]

\* The numbers of a set are told apart by what they stand for.
Numbers(h, I, T) ==
  /\ IsFiniteSet(I) /\ DOMAIN h = I /\ T = {h[i] : i \in I}
  /\ \A i, j \in I : h[i] = h[j] => i = j

\* A sum over expenses, or payments, is one over their numbers.
LEMMA SumNumbered ==
  ASSUME NEW I, NEW h, NEW T, Numbers(h, I, T),
         NEW f, \A i \in I : f[h[i]] \in Int,
         NEW g, \A i \in I : g[i] = f[h[i]]
  PROVE  IsFiniteSet(T) /\ SumFunctionOnSet(f, T) = SumFunctionOnSet(g, I)
<1> DEFINE p == [i \in I |-> h[i]]
<1>1. IsFiniteSet(T) /\ IsFiniteSet(I)
  BY FiniteRange DEF Numbers
<1>2. p \in Bijection(I, T)
  BY DEF Bijection, Injection, Surjection, IsInjective, Numbers
<1>3. /\ \A x \in T : f[x] \in Int
      /\ \A i \in I : g[i] = f[p[i]]
  BY DEF Numbers
<1> HIDE DEF p
<1>4. SumFunctionOnSet(g, I) = SumFunctionOnSet(f, T)
  BY <1>1, <1>2, <1>3, SumRename
<1> QED
  BY <1>1, <1>4

LEMMA NumberedFinite == ASSUME NEW I, NEW h, NEW T, Numbers(h, I, T) PROVE IsFiniteSet(T)
BY FiniteRange DEF Numbers

\* The balances of a ledger are what its entries do.
LEMMA LedgerTotals ==
  ASSUME NEW l, LedgerOK(l)
  PROVE  NetBalances(IdsOf(l.group.members),
                     {AsRow(i, l.expenses[i]) : i \in DOMAIN l.expenses},
                     {AsPayment(i, l.settlements[i]) : i \in DOMAIN l.settlements})
           = TotalDone(l)
<1> DEFINE ids == IdsOf(l.group.members)
           E == l.expenses
           P == l.settlements
           a == Len(E)
           b == Len(P)
           I == 1 .. a
           J == 1 .. b
           K == 1 .. a + b
           x == [i \in I |-> AsRow(i, E[i])]
           s == [j \in J |-> AsPayment(j, P[j])]
           X == {x[i] : i \in I}
           Y == {s[j] : j \in J}
           net == NetBalances(ids, X, Y)
<1>1. a \in Nat /\ b \in Nat /\ DOMAIN E = I /\ DOMAIN P = J
  BY LedgerEntries, Zenon
<1>2. /\ \A i \in I : GoodExpense(E[i], ids)
      /\ \A j \in J : GoodSettlement(P[j], ids)
  BY LedgerEntries, Zenon
<1>3. /\ {AsRow(i, E[i]) : i \in DOMAIN E} = X
      /\ {AsPayment(j, P[j]) : j \in DOMAIN P} = Y
  BY <1>1
<1>4. /\ \A i \in I : /\ x[i].id = i /\ x[i].payer = E[i].payer
                      /\ x[i].amount = E[i].amount /\ x[i].shares = E[i].shares
      /\ \A j \in J : /\ s[j].id = j /\ s[j].from = P[j].from
                      /\ s[j].to = P[j].to /\ s[j].amount = P[j].amount
  BY DEF AsRow, AsPayment
<1>5. Numbers(x, I, X) /\ Numbers(s, J, Y) /\ IsFiniteSet(I) /\ IsFiniteSet(J)
  <2>1. IsFiniteSet(I) /\ IsFiniteSet(J)
    BY <1>1, FirstNumbers
  <2>2. DOMAIN x = I /\ DOMAIN s = J
    OBVIOUS
  <2> HIDE DEF x, s, I, J
  <2>3. \A i, j \in I : x[i] = x[j] => i = j
    BY <1>4
  <2>4. \A i, j \in J : s[i] = s[j] => i = j
    BY <1>4
  <2> QED
    BY <2>1, <2>2, <2>3, <2>4 DEF Numbers
<1> HIDE DEF ids, E, P, x, s
<1>6. ExpenseRows(X) /\ PaymentRows(Y)
  <2>1. IsFiniteSet(X) /\ IsFiniteSet(Y)
    BY <1>5, FiniteRange DEF Numbers
  <2>2. \A i \in I : x[i].amount \in Int /\ \A u \in DOMAIN x[i].shares : x[i].shares[u] \in Int
    BY <1>2, <1>4 DEF GoodExpense
  <2>3. \A j \in J : s[j].amount \in Int
    BY <1>2, <1>4 DEF GoodSettlement
  <2> QED
    BY <2>1, <2>2, <2>3 DEF ExpenseRows, PaymentRows
<1>7. ASSUME NEW u \in ids PROVE net[u] = TotalDone(l)[u]
  <2> DEFINE ab == [e \in X |-> (IF e.payer = u THEN e.amount ELSE 0)
                                  - (IF u \in DOMAIN e.shares THEN e.shares[u] ELSE 0)]
             cd == [t \in Y |-> (IF t.from = u THEN t.amount ELSE 0)
                                  - (IF t.to = u THEN t.amount ELSE 0)]
             done == [k \in K |-> DoneAt(l, k, u)]
             f == [i \in I |-> Effect(E[i], u)]
             g == [j \in J |-> PaymentEffect(P[j], u)]
  <2>1. net[u] = SumFunctionOnSet(ab, X) + SumFunctionOnSet(cd, Y)
    <3>1. net[u] = userNet(u, X, Y)
      BY <1>6, NetOfMember
    <3>2. userNet(u, X, Y) = SumFunction(ab) + SumFunction(cd)
      BY Zenon DEF userNet
    <3>3. SumFunction(ab) = SumFunctionOnSet(ab, X) /\ SumFunction(cd) = SumFunctionOnSet(cd, Y)
      BY SumOfFunction
    <3> HIDE DEF ab, cd, net, X, Y
    <3> QED
      BY <3>1, <3>2, <3>3
  <2>2. TotalDone(l)[u] = SumFunctionOnSet(done, K)
    <3>1. TotalDone(l)
            = [v \in ids |-> SumFunctionOnSet([k \in K |-> DoneAt(l, k, v)], K)]
      BY Zenon DEF TotalDone, Entries, ids, E, P
    <3> QED
      BY <3>1, Zenon
  <2>3. /\ \A i \in I : ab[x[i]] = f[i] /\ f[i] \in Int
        /\ \A j \in J : cd[s[j]] = g[j] /\ g[j] \in Int
    <3>1. /\ \A i \in I : ab[x[i]] = f[i]
          /\ \A j \in J : cd[s[j]] = g[j]
      BY <1>4 DEF Effect, PaymentEffect
    <3>2. \A i \in I : f[i] \in Int
      BY <1>2 DEF Effect, GoodExpense
    <3>3. \A j \in J : g[j] \in Int
      BY <1>2 DEF PaymentEffect, GoodSettlement
    <3> QED
      BY <3>1, <3>2, <3>3
  <2>4. /\ \A k \in K : k <= a => done[k] = f[k]
        /\ \A k \in K : ~(k <= a) => done[k] = g[k - a]
    <3>1. ASSUME NEW k \in K, k <= a PROVE done[k] = f[k]
      <4>1. k \in I /\ IsExpense(l, k)
        BY <1>1, <3>1 DEF IsExpense, E
      <4> QED
        BY <4>1 DEF DoneAt, E
    <3>2. ASSUME NEW k \in K, ~(k <= a) PROVE done[k] = g[k - a]
      <4>1. k - a \in J /\ ~IsExpense(l, k)
        BY <1>1, <3>2 DEF IsExpense, E
      <4> QED
        BY <4>1 DEF DoneAt, SettlementAt, E, P
    <3> QED
      BY <3>1, <3>2
  <2> HIDE DEF ab, cd, done, f, g
  <2>5. SumFunctionOnSet(ab, X) = SumFunctionOnSet(f, I)
    <3>1. /\ \A i \in I : ab[x[i]] \in Int
          /\ \A i \in I : f[i] = ab[x[i]]
      BY <2>3
    <3> HIDE DEF I, X
    <3> QED
      BY <1>5, <3>1, SumNumbered
  <2>6. SumFunctionOnSet(cd, Y) = SumFunctionOnSet(g, J)
    <3>1. /\ \A j \in J : cd[s[j]] \in Int
          /\ \A j \in J : g[j] = cd[s[j]]
      BY <2>3
    <3> HIDE DEF J, Y
    <3> QED
      BY <1>5, <3>1, SumNumbered
  <2> DEFINE R == a + 1 .. a + b
  <2>7. SumFunctionOnSet(done, I) = SumFunctionOnSet(f, I)
    <3>1. /\ \A i \in I : f[i] \in Int
          /\ \A i \in I : done[i] = f[i]
      BY <1>1, <2>3, <2>4
    <3> HIDE DEF I
    <3> QED
      BY <1>5, <3>1, SumSame
  <2>8. IsFiniteSet(R) /\ SumFunctionOnSet(done, R) = SumFunctionOnSet(g, J)
    <3> DEFINE h == [j \in J |-> a + j]
    <3>1. \A j \in J : h[j] = a + j /\ a + j \in K /\ ~(a + j <= a) /\ a + j - a = j
      BY <1>1
    <3>2. R = {h[j] : j \in J}
      <4>1. \A r \in R : r - a \in J /\ a + (r - a) = r
        BY <1>1
      <4>2. \A j \in J : a + j \in R
        BY <1>1
      <4> HIDE DEF R, J
      <4> QED
        BY <4>1, <4>2
    <3>3. /\ \A j \in J : done[h[j]] = g[j]
          /\ \A j \in J : done[h[j]] \in Int
      BY <2>3, <2>4, <3>1
    <3>4. Numbers(h, J, R)
      <4>1. DOMAIN h = J /\ \A i, j \in J : h[i] = h[j] => i = j
        BY <1>1
      <4> HIDE DEF h, J, R
      <4> QED
        BY <1>5, <3>2, <4>1 DEF Numbers
    <3> HIDE DEF h, J, R
    <3>5. /\ \A j \in J : g[j] = done[h[j]]
          /\ \A j \in J : done[h[j]] \in Int
      BY <3>3
    <3> QED
      BY <3>4, <3>5, SumNumbered
  <2>9. SumFunctionOnSet(done, K) = SumFunctionOnSet(done, I) + SumFunctionOnSet(done, R)
    <3>1. K = I \cup R /\ I \cap R = {}
      BY <1>1
    <3>2. \A k \in I \cup R : done[k] \in Int
      <4>1. \A k \in K : k <= a => k \in I
        BY <1>1
      <4>2. \A k \in K : ~(k <= a) => k - a \in J
        BY <1>1
      <4> HIDE DEF I, J, K, R
      <4> QED
        BY <2>3, <2>4, <3>1, <4>1, <4>2
    <3> HIDE DEF I, J, K, R
    <3> QED
      BY <1>5, <2>8, <3>1, <3>2, SumDisjoint
  <2> QED
    BY <2>1, <2>2, <2>5, <2>6, <2>7, <2>8, <2>9
<1>8. net = TotalDone(l)
  <2> DEFINE done(v) == SumFunctionOnSet([k \in 1 .. Entries(l) |-> DoneAt(l, k, v)], 1 .. Entries(l))
             bal(v) == Sum([e \in {e \in X : e.payer = v} |-> e.amount])
                         - Sum([e \in {e \in X : v \in DOMAIN e.shares} |-> e.shares[v]])
                         + Sum([t \in {t \in Y : t.from = v} |-> t.amount])
                         - Sum([t \in {t \in Y : t.to = v} |-> t.amount])
  <2>1. net = [v \in ids |-> bal(v)] /\ TotalDone(l) = [v \in ids |-> done(v)]
    BY Zenon DEF NetBalances, TotalDone, ids
  <2> HIDE DEF net, done, bal
  <2> QED
    BY <1>7, <2>1
<1> QED
  BY <1>3, <1>8 DEF ids, E, P

\* The rows read back of a ledger.
Reads(rows, l) ==
  /\ DOMAIN rows = 2 .. 1 + Entries(l)
  /\ \A i \in 1 .. Entries(l) :
       \E line : Writes(line, l, i) /\ rows[i + 1] = RowOf(HeadOf(l.group.members), line)

\* For each row, one of the columns that may be taken for its payer's.
Picks(choice, rows) == \A i \in DOMAIN rows : choice[i] \in PayerColumns(rows[i])

ImportedNets(l, rows, choice) ==
  NetBalances(IdsOf(l.group.members),
              {AsRow(i, ImportedExpense(rows[i], UserOf(l.group.members), choice[i]))
                 : i \in DOMAIN rows}, {})

\* Imported, they add up to what the entries of the ledger do.
LEMMA ImportTotals ==
  ASSUME NEW l, LedgerOK(l), Faithful(l), NEW rows, Reads(rows, l),
         NEW choice, Picks(choice, rows)
  PROVE  ImportedNets(l, rows, choice) = TotalDone(l)
<1> DEFINE members == l.group.members
           ids == IdsOf(members)
           userOf == UserOf(members)
           n == Entries(l)
           K == 1 .. n
           imported(i) == ImportedExpense(rows[i], userOf, choice[i])
           x == [k \in K |-> AsRow(k + 1, imported(k + 1))]
           X == {x[k] : k \in K}
           net == NetBalances(ids, X, {})
<1>1. n \in Nat
  <2> DEFINE a == Len(l.expenses)
             b == Len(l.settlements)
  <2>1. a \in Nat /\ b \in Nat
    BY LedgerEntries, Zenon
  <2>2. n = a + b
    BY DEF Entries
  <2> HIDE DEF n, a, b
  <2> QED
    BY <2>1, <2>2
<1>2. Named(members)
  BY FaithfulNames
<1>3. DOMAIN rows = 2 .. 1 + n
  BY DEF Reads
<1>4. ASSUME NEW k \in K
      PROVE  /\ imported(k + 1).amount \in Int
             /\ \A u \in DOMAIN imported(k + 1).shares : imported(k + 1).shares[u] \in Nat
             /\ \A u \in ids : /\ Effect(imported(k + 1), u) = DoneAt(l, k, u)
                               /\ DoneAt(l, k, u) \in Int
  <2> DEFINE nets == NetsAt(l, k)
             amount == AmountAt(l, k)
             eff == EffectAt(l, k)
             payer == PayerAt(l, k)
             col == choice[k + 1]
  <2>1. PICK line : Writes(line, l, k) /\ rows[k + 1] = RowOf(HeadOf(members), line)
    BY Zenon DEF Reads
  <2>2. Holds(line, nets, amount)
    BY <2>1 DEF Writes
  <2>3. /\ amount \in Int /\ amount > 0 /\ Does(eff, ids, payer, amount)
        /\ nets \in [DOMAIN members -> Int]
        /\ \A m \in DOMAIN members : nets[m] = eff[members[m].id]
    BY EntryDoes
  <2>4. col \in PayerColumns(RowOf(HeadOf(members), line))
    <3>1. k + 1 \in DOMAIN rows
      BY <1>1, <1>3
    <3> QED
      BY <2>1, <3>1 DEF Picks
  <2>5. \A u \in ids : eff[u] = DoneAt(l, k, u)
    BY DEF EffectAt
  <2>6. \A u \in ids : eff[u] \in Int
    BY <2>3, Zenon DEF Does
  <2> HIDE DEF nets, amount, eff, payer, col, members, ids, userOf
  <2>7. LET y == ImportedExpense(RowOf(HeadOf(members), line), UserOf(members), col)
        IN  /\ y.amount = amount
            /\ \A u \in DOMAIN y.shares : y.shares[u] \in Nat
            /\ \A u \in IdsOf(members) : Effect(y, u) = eff[u]
    BY <1>2, <2>2, <2>3, <2>4, LineImported DEF ids
  <2>8. imported(k + 1) = ImportedExpense(RowOf(HeadOf(members), line), UserOf(members), col)
    BY <2>1, Zenon DEF userOf, col
  <2> HIDE DEF imported
  <2> QED
    BY <2>3, <2>5, <2>6, <2>7, <2>8 DEF ids
<1>5. {AsRow(i, imported(i)) : i \in DOMAIN rows} = X
  <2> HIDE DEF imported
  <2>1. \A k \in K : k + 1 \in DOMAIN rows /\ x[k] = AsRow(k + 1, imported(k + 1))
    BY <1>1, <1>3
  <2>2. \A i \in DOMAIN rows : i - 1 \in K /\ (i - 1) + 1 = i
    BY <1>1, <1>3
  <2> HIDE DEF x, K
  <2>3. \A i \in DOMAIN rows : x[i - 1] = AsRow(i, imported(i))
    BY <2>1, <2>2
  <2> QED
    BY <2>1, <2>2, <2>3
<1> HIDE DEF imported
<1>6. \A k \in K : /\ x[k].id = k + 1 /\ x[k].payer = imported(k + 1).payer
                   /\ x[k].amount = imported(k + 1).amount
                   /\ x[k].shares = imported(k + 1).shares
  BY DEF AsRow
<1>7. Numbers(x, K, X) /\ IsFiniteSet(K)
  <2>1. IsFiniteSet(K)
    BY <1>1, FirstNumbers
  <2>2. DOMAIN x = K
    OBVIOUS
  <2> HIDE DEF x
  <2>3. \A i, j \in K : x[i] = x[j] => i = j
    <3> SUFFICES ASSUME NEW i \in K, NEW j \in K, x[i] = x[j] PROVE i = j
      OBVIOUS
    <3>1. i + 1 = j + 1
      BY <1>6
    <3> QED
      BY <1>1, <3>1
  <2> QED
    BY <2>1, <2>2, <2>3 DEF Numbers
<1> HIDE DEF ids, x
<1>8. ExpenseRows(X) /\ PaymentRows({})
  <2>1. IsFiniteSet(X) /\ IsFiniteSet({})
    <3>1. IsFiniteSet(X)
      BY <1>7, NumberedFinite
    <3>2. IsFiniteSet({})
      BY FS_EmptySet
    <3> QED
      BY <3>1, <3>2
  <2>2. \A k \in K : x[k].amount \in Int /\ \A u \in DOMAIN x[k].shares : x[k].shares[u] \in Int
    BY <1>4, <1>6
  <2> QED
    BY <2>1, <2>2 DEF ExpenseRows, PaymentRows
<1>9. ASSUME NEW u \in ids PROVE net[u] = TotalDone(l)[u]
  <2> DEFINE ab == [e \in X |-> (IF e.payer = u THEN e.amount ELSE 0)
                                  - (IF u \in DOMAIN e.shares THEN e.shares[u] ELSE 0)]
             cd == [t \in {} |-> (IF t.from = u THEN t.amount ELSE 0)
                                   - (IF t.to = u THEN t.amount ELSE 0)]
             done == [k \in K |-> DoneAt(l, k, u)]
  <2>1. net[u] = SumFunctionOnSet(ab, X) + 0
    <3>1. net[u] = userNet(u, X, {})
      BY <1>8, NetOfMember
    <3>2. userNet(u, X, {}) = SumFunction(ab) + SumFunction(cd)
      BY Zenon DEF userNet
    <3>3. /\ SumFunction(ab) = SumFunctionOnSet(ab, X)
          /\ SumFunction(cd) = SumFunctionOnSet(cd, {})
      BY SumOfFunction
    <3>4. SumFunctionOnSet(cd, {}) = 0
      BY SumEmpty
    <3> HIDE DEF ab, cd, net, X
    <3> QED
      BY <3>1, <3>2, <3>3, <3>4
  <2>2. TotalDone(l)[u] = SumFunctionOnSet(done, K)
    <3>1. TotalDone(l)
            = [v \in ids |-> SumFunctionOnSet([k \in K |-> DoneAt(l, k, v)], K)]
      BY Zenon DEF TotalDone, ids
    <3> QED
      BY <3>1, Zenon
  <2>3. \A k \in K : ab[x[k]] = done[k] /\ ab[x[k]] \in Int
    <3> SUFFICES ASSUME NEW k \in K PROVE ab[x[k]] = done[k] /\ ab[x[k]] \in Int
      OBVIOUS
    <3>1. ab[x[k]] = Effect(imported(k + 1), u)
      BY <1>6 DEF Effect
    <3>2. Effect(imported(k + 1), u) = DoneAt(l, k, u) /\ DoneAt(l, k, u) \in Int
      BY <1>4
    <3> QED
      BY <3>1, <3>2
  <2> HIDE DEF ab, done
  <2>4. IsFiniteSet(X) /\ SumFunctionOnSet(ab, X) = SumFunctionOnSet(done, K)
    <3>1. /\ \A k \in K : ab[x[k]] \in Int
          /\ \A k \in K : done[k] = ab[x[k]]
      BY <2>3
    <3> HIDE DEF K, X
    <3> QED
      BY <1>7, <3>1, SumNumbered
  <2>5. SumFunctionOnSet(done, K) \in Int
    <3>1. \A k \in K : done[k] \in Int
      BY <2>3
    <3> HIDE DEF K
    <3> QED
      BY <1>7, <3>1, SumType
  <2> QED
    BY <2>1, <2>2, <2>4, <2>5
<1>10. net = TotalDone(l)
  <2> DEFINE done(v) == SumFunctionOnSet([k \in 1 .. Entries(l) |-> DoneAt(l, k, v)], 1 .. Entries(l))
             bal(v) == Sum([e \in {e \in X : e.payer = v} |-> e.amount])
                         - Sum([e \in {e \in X : v \in DOMAIN e.shares} |-> e.shares[v]])
                         + Sum([t \in {t \in {} : t.from = v} |-> t.amount])
                         - Sum([t \in {t \in {} : t.to = v} |-> t.amount])
  <2>1. net = [v \in ids |-> bal(v)] /\ TotalDone(l) = [v \in ids |-> done(v)]
    BY Zenon DEF NetBalances, TotalDone, ids
  <2> HIDE DEF net, done, bal
  <2> QED
    BY <1>9, <2>1
<1> QED
  BY <1>5, <1>10, Zenon DEF ImportedNets, ids, imported

\* There is a row for each entry, and those of the expenses keep their category.
LEMMA RowsMatch ==
  ASSUME NEW l, LedgerOK(l), NEW rows, Reads(rows, l)
  PROVE  /\ Cardinality(DOMAIN rows) = Len(l.expenses) + Len(l.settlements)
         /\ \A i \in DOMAIN l.expenses :
              rows[i + 1].category = IF l.expenses[i].category = "coffee"
                                     THEN "food" ELSE l.expenses[i].category
<1> DEFINE a == Len(l.expenses)
           b == Len(l.settlements)
           n == Entries(l)
<1>1. a \in Nat /\ b \in Nat /\ DOMAIN l.expenses = 1 .. a
  BY LedgerEntries, Zenon
<1>2. n = a + b
  BY DEF Entries
<1>3. DOMAIN rows = 2 .. 1 + n
  BY DEF Reads
<1>4. \A i : i <= a <=> IsExpense(l, i)
  BY DEF IsExpense
<1> HIDE DEF n, a, b
<1>5. Cardinality(DOMAIN rows) = a + b
  <2> DEFINE m == 1 + n
  <2>1. m \in Int /\ 2 \in Int
    BY <1>1, <1>2
  <2> HIDE DEF m
  <2>2. Cardinality(2 .. m) = IF 2 > m THEN 0 ELSE m - 2 + 1
    BY <2>1, FS_Interval
  <2> QED
    BY <1>1, <1>2, <1>3, <2>2 DEF m
<1>6. ASSUME NEW i \in DOMAIN l.expenses
      PROVE  rows[i + 1].category = IF l.expenses[i].category = "coffee"
                                    THEN "food" ELSE l.expenses[i].category
  <2> DEFINE e == l.expenses[i]
  <2>1. i \in 1 .. n /\ IsExpense(l, i)
    BY <1>1, <1>2, <1>4
  <2>2. PICK line : Writes(line, l, i) /\ rows[i + 1] = RowOf(HeadOf(l.group.members), line)
    BY <2>1, Zenon DEF Reads, n
  <2>3. RowOf(HeadOf(l.group.members), line).category = mapSplitwiseCategory(line.category)
    BY DEF RowOf
  <2>4. line.category = splitwiseCategoryName(e.category)
    BY <2>1, <2>2 DEF Writes, CategoryAt
  <2>5. e.category \in DOMAIN splitwiseCategoryNameBySlug
    <3>1. GoodExpense(e, IdsOf(l.group.members))
      BY <1>1, LedgerEntries, Zenon DEF a
    <3> QED
      BY <3>1, Zenon DEF GoodExpense
  <2> HIDE DEF e
  <2>6. rows[i + 1].category = IF e.category = "coffee" THEN "food" ELSE e.category
    BY <2>2, <2>3, <2>4, <2>5, CategoriesSurvive
  <2> QED
    BY <2>6 DEF e
<1> QED
  BY <1>5, <1>6 DEF a, b

\* Any ledger is read back whole; one whose members' names differ and whose
\* splits add up leaves, imported again, every balance as it was.
THEOREM LedgersSurvive == ImportSpec => []RoundTripKeepsBalances
<1>1. ImportCallOK => RoundTripKeepsBalances
  <2> SUFFICES ASSUME ImportCallOK, call.method = "round trip" PROVE RoundTripKeepsBalances
    BY DEF RoundTripKeepsBalances
  <2> DEFINE members == Range(call.group.members)
             ids == IdsOf(call.group.members)
             names == NamesOf(call.group.members)
             userOf == UserOf(call.group.members)
             was == call.expenses
             rows == ParsePreview(call.group.currency,
                                  ExportGroupCSV(call.group, was, call.settlements)).rows
  <2>1. LedgerOK(call)
    <3>1. call \in LedgerCalls
      BY DEF ImportCallOK
    <3>2. PICK l \in Ledgers : call = [method |-> "round trip", group |-> l.group,
                                       expenses |-> l.expenses, settlements |-> l.settlements]
      BY <3>1, Zenon DEF LedgerCalls
    <3>3. LedgerOK(l)
      BY FileAssumption
    <3>4. /\ call.group = l.group /\ call.expenses = l.expenses
          /\ call.settlements = l.settlements
      BY <3>2
    <3> QED
      BY <3>3, <3>4, Zenon DEF LedgerOK
  <2>2. Reads(rows, call)
    BY <2>1, LedgerRead DEF Reads
  <2>3. ASSUME Faithful(call),
               NEW choice \in {f \in [DOMAIN rows -> names] :
                                 \A i \in DOMAIN rows : f[i] \in PayerColumns(rows[i])}
        PROVE  NetBalances(ids, {AsRow(i, ImportedExpense(rows[i], userOf, choice[i]))
                                   : i \in DOMAIN rows}, {})
                 = NetBalances(ids, {AsRow(i, was[i]) : i \in DOMAIN was},
                               {AsPayment(i, call.settlements[i])
                                  : i \in DOMAIN call.settlements})
    <3> HIDE DEF rows
    <3>1. Picks(choice, rows)
      BY DEF Picks
    <3>2. ImportedNets(call, rows, choice) = TotalDone(call)
      BY <2>1, <2>2, <2>3, <3>1, ImportTotals, Zenon
    <3>3. NetBalances(ids, {AsRow(i, was[i]) : i \in DOMAIN was},
                      {AsPayment(i, call.settlements[i]) : i \in DOMAIN call.settlements})
            = TotalDone(call)
      BY <2>1, LedgerTotals, Zenon
    <3> QED
      BY <3>2, <3>3, Zenon DEF ImportedNets
  <2>4. /\ Cardinality(DOMAIN rows) = Len(was) + Len(call.settlements)
        /\ \A i \in DOMAIN was :
             rows[i + 1].category = IF was[i].category = "coffee" THEN "food" ELSE was[i].category
    <3> HIDE DEF rows
    <3> QED
      BY <2>1, <2>2, RowsMatch
  <2> HIDE DEF rows
  <2> QED
    BY <2>3, <2>4, Zenon DEF RoundTripKeepsBalances, rows, IdsOf, NamesOf, UserOf, AsRow, AsPayment
<1> QED
  BY <1>1, ImportCallInvariance, PTL

=============================================================================
