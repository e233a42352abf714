----------------------------- MODULE SplitMath -----------------------------
(***************************************************************************)
(* How an expense is divided among members: calculateSplitAmounts and the  *)
(* largest-remainder rule of distributeProportionally, in                  *)
(* internal/service/expense_service.go.                                    *)
(*                                                                         *)
(* A user is its numeric id.  An input is one [user, value] of the request *)
(* body.  Amounts are cents; a percentage is counted in thousandths of a   *)
(* percent, a fixed amount in tenths of a cent.  Quotients are exact       *)
(* rationals here, float64 in the code: no bound of the runs is near the   *)
(* 53 bits where the two part.  A sum of percentages that misses 100 by    *)
(* exactly 0.01 is decided by the rounding of a float sum in the code, and *)
(* is no input of any run.                                                 *)
(***************************************************************************)
EXTENDS Integers, Sequences, FiniteSets, SequencesExt

CONSTANT NoSplit      \* the error result of calculateSplitAmounts

HundredPercent == 100000
PercentTolerance == 10
TenthsPerCent == 10

UsersOf(inputs) == [i \in DOMAIN inputs |-> inputs[i].user]
ValuesOf(inputs) == [i \in DOMAIN inputs |-> inputs[i].value]

\* Slips of the order in which leftover cents are handed out, none of them
\* the code's (largestFirst, below): the properties of
\* MCSplitMath are shown to notice them.
smallestFirst(a, b) ==
  \/ a.frac < b.frac
  \/ a.frac = b.frac /\ a.user < b.user
  \/ a.frac = b.frac /\ a.user = b.user /\ a.pos < b.pos
smallestIdFirst(a, b) == a.user < b.user \/ (a.user = b.user /\ a.pos < b.pos)
tiesByPosition(a, b) == a.frac > b.frac \/ (a.frac = b.frac /\ a.pos < b.pos)
leftoverKept(a, b) == TRUE

\* A leftover cent goes to the larger fractional remainder, on a tie to the
\* smaller user id.
largestFirst(a, b) ==
  \/ a.frac > b.frac
  \/ a.frac = b.frac /\ a.user < b.user
  \/ a.frac = b.frac /\ a.user = b.user /\ a.pos < b.pos

(***************************************************************************)
(* Floors first, then one leftover cent each, largest remainder first.     *)
(* The result is keyed by user, so of two positions naming the same user   *)
(* only the last floor is kept, while each of them may add a leftover cent. *)
(***************************************************************************)
distributeProportionally(total, users, weights) ==
  LET weightSum == SumFunction(weights)
      positions == DOMAIN users
      floor == [i \in positions |-> (total * weights[i]) \div weightSum]
      rems == [i \in positions |-> [frac |-> (total * weights[i]) % weightSum,
                                    user |-> users[i], pos |-> i]]
      leftover == total - SumFunction(floor)
      bumped == {i \in positions :
                   Cardinality({j \in positions : largestFirst(rems[j], rems[i])}) < leftover}
      at(u) == {i \in positions : users[i] = u}
  IN  IF weightSum <= 0
      THEN << >>
      ELSE [u \in Range(users) |-> floor[Max(at(u))] + Cardinality(at(u) \cap bumped)]

splitEqual(amount, inputs, members) ==
  LET users == IF inputs # << >> THEN UsersOf(inputs) ELSE SetToSeq(members)
  IN  IF users = << >>
      THEN NoSplit
      ELSE distributeProportionally(amount, users, [i \in DOMAIN users |-> 1])

splitByPercentage(amount, inputs) ==
  IF /\ inputs # << >>
     /\ \A i \in DOMAIN inputs : inputs[i].value >= 0
     /\ SumFunction(ValuesOf(inputs)) - HundredPercent
          \in -PercentTolerance .. PercentTolerance
  THEN distributeProportionally(amount, UsersOf(inputs), ValuesOf(inputs))
  ELSE NoSplit

\* math.Round of a non-negative fixed amount: halves go up.
roundedCents(value) == (value + TenthsPerCent \div 2) \div TenthsPerCent

splitByFixedAmount(amount, inputs) ==
  LET cents == [i \in DOMAIN inputs |-> roundedCents(inputs[i].value)]
  IN  IF /\ inputs # << >>
         /\ \A i \in DOMAIN inputs : inputs[i].value >= 0
         /\ SumFunction(cents) = amount
      THEN [u \in Range(UsersOf(inputs)) |->
              cents[Max({i \in DOMAIN inputs : inputs[i].user = u})]]
      ELSE NoSplit

splitByShares(amount, inputs) ==
  IF inputs # << >> /\ \A i \in DOMAIN inputs : inputs[i].value > 0
  THEN distributeProportionally(amount, UsersOf(inputs), ValuesOf(inputs))
  ELSE NoSplit

calculateSplitAmounts(method, amount, inputs, members) ==
  CASE method \in {"", "equal"} -> splitEqual(amount, inputs, members)
    [] method = "percentage"    -> splitByPercentage(amount, inputs)
    [] method = "fixed"         -> splitByFixedAmount(amount, inputs)
    [] method = "shares"        -> splitByShares(amount, inputs)
    [] OTHER                    -> NoSplit

=============================================================================
