------------------------------ MODULE DebtLoop ------------------------------
(***************************************************************************)
(* The pairing loop of CalculateGroupDebts (internal/service/              *)
(* balance_service.go): debtors and creditors come out of a map in any     *)
(* order, are sorted by user id and paired off greedily, one debt an       *)
(* iteration.  An iteration is a step, so that what the loop computes can  *)
(* be stated and proved.                                                   *)
(*                                                                         *)
(* An input carries, next to the balances, the two lists as they ought to  *)
(* be sorted, and their running totals: end[k] is what the first k of a    *)
(* list owe, or are owed, together.  Laid out on one line of cents, member *)
(* k then covers the stretch from end[k - 1] to end[k], and the loop       *)
(* lists, for debtor k and creditor l, what their two stretches have in    *)
(* common.                                                                 *)
(***************************************************************************)
EXTENDS Balances

CONSTANTS Users,        \* numeric ids
          Nets          \* the balances the loop may be given

ASSUME BalanceAssumption ==
  /\ IsFiniteSet(Users) /\ Users \subseteq Nat
  /\ Nets \subseteq [Users -> Int]

RunningTotals(net, users) ==
  [k \in 0 .. Cardinality(users) |->
     IF k = 0 THEN 0 ELSE EndOf(net, users, ById(users)[k])]

InputOf(net) ==
  [net |-> net,
   debtors |-> BalanceList(net, Debtors(net)),
   creditors |-> BalanceList(net, Creditors(net)),
   debtEnd |-> RunningTotals(net, Debtors(net)),
   creditEnd |-> RunningTotals(net, Creditors(net))]

Inputs == {InputOf(net) : net \in Nets}

Entry == [user : Users, amount : Int]
ListsNobodyTwice(list) ==
  \A k, l \in DOMAIN list : list[k].user = list[l].user => k = l

\* What the proofs use of an input's lists and running totals.
GoodInput(in) ==
  /\ in.debtors \in Seq(Entry) /\ ListsNobodyTwice(in.debtors)
  /\ in.creditors \in Seq(Entry) /\ ListsNobodyTwice(in.creditors)
  /\ in.debtEnd \in [0 .. Len(in.debtors) -> Nat] /\ in.debtEnd[0] = 0
  /\ in.creditEnd \in [0 .. Len(in.creditors) -> Nat] /\ in.creditEnd[0] = 0
  /\ \A k \in 1 .. Len(in.debtors) :
       /\ in.debtors[k].amount < 0
       /\ in.debtEnd[k] = in.debtEnd[k - 1] - in.debtors[k].amount
       /\ \A h \in 0 .. k - 1 : in.debtEnd[h] < in.debtEnd[k]
  /\ \A l \in 1 .. Len(in.creditors) :
       /\ in.creditors[l].amount > 0
       /\ in.creditEnd[l] = in.creditEnd[l - 1] + in.creditors[l].amount
       /\ \A h \in 0 .. l - 1 : in.creditEnd[h] < in.creditEnd[l]

VARIABLES input,                \* what the loop was given
          debtors, creditors,   \* the two lists, amounts still to be paired
          i, j,                 \* the debtor and the creditor being paired
          debts                 \* the result so far

vars == <<input, debtors, creditors, i, j, debts>>

SmallerOf(a, b) == IF a <= b THEN a ELSE b
LargerOf(a, b) == IF a >= b THEN a ELSE b

\* What the loop over balancesMap makes of some of the users: Go runs through
\* a map in any order.
MapOrders(net, users) == SetToSeqs({[user |-> u, amount |-> net[u]] : u \in users})

\* A slip, not the code's: the lists are left in the order of the map.
sortNothing(list) == list

sortByUser(list) ==
  LET users == {list[k].user : k \in DOMAIN list}
  IN  [k \in DOMAIN list |-> CHOOSE e \in Range(list) : e.user = ById(users)[k]]

Init ==
  /\ input \in Inputs
  /\ \E list \in MapOrders(input.net, Debtors(input.net)) : debtors = sortByUser(list)
  /\ \E list \in MapOrders(input.net, Creditors(input.net)) : creditors = sortByUser(list)
  /\ i = 1 /\ j = 1
  /\ debts = << >>

\* Slips of one iteration, neither of them the code's: the whole debt is
\* settled whatever the creditor is still owed; nobody's turn ever ends.
PairDebtInFull ==
  /\ i <= Len(debtors) /\ j <= Len(creditors)
  /\ debts' = Append(debts, [from |-> debtors[i].user, to |-> creditors[j].user,
                             amount |-> -debtors[i].amount])
  /\ debtors' = [debtors EXCEPT ![i].amount = 0]
  /\ creditors' = [creditors EXCEPT ![j].amount = @ + debtors[i].amount]
  /\ i' = i + 1
  /\ j' = IF creditors'[j].amount <= 0 THEN j + 1 ELSE j
  /\ UNCHANGED input

PairKeepingTurns ==
  /\ i <= Len(debtors) /\ j <= Len(creditors)
  /\ LET settleAmount == SmallerOf(-debtors[i].amount, creditors[j].amount)
     IN  /\ debtors' = [debtors EXCEPT ![i].amount = @ + settleAmount]
         /\ creditors' = [creditors EXCEPT ![j].amount = @ - settleAmount]
  /\ UNCHANGED <<input, i, j, debts>>

\* One iteration of the loop.
Pair ==
  /\ i <= Len(debtors) /\ j <= Len(creditors)
  /\ LET settleAmount == SmallerOf(-debtors[i].amount, creditors[j].amount)
     IN  /\ debts' = Append(debts, [from |-> debtors[i].user, to |-> creditors[j].user,
                                    amount |-> settleAmount])
         /\ debtors' = [debtors EXCEPT ![i].amount = @ + settleAmount]
         /\ creditors' = [creditors EXCEPT ![j].amount = @ - settleAmount]
  /\ i' = IF debtors'[i].amount = 0 THEN i + 1 ELSE i
  /\ j' = IF creditors'[j].amount = 0 THEN j + 1 ELSE j
  /\ UNCHANGED input

Done == i > Len(debtors) \/ j > Len(creditors)

Return == Done /\ UNCHANGED vars

Next == Pair \/ Return

Spec == Init /\ [][Next]_vars
FairSpec == Spec /\ WF_vars(Pair)

-----------------------------------------------------------------------------
(* Properties *)

TypeOK ==
  /\ input \in Inputs /\ GoodInput(input)
  /\ debtors \in Seq(Entry) /\ Len(debtors) = Len(input.debtors)
  /\ creditors \in Seq(Entry) /\ Len(creditors) = Len(input.creditors)
  /\ i \in 1 .. Len(debtors) + 1
  /\ j \in 1 .. Len(creditors) + 1
  /\ debts \in Seq([from : Users, to : Users, amount : Int])

\* What the stretches of debtor k and creditor l have in common.
Overlap(k, l) ==
  LET length == SmallerOf(input.debtEnd[k], input.creditEnd[l])
                  - LargerOf(input.debtEnd[k - 1], input.creditEnd[l - 1])
  IN  LargerOf(length, 0)

DebtOf(k, l) == [from |-> input.debtors[k].user, to |-> input.creditors[l].user,
                 amount |-> Overlap(k, l)]

\* When the loop ends it has listed exactly the overlaps: every pair with
\* one is listed with that amount, and nothing else is.  The debts a member
\* is shown so depend on the balances alone, not on the order in which the
\* map gave them.
ListsTheOverlaps ==
  Done =>
    /\ \A k \in DOMAIN debtors, l \in DOMAIN creditors :
         Overlap(k, l) > 0 => \E t \in DOMAIN debts : debts[t] = DebtOf(k, l)
    /\ \A t \in DOMAIN debts :
         \E k \in DOMAIN debtors, l \in DOMAIN creditors :
           Overlap(k, l) > 0 /\ debts[t] = DebtOf(k, l)

\* No pair is listed twice.  SettleDebt takes the first debt of a pair for
\* the whole of what is owed (it breaks out of its search), which is right
\* only because of this.
NoPairTwice ==
  \A s, t \in DOMAIN debts :
    debts[s].from = debts[t].from /\ debts[s].to = debts[t].to => s = t

\* Settling up takes fewer payments than there are members with a balance.
FewDebts ==
  debts # << >> => Len(debts) < Len(debtors) + Len(creditors)

Listed(a, b) == {t \in DOMAIN debts : debts[t].from = a /\ debts[t].to = b}

\* Owed is what the loop lists for a pair of members, whatever the balances.
OwedIsListed ==
  Done => \A a, b \in Users :
            Owed(input.net, a, b) =
              IF Listed(a, b) = {} THEN 0 ELSE debts[Min(Listed(a, b))].amount

\* What listed debts make a member pay, and be paid.
PaidBy(list, u) == Sum([t \in {t \in DOMAIN list : list[t].from = u} |-> list[t].amount])
PaidTo(list, u) == Sum([t \in {t \in DOMAIN list : list[t].to = u} |-> list[t].amount])

\* When the balances add up to zero, paying every listed debt leaves nobody
\* owing or owed anything.
PayingAllClears ==
  Done /\ Sum(input.net) = 0 =>
    \A u \in Users : input.net[u] = PaidTo(debts, u) - PaidBy(debts, u)

\* Paying part or all of one listed debt lowers that debt and leaves every
\* other as it was, although the next reader pairs everybody off anew.
PayingMovesOnlyThatDebt ==
  Done => \A t \in DOMAIN debts : \A paid \in 1 .. debts[t].amount :
    LET net == [input.net EXCEPT ![debts[t].from] = @ + paid, ![debts[t].to] = @ - paid]
    IN  \A a, b \in Users :
          Owed(net, a, b) =
            Owed(input.net, a, b)
              - (IF a = debts[t].from /\ b = debts[t].to THEN paid ELSE 0)

\* The loop ends.
LoopEnds == <>Done

-----------------------------------------------------------------------------
(* The inductive invariant *)

\* How many cents have been paired off so far.
Paired ==
  IF i <= Len(debtors)
  THEN input.debtEnd[i] + debtors[i].amount
  ELSE input.debtEnd[Len(debtors)]

\* The two members in turn have come equally far.
Frontier ==
  /\ i <= Len(debtors) =>
       /\ input.debtEnd[i - 1] <= Paired /\ Paired < input.debtEnd[i]
       /\ debtors[i].amount = Paired - input.debtEnd[i]
  /\ j <= Len(creditors) =>
       /\ input.creditEnd[j - 1] <= Paired /\ Paired < input.creditEnd[j]
       /\ creditors[j].amount = input.creditEnd[j] - Paired
  /\ i <= Len(debtors) /\ j <= Len(creditors) =>
       Paired = LargerOf(input.debtEnd[i - 1], input.creditEnd[j - 1])
  /\ i > Len(debtors) => Paired = input.debtEnd[Len(debtors)]
  /\ j > Len(creditors) => Paired = input.creditEnd[Len(creditors)]

\* The overlaps that lie before the frontier are listed, and no others.
ListedSoFar ==
  /\ \A k \in DOMAIN debtors, l \in DOMAIN creditors :
       Overlap(k, l) > 0 /\ SmallerOf(input.debtEnd[k], input.creditEnd[l]) <= Paired
       => \E t \in DOMAIN debts : debts[t] = DebtOf(k, l)
  /\ \A t \in DOMAIN debts :
       \E k \in DOMAIN debtors, l \in DOMAIN creditors :
         /\ Overlap(k, l) > 0
         /\ SmallerOf(input.debtEnd[k], input.creditEnd[l]) <= Paired
         /\ debts[t] = DebtOf(k, l)

\* Members whose turn has not come are as they were given.
Ahead ==
  /\ \A k \in DOMAIN debtors :
       /\ debtors[k].user = input.debtors[k].user
       /\ k > i => debtors[k] = input.debtors[k]
  /\ \A l \in DOMAIN creditors :
       /\ creditors[l].user = input.creditors[l].user
       /\ l > j => creditors[l] = input.creditors[l]

\* Whoever's turn is over has nothing left, and what an entry has lost is what
\* its member pays, or is paid, by the debts listed.
Settled ==
  /\ \A k \in DOMAIN debtors :
       /\ k < i => debtors[k].amount = 0
       /\ debtors[k].amount = input.debtors[k].amount + PaidBy(debts, input.debtors[k].user)
  /\ \A l \in DOMAIN creditors :
       /\ l < j => creditors[l].amount = 0
       /\ creditors[l].amount = input.creditors[l].amount - PaidTo(debts, input.creditors[l].user)

LoopInv ==
  /\ TypeOK
  /\ Ahead
  /\ Frontier
  /\ ListedSoFar
  /\ Settled
  /\ NoPairTwice
  /\ Len(debts) <= i + j - 2
  /\ FewDebts

=============================================================================
