------------------------------ MODULE Balances ------------------------------
(***************************************************************************)
(* What CalculateGroupDebts (internal/service/balance_service.go) makes of *)
(* the expenses and settlements of a group: each member's net balance, the *)
(* two sorted lists it pairs off, and who owes whom how much.  Amounts are *)
(* cents; a user is its numeric id.                                        *)
(***************************************************************************)
EXTENDS Integers, Sequences, FiniteSets, SequencesExt

Sum(f) == SumFunction(f)

\* expenses: a set of records with payer, amount and shares; settlements: a
\* set of records with from, to and amount.  Each record carries an id, so
\* that equal ones count twice.
NetBalances(users, expenses, settlements) ==
  [u \in users |->
     Sum([x \in {x \in expenses : x.payer = u} |-> x.amount])
       - Sum([x \in {x \in expenses : u \in DOMAIN x.shares} |-> x.shares[u]])
       + Sum([s \in {s \in settlements : s.from = u} |-> s.amount])
       - Sum([s \in {s \in settlements : s.to = u} |-> s.amount])]

Debtors(net) == {u \in DOMAIN net : net[u] < 0}
Creditors(net) == {u \in DOMAIN net : net[u] > 0}

ById(users) ==
  [k \in 1 .. Cardinality(users) |->
     CHOOSE u \in users : Cardinality({v \in users : v <= u}) = k]

\* The lists the pairing loop starts from.
BalanceList(net, users) ==
  [k \in 1 .. Cardinality(users) |-> [user |-> ById(users)[k], amount |-> net[ById(users)[k]]]]

\* What the members of a list up to and including u owe, or are owed.
EndOf(net, users, u) ==
  LET size == Sum([v \in {v \in users : v <= u} |-> net[v]])
  IN  IF size < 0 THEN -size ELSE size

\* What the loop lists for a pair (see DebtLoop, ListsTheOverlaps): the part
\* that the stretches of debtor a and creditor b have in common.
Owed(net, a, b) ==
  IF a \in Debtors(net) /\ b \in Creditors(net)
  THEN LET aEnd == EndOf(net, Debtors(net), a)
           bEnd == EndOf(net, Creditors(net), b)
           common == Min({aEnd, bEnd}) - Max({aEnd + net[a], bEnd - net[b]})
       IN  Max({common, 0})
  ELSE 0

=============================================================================
