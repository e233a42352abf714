----------------------------- MODULE SplitCalls -----------------------------
(***************************************************************************)
(* One caller of calculateSplitAmounts: it asks for a split, looks at the  *)
(* answer and asks again.                                                  *)
(***************************************************************************)
EXTENDS SplitMath

CONSTANTS SplitUsers,   \* ids of the users a request may name
          MaxInputs,    \* the most inputs in a request
          RepeatUsers,  \* whether a request may name a user twice
          Amounts,      \* per method, the amounts of the expenses, in cents ...
          Values        \* ... and the values of the inputs

Methods == {"equal", "percentage", "fixed", "shares"}

\* CreateExpense refuses an amount of zero or less; values may be anything.
ASSUME RequestAssumption ==
  /\ IsFiniteSet(SplitUsers) /\ SplitUsers \subseteq Nat
  /\ MaxInputs \in Nat
  /\ RepeatUsers \in BOOLEAN
  /\ Amounts \in [Methods -> SUBSET (Nat \ {0})]
  /\ Values \in [Methods -> SUBSET Int]

VARIABLES call, result
splitVars == <<call, result>>

Idle == [method |-> "none"]

NamedOnce(inputs) == IsInjective(UsersOf(inputs))

InputLists(method) ==
  {s \in BoundedSeq([user : SplitUsers, value : Values[method]], MaxInputs) :
     RepeatUsers \/ NamedOnce(s)}

SplitRequests ==
  UNION {[method : {m}, amount : Amounts[m], inputs : InputLists(m), members : {SplitUsers}]
           : m \in Methods}

Split(c) ==
  calculateSplitAmounts(c.method, c.amount, c.inputs, c.members)

SplitInit == call = Idle /\ result = NoSplit

AskSplit ==
  /\ call = Idle
  /\ \E c \in SplitRequests : call' = c /\ result' = Split(c)

NextCall ==
  /\ call # Idle
  /\ call' = Idle /\ result' = NoSplit

SplitNext == AskSplit \/ NextCall
SplitSpec == SplitInit /\ [][SplitNext]_splitVars

-----------------------------------------------------------------------------
Answered == call.method \in Methods /\ result # NoSplit

\* The weight the request gives user u, and the sum of all weights.
Weight(u) ==
  IF call.method = "equal"
  THEN 1
  ELSE call.inputs[CHOOSE i \in DOMAIN call.inputs : call.inputs[i].user = u].value
WeightSum == SumFunction([u \in DOMAIN result |-> Weight(u)])

\* The parts of an accepted split add up exactly to the expense's amount
\* (the comment on distributeProportionally: no cent is lost or invented).
NoCentLostOrInvented == Answered => SumFunction(result) = call.amount

\* Every part is within one cent of the exact proportion, so that a member
\* of weight zero is never handed a leftover cent; a fixed part is the amount
\* asked for, to the nearest cent.
WithinOneCent ==
  Answered => \A u \in DOMAIN result :
    IF call.method = "fixed"
    THEN LET gap == TenthsPerCent * result[u] - Weight(u)
         IN  2 * gap <= TenthsPerCent /\ -2 * gap < TenthsPerCent
    ELSE LET gap == result[u] * WeightSum - call.amount * Weight(u)
         IN  gap < WeightSum /\ -gap < WeightSum

\* A member with the larger weight never owes less than one with a smaller
\* weight: rounding cannot reverse the order the request asked for.
HeavierNeverOwesLess ==
  Answered => \A u, v \in DOMAIN result : Weight(u) > Weight(v) => result[u] >= result[v]

\* The split does not depend on the order in which the request lists the
\* members (the code sorts the remainders, ties by user id, so that the
\* result is deterministic).
OrderIsIrrelevant ==
  call.method \in Methods =>
    \A p \in Bijection(DOMAIN call.inputs, DOMAIN call.inputs) :
      Split([call EXCEPT !.inputs = [i \in DOMAIN call.inputs |-> call.inputs[p[i]]]]) = result

=============================================================================
