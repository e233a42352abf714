----------------------------- MODULE MCExpenses -----------------------------
(***************************************************************************)
(* Instances of Expenses for TLC.                                          *)
(***************************************************************************)
EXTENDS Expenses, TLC

SM == INSTANCE SplitMath

In(u, v) == [user |-> u, value |-> v]

MCSplitAmounts(form, m) ==
  SM!calculateSplitAmounts(form.method, form.amount, form.inputs, m)

\* Paid by 1 for the whole group, without a receipt.
Dinner == [payer |-> 1, amount |-> 3, method |-> "equal", inputs |-> << >>,
           items |-> {}, image |-> NoImage]
\* Paid by 2 for itself alone, itemised, with a receipt: drops user 1.
Taxi == [payer |-> 2, amount |-> 2, method |-> "fixed", inputs |-> <<In(2, 20)>>,
         items |-> {{2}}, image |-> "taxi.jpg"]
\* The same, but naming user 2 twice: the first of its parts is lost.
TaxiTwice == [Taxi EXCEPT !.inputs = <<In(2, 10), In(2, 10)>>]
OneForm == {Dinner}
TwoForms == {Dinner, Taxi}
MixedForms == {Dinner, TaxiTwice}

RequestSymmetry == Permutations(Requests)

=============================================================================
