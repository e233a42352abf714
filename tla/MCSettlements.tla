--------------------------- MODULE MCSettlements ---------------------------
(***************************************************************************)
(* Settlements for three members and a few expenses and payments.          *)
(***************************************************************************)
EXTENDS Settlements

CONSTANTS r1, r2, s1, s2

Entry(payer, amount, shares) == [payer |-> payer, amount |-> amount, shares |-> shares]

\* 2 pays for all three, which leaves one creditor with two debtors; or 3
\* pays for 1, and when a payment to 2 came before that, it is 3 who has two
\* debtors.
MCEntries ==
  {Entry(2, 3, (1 :> 1 @@ 2 :> 1 @@ 3 :> 1)), Entry(3, 2, (1 :> 2))}

Payment(from, to, amount) == [from |-> from, to |-> to, amount |-> amount]

MCPayments == {Payment(1, 2, 1), Payment(1, 3, 1), Payment(3, 2, 1), Payment(2, 3, 1)}

MCSymmetry == Permutations({r1, r2}) \cup Permutations({s1, s2})

=============================================================================
