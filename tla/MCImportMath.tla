---------------------------- MODULE MCImportMath ----------------------------
(***************************************************************************)
(* The rows and workbooks of ImportCalls for TLC, and small ledgers that    *)
(* are written to a CSV and read back.                                     *)
(***************************************************************************)
EXTENDS MCSplitMath, ImportCalls

-----------------------------------------------------------------------------
(* Rows: nets that may miss adding up, as Splitwise's own rounding does,    *)
(* columns without a cell, nobody mapped to them, or mapped to one user.    *)

MCRows ==
  {[amount |-> a, nets |-> n] : a \in {1, 3}, n \in UNION {[cols -> -3 .. 3] : cols \in SUBSET Columns}}

\* Two months of three ticks each, and one or two expenses.
MCMonthStart == <<0, 3, 6>>
MCWorkbooks ==
  {s \in BoundedSeq([date : 0 .. 5, amount : {1, 2}, category : {"food", "other"}], 2) : s # << >>}

-----------------------------------------------------------------------------
(* A ledger: an expense, whose splits add up, and perhaps a payment; or an  *)
(* expense that is shared out twice, or two members with one name.          *)

Group == [currency |-> "ARS",
          members |-> <<[id |-> 1, name |-> "ann"], [id |-> 2, name |-> "bob"],
                        [id |-> 3, name |-> "cat"]>>]
MemberIds == {Group.members[k].id : k \in DOMAIN Group.members}

\* Three parts of 5 or of 35 cents: sums and differences below and above a
\* unit of currency, with one and with two digits.
Parts == UNION {{s \in [us -> 0 .. 3] : SumFunction(s) = 3}
                  : us \in SUBSET MemberIds \ {{}}}

Expenses ==
  {[date |-> 0, payer |-> p, amount |-> 3 * cents, category |-> c,
    shares |-> [u \in DOMAIN s |-> cents * s[u]]]
     : p \in {1, 2}, c \in DOMAIN splitwiseCategoryNameBySlug, s \in Parts,
       cents \in {5, 35}}

Payments == {[date |-> 1, from |-> f, to |-> t, amount |-> a]
               : f \in {1, 3}, t \in {2}, a \in {5, 110}}

MCLedgers ==
  [group : {Group}, expenses : {<<e>> : e \in Expenses}, settlements : {<< >>}]
    \cup [group : {Group}, settlements : {<<p>> : p \in Payments},
          expenses : {<<e>> : e \in {e \in Expenses : e.category = "food"}}]
    \cup [group : {Group}, settlements : {<< >>},
          expenses : {<<[e EXCEPT !.shares = [u \in MemberIds |-> e.amount]]>> : e \in Expenses}]
    \cup [group : {[Group EXCEPT !.members[3].name = "ann"]}, settlements : {<< >>},
          expenses : {<<e>> : e \in Expenses}]

=============================================================================
