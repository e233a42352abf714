----------------------------- MODULE MCDebtLoop -----------------------------
(***************************************************************************)
(* DebtLoop on every bounded assignment of balances.                       *)
(***************************************************************************)
EXTENDS DebtLoop, TLC

CONSTANT MaxBalance     \* cents a member may owe or be owed

\* Balances that add up to zero, and those that do not (an import may store
\* expenses whose splits miss their amount).
MCNets == [Users -> -MaxBalance .. MaxBalance]

=============================================================================
