---------------------------- MODULE ExpenseTable ----------------------------
(***************************************************************************)
(* What the expense store of one group promises to those who read it (the  *)
(* balance and summary queries, which see live expenses only): an expense  *)
(* appears whole, is replaced as a whole, and once removed never returns;  *)
(* closing the group removes all of them.                                  *)
(***************************************************************************)
CONSTANTS ExpenseIds,
          Entries,      \* what a live expense may say: payer, amount, shares
          Absent,       \* an id not used yet
          Removed       \* soft-deleted, purged, or gone with the group

VARIABLES table,        \* per id: Absent, an entry, or Removed
          open          \* the group exists

tvars == <<table, open>>

TableTypeOK ==
  /\ table \in [ExpenseIds -> Entries \cup {Absent, Removed}]
  /\ open \in BOOLEAN

TableInit ==
  /\ table = [e \in ExpenseIds |-> Absent]
  /\ open = TRUE

Publish(e, entry) ==
  /\ open
  /\ table[e] = Absent
  /\ table' = [table EXCEPT ![e] = entry]
  /\ UNCHANGED open

Replace(e, entry) ==
  /\ table[e] \in Entries
  /\ table' = [table EXCEPT ![e] = entry]
  /\ UNCHANGED open

Remove(e) ==
  /\ table[e] \in Entries
  /\ table' = [table EXCEPT ![e] = Removed]
  /\ UNCHANGED open

Close ==
  /\ open
  /\ open' = FALSE
  /\ table' = [e \in ExpenseIds |-> IF table[e] = Absent THEN Absent ELSE Removed]

TableNext ==
  \/ \E e \in ExpenseIds :
       \/ \E entry \in Entries : Publish(e, entry) \/ Replace(e, entry)
       \/ Remove(e)
  \/ Close

TableSpec == TableInit /\ [][TableNext]_tvars

=============================================================================
