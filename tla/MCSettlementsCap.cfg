SPECIFICATION Spec
CONSTANTS
  Users = {1, 2, 3}
  FirstMembers = {1, 2}
  r1 = r1
  r2 = r2
  s1 = s1
  s2 = s2
  ExpenseIds = {e1}
  Entries <- MCEntries
  Absent = Absent
  Removed = Removed
  SettlementIds = {s1, s2}
  Payments <- MCPayments
  Requests = {r1, r2}
  NoUser = NoUser
  NoSettlement = NoSettlement
SYMMETRY MCSymmetry
PROPERTIES
  NeverMoreThanOwed
