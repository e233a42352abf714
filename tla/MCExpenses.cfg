SPECIFICATION Spec
CONSTANTS
  Users = {1, 2}
  FirstMembers = {1}
  ExpenseIds = {e1, e2}
  Requests = {r1, r2, r3}
  Forms <- MixedForms
  Images = {"taxi.jpg", "hotel.jpg"}
  SplitAmounts <- MCSplitAmounts
  NoSplit = NoSplit
  NoUser = NoUser
  NoImage = NoImage
  NoRequest = NoRequest
  NoForm = NoForm
  NoExpense = NoExpense
  Absent = Absent
  Removed = Removed
SYMMETRY RequestSymmetry
INVARIANTS
  IInv
  OneWholeWrite
  SharesAddUp
  NoOrphans
  AuditIsTrue
PROPERTIES
  ImplementsTable
  TombstoneRowFixed
