SPECIFICATION Spec
CONSTANTS
  Users = {1, 2}
  FirstMembers = {1}
  ExpenseIds = {e1, e2}
  Requests = {r1, r2, r3}
  Forms <- TwoForms
  Images = {"taxi.jpg", "hotel.jpg"}
  SplitAmounts <- MCSplitAmounts
  NoSplit = NoSplit
  NoUser = NoUser
  NoImage = NoImage
  NoRequest = NoRequest
  NoForm = NoForm
  NoExpense = NoExpense
  Absent = Absent
  Removed = Removed
SYMMETRY RequestSymmetry
PROPERTIES
  EditorIsParty
