SPECIFICATION FairSpec
CONSTANTS
  Users = {1}
  FirstMembers = {1}
  ExpenseIds = {e1}
  Requests = {r1, r2, r3}
  Forms <- OneForm
  Images = {"taxi.jpg", "hotel.jpg"}
  SplitAmounts <- MCSplitAmounts
  NoSplit = NoSplit
  NoUser = NoUser
  NoImage = NoImage
  NoRequest = NoRequest
  NoForm = NoForm
  NoExpense = NoExpense
  Absent = Absent
  Removed = Removed
PROPERTIES
  EveryRequestEnds
