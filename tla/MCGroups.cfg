SPECIFICATION RetentionSpec
CONSTANTS
  Users = {ann, bob}
  Groups = {g1, g2}
  OldGroups = {g1}
  InviteTokens = {t1, t2}
  Workers = {w1, w2}
  Mixes <- MCMixes
  NoUser = NoUser
  NoGroup = NoGroup
  NoInvite = NoInvite
  Entries = {e1, e2}
  Comments = {c1}
  Images = {i1, i2}
  NoEntry = NoEntry
  NoComment = NoComment
  NoImage = NoImage
  Instances = {j1, j2}
  purgeJobMinInterval = 1
  ExpenseRetention = 2
  MaxTime = 3
  Never = Never
SYMMETRY MCSymmetry
INVARIANTS
  RetentionTypeOK
  OneInvite
  CommentersBelong
  ImagesOutliveRows
  ImportNeverRepeats
PROPERTIES
  PurgeIsPatient
