SPECIFICATION PushSpec
CONSTANTS
  Users = {ann, bob}
  Tokens = {t1, t2, t3}
  Workers = {w1, w2}
  Reports <- MCReports
  Categories = {"expense"}
  Mixes <- MCMixes
  NoUser = NoUser
  NoToken = NoToken
  NoRow = NoRow
  NoReport = NoReport
  Endpoints = {e1, e2}
  MaxPushSubscriptionsPerUser = 1
  Notifiers = {n1}
SYMMETRY MCSymmetry
INVARIANTS
  RotationOnce
  SessionKeepsUser
  OverrunBounded
PROPERTIES
  OnlyDeadAreCleaned
