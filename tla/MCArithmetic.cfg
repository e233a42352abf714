SPECIFICATION ArithmeticSpec
CONSTANTS
  Users = {1, 2, 3, 4}
  MaxBalance = 4
  Nets <- MCNets
  NoSplit = NoSplit
  NoText = NoText
  NoDate = NoDate
  NoParent = NoParent
  maxEvents = 3
  SplitUsers = {1, 2, 3}
  MaxInputs = 3
  RepeatUsers = FALSE
  Amounts <- MCAmounts
  Values <- MCValues
  Columns = {"ann", "bob", "cat"}
  Rows <- MCRows
  MonthStart <- MCMonthStart
  Workbooks <- MCWorkbooks
  Ledgers <- MCLedgers
  Homes <- MCHomes
  Feeds <- MCFeeds
  Scanners = {ann}
  Hour = 3
  EnvValues = {0, 1, 2}
  MaxTime = 9
  NoBucket = NoBucket
  NoPromise = NoPromise
INVARIANTS
  LoopInv
  ListsTheOverlaps
  OwedIsListed
  PayingAllClears
  PayingMovesOnlyThatDebt
  NoCentLostOrInvented
  WithinOneCent
  HeavierNeverOwesLess
  
  ImportedSplitsAddUp
  RoundTripKeepsBalances
  EachInOneMonth
  HomeAgreesWithDebts
  FeedIsCoherent
  BurstAndRefill
  RetryIsEnough
PROPERTIES
  LoopEnds
