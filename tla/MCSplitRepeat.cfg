SPECIFICATION SplitSpec
CONSTANTS
  NoSplit = NoSplit
  SplitUsers = {1, 2, 3}
  MaxInputs = 3
  RepeatUsers = TRUE
  Amounts <- MCAmounts
  Values <- MCValues
INVARIANTS
  NoCentLostOrInvented
