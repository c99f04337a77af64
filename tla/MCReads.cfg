SPECIFICATION Spec
CONSTANTS
  Ids <- Three
  Amount <- Signed
  Limit = 1
  ExportPages = 2
  MaxClock = 1
INVARIANTS
  TypeOK
  WalkIsComplete
  NothingTwice
  BalanceCarriesOver
  StatementEndsAtBalance
CHECK_DEADLOCK FALSE
