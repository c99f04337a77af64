CONSTANTS
  Requests = {r1, r2}
  NoCommand = NoCommand
  NoRow = NoRow
  MaxBalance = 120
  Commands <- MCCommands
  InitialAccounts <- MCAccounts
  InitialRows <- MCRows
  Closable <- MCClosable
SPECIFICATION Spec
INVARIANTS TypeOK RowsOnRealAccounts Conserved SeedInOrder AnswersAreTrue
PROPERTIES EveryRequestAnswered
CHECK_DEADLOCK FALSE
