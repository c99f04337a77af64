CONSTANTS
  Tabs = {t1, t2}
  Calls = {1, 2}
  Accounts = {1, 2, 3, 4, 5, 6, 7, 8, 9, 10, 11}
  Currencies = {1, 2}
  CurrencyOf <- MCCurrencyOf
  Normal = {5, 6, 10}
  Suspense <- MCSuspense
  InitialBalance <- MCBalance
  Limit = 2
  ChunkSize = 2
  MaxCalls = 2
  WritesPerWindow = 1
  MaxStarts = 2
  MaxTransfers = 1
  Moves <- MCMoves
  Claims <- MCClaims
  Closable = {4}
  Tampered = {2, 7}
  None = None
SPECIFICATION Spec
INVARIANTS TypeOK NoOverdraft BreakIsKept UndisturbedResetCompletes
PROPERTIES EveryLoopEnds
CHECK_DEADLOCK FALSE
