CONSTANTS
  Tabs = {t1}
  Calls = {1}
  Accounts = {1, 2, 3, 4, 5}
  Currencies = {1}
  CurrencyOf <- ParkedCurrencyOf
  Normal = {1, 3}
  Suspense <- ParkedSuspense
  InitialBalance <- ParkedBalance
  Limit = 3
  ChunkSize = 2
  MaxCalls = 4
  WritesPerWindow = 4
  MaxStarts = 1
  MaxTransfers = 1
  Moves <- ParkedMoves
  Claims <- ParkedMoves
  Closable = {}
  Tampered = {3}
  None = None
SPECIFICATION Spec
INVARIANT BreakIsNeverParked
CHECK_DEADLOCK FALSE
