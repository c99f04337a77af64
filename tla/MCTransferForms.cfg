CONSTANTS
  a = a
  b = b
  c = c
  d = d
  Accounts = {a, b, c, d}
  CurrencyOf <- MCCurrencyOf
  Amounts = {0, 1, 2}
  None = None
  Forms = {"fee-split"}
SPECIFICATION Spec
INVARIANTS SentAsShown
CHECK_DEADLOCK FALSE
