SPECIFICATION Spec
CONSTANTS
  None = None
  Requests = {r1, r2, r3}
  Admins = {ann, ben}
  Keys = {k1}
  Transfers = {t1}
INVARIANT
  BalancesMoveOnlyOnApprove
CHECK_DEADLOCK FALSE
