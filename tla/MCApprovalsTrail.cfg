SPECIFICATION Spec
CONSTANTS
  None = None
  Requests = {r1, r2, r3}
  Admins = {ann, ben}
  Keys = {k1}
  Transfers = {t1}
INVARIANT
  TrailShowsSetting
CHECK_DEADLOCK FALSE
