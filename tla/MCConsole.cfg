CONSTANTS
  transfer = transfer
  exchange = exchange
  reverse = reverse
  pay1 = pay1
  pay2 = pay2
  fx = fx
  undo = undo
  o1 = o1
  o2 = o2
  Kinds = {transfer, exchange, reverse}
  Parkable = {transfer}
  Reviewed = {transfer}
  AtSubmit = {reverse}
  NoKind = NoKind
  Intents = {pay1, pay2, fx, undo}
  KindOf <- MCKindOf
  Orgs = {o1, o2}
  OrgOf <- MCOrgOf
  Survivors = {undo}
  MaxSends = 3
  MaxKeys = 2
  MaxEvents = 1
SPECIFICATION Spec
INVARIANTS TypeOK AcceptedOnce RefusedMeansNothing
PROPERTIES ImplementsOperations
SYMMETRY MCSymmetry
CHECK_DEADLOCK FALSE
