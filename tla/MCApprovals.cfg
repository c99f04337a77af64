SPECIFICATION FairSpec
CONSTANTS
  None = None
  Requests = {r1, r2, r3}
  Admins = {ann, ben}
  Keys = {k1}
  Transfers = {t1, t2}
INVARIANTS
  TypeOK
  PostedOnce
  ApprovedIsPosted
  SubmittedOnce
  AnswersAreTrue
PROPERTIES
  DecisionsAreFinal
  EveryRequestAnswered
CHECK_DEADLOCK FALSE
