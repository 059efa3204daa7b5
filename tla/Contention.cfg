SPECIFICATION FairSpec
CONSTANTS
  Runs = {r1, r2}
  Ids = {a}
  Topics = {t}
  MaxFd = 7
  MaxPub = 1
  MaxPending = 1
CHECK_DEADLOCK FALSE
INVARIANTS
  FdAccounting
PROPERTIES
  EndsHaveCauses
  LossHasCause
  RequestAnswered
  ConnectionHandled
