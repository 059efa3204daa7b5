SPECIFICATION Spec
CONSTANTS
  Runs = {r1,r2}
  Ids = {a,b}
  Topics = {t}
  MaxFd = 7
  MaxPub = 0
  MaxPending = 1
SYMMETRY Interchangeable
CHECK_DEADLOCK FALSE
INVARIANTS
  TablesAgree
  LoopFindsClient
  OneReplyPerRequest
  EndIsTold
PROPERTIES
  RefusedOnlyWhenTaken
