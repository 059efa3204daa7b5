SPECIFICATION Spec
CONSTANTS
  Runs = {r1}
  Ids = {a, b}
  Topics = {t, u}
  MaxFd = 6
  MaxPub = 2
  MaxPending = 1
SYMMETRY Interchangeable
CHECK_DEADLOCK FALSE
INVARIANTS
  TypeOK
  MissedInOrder
  StreamInOrder
PROPERTIES
  KeepsPromise
  MissedHandedOver
  DeliveryHasCause
