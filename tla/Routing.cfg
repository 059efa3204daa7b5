SPECIFICATION FairSpec
CONSTANTS
  Self = "self"
  Dsts <- MCDsts
  Hops = {"h", "i"}
  Interfaces <- MCInterfaces
  Route <- MCRoute
  NoRoute = NoRoute
  NoPacket = NoPacket
  Byte = 4
  Macs = {"m", "n"}
  Arriving <- MCArriving
  ArpMaxSize = 2
  MaxArp = 3
  MaxWaiting = 3
CHECK_DEADLOCK FALSE
INVARIANTS
  TypeOK
  WaitsForAnswer
  NewestUnresolved
  ForwardedOK
  GrowthOnlyWhenFull
PROPERTIES
  KnownSearchEnds
  NotRedirected
  NewestForEachCell
