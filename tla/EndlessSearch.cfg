SPECIFICATION FairSpec
CONSTANTS
  Self = "self"
  Dsts <- MCDsts
  Hops = {"h", "i"}
  Interfaces <- MCInterfaces
  Route <- MCRoute
  NoRoute = NoRoute
  NoPacket = NoPacket
  Byte = 4
  Macs = {"m", "n"}
  Arriving <- MCArriving
  ArpMaxSize = 2
  MaxArp = 2
  MaxWaiting = 2
CHECK_DEADLOCK FALSE
PROPERTIES
  SearchEnds
