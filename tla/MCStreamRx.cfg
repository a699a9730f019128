SPECIFICATION MCReaderSpec
CONSTANTS
  FctChars = 2
  ResetTime = 1
  Rooms = {0}
  RxSize = 6
  TxSize = 2
  RxChars = {"data", "eop"}
  TxChars = {}
  Pins = {"linkdis", "linkstart"}
  CreditHonest = TRUE
INVARIANTS
  RoomReserved
  EntitledCharFits
  EepBeforeReconnect
PROPERTIES
  ImplementsPackets
  EepDelivered
