SPECIFICATION MCSpec
CONSTANTS
  FctChars = 2
  ResetTime = 1
  Rooms = {0}
  RxSize = 4
  TxSize = 2
  RxChars = {"data", "eop"}
  TxChars = {}
  Pins = {}
  CreditHonest = FALSE
INVARIANTS
  CutPacketEnds
