SPECIFICATION MCSpec
CONSTANTS
  FctChars = 2
  ResetTime = 1
  Rooms = {0}
  RxSize = 4
  TxSize = 4
  RxChars = {}
  TxChars = {"data", "eop"}
  Pins = {"linkdis"}
  CreditHonest = TRUE
INVARIANTS
  PacketsAligned
  DiscardOnlyRest
