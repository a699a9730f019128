SPECIFICATION PairFairSpec
CONSTANTS
  FctChars = 1
  ResetTime = 4
  Delay = 2
  RxSize = 3
  Senders = {"A"}
  Troubles <- AllTroubles
INVARIANTS
  NoCreditError
  CreditConserved
PROPERTIES
  Reconnects
