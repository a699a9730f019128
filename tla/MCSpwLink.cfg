SPECIFICATION SilenceSpec
CONSTANTS
  FctChars = 2
  ResetTime = 1
  Rooms = {0, 15}
INVARIANTS
  CreditWithinLimit
PROPERTIES
  FreshConnection
  ExchangeOfSilence
  HandshakeEnds
