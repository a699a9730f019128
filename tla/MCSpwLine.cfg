SPECIFICATION LineSpec
CONSTANTS
  WordBits = 2
  Words <- OneWord
  StartDivcnt = 1
  RunDivcnt = 0
  DisconnectTime = 2
  Noisy = TRUE
INVARIANT ReceivedSoon
INVARIANT NoFalseAlarm
PROPERTY ReceivedAsSent
PROPERTY OneLineChanges
INVARIANT SilenceNoticed
