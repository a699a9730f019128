SPECIFICATION MCSpec
CONSTANTS
  Low = {0}
  Written = {"CONTROL", "TIMECODE_TX", "TIMECODE_RX", "ERROR", "IRQ_STATUS"}
  Read = {}
  Errors = {0}
  Times <- OneTime
  SoftWhen = "reading"
INVARIANT WritesAsJoined
INVARIANT BroughtUp
PROPERTY EventsOutliveClears
PROPERTY OnePulsePerRequest
PROPERTY BringUpEnds
PROPERTY TimecodesSent
PROPERTY ImplementsMaster
