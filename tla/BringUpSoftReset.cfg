SPECIFICATION BringUpSpec
CONSTANTS
  Low = {0}
  Written = {}
  Read = {}
  Errors = {}
  Times = {}
  SoftWhen = "up"
PROPERTY BringUpEnds
