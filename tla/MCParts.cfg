SPECIFICATION Spec
CONSTANTS
  Size = 4
  RoomCap = 2
  Chars = {"a", "b"}
  Hdl = {"verilog", "vhdl"}
  Div = {3}
  NoDiv = NoDiv
  MaxRuns = 2
  SIGNALS <- TwoSignals
  Declared <- TwoDumps
  Scale <- TwoScales
  Times = {1, 2, 3}
  Forms <- ThreeForms
  StartPs = 2
  MaxChanges <- FewChanges
  Modules <- ThreeModules
  Wires <- ThreeWires
  Leaves = {"dff", "add"}
  FlipFlops = {"dff"}
  MaxCells = 2
CHECK_DEADLOCK FALSE
INVARIANT StreamInOrder
INVARIANT SuccessIsFresh
INVARIANT CompareExact
INVARIANT TotalsExact
PROPERTY BeatStays
PROPERTY ImplementsQueue
