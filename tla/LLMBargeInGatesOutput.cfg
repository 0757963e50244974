SPECIFICATION Spec
CONSTANTS
  Text = {x, y}
  Blank = Blank
  Steady = {x}
  MaxTurn = 2
  DeltaSize = 1
  FwdSize = 1
PROPERTIES BargeInGatesOutput
CHECK_DEADLOCK FALSE
