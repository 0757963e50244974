SPECIFICATION CallSpec
CONSTANTS
  MaxTID = 3
  MaxBargeIns = 1
  JobSize = 1
  PCMSize = 1
  OutSize = 0
INVARIANTS
  CallTypeOK
  GateReopens
PROPERTY SilentAfterBargeIn
CHECK_DEADLOCK FALSE
