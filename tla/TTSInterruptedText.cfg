SPECIFICATION Spec
CONSTANTS
  MaxTID = 3
  MaxBargeIns = 1
  JobSize = 2
  PCMSize = 1
  OutSize = 2
PROPERTIES InterruptedTextIsSilent
CHECK_DEADLOCK FALSE
