SPECIFICATION FairSpec
CONSTANTS
  MaxTID = 3
  MaxBargeIns = 1
  JobSize = 2
  PCMSize = 1
  OutSize = 0
INVARIANTS TTSTypeOK CloseSpeaksAll HeldDoneHasItsEnd
PROPERTIES BegunSpeechStops RunReturns
CHECK_DEADLOCK FALSE
