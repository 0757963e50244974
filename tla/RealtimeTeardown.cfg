SPECIFICATION RealtimeFairSpec
CONSTANTS
  MaxSpeech = 1
  MaxAudio = 1
  SinkSize = 1
  SendSize = 1
  LineSize = 1
  Prebuffer = 1
PROPERTY EveryEndTearsDown
CHECK_DEADLOCK FALSE
