SPECIFICATION ServicesSpec
CONSTANTS
  MaxSpeech = 1
  MaxAudio = 2
  SinkSize = 1
  SendSize = 1
  LineSize = 1
  Prebuffer = 2
  Conns = {c1, c2}
  API = api
  None = none
  Replicas = {r1, r2, r3}
  Deliveries = {d1}
  NoOne = noone
  MaxAttempts = 2
  MaxCrashes = 1
  Requests = {q1, q2, q3, q4}
  FailureThreshold = 3
  SuccessThreshold = 2
  MaxConcurrent = 3
  MaxPeriods = 3
  MaxForgotten = 2
  Pieces <- MCPieces
  MaxFrames = 5
INVARIANTS ServicesTypeOK NeverSendsOnClosed EndBringsDown OneProbe SlotsAccounted EverythingRecorded
PROPERTIES InterruptedAudioIsSilent TeardownEnds SuccessIsKept PendingSettles
CHECK_DEADLOCK FALSE
