SPECIFICATION LinkSpec
CONSTANTS
  Systems = {1}
  Components = {1, 154}
  Versions = {"MAVLink 2"}
  Messages <- Traffic
  Milli = 4
  Micro = 2
  SeqChoices <- NoSeqs
  FrameDelays <- SomeDelays
  BeatDelays <- NoDelay
  MaxCalls = 4
  MaxErrors = 1
  PerComponent = FALSE
  StartNumbers <- NearWrap
  Bursts <- OneBurst
  WireCap = 1
  MaxSent = 4
CHECK_DEADLOCK FALSE
INVARIANTS LinkTypeOK JitterIffChanged HeartbeatsCounted  DropsExact
