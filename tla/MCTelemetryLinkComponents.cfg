SPECIFICATION LinkSpec
CONSTANTS
  Systems = {1}
  Components = {1, 154}
  Versions = {"MAVLink 2"}
  Messages <- OneMessage
  Milli = 4
  Micro = 2
  SeqChoices <- NoSeqs
  FrameDelays <- NoDelay
  BeatDelays <- NoDelay
  MaxCalls = 4
  MaxErrors = 0
  PerComponent = TRUE
  StartNumbers <- JustZero
  Bursts <- NoBursts
  WireCap = 2
  MaxSent = 3
CHECK_DEADLOCK FALSE
INVARIANTS NoFalseDrops
