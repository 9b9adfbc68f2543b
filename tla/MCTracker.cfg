SPECIFICATION Spec
CONSTANTS
  Systems = {1, 2}
  Components = {1, 154}
  Versions = {"MAVLink 2"}
  Messages <- OneMessage
  Milli = 4
  Micro = 2
  SeqChoices <- GapSeqs
  FrameDelays <- NoDelay
  BeatDelays <- BeatPeriods
  MaxCalls = 4
  MaxErrors = 1
CHECK_DEADLOCK FALSE
INVARIANTS TypeOK CountsAgree GapsAccounted LossBounded HeartbeatStatsExact MeanBetweenExtremes
