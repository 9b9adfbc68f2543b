SPECIFICATION FairSpec
CONSTANTS
  Options <- AllOptions
  ChunkSize = 2
  FrameSize <- Sizes
  QueueCap = 3
  MaxTicks = 3
CHECK_DEADLOCK FALSE
INVARIANTS TypeOK ChunksCarryStream
PROPERTIES SenderReturns TrafficFlows
