SPECIFICATION Spec
CONSTANTS
  Options <- Chunked
  ChunkSize = 2
  FrameSize <- Sizes
  QueueCap = 3
  MaxTicks = 2
CHECK_DEADLOCK FALSE
INVARIANTS FixedSizeDatagrams
