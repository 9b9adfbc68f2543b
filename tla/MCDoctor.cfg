SPECIFICATION FairSpec
CONSTANTS
  ArgSets <- AllLines
  MaxPackets = 2
  MaxFrames = 2
CHECK_DEADLOCK FALSE
INVARIANTS TypeOK PortReleased AvailableMeansBindable SniffsWhatItServes ModeObeyed
PROPERTIES EveryRunEnds InterruptEndsRun
