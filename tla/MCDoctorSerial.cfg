SPECIFICATION Spec
CONSTANTS
  ArgSets <- SerialLine
  MaxPackets = 2
  MaxFrames = 2
CHECK_DEADLOCK FALSE
INVARIANTS SerialCommandWorks
