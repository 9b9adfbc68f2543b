SPECIFICATION Spec
CONSTANTS
  ArgSets <- Reports
  MaxPackets = 2
  MaxFrames = 2
CHECK_DEADLOCK FALSE
INVARIANTS ReportedExportExists
