SPECIFICATION FairSpec
CONSTANTS
  PipeSize = 1
  MaxRecords = 1
  MaxCommands = 1
  MaxEvents = 2
CHECK_DEADLOCK FALSE
INVARIANTS
  LifecycleInv
PROPERTIES
  ProgramEnds
