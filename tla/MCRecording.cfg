CONSTANTS
  Frames <- MCFrames
  Capacity = 4
  MaxCalls = 5
SPECIFICATION Spec
INVARIANTS
  TypeOK
  AnyCutReadsAsPrefix
  FinishedIsOnDisk
  VerdictIsSound
CHECK_DEADLOCK FALSE
