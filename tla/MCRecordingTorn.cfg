CONSTANTS
  Frames <- MCFrames
  Capacity = 4
  MaxCalls = 4
SPECIFICATION Spec
INVARIANT DamageIsErrOrPrefix
CHECK_DEADLOCK FALSE
