CONSTANTS
  MaxFrames = 2
  MaxConns = 2
  Window = 2
SPECIFICATION FairSpec
PROPERTY EndsWhenDropped
CHECK_DEADLOCK FALSE
