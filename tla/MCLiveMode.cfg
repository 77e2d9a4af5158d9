CONSTANTS
  MaxFrames = 4
  MaxConns = 3
  Window = 2
SPECIFICATION FairSpec
INVARIANTS
  TypeOK
  SeesWithoutGap
  LostOnlyOnLeaving
PROPERTIES
  ImplementsStream
  ViewerSeesAll
  EndsWhileWatched
  WaitsBehindOne
CHECK_DEADLOCK FALSE
