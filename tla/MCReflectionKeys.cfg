SPECIFICATION Spec
CONSTANTS
  MaxDepth = 2
  Builds <- TwoBuilds
  Inputs <- KeyInputs
INVARIANT IterationNeverShows
CHECK_DEADLOCK FALSE
