SPECIFICATION Spec
CONSTANTS
  MaxDepth = 2
  Builds <- TwoBuilds
  Inputs <- AllInputs
INVARIANTS
  TypeOK
  WalkIsExact
  SameStateSameRecords
  DriftIsExact
  LintAgreesWithSchema
CHECK_DEADLOCK FALSE
