CONSTANTS
  NumFeatures = 2
  NumWorkers = 3
  Data <- MCData
  TestData <- MCTest
  Iters = 2
  Penalty = 1
SPECIFICATION Spec
INVARIANTS TypeOK SnapshotFresh ReportedTestErrors
PROPERTIES FGDRefinement Termination
CHECK_DEADLOCK FALSE
