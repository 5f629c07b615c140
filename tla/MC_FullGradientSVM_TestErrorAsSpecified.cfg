CONSTANTS
  NumFeatures = 2
  NumWorkers = 3
  Data <- MCData
  TestData <- MCTestBoundary
  Iters = 2
  Penalty = 1
SPECIFICATION Spec
INVARIANT TestErrorAsSpecified
CHECK_DEADLOCK FALSE
