CONSTANTS
  NumWorkers = 2
  TestLen <- MCTestLenEmpty
  ErrorValues = {0, 1}
  Iters = 3
SPECIFICATION Spec
INVARIANT AvgErrorDefined
CHECK_DEADLOCK FALSE
