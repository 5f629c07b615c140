CONSTANTS
  NumWorkers = 2
  TestLen <- MCTestLen
  ErrorValues = {0, 1}
  Iters = 3
SPECIFICATION Spec
INVARIANTS TypeOK EarlyStopRule StopAgreement
PROPERTIES Termination
CHECK_DEADLOCK FALSE
