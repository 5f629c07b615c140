CONSTANTS
  NumFeatures = 2
  NumWorkers = 3
  Data <- MCDataUneven
  Iters = 3
  LR = 1
  RegLR = 1
  RegOn = TRUE
  ReportPerRound = TRUE
SPECIFICATION Spec
INVARIANT ReportedHingeLoss
CHECK_DEADLOCK FALSE
