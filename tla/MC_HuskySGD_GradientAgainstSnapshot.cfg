CONSTANTS
  NumFeatures = 2
  NumWorkers = 2
  Data <- MCDataEven
  Iters = 2
  LR = 1
  RegLR = 1
  RegOn = TRUE
  ReportPerRound = TRUE
SPECIFICATION Spec
INVARIANT GradientAgainstSnapshot
CHECK_DEADLOCK FALSE
