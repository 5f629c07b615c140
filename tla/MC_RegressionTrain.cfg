CONSTANTS
  NumWorkers = 2
  DataLen <- MCDataLen
  ErrorValues = {0, 1, 2}
  Iters = 2
  ReportPerRound = TRUE
SPECIFICATION Spec
INVARIANTS TypeOK RoundError RoundsRun
PROPERTIES Termination
CHECK_DEADLOCK FALSE
