CONSTANTS
  NumFeatures = 2
  NumWorkers = 3
  Data <- MCDataUneven
  TestData <- MCTest
  Iters = 2
  LR = 1
  RegLR = 1
  RegOn = TRUE
  ReportPerRound = TRUE
SPECIFICATION ExampleSpec
INVARIANTS TestErrorAsSpecified
PROPERTIES ExampleTermination
CHECK_DEADLOCK FALSE
