SPECIFICATION Spec
CONSTANTS
  Keys <- ThreeKeys
  Size <- ThreeSizes
  ThreadNum = 1
  NumWorkers = 2
  Schedule = TRUE
  MaxRound <- ThreeRounds
PROPERTY ImplementsKeyQueues
