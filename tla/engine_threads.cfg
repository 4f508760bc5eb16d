SPECIFICATION FairSpec
CONSTANTS
  Keys <- ThreeKeys
  Size <- ThreeSizes
  ThreadNum = 2
  NumWorkers = 2
  Schedule = FALSE
  MaxRound <- ThreeRounds
INVARIANT OneThreadPerKey
PROPERTY ImplementsKeyQueues
PROPERTY EveryMessageExecuted
