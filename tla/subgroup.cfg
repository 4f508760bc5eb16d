SPECIFICATION FairSpec
CONSTANTS
  w1 = w1
  w2 = w2
  w3 = w3
  Workers <- ThreeWorkers
  Keys <- ThreeKeys
  Group <- SubGroup
  Overlap = FALSE
  MaxRound = 3
INVARIANT ChecksHold
INVARIANT PullReturnsSum
PROPERTY PostedBufferStable
PROPERTY ImplementsAllReduce
PROPERTY EveryPushPullCompletes
