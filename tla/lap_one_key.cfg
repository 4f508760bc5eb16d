SPECIFICATION Spec
CONSTANTS
  w1 = w1
  w2 = w2
  w3 = w3
  Workers <- TwoWorkers
  Keys <- OneKey
  Group <- OneKeyGroup
  Overlap = FALSE
  MaxRound = 2
INVARIANT PullReturnsSum
