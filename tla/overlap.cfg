SPECIFICATION FairSpec
CONSTANTS
  w1 = w1
  w2 = w2
  w3 = w3
  Workers <- TwoWorkers
  Keys <- TwoKeys
  Group <- TwoKeyGroup
  Overlap = TRUE
  MaxRound = 3
INVARIANT TypeOK
INVARIANT PullAfterMerge
INVARIANT ServiceAccounting
INVARIANT NoStrandedPull
PROPERTY EveryPushPullCompletes
