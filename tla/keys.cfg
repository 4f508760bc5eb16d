SPECIFICATION Spec
CONSTANTS
  Jobs <- WorkingJobs
  PartitionBytes = 2
  KeysPerTensor = 4
  HashSpace = 100
  Hash <- NumberHash
INVARIANT KeysAgree
INVARIANT SumsAreOneGroups
INVARIANT LengthsAgree
INVARIANT NoErrors
PROPERTY EveryPassEnds
CHECK_DEADLOCK FALSE
