SPECIFICATION Spec
CONSTANTS
  Ranks = {r1, r2}
  Modules <- MCModules
  GroupOf <- MCGroupOf
  NumGroups = 2
  NumMicrobatches = 2
  MaxIterations = 3
  Jobs <- WorkingJobs
INVARIANT GradientsComplete
INVARIANT NothingAddedInFlight
INVARIANT AssertionsHold
PROPERTY ForwardReadsLatest
PROPERTY TrainingCompletes
CHECK_DEADLOCK FALSE
