SPECIFICATION Spec
CONSTANT Machines <- AllMachines
INVARIANT PushedIsSum
INVARIANT OutputIsSum
INVARIANT NoAbort
INVARIANT CreditsConserved
PROPERTY EveryRoundReturns
PROPERTY ActsAsOneWorker
CHECK_DEADLOCK FALSE
