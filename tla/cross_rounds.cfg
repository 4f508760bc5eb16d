SPECIFICATION Spec
CONSTANT Machines <- TwoRoundsMachines
INVARIANT OutputIsSum
CHECK_DEADLOCK FALSE
