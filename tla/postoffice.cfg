SPECIFICATION Spec
CHECK_DEADLOCK FALSE
CONSTANTS
    Peers = {8, 9}
    Barriers = 2
    MaxFaults = 1
CONSTRAINT Orderly
INVARIANT ExactlyOnce
INVARIANT BarrierSeparates
PROPERTY BarriersPass
