SPECIFICATION Spec
CONSTANTS
    Count = 3
    Window = 2
    MaxFaults = 1
    MaxSets = 1
INVARIANTS SentMeansKept PrivateStaysLocal NoNeedlessFailure
CHECK_DEADLOCK FALSE
PROPERTY Settles
