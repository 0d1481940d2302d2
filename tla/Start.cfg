SPECIFICATION MCSpec
CONSTANTS
    Threads = {"window", "daemon"}
    Commands = {}
    None = None
    Empty = Empty
    Torn = Torn
    MaxSaves = 4
    Attempts = {x1, x2}
    Near = {x1}
    MaxRequests = 2
    MaxClicks = 2
    MaxFaults = 1
    Launches = {x1, x2, x3}
    Transfers = {t1, t2}
    Rekeys = {k1}
    Together = FALSE
    MaxRestarts = 1
INVARIANT OnlyTheApproved
PROPERTIES EveryoneEnds NoTransferLost ComesBack WholeConfigs
CHECK_DEADLOCK FALSE
