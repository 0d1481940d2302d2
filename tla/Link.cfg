SPECIFICATION Spec
CONSTANTS
    MaxCopies = 3
    MaxMessages = 1
    MaxTicks = 1
    MaxSkips = 1
    MaxDrops = 2
    MaxSendErrors = 1
    MaxReconnects = 1
    MaxRefusals = 1
PROPERTIES CopiesInOrder NewestCopyArrives
CHECK_DEADLOCK FALSE
