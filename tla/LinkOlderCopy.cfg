SPECIFICATION Spec
CONSTANTS
    MaxCopies = 2
    MaxMessages = 0
    MaxTicks = 0
    MaxSkips = 0
    MaxDrops = 0
    MaxSendErrors = 1
    MaxReconnects = 0
    MaxRefusals = 0
PROPERTY NoOlderCopyAfter
CHECK_DEADLOCK FALSE
