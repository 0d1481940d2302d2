SPECIFICATION Spec
CONSTANTS
    Reservation = 10
    MaxCopies = 19
    MaxResends = 1
    MaxCrashes = 1
PROPERTY NeverLowered
CHECK_DEADLOCK FALSE
