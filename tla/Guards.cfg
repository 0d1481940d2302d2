SPECIFICATION MCSpec
CONSTANTS
    Reservation = 10
    MaxCopies = 12
    MaxResends = 1
    MaxCrashes = 1
    Keys = {k1, k2}
    MaxSockets = 4
    MaxConnsGlobal = 3
    MaxConnsPerIp = 2
    NewConnBurst = 2
    Refill = 2
    IdleMs = 1
    RoomIds = {r1, r2}
    RoomBytes = 1
    TransferBytes = 2
    GlobalBytes = 2
    Window = 2
    ClipSizes = {1}
    BulkSizes = {1}
    MaxNow = 4
    MaxDay = 2
    MaxJumps = 1
    MaxText = 1
    MaxField = 1
    MaxName = 1
    MaxPiece = 1
    MaxBlob = 1
    MaxAddrs = 2
    MaxBoxes = 2
    PadTo = 4
    AnnounceLen = 16
    Letters = {1}
    Numbers = {0, 1}
    None = None
INVARIANTS NumbersCovered ForgettingMintsNothing RoomQuotasKept HeardIsSaid
CHECK_DEADLOCK FALSE
