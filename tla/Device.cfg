SPECIFICATION MCSpec
CONSTANTS
    Senders = {i1, i2}
    MaxImages = 3
    MaxPieces = 3
    MaxFaults = 1
    Strings = {t1, t2}
    Pictures = {p1, p2}
    MaxEntries = 3
    TextBudget = 2
    PictureBudget = 1
    Scrap = Scrap
    MaxChanges = 3
    MaxKeys = 2
    MaxLen = 3
    Pair = {e1, e2}
    Devices = {d1, d2, d3}
    MaxConns = 3
    Overlaps = FALSE
    Concurrent = FALSE
    MaxCards = 1
    MaxAccounts = 3
    MaxDrawn = 2
    Vanishes = FALSE
    Locked = Locked
    Zeroed = Zeroed
    Urls = {u1, u2}
    Base = 1
    Cap = 2
    RateCap = 3
    QuotaCap = 4
    Stable = 2
    MaxShift = 3
    Owners = {me, other}
    Me = me
    MaxNow = 1
    MsgIdCapacity = 1
    DeviceCapacity = 1
    MaxAge = 0
    RetainedMaxAge = 1
    FutureSkew = 0
    MaxSeqJump = 1
    MaxSeq = 3
    MaxFailures = 1
    MaxCrashes = 1
    MaxDials = 2
    MaxSent = 2
    MaxNews = 1
    None = None
INVARIANTS LastBegunIsShown ReadsBack SecretsUnread ListIsRight MakerFollows RemovedStaysOut LoadsLatest AboutThisConnection ClipsInOrder
PROPERTIES RestartKeepsList DeviceKeyKept NeverTooSoon
CHECK_DEADLOCK FALSE
SYMMETRY Alike
