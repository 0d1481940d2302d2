SPECIFICATION Spec
CONSTANTS
    RoomIds = {r1, r2, r3}
    Conns = {c1, c2, c3}
    MsgIds = {m1}
    NoMsg = NoMsg
    NoRoom = NoRoom
    Everyone = Everyone
    RetainMax = 1
    Budget = 1
    Ttl = 1
    MaxRooms = 2
    MaxConnsPerRoom = 2
    DedupWindow = 1
    Soft = 0
    Hard = 1
    MaxStrikes = 1
    MaxMissed = 2
    Kinds = {"clip"}
    Events = {"rate limit", "shutdown"}
    MaxClips = 1
SYMMETRY Symmetry
INVARIANTS RegistryMatchesSessions RoomIsolation PresenceCurrent
CHECK_DEADLOCK FALSE
