SPECIFICATION Spec
CONSTANTS
    RoomIds = {r1}
    Conns = {c1, c2}
    MsgIds = {m1, m2}
    NoMsg = NoMsg
    NoRoom = NoRoom
    Everyone = Everyone
    RetainMax = 1
    Budget = 1
    Ttl = 1
    MaxRooms = 1
    MaxConnsPerRoom = 2
    DedupWindow = 1
    Soft = 1
    Hard = 2
    MaxStrikes = 3
    MaxMissed = 2
    Kinds = {"clip", "announce", "msg", "fetch_last"}
    Events = {}
    MaxClips = 2
SYMMETRY Symmetry
INVARIANTS ClipsInOrder MsgsNotDropped
CHECK_DEADLOCK FALSE
