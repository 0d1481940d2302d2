SPECIFICATION TimedSpec
CONSTANTS
    RoomIds = {r1}
    Conns = {c1, c2}
    MsgIds = {m1, m2}
    NoMsg = NoMsg
    NoRoom = NoRoom
    Everyone = Everyone
    RetainMax = 1
    Budget = 1
    Ttl = 1
    MaxRooms = 2
    MaxConnsPerRoom = 2
    DedupWindow = 1
    Soft = 0
    Hard = 1
    MaxStrikes = 3
    MaxMissed = 2
    Kinds = {"clip"}
    Events = {"heartbeat"}
    MaxClips = 2
PROPERTY NewestClipArrives
CHECK_DEADLOCK FALSE
