SPECIFICATION Spec
CONSTANTS
    RoomIds = {r1, r2, r3, r4}
    Conns = {c1}
    MsgIds = {m1, m2}
    NoMsg = NoMsg
    RetainMax = 2
    Budget = 2
    Ttl = 1
    MaxRooms = 3
    MaxConnsPerRoom = 2
    DedupWindow = 1
    Sizes = {1, 2, 3}
    MaxNow = 2
SYMMETRY Symmetry
INVARIANTS BytesAccounted ServesNewest
