------------------------------- MODULE Quotas -------------------------------
(***************************************************************************)
(* The relay's daily byte quotas (server/src/limits.ts, RollingQuota;      *)
(* server/src/server.ts, handleClip, handleAnnounce, chargeBulk and the    *)
(* sweeper).  A room has one for clips and announcements and one for bulk  *)
(* frames, made when first needed and forgotten by the sweeper; the relay  *)
(* has one for all bulk frames.  A quota counts from the first charge of a *)
(* window and starts again with the first one after its end.               *)
(***************************************************************************)
EXTENDS Naturals, FiniteSets, Functions, FiniteSetsExt

CONSTANTS
    RoomIds,
    RoomBytes,       \* roomBytesPerDay
    TransferBytes,   \* roomTransferBytesPerDay
    GlobalBytes,     \* globalTransferBytesPerDay
    Window,          \* 24 hours
    ClipSizes,       \* sizes of clips and announcements
    BulkSizes,       \* sizes of bulk frames, once per device they go to
    MaxNow,          \* bound: ticks of the clock
    MaxJumps         \* bound: times the wall clock is set back

QuotasAssumption ==
    /\ {RoomBytes, TransferBytes, GlobalBytes, Window} \subseteq Nat \ {0}
    /\ ClipSizes \cup BulkSizes \subseteq Nat \ {0} /\ MaxNow \in Nat /\ MaxJumps \in Nat

VARIABLES
    now,                 \* Date.now()
    roomQuotas,          \* the rooms' quotas for clips and announcements
    roomTransferQuotas,  \* the rooms' quotas for bulk frames
    globalTransferQuota,
    occupied,            \* rooms with a connection in them
    day,                 \* history: a stretch of Window ticks, picked beforehand, begins here
    clips, bulk,         \* history: bytes of each room accepted in it
    jumps

quotas == <<roomQuotas, roomTransferQuotas, globalTransferQuota>>
vars == <<now, roomQuotas, roomTransferQuotas, globalTransferQuota, occupied, day, clips, bulk, jumps>>

Times == 0..MaxNow

(* The history with what the room was charged, if this is in the stretch *)
Noted(usage, room, bytes) ==
    [usage EXCEPT ![room] = IF day <= now /\ now < day + Window THEN @ + bytes ELSE @]

(***************************************************************************)
(* RollingQuota                                                            *)
(***************************************************************************)
NewQuota == [used |-> 0, start |-> now]

Over(q) == now < q.start \/ now - q.start >= Window

(* rollIfNeeded *)
Rolled(q) == IF Over(q) THEN NewQuota ELSE q

(* charge: whether the bytes fit, and the quota after it *)
Fits(q, bytes, limit) == Rolled(q).used + bytes <= limit
Charged(q, bytes, limit) ==
    [Rolled(q) EXCEPT !.used = IF Fits(q, bytes, limit) THEN @ + bytes ELSE @]

(* A mistake: a quota that is not exhausted counts as idle. *)
IsIdleUnused(q) == Over(q) \/ q.used < TransferBytes

(* isIdle: forgetting the quota loses nothing *)
IsIdle(q) == Over(q) \/ q.used = 0

QuotaOf(map, room) == IF room \in DOMAIN map THEN map[room] ELSE NewQuota
Set(map, room, q) == [r \in DOMAIN map \cup {room} |-> IF r = room THEN q ELSE map[r]]

(***************************************************************************)
(* The relay                                                               *)
(***************************************************************************)
Init ==
    /\ now = 0
    /\ roomQuotas = <<>> /\ roomTransferQuotas = <<>>
    /\ globalTransferQuota = NewQuota
    /\ occupied = {}
    /\ day \in Times
    /\ clips = [r \in RoomIds |-> 0]
    /\ bulk = [r \in RoomIds |-> 0]
    /\ jumps = 0

(* handleClip and handleAnnounce.  A refusal also closes the connection,   *)
(* which may or may not be the room's last one (Occupy).                   *)
ChargeClip(room, bytes) ==
    LET q == QuotaOf(roomQuotas, room)
    IN  /\ room \in occupied
        /\ roomQuotas' = Set(roomQuotas, room, Charged(q, bytes, RoomBytes))
        /\ clips' = IF Fits(q, bytes, RoomBytes)
                    THEN Noted(clips, room, bytes) ELSE clips
        /\ UNCHANGED <<now, roomTransferQuotas, globalTransferQuota, occupied, day, bulk, jumps>>

(* chargeBulk: the room's quota first, and what it took is not given back  *)
(* when the relay's own refuses.                                           *)
ChargeBulk(room, bytes) ==
    LET q == QuotaOf(roomTransferQuotas, room)
        roomOk == Fits(q, bytes, TransferBytes)
        ok == roomOk /\ Fits(globalTransferQuota, bytes, GlobalBytes)
    IN  /\ room \in occupied
        /\ roomTransferQuotas' = Set(roomTransferQuotas, room, Charged(q, bytes, TransferBytes))
        /\ globalTransferQuota' = IF roomOk THEN Charged(globalTransferQuota, bytes, GlobalBytes)
                                  ELSE globalTransferQuota
        /\ bulk' = IF ok THEN Noted(bulk, room, bytes) ELSE bulk
        /\ UNCHANGED <<now, roomQuotas, occupied, day, clips, jumps>>

(* The sweeper's part: idle quotas of empty rooms are forgotten. *)
Kept(map) == Restrict(map, {r \in DOMAIN map : ~(IsIdle(map[r]) /\ r \notin occupied)})
Sweep ==
    /\ roomQuotas' = Kept(roomQuotas)
    /\ roomTransferQuotas' = Kept(roomTransferQuotas)
    /\ UNCHANGED <<now, globalTransferQuota, occupied, day, clips, bulk, jumps>>

(* A room's first connection arrives or its last one leaves. *)
Occupy(room) ==
    /\ occupied' = IF room \in occupied THEN occupied \ {room} ELSE occupied \cup {room}
    /\ UNCHANGED <<now, quotas, day, clips, bulk, jumps>>

Tick ==
    /\ now < MaxNow
    /\ now' = now + 1
    /\ UNCHANGED <<quotas, occupied, day, clips, bulk, jumps>>

ClockJumps ==
    /\ jumps < MaxJumps
    /\ jumps' = jumps + 1
    /\ now' \in 0..(now - 1)
    /\ UNCHANGED <<quotas, occupied, day, clips, bulk>>

Next ==
    \/ \E room \in RoomIds, bytes \in ClipSizes : ChargeClip(room, bytes)
    \/ \E room \in RoomIds, bytes \in BulkSizes : ChargeBulk(room, bytes)
    \/ \E room \in RoomIds : Occupy(room)
    \/ Sweep \/ Tick \/ ClockJumps

Spec == Init /\ [][Next]_vars

-----------------------------------------------------------------------------
(* Whatever is forgotten and made again, no stretch of a day carries more  *)
(* than two allowances of a room, and as many again each time the clock is *)
(* set back.                                                               *)
RoomQuotasKept ==
    \A r \in RoomIds : /\ clips[r] <= 2 * (1 + jumps) * RoomBytes
                       /\ bulk[r] <= 2 * (1 + jumps) * TransferBytes

=============================================================================
