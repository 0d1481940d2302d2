------------------------------- MODULE Rooms -------------------------------
(***************************************************************************)
(* The relay's room registry (server/src/rooms.ts, class RoomRegistry) as  *)
(* operators on a registry value                                           *)
(*                                                                         *)
(*     g = [rooms : RoomIds -> Room, bytes : Nat]                          *)
(*                                                                         *)
(* bytes is the counter retainedBytes.  A room id that is not a key of the *)
(* Map is a room with open = FALSE.  `now` values are ticks: every rule of *)
(* the registry compares two of them, so only their order and difference   *)
(* matter.  A frame is its message id and its size in units.               *)
(*                                                                         *)
(* Where the code picks one of several rooms with the same lastActiveMs,   *)
(* by the insertion order of the Map, the operators allow any of them.     *)
(***************************************************************************)
EXTENDS Naturals, Sequences, FiniteSets

CONSTANTS
    RoomIds,          \* room ids, one per account key
    Conns,            \* connections, identified by conn.id
    MsgIds,           \* message ids
    NoMsg,            \* not a message id
    RetainMax,        \* options.retainMaxBytes
    Budget,           \* options.retainGlobalBudgetBytes
    Ttl,              \* options.retainTtlMs
    MaxRooms,         \* options.maxRooms
    MaxConnsPerRoom,  \* options.maxConnsPerRoom
    DedupWindow       \* options.dedupWindow

ASSUME RoomsAssumption ==
    /\ IsFiniteSet(RoomIds)
    /\ IsFiniteSet(Conns)
    /\ NoMsg \notin MsgIds
    /\ RetainMax \in Nat
    /\ Budget \in Nat
    /\ Ttl \in Nat
    /\ MaxRooms \in Nat \ {0}
    /\ MaxConnsPerRoom \in Nat \ {0}
    /\ DedupWindow \in Nat \ {0}

(* room.retained = null *)
NoClip == [id |-> NoMsg, size |-> 0, at |-> 0]

Retained == [id : MsgIds \cup {NoMsg}, size : Nat, at : Nat]

(* The type Room.  seen holds seenOrder; the Set `seen` has the same members. *)
Room == [open : BOOLEAN, conns : SUBSET Conns, retained : Retained,
         lastActive : Nat, seen : Seq(MsgIds), timer : BOOLEAN]

(* The registry's shape.  The byte counter's value is the subject of module *)
(* Registry; nothing else depends on it.                                    *)
IsRegistry(g) ==
    /\ g = [rooms |-> g.rooms, bytes |-> g.bytes]
    /\ g.rooms \in [RoomIds -> Room]

ClosedRoom == [open |-> FALSE, conns |-> {}, retained |-> NoClip,
               lastActive |-> 0, seen |-> << >>, timer |-> FALSE]

EmptyRegistry == [rooms |-> [r \in RoomIds |-> ClosedRoom], bytes |-> 0]

(* The registry with room r replaced *)
WithRoom(g, r, x) == [rooms |-> [g.rooms EXCEPT ![r] = x], bytes |-> g.bytes]

OpenRooms(g) == {r \in RoomIds : g.rooms[r].open}

(***************************************************************************)
(* Dropping retained clips and rooms                                       *)
(***************************************************************************)

(* What the retained clips of the rooms of R amount to: the units of each, *)
(* told apart by their room, are counted.                                  *)
RetainedUnits(g, R) == UNION {{r} \X (1 .. g.rooms[r].retained.size) : r \in R}
RetainedBytes(g, R) == Cardinality(RetainedUnits(g, R))

(* dropRetained, on every room of R *)
DropRetained(g, R) ==
    [rooms |-> [r \in RoomIds |->
                   IF r \in R THEN [g.rooms[r] EXCEPT !.retained = NoClip]
                              ELSE g.rooms[r]],
     bytes |-> g.bytes - RetainedBytes(g, R)]

(* this.rooms.delete, together with the clearTimeout that precedes it *)
DeleteRooms(g, R) ==
    [rooms |-> [r \in RoomIds |-> IF r \in R THEN ClosedRoom ELSE g.rooms[r]],
     bytes |-> g.bytes]

(* A mistake: a room is dropped while others are still connected to it. *)
UnusedWhileShared(g) == {r \in OpenRooms(g) : g.rooms[r].retained = NoClip}

Unused(g) == {r \in OpenRooms(g) : g.rooms[r].conns = {} /\ g.rooms[r].retained = NoClip}

(* The rooms evictIdlestRoom may take: empty, and idle the longest. *)
IdlestRooms(g) ==
    LET empty == {r \in OpenRooms(g) : g.rooms[r].conns = {}}
    IN  {r \in empty : \A s \in empty : g.rooms[r].lastActive <= g.rooms[s].lastActive}

(* evictIdlestRoom, on the room it takes *)
EvictRoom(g, r) == DeleteRooms(DropRetained(g, {r}), {r})

(* Only retained clips of other rooms are given up, the least recently     *)
(* active room's first, one at a time, until the total fits the budget.    *)
EvictionOrder(g, r, D) ==
    LET others == {s \in OpenRooms(g) : s # r /\ g.rooms[s].retained # NoClip}
        total(S) == g.bytes - RetainedBytes(g, S)
    IN  /\ D \subseteq others
        /\ \A d \in D, s \in others \ D : g.rooms[d].lastActive <= g.rooms[s].lastActive
        /\ total(D) <= Budget \/ D = others
        /\ D = {} \/ \E d \in D : /\ \A e \in D : g.rooms[e].lastActive <= g.rooms[d].lastActive
                                  /\ total(D \ {d}) > Budget

(* evictUntilWithinBudget: the registries it may leave *)
EvictUntilWithinBudget(g, r) ==
    {DropRetained(g, D) : D \in {D \in SUBSET RoomIds : EvictionOrder(g, r, D)}}

(***************************************************************************)
(* The registry's operations                                               *)
(***************************************************************************)

(* The registries in which room r has, or may be given, a slot: at the cap *)
(* an empty room makes way.  None when every room is in use.               *)
MakeSlot(g, r) ==
    IF g.rooms[r].open \/ Cardinality(OpenRooms(g)) < MaxRooms
    THEN {g}
    ELSE {EvictRoom(g, s) : s \in IdlestRooms(g)}

RoomFull(g, r) == Cardinality(g.rooms[r].conns) >= MaxConnsPerRoom

(* join, once the room has a slot and is not full *)
Admit(g, c, r, now) ==
    WithRoom(g, r, [g.rooms[r] EXCEPT !.open = TRUE,
                                      !.conns = @ \cup {c},
                                      !.lastActive = now])

(* join: the registries a successful join may leave.  Empty: refused.  A   *)
(* refusal leaves the registry as it was, since a room that is full is     *)
(* open and needs no slot.                                                 *)
Join(g, c, r, now) ==
    IF RoomFull(g, r) THEN {} ELSE {Admit(h, c, r, now) : h \in MakeSlot(g, r)}

(* leave *)
Leave(g, c, r, now) ==
    IF ~g.rooms[r].open THEN g
    ELSE LET h == WithRoom(g, r, [g.rooms[r] EXCEPT !.conns = @ \ {c},
                                                   !.lastActive = now])
         IN  DeleteRooms(h, Unused(h) \cap {r})

HasSeen(g, r, m) == \E i \in 1 .. Len(g.rooms[r].seen) : g.rooms[r].seen[i] = m

(* isDuplicate, for a message not seen: recorded, the oldest forgotten *)
RecordSeen(g, r, m) ==
    LET longer == Append(g.rooms[r].seen, m)
    IN  IF ~g.rooms[r].open THEN g
        ELSE WithRoom(g, r, [g.rooms[r] EXCEPT !.seen =
                 IF Len(longer) > DedupWindow THEN Tail(longer) ELSE longer])

(* A mistake: the clip replaced goes on being counted. *)
RetainLeaking(g, r, m, size, now) ==
    IF size > RetainMax \/ ~g.rooms[r].open THEN {g}
    ELSE LET clip == [id |-> m, size |-> size, at |-> now]
             h == WithRoom(g, r, [g.rooms[r] EXCEPT !.retained = clip, !.lastActive = now])
         IN  EvictUntilWithinBudget([rooms |-> h.rooms, bytes |-> g.bytes + size], r)

(* retain: the registries it may leave *)
Retain(g, r, m, size, now) ==
    IF size > RetainMax \/ ~g.rooms[r].open THEN {g}
    ELSE LET clip == [id |-> m, size |-> size, at |-> now]
             h == WithRoom(g, r, [g.rooms[r] EXCEPT !.retained = clip, !.lastActive = now])
         IN  EvictUntilWithinBudget(
                 [rooms |-> h.rooms, bytes |-> g.bytes - g.rooms[r].retained.size + size], r)

Expired(g, r, now) ==
    g.rooms[r].retained # NoClip /\ now - g.rooms[r].retained.at > Ttl

(* A mistake: a clip is served however old it is. *)
LookupWithoutExpiry(g, r, now) == g

(* retainedFor drops an expired clip on the way.  What it answers is the   *)
(* retained clip of the registry it leaves.                                *)
AfterLookup(g, r, now) == IF Expired(g, r, now) THEN DropRetained(g, {r}) ELSE g

(* sweep *)
Sweep(g, now) ==
    LET h == DropRetained(g, {r \in RoomIds : Expired(g, r, now)})
    IN  DeleteRooms(h, Unused(h))

(* A mistake: a device left alone in its room is not told. *)
SchedulePresenceIfShared(g, r) ==
    IF Cardinality(g.rooms[r].conns) > 1
    THEN WithRoom(g, r, [g.rooms[r] EXCEPT !.timer = TRUE]) ELSE g

(* schedulePresence with a debounce: the timer is set again *)
SchedulePresence(g, r) ==
    IF g.rooms[r].open THEN WithRoom(g, r, [g.rooms[r] EXCEPT !.timer = TRUE]) ELSE g

(* The timer's callback, up to the emit *)
PresenceFired(g, r) == WithRoom(g, r, [g.rooms[r] EXCEPT !.timer = FALSE])

(* clearTimers *)
ClearTimers(g) ==
    [rooms |-> [r \in RoomIds |-> [g.rooms[r] EXCEPT !.timer = FALSE]], bytes |-> g.bytes]

=============================================================================
