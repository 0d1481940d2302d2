---------------------------- MODULE RoomsProofs ----------------------------
(***************************************************************************)
(* What the registry's operations do to the sets of connections, to which  *)
(* rooms exist, and to the registry's shape, for every registry.           *)
(***************************************************************************)
EXTENDS Rooms, TLAPS

(* Two registries agree on who is connected where and on which rooms exist. *)
SameRooms(g, h) ==
    \A s \in RoomIds : /\ h.rooms[s].conns = g.rooms[s].conns
                       /\ h.rooms[s].open = g.rooms[s].open

(* And on which presence timers are set. *)
SameTimers(g, h) == \A s \in RoomIds : h.rooms[s].timer = g.rooms[s].timer

(* The absence of a clip is a well formed value of the retained field. *)
LEMMA NoClipType == NoClip \in Retained
BY DEF NoClip, Retained

(* A room that is not in the map is well formed. *)
LEMMA ClosedRoomType == ClosedRoom \in Room
BY NoClipType DEF ClosedRoom, Room

(* The relay starts with a well formed registry in which nobody is connected. *)
LEMMA EmptyRegistryType ==
    /\ IsRegistry(EmptyRegistry)
    /\ \A r \in RoomIds : EmptyRegistry.rooms[r].conns = {}
BY ClosedRoomType DEF IsRegistry, EmptyRegistry, ClosedRoom

(* dropRetained only drops retained clips. *)
LEMMA DropRetainedSame ==
    ASSUME NEW g, IsRegistry(g), NEW R
    PROVE  /\ IsRegistry(DropRetained(g, R))
           /\ SameRooms(g, DropRetained(g, R)) /\ SameTimers(g, DropRetained(g, R))
<1> DEFINE h == DropRetained(g, R)
<1>1. h.rooms = [r \in RoomIds |-> IF r \in R THEN [g.rooms[r] EXCEPT !.retained = NoClip]
                                   ELSE g.rooms[r]]
  BY DEF DropRetained
<1>2. h = [rooms |-> h.rooms, bytes |-> h.bytes]
  BY DEF DropRetained
<1>3. \A r \in RoomIds : g.rooms[r] \in Room
  BY DEF IsRegistry
<1>4. \A r \in RoomIds : h.rooms[r] \in Room /\ h.rooms[r].conns = g.rooms[r].conns
                         /\ h.rooms[r].open = g.rooms[r].open
                         /\ h.rooms[r].timer = g.rooms[r].timer
  BY <1>1, <1>3, NoClipType DEF Room
<1>5. h.rooms \in [RoomIds -> Room]
  BY <1>1, <1>4
<1> QED
  BY <1>2, <1>4, <1>5 DEF IsRegistry, SameRooms, SameTimers

(* Replacing one room replaces nothing else. *)
LEMMA WithRoomEffect ==
    ASSUME NEW g, IsRegistry(g), NEW r \in RoomIds, NEW x \in Room
    PROVE  /\ IsRegistry(WithRoom(g, r, x))
           /\ WithRoom(g, r, x).rooms[r] = x
           /\ \A s \in RoomIds \ {r} : WithRoom(g, r, x).rooms[s] = g.rooms[s]
BY DEF WithRoom, IsRegistry

(* Deleting rooms leaves the others as they were. *)
LEMMA DeleteRoomsEffect ==
    ASSUME NEW g, IsRegistry(g), NEW R
    PROVE  /\ IsRegistry(DeleteRooms(g, R))
           /\ \A s \in RoomIds :
                 DeleteRooms(g, R).rooms[s] = IF s \in R THEN ClosedRoom ELSE g.rooms[s]
BY ClosedRoomType DEF DeleteRooms, IsRegistry

(* Making way for a room evicts at most a room nobody is connected to. *)
LEMMA MakeSlotEffect ==
    ASSUME NEW g, IsRegistry(g), NEW r \in RoomIds, NEW h \in MakeSlot(g, r)
    PROVE  /\ IsRegistry(h)
           /\ \A s \in RoomIds : /\ h.rooms[s].conns = g.rooms[s].conns
                                 /\ g.rooms[s].conns # {} =>
                                       /\ h.rooms[s].open = g.rooms[s].open
                                       /\ h.rooms[s].timer = g.rooms[s].timer
<1>1. CASE h = g
  BY <1>1
<1>2. CASE h # g
  <2>1. PICK s \in IdlestRooms(g) : h = EvictRoom(g, s)
    BY <1>2 DEF MakeSlot
  <2>2. s \in RoomIds /\ g.rooms[s].conns = {}
    BY <2>1 DEF IdlestRooms, OpenRooms
  <2>3. PICK d : d = DropRetained(g, {s})
    OBVIOUS
  <2>4. IsRegistry(d) /\ SameRooms(g, d) /\ SameTimers(g, d)
    BY <2>3, DropRetainedSame
  <2>5. h = DeleteRooms(d, {s})
    BY <2>1, <2>3 DEF EvictRoom
  <2>6. /\ IsRegistry(h)
        /\ \A x \in RoomIds : h.rooms[x] = IF x \in {s} THEN ClosedRoom ELSE d.rooms[x]
    BY <2>4, <2>5, DeleteRoomsEffect
  <2>7. ClosedRoom.conns = {}
    BY DEF ClosedRoom
  <2>8. ASSUME NEW x \in RoomIds
        PROVE  /\ h.rooms[x].conns = g.rooms[x].conns
               /\ g.rooms[x].conns # {} => /\ h.rooms[x].open = g.rooms[x].open
                                           /\ h.rooms[x].timer = g.rooms[x].timer
    <3>1. CASE x = s
      BY <2>2, <2>6, <2>7, <3>1
    <3>2. CASE x # s
      BY <2>4, <2>6, <3>2 DEF SameRooms, SameTimers
    <3> QED
      BY <3>1, <3>2
  <2> QED
    BY <2>6, <2>8
<1> QED
  BY <1>1, <1>2

(* A successful join adds the connection to its room and disturbs nobody. *)
LEMMA JoinEffect ==
    ASSUME NEW g, IsRegistry(g), NEW c \in Conns, NEW r \in RoomIds, NEW now \in Nat,
           NEW h \in Join(g, c, r, now)
    PROVE  /\ IsRegistry(h)
           /\ h.rooms[r].open
           /\ h.rooms[r].conns = g.rooms[r].conns \cup {c}
           /\ \A s \in RoomIds \ {r} :
                 /\ h.rooms[s].conns = g.rooms[s].conns
                 /\ g.rooms[s].conns # {} => /\ h.rooms[s].open = g.rooms[s].open
                                             /\ h.rooms[s].timer = g.rooms[s].timer
<1>1. PICK k \in MakeSlot(g, r) : h = Admit(k, c, r, now)
  BY DEF Join
<1>2. /\ IsRegistry(k)
      /\ \A s \in RoomIds : /\ k.rooms[s].conns = g.rooms[s].conns
                            /\ g.rooms[s].conns # {} =>
                                  /\ k.rooms[s].open = g.rooms[s].open
                                  /\ k.rooms[s].timer = g.rooms[s].timer
  BY MakeSlotEffect
<1> DEFINE x == [k.rooms[r] EXCEPT !.open = TRUE, !.conns = @ \cup {c}, !.lastActive = now]
<1>3. x \in Room /\ x.open /\ x.conns = k.rooms[r].conns \cup {c}
  BY <1>2 DEF IsRegistry, Room
<1>4. h = WithRoom(k, r, x)
  BY <1>1 DEF Admit
<1> HIDE DEF x
<1>5. /\ IsRegistry(h)
      /\ h.rooms[r] = x
      /\ \A s \in RoomIds \ {r} : h.rooms[s] = k.rooms[s]
  BY <1>2, <1>3, <1>4, WithRoomEffect
<1> QED
  BY <1>2, <1>3, <1>5

(* Leaving removes the connection, and the room only if nobody is left. *)
LEMMA LeaveEffect ==
    ASSUME NEW g, IsRegistry(g), NEW c \in Conns, NEW r \in RoomIds, NEW now \in Nat,
           g.rooms[r].open
    PROVE  /\ IsRegistry(Leave(g, c, r, now))
           /\ Leave(g, c, r, now).rooms[r].conns = g.rooms[r].conns \ {c}
           /\ g.rooms[r].conns \ {c} # {} => Leave(g, c, r, now).rooms[r].open
           /\ \A s \in RoomIds \ {r} : Leave(g, c, r, now).rooms[s] = g.rooms[s]
<1> DEFINE x == [g.rooms[r] EXCEPT !.conns = @ \ {c}, !.lastActive = now]
           h == WithRoom(g, r, x)
           l == Leave(g, c, r, now)
<1>1. x \in Room /\ x.open /\ x.conns = g.rooms[r].conns \ {c}
  BY DEF IsRegistry, Room
<1>2. l = DeleteRooms(h, Unused(h) \cap {r})
  BY DEF Leave
<1> HIDE DEF x, l
<1>3. IsRegistry(h) /\ h.rooms[r] = x /\ \A s \in RoomIds \ {r} : h.rooms[s] = g.rooms[s]
  BY <1>1, WithRoomEffect
<1> HIDE DEF h
<1>4. /\ IsRegistry(l)
      /\ \A s \in RoomIds : l.rooms[s] =
            IF s \in Unused(h) \cap {r} THEN ClosedRoom ELSE h.rooms[s]
  BY <1>2, <1>3, DeleteRoomsEffect
<1>5. r \in Unused(h) => x.conns = {}
  BY <1>3 DEF Unused
<1>6. ClosedRoom.conns = {}
  BY DEF ClosedRoom
<1>7. l.rooms[r].conns = g.rooms[r].conns \ {c}
  BY <1>1, <1>3, <1>4, <1>5, <1>6
<1>8. g.rooms[r].conns \ {c} # {} => l.rooms[r].open
  BY <1>1, <1>3, <1>4, <1>5
<1>9. \A s \in RoomIds \ {r} : l.rooms[s] = g.rooms[s]
  BY <1>3, <1>4
<1> QED
  BY <1>4, <1>7, <1>8, <1>9 DEF l

(* Replacing a room by one with the same connections, open or not as it    *)
(* was, disturbs nobody.                                                   *)
LEMMA WithRoomSame ==
    ASSUME NEW g, IsRegistry(g), NEW r \in RoomIds, NEW x \in Room,
           x.conns = g.rooms[r].conns, x.open = g.rooms[r].open
    PROVE  IsRegistry(WithRoom(g, r, x)) /\ SameRooms(g, WithRoom(g, r, x))
BY WithRoomEffect DEF SameRooms

(* Recording a message id touches nobody's connection. *)
LEMMA RecordSeenSame ==
    ASSUME NEW g, IsRegistry(g), NEW r \in RoomIds, NEW m \in MsgIds
    PROVE  /\ IsRegistry(RecordSeen(g, r, m))
           /\ SameRooms(g, RecordSeen(g, r, m)) /\ SameTimers(g, RecordSeen(g, r, m))
<1> DEFINE longer == Append(g.rooms[r].seen, m)
           q == IF Len(longer) > DedupWindow THEN Tail(longer) ELSE longer
           x == [g.rooms[r] EXCEPT !.seen = q]
<1>1. g.rooms[r] \in Room
  BY DEF IsRegistry
<1>2. longer \in Seq(MsgIds) /\ longer # << >>
  BY <1>1 DEF Room
<1>3. q \in Seq(MsgIds)
  BY <1>2
<1> HIDE DEF q
<1>4. /\ x \in Room /\ x.conns = g.rooms[r].conns /\ x.open = g.rooms[r].open
      /\ x.timer = g.rooms[r].timer
  BY <1>1, <1>3 DEF Room
<1>5. g.rooms[r].open => RecordSeen(g, r, m) = WithRoom(g, r, x)
  BY DEF RecordSeen, q
<1>6. ~g.rooms[r].open => RecordSeen(g, r, m) = g
  BY DEF RecordSeen
<1> HIDE DEF x
<1> QED
  BY <1>4, <1>5, <1>6, WithRoomSame, WithRoomEffect DEF SameRooms, SameTimers

(* Retaining a clip, and evicting others' for the budget, touches nobody's *)
(* connection and closes no room.                                          *)
LEMMA RetainSame ==
    ASSUME NEW g, IsRegistry(g), NEW r \in RoomIds, NEW m \in MsgIds, NEW size \in Nat,
           NEW now \in Nat, NEW h \in Retain(g, r, m, size, now)
    PROVE  IsRegistry(h) /\ SameRooms(g, h) /\ SameTimers(g, h)
<1>1. CASE size > RetainMax \/ ~g.rooms[r].open
  BY <1>1 DEF Retain, SameRooms, SameTimers
<1>2. CASE ~(size > RetainMax \/ ~g.rooms[r].open)
  <2> DEFINE clip == [id |-> m, size |-> size, at |-> now]
             x == [g.rooms[r] EXCEPT !.retained = clip, !.lastActive = now]
             w == WithRoom(g, r, x)
             k == [rooms |-> w.rooms, bytes |-> g.bytes - g.rooms[r].retained.size + size]
  <2>1. clip \in Retained
    BY DEF Retained
  <2>2. h \in EvictUntilWithinBudget(k, r)
    BY <1>2 DEF Retain
  <2> HIDE DEF clip
  <2>3. /\ x \in Room /\ x.conns = g.rooms[r].conns /\ x.open = g.rooms[r].open
        /\ x.timer = g.rooms[r].timer
    BY <2>1 DEF IsRegistry, Room
  <2> HIDE DEF x
  <2>4. IsRegistry(w) /\ SameRooms(g, w) /\ SameTimers(g, w)
    BY <2>3, WithRoomSame, WithRoomEffect DEF SameTimers
  <2> HIDE DEF w
  <2>5. IsRegistry(k) /\ SameRooms(g, k) /\ SameTimers(g, k)
    BY <2>4 DEF IsRegistry, SameRooms, SameTimers
  <2> HIDE DEF k
  <2>6. PICK D : h = DropRetained(k, D)
    BY <2>2 DEF EvictUntilWithinBudget
  <2>7. IsRegistry(h) /\ SameRooms(k, h) /\ SameTimers(k, h)
    BY <2>5, <2>6, DropRetainedSame
  <2> QED
    BY <2>5, <2>7 DEF SameRooms, SameTimers
<1> QED
  BY <1>1, <1>2

(* A lookup drops at most an expired clip. *)
LEMMA AfterLookupSame ==
    ASSUME NEW g, IsRegistry(g), NEW r \in RoomIds, NEW now
    PROVE  /\ IsRegistry(AfterLookup(g, r, now))
           /\ SameRooms(g, AfterLookup(g, r, now)) /\ SameTimers(g, AfterLookup(g, r, now))
BY DropRetainedSame DEF AfterLookup, SameRooms, SameTimers

(* Setting a presence timer touches nobody's connection. *)
LEMMA SchedulePresenceSame ==
    ASSUME NEW g, IsRegistry(g), NEW r \in RoomIds
    PROVE  /\ IsRegistry(SchedulePresence(g, r)) /\ SameRooms(g, SchedulePresence(g, r))
           /\ g.rooms[r].open => SchedulePresence(g, r).rooms[r].timer
           /\ \A s \in RoomIds \ {r} : SchedulePresence(g, r).rooms[s] = g.rooms[s]
<1> DEFINE x == [g.rooms[r] EXCEPT !.timer = TRUE]
<1>1. x \in Room /\ x.conns = g.rooms[r].conns /\ x.open = g.rooms[r].open /\ x.timer
  BY DEF IsRegistry, Room
<1>2. /\ g.rooms[r].open => SchedulePresence(g, r) = WithRoom(g, r, x)
      /\ ~g.rooms[r].open => SchedulePresence(g, r) = g
  BY DEF SchedulePresence
<1> HIDE DEF x
<1> QED
  BY <1>1, <1>2, WithRoomSame, WithRoomEffect DEF SameRooms

(* Nor does the timer firing. *)
LEMMA PresenceFiredSame ==
    ASSUME NEW g, IsRegistry(g), NEW r \in RoomIds
    PROVE  /\ IsRegistry(PresenceFired(g, r)) /\ SameRooms(g, PresenceFired(g, r))
           /\ \A s \in RoomIds \ {r} : PresenceFired(g, r).rooms[s] = g.rooms[s]
<1> DEFINE x == [g.rooms[r] EXCEPT !.timer = FALSE]
<1>1. x \in Room /\ x.conns = g.rooms[r].conns /\ x.open = g.rooms[r].open
  BY DEF IsRegistry, Room
<1>2. PresenceFired(g, r) = WithRoom(g, r, x)
  BY DEF PresenceFired
<1> HIDE DEF x
<1> QED
  BY <1>1, <1>2, WithRoomSame, WithRoomEffect

(* Nor does clearing all of them. *)
LEMMA ClearTimersSame ==
    ASSUME NEW g, IsRegistry(g)
    PROVE  IsRegistry(ClearTimers(g)) /\ SameRooms(g, ClearTimers(g))
<1> DEFINE f == [r \in RoomIds |-> [g.rooms[r] EXCEPT !.timer = FALSE]]
<1>1. \A r \in RoomIds : g.rooms[r] \in Room
  BY DEF IsRegistry
<1>2. \A r \in RoomIds : f[r] \in Room /\ f[r].conns = g.rooms[r].conns
                         /\ f[r].open = g.rooms[r].open
  BY <1>1 DEF Room
<1>3. ClearTimers(g) = [rooms |-> f, bytes |-> g.bytes]
  BY DEF ClearTimers
<1> QED
  BY <1>2, <1>3 DEF IsRegistry, SameRooms

=============================================================================
