--------------------------- MODULE RegistryProofs ---------------------------
(***************************************************************************)
(* For any number of rooms, connections and clips of any size: what the    *)
(* registry serves is the newest clip of the room, and not an expired one; *)
(* its byte counter is the size of the clips it keeps, and within the      *)
(* budget.                                                                 *)
(***************************************************************************)
EXTENDS Registry, RoomsProofs, FiniteSetTheorems

(* A room that is not in the map has no clip. *)
Tidy(g) == \A r \in RoomIds : g.rooms[r].open \/ g.rooms[r].retained = NoClip

(* From g to h clips are dropped at most, and no room that has one closes. *)
Fades(g, h) ==
    /\ \A r \in RoomIds : h.rooms[r].retained \in {g.rooms[r].retained, NoClip}
    /\ Tidy(g) => Tidy(h)

(* Dropping in several steps is dropping. *)
LEMMA FadesTransitive ==
    ASSUME NEW g, NEW h, NEW k, Fades(g, h), Fades(h, k)
    PROVE  Fades(g, k)
BY DEF Fades

(* dropRetained *)
LEMMA DropRetainedFades ==
    ASSUME NEW g, IsRegistry(g), NEW R
    PROVE  Fades(g, DropRetained(g, R))
<1> DEFINE h == DropRetained(g, R)
<1>1. \A r \in RoomIds : g.rooms[r] \in Room
  BY DEF IsRegistry
<1>2. \A r \in RoomIds : h.rooms[r] = IF r \in R THEN [g.rooms[r] EXCEPT !.retained = NoClip]
                                      ELSE g.rooms[r]
  BY DEF DropRetained
<1>3. \A r \in RoomIds : /\ h.rooms[r].retained \in {g.rooms[r].retained, NoClip}
                         /\ h.rooms[r].open = g.rooms[r].open
  BY <1>1, <1>2 DEF Room
<1> HIDE DEF h
<1>4. Fades(g, h)
  BY <1>3 DEF Fades, Tidy
<1> QED
  BY <1>4 DEF h

(* Deleting rooms *)
LEMMA DeleteRoomsFades ==
    ASSUME NEW g, IsRegistry(g), NEW R
    PROVE  Fades(g, DeleteRooms(g, R))
<1>1. ClosedRoom.retained = NoClip
  BY DEF ClosedRoom
<1> QED
  BY <1>1, DeleteRoomsEffect DEF Fades, Tidy

(* Changing a room otherwise than by its clip *)
LEMMA WithRoomFades ==
    ASSUME NEW g, IsRegistry(g), NEW r \in RoomIds, NEW x \in Room,
           x.retained = g.rooms[r].retained, g.rooms[r].open => x.open
    PROVE  Fades(g, WithRoom(g, r, x))
BY WithRoomEffect DEF Fades, Tidy

(* join drops the clip of the room that makes way. *)
LEMMA JoinFades ==
    ASSUME NEW g, IsRegistry(g), NEW c \in Conns, NEW r \in RoomIds, NEW t \in Nat,
           NEW h \in Join(g, c, r, t)
    PROVE  IsRegistry(h) /\ Fades(g, h)
<1>1. PICK k \in MakeSlot(g, r) : h = Admit(k, c, r, t)
  BY DEF Join
<1>2. IsRegistry(k)
  BY <1>1, MakeSlotEffect
<1>3. Fades(g, k)
  <2>1. CASE k = g
    BY <2>1 DEF Fades
  <2>2. CASE k # g
    <3>1. PICK s \in IdlestRooms(g) : k = EvictRoom(g, s)
      BY <1>1, <2>2 DEF MakeSlot
    <3>2. PICK d : d = DropRetained(g, {s})
      OBVIOUS
    <3>3. IsRegistry(d) /\ Fades(g, d)
      BY <3>2, DropRetainedSame, DropRetainedFades
    <3>4. k = DeleteRooms(d, {s})
      BY <3>1, <3>2 DEF EvictRoom
    <3>5. Fades(d, k)
      BY <3>3, <3>4, DeleteRoomsFades
    <3> QED
      BY <3>3, <3>5, FadesTransitive
  <2> QED
    BY <2>1, <2>2
<1> DEFINE x == [k.rooms[r] EXCEPT !.open = TRUE, !.conns = @ \cup {c}, !.lastActive = t]
<1>4. x \in Room /\ x.open /\ x.retained = k.rooms[r].retained
  BY <1>2 DEF IsRegistry, Room
<1>5. h = WithRoom(k, r, x)
  BY <1>1 DEF Admit
<1> HIDE DEF x
<1>6. IsRegistry(h) /\ Fades(k, h)
  BY <1>2, <1>4, <1>5, WithRoomEffect, WithRoomFades
<1> QED
  BY <1>3, <1>6, FadesTransitive

(* leave deletes the room only if it has no clip. *)
LEMMA LeaveFades ==
    ASSUME NEW g, IsRegistry(g), NEW c \in Conns, NEW r \in RoomIds, NEW t \in Nat
    PROVE  IsRegistry(Leave(g, c, r, t)) /\ Fades(g, Leave(g, c, r, t))
<1> DEFINE x == [g.rooms[r] EXCEPT !.conns = @ \ {c}, !.lastActive = t]
           h == WithRoom(g, r, x)
           l == Leave(g, c, r, t)
<1>1. x \in Room /\ x.retained = g.rooms[r].retained /\ x.open = g.rooms[r].open
  BY DEF IsRegistry, Room
<1>2. CASE ~g.rooms[r].open
  BY <1>2 DEF Leave, Fades
<1>3. CASE g.rooms[r].open
  <2>1. l = DeleteRooms(h, Unused(h) \cap {r})
    BY <1>3 DEF Leave
  <2> HIDE DEF x, l
  <2>2. IsRegistry(h) /\ Fades(g, h)
    BY <1>1, WithRoomEffect, WithRoomFades
  <2> HIDE DEF h
  <2>3. IsRegistry(l) /\ Fades(h, l)
    BY <2>1, <2>2, DeleteRoomsEffect, DeleteRoomsFades
  <2>4. Fades(g, l)
    BY <2>2, <2>3, FadesTransitive
  <2> QED
    BY <2>3, <2>4 DEF l
<1> QED
  BY <1>2, <1>3

(* A lookup drops the clip it finds expired. *)
LEMMA AfterLookupFades ==
    ASSUME NEW g, IsRegistry(g), NEW r \in RoomIds, NEW t
    PROVE  IsRegistry(AfterLookup(g, r, t)) /\ Fades(g, AfterLookup(g, r, t))
BY AfterLookupSame, DropRetainedFades DEF AfterLookup, Fades

(* The sweep drops the expired ones and closes the rooms it leaves empty. *)
LEMMA SweepFades ==
    ASSUME NEW g, IsRegistry(g), NEW t
    PROVE  IsRegistry(Sweep(g, t)) /\ Fades(g, Sweep(g, t))
<1>1. PICK h : h = DropRetained(g, {r \in RoomIds : Expired(g, r, t)})
  OBVIOUS
<1>2. IsRegistry(h) /\ Fades(g, h)
  BY <1>1, DropRetainedSame, DropRetainedFades
<1>3. Sweep(g, t) = DeleteRooms(h, Unused(h))
  BY <1>1 DEF Sweep
<1>4. IsRegistry(Sweep(g, t)) /\ Fades(h, Sweep(g, t))
  BY <1>2, <1>3, DeleteRoomsEffect, DeleteRoomsFades
<1> QED
  BY <1>2, <1>4, FadesTransitive

(* isDuplicate keeps the clips. *)
LEMMA RecordSeenFades ==
    ASSUME NEW g, IsRegistry(g), NEW r \in RoomIds, NEW m \in MsgIds
    PROVE  /\ IsRegistry(RecordSeen(g, r, m)) /\ Fades(g, RecordSeen(g, r, m))
<1> DEFINE longer == Append(g.rooms[r].seen, m)
           q == IF Len(longer) > DedupWindow THEN Tail(longer) ELSE longer
           x == [g.rooms[r] EXCEPT !.seen = q]
<1>1. g.rooms[r] \in Room
  BY DEF IsRegistry
<1>2. longer \in Seq(MsgIds) /\ longer # << >>
  BY <1>1 DEF Room
<1>3. q \in Seq(MsgIds)
  BY <1>2
<1> HIDE DEF q
<1>4. x \in Room /\ x.retained = g.rooms[r].retained /\ x.open = g.rooms[r].open
  BY <1>1, <1>3 DEF Room
<1>5. /\ g.rooms[r].open => RecordSeen(g, r, m) = WithRoom(g, r, x)
      /\ ~g.rooms[r].open => RecordSeen(g, r, m) = g
  BY DEF RecordSeen, q
<1> HIDE DEF x
<1> QED
  BY <1>4, <1>5, WithRoomEffect, WithRoomFades DEF Fades

(* retain gives a room that is open the clip, and the others may lose      *)
(* theirs to the budget.                                                   *)
LEMMA RetainEffect ==
    ASSUME NEW g, IsRegistry(g), NEW r \in RoomIds, NEW m \in MsgIds, NEW size \in Nat,
           NEW t \in Nat, NEW h \in Retain(g, r, m, size, t)
    PROVE  /\ IsRegistry(h)
           /\ size > RetainMax \/ ~g.rooms[r].open => h = g
           /\ ~(size > RetainMax \/ ~g.rooms[r].open) =>
                 /\ h.rooms[r].retained \in {[id |-> m, size |-> size, at |-> t], NoClip}
                 /\ \A s \in RoomIds \ {r} :
                       h.rooms[s].retained \in {g.rooms[s].retained, NoClip}
                 /\ Tidy(g) => Tidy(h)
<1>1. IsRegistry(h)
  BY RetainSame
<1>2. CASE size > RetainMax \/ ~g.rooms[r].open
  BY <1>1, <1>2 DEF Retain
<1>3. CASE ~(size > RetainMax \/ ~g.rooms[r].open)
  <2> DEFINE clip == [id |-> m, size |-> size, at |-> t]
             x == [g.rooms[r] EXCEPT !.retained = clip, !.lastActive = t]
             w == WithRoom(g, r, x)
             k == [rooms |-> w.rooms, bytes |-> g.bytes - g.rooms[r].retained.size + size]
  <2>1. clip \in Retained
    BY DEF Retained
  <2>2. h \in EvictUntilWithinBudget(k, r)
    BY <1>3 DEF Retain
  <2> HIDE DEF clip
  <2>3. x \in Room /\ x.retained = clip /\ x.open
    BY <1>3, <2>1 DEF IsRegistry, Room
  <2> HIDE DEF x
  <2>4. /\ IsRegistry(w) /\ w.rooms[r] = x
        /\ \A s \in RoomIds \ {r} : w.rooms[s] = g.rooms[s]
    BY <2>3, WithRoomEffect
  <2> HIDE DEF w
  <2>5. IsRegistry(k) /\ k.rooms = w.rooms
    BY <2>4 DEF IsRegistry
  <2> HIDE DEF k
  <2>6. PICK D : h = DropRetained(k, D)
    BY <2>2 DEF EvictUntilWithinBudget
  <2>7. Fades(k, h)
    BY <2>5, <2>6, DropRetainedFades
  <2>8. Tidy(g) => Tidy(k)
    BY <2>3, <2>4, <2>5 DEF Tidy
  <2>9. /\ h.rooms[r].retained \in {clip, NoClip}
        /\ \A s \in RoomIds \ {r} : h.rooms[s].retained \in {g.rooms[s].retained, NoClip}
        /\ Tidy(g) => Tidy(h)
    BY <2>3, <2>4, <2>5, <2>7, <2>8 DEF Fades
  <2> QED
    BY <1>1, <1>3, <2>9 DEF clip
<1> QED
  BY <1>2, <1>3
-----------------------------------------------------------------------------
(* What is retained against the counter, and against the budget.           *)

(* Finitely many units. *)
LEMMA UnitsFinite ==
    ASSUME NEW g, IsRegistry(g), NEW R \in SUBSET RoomIds
    PROVE  IsFiniteSet(RetainedUnits(g, R)) /\ RetainedBytes(g, R) \in Nat
<1> DEFINE Part(r) == {r} \X (1 .. g.rooms[r].retained.size)
           Parts == {Part(r) : r \in R}
<1>1. ASSUME NEW r \in R PROVE IsFiniteSet(Part(r))
  <2>1. PICK n \in Nat : n = g.rooms[r].retained.size
    BY DEF IsRegistry, Room, Retained
  <2>2. IsFiniteSet({r})
    BY FS_Singleton
  <2>3. IsFiniteSet(1 .. n)
    BY FS_Interval
  <2> QED
    BY <2>1, <2>2, <2>3, FS_Product
<1> HIDE DEF Part
<1>2. IsFiniteSet(R)
  BY RoomsAssumption, FS_Subset
<1>3. [r \in R |-> Part(r)] \in Surjection(R, Parts)
  BY DEF Surjection
<1>4. IsFiniteSet(Parts)
  BY <1>2, <1>3, FS_Surjection
<1>5. IsFiniteSet(UNION Parts)
  BY <1>1, <1>4, FS_UNION
<1>6. RetainedUnits(g, R) = UNION Parts
  BY DEF RetainedUnits, Part
<1> QED
  BY <1>5, <1>6, FS_CardinalityType DEF RetainedBytes

(* What different rooms retain adds up. *)
LEMMA BytesSplit ==
    ASSUME NEW g, IsRegistry(g), NEW R \in SUBSET RoomIds, NEW S \in SUBSET RoomIds,
           R \cap S = {}
    PROVE  RetainedBytes(g, R \cup S) = RetainedBytes(g, R) + RetainedBytes(g, S)
<1>1. RetainedUnits(g, R \cup S) = RetainedUnits(g, R) \cup RetainedUnits(g, S)
  BY DEF RetainedUnits
<1>2. RetainedUnits(g, R) \cap RetainedUnits(g, S) = {}
  <2> SUFFICES ASSUME NEW x \in RetainedUnits(g, R), x \in RetainedUnits(g, S) PROVE FALSE
    OBVIOUS
  <2>1. PICK r \in R : x \in {r} \X (1 .. g.rooms[r].retained.size)
    BY DEF RetainedUnits
  <2>2. PICK s \in S : x \in {s} \X (1 .. g.rooms[s].retained.size)
    BY DEF RetainedUnits
  <2>3. x[1] = r /\ x[1] = s
    BY <2>1, <2>2
  <2> QED
    BY <2>3
<1>3. Cardinality(RetainedUnits(g, R) \cup RetainedUnits(g, S)) =
         Cardinality(RetainedUnits(g, R)) + Cardinality(RetainedUnits(g, S)) - Cardinality({})
  BY <1>2, UnitsFinite, FS_Union
<1>4. Cardinality({}) = 0
  BY FS_EmptySet
<1>5. RetainedBytes(g, R \cup S) = RetainedBytes(g, R) + RetainedBytes(g, S) - 0
  BY <1>1, <1>3, <1>4 DEF RetainedBytes
<1>6. RetainedBytes(g, R) \in Nat /\ RetainedBytes(g, S) \in Nat
  BY UnitsFinite
<1> QED
  BY <1>5, <1>6

(* Of one room, the size of its clip. *)
LEMMA BytesOne ==
    ASSUME NEW g, IsRegistry(g), NEW r \in RoomIds
    PROVE  RetainedBytes(g, {r}) = g.rooms[r].retained.size /\ g.rooms[r].retained.size \in Nat
<1>1. PICK n \in Nat : n = g.rooms[r].retained.size
  BY DEF IsRegistry, Room, Retained
<1>2. RetainedUnits(g, {r}) = {r} \X (1 .. n)
  BY <1>1 DEF RetainedUnits
<1>3. IsFiniteSet({r}) /\ Cardinality({r}) = 1
  BY FS_Singleton
<1>4. IsFiniteSet(1 .. n) /\ Cardinality(1 .. n) = n
  BY FS_Interval
<1>5. Cardinality({r} \X (1 .. n)) = 1 * n
  BY <1>3, <1>4, FS_Product
<1>6. RetainedBytes(g, {r}) = 1 * n
  BY <1>2, <1>5 DEF RetainedBytes
<1>7. 1 * n = n
  OBVIOUS
<1> QED
  BY <1>1, <1>6, <1>7

(* Only the sizes of the clips count. *)
LEMMA BytesSame ==
    ASSUME NEW g, NEW h, NEW R \in SUBSET RoomIds,
           \A r \in R : h.rooms[r].retained.size = g.rooms[r].retained.size
    PROVE  RetainedBytes(h, R) = RetainedBytes(g, R)
<1>1. RetainedUnits(h, R) = RetainedUnits(g, R)
  BY DEF RetainedUnits
<1> QED
  BY <1>1 DEF RetainedBytes

(* Rooms without clips retain nothing. *)
LEMMA BytesNone ==
    ASSUME NEW g, NEW R, \A r \in R : g.rooms[r].retained = NoClip
    PROVE  RetainedBytes(g, R) = 0
<1>1. RetainedUnits(g, R) = {}
  BY DEF RetainedUnits, NoClip
<1> QED
  BY <1>1, FS_EmptySet DEF RetainedBytes

(* The counter is right. *)
Accounted(g) == g.bytes = RetainedBytes(g, RoomIds)
(* And what it counts fits the budget, or is a single clip. *)
Kept(g) == Accounted(g) /\ (g.bytes <= Budget \/ g.bytes <= RetainMax)

LEMMA KeptIsNat == ASSUME NEW g, IsRegistry(g), Accounted(g) PROVE g.bytes \in Nat
BY UnitsFinite DEF Accounted

(* dropRetained takes off the counter what it drops. *)
LEMMA DropRetainedBytes ==
    ASSUME NEW g, IsRegistry(g), Accounted(g), NEW R \in SUBSET RoomIds
    PROVE  Accounted(DropRetained(g, R))
<1> DEFINE h == DropRetained(g, R)
           O == RoomIds \ R
<1>1. IsRegistry(h)
  BY DropRetainedSame
<1>2. \A r \in RoomIds : h.rooms[r] = IF r \in R THEN [g.rooms[r] EXCEPT !.retained = NoClip]
                                      ELSE g.rooms[r]
  BY DEF DropRetained
<1>3. \A r \in R : h.rooms[r].retained = NoClip
  BY <1>2 DEF IsRegistry, Room
<1>4. \A r \in O : h.rooms[r].retained.size = g.rooms[r].retained.size
  BY <1>2
<1>5. h.bytes = g.bytes - RetainedBytes(g, R)
  BY DEF DropRetained
<1> HIDE DEF h
<1>6. RetainedBytes(h, R) = 0
  BY <1>3, BytesNone
<1>7. RetainedBytes(h, O) = RetainedBytes(g, O)
  BY <1>4, BytesSame
<1>8. O \in SUBSET RoomIds /\ R \cap O = {} /\ R \cup O = RoomIds
  OBVIOUS
<1> HIDE DEF O
<1>9. /\ RetainedBytes(g, RoomIds) = RetainedBytes(g, R) + RetainedBytes(g, O)
      /\ RetainedBytes(h, RoomIds) = RetainedBytes(h, R) + RetainedBytes(h, O)
  BY <1>1, <1>8, BytesSplit
<1>10. RetainedBytes(g, R) \in Nat /\ RetainedBytes(g, O) \in Nat
  BY <1>8, UnitsFinite
<1>11. h.bytes = RetainedBytes(h, RoomIds)
  BY <1>5, <1>6, <1>7, <1>9, <1>10 DEF Accounted
<1> QED
  BY <1>11 DEF Accounted, h

LEMMA DropRetainedKept ==
    ASSUME NEW g, IsRegistry(g), Kept(g), NEW R \in SUBSET RoomIds
    PROVE  Kept(DropRetained(g, R))
<1> DEFINE h == DropRetained(g, R)
<1>1. h.bytes = g.bytes - RetainedBytes(g, R)
  BY DEF DropRetained
<1>2. IsRegistry(h) /\ Accounted(h)
  BY DropRetainedBytes, DropRetainedSame DEF Kept
<1> HIDE DEF h
<1>3. RetainedBytes(g, R) \in Nat /\ g.bytes \in Nat /\ h.bytes \in Nat
  BY <1>2, UnitsFinite, KeptIsNat DEF Kept
<1>4. h.bytes <= g.bytes
  BY <1>1, <1>3
<1>5. h.bytes <= Budget \/ h.bytes <= RetainMax
  BY <1>3, <1>4, RoomsAssumption DEF Kept
<1> QED
  BY <1>2, <1>5 DEF Kept, h

(* Rooms that are deleted without a clip take nothing with them, and a     *)
(* room may change otherwise than by its clip.                             *)
LEMMA DeleteRoomsKept ==
    ASSUME NEW g, IsRegistry(g), Kept(g), NEW R,
           \A r \in R \cap RoomIds : g.rooms[r].retained = NoClip
    PROVE  Kept(DeleteRooms(g, R))
<1> DEFINE h == DeleteRooms(g, R)
<1>1. ClosedRoom.retained = NoClip
  BY DEF ClosedRoom
<1>2. \A r \in RoomIds : h.rooms[r] = IF r \in R THEN ClosedRoom ELSE g.rooms[r]
  BY DeleteRoomsEffect
<1>3. \A r \in RoomIds : h.rooms[r].retained.size = g.rooms[r].retained.size
  BY <1>1, <1>2
<1>4. h.bytes = g.bytes
  BY DEF DeleteRooms
<1> HIDE DEF h
<1>5. Kept(h)
  BY <1>3, <1>4, BytesSame DEF Kept, Accounted
<1> QED
  BY <1>5 DEF h

LEMMA WithRoomKept ==
    ASSUME NEW g, IsRegistry(g), Kept(g), NEW r \in RoomIds, NEW x \in Room,
           x.retained = g.rooms[r].retained
    PROVE  Kept(WithRoom(g, r, x))
<1> DEFINE h == WithRoom(g, r, x)
<1>1. \A s \in RoomIds : h.rooms[s].retained.size = g.rooms[s].retained.size
  BY WithRoomEffect
<1>2. h.bytes = g.bytes
  BY DEF WithRoom
<1> HIDE DEF h
<1>3. Kept(h)
  BY <1>1, <1>2, BytesSame DEF Kept, Accounted
<1> QED
  BY <1>3 DEF h

(* join *)
LEMMA JoinKept ==
    ASSUME NEW g, IsRegistry(g), Kept(g), NEW c \in Conns, NEW r \in RoomIds, NEW t \in Nat,
           NEW h \in Join(g, c, r, t)
    PROVE  Kept(h)
<1>1. PICK k \in MakeSlot(g, r) : h = Admit(k, c, r, t)
  BY DEF Join
<1>2. IsRegistry(k)
  BY <1>1, MakeSlotEffect
<1>3. Kept(k)
  <2>1. CASE k # g
    <3>1. PICK s \in IdlestRooms(g) : k = EvictRoom(g, s)
      BY <1>1, <2>1 DEF MakeSlot
    <3>2. s \in RoomIds
      BY <3>1 DEF IdlestRooms, OpenRooms
    <3>3. PICK d : d = DropRetained(g, {s})
      OBVIOUS
    <3>4. IsRegistry(d) /\ Kept(d)
      BY <3>2, <3>3, DropRetainedSame, DropRetainedKept
    <3>5. d.rooms[s].retained = NoClip
      BY <3>2, <3>3 DEF DropRetained, IsRegistry, Room
    <3>6. k = DeleteRooms(d, {s})
      BY <3>1, <3>3 DEF EvictRoom
    <3> QED
      BY <3>4, <3>5, <3>6, DeleteRoomsKept
  <2> QED
    BY <2>1
<1> DEFINE x == [k.rooms[r] EXCEPT !.open = TRUE, !.conns = @ \cup {c}, !.lastActive = t]
<1>4. x \in Room /\ x.retained = k.rooms[r].retained
  BY <1>2 DEF IsRegistry, Room
<1>5. h = WithRoom(k, r, x)
  BY <1>1 DEF Admit
<1> HIDE DEF x
<1> QED
  BY <1>2, <1>3, <1>4, <1>5, WithRoomKept

(* leave *)
LEMMA LeaveKept ==
    ASSUME NEW g, IsRegistry(g), Kept(g), NEW c \in Conns, NEW r \in RoomIds, NEW t \in Nat
    PROVE  Kept(Leave(g, c, r, t))
<1> DEFINE x == [g.rooms[r] EXCEPT !.conns = @ \ {c}, !.lastActive = t]
           h == WithRoom(g, r, x)
<1>1. x \in Room /\ x.retained = g.rooms[r].retained
  BY DEF IsRegistry, Room
<1>2. g.rooms[r].open => Leave(g, c, r, t) = DeleteRooms(h, Unused(h) \cap {r})
  BY DEF Leave
<1> HIDE DEF x
<1>3. IsRegistry(h) /\ Kept(h)
  BY <1>1, WithRoomEffect, WithRoomKept
<1> HIDE DEF h
<1>4. \A s \in Unused(h) \cap {r} : h.rooms[s].retained = NoClip
  BY DEF Unused
<1>5. Kept(DeleteRooms(h, Unused(h) \cap {r}))
  BY <1>3, <1>4, DeleteRoomsKept
<1> QED
  BY <1>2, <1>5 DEF Leave

(* retainedFor, sweep, isDuplicate *)
LEMMA AfterLookupKept ==
    ASSUME NEW g, IsRegistry(g), Kept(g), NEW r \in RoomIds, NEW t
    PROVE  Kept(AfterLookup(g, r, t))
<1>1. Kept(DropRetained(g, {r}))
  BY DropRetainedKept
<1> QED
  BY <1>1 DEF AfterLookup

LEMMA SweepKept ==
    ASSUME NEW g, IsRegistry(g), Kept(g), NEW t
    PROVE  Kept(Sweep(g, t))
<1>1. PICK E : E = {r \in RoomIds : Expired(g, r, t)}
  OBVIOUS
<1>2. PICK h : h = DropRetained(g, E)
  OBVIOUS
<1>3. IsRegistry(h) /\ Kept(h)
  BY <1>1, <1>2, DropRetainedSame, DropRetainedKept
<1>4. Sweep(g, t) = DeleteRooms(h, Unused(h))
  BY <1>1, <1>2 DEF Sweep
<1>5. \A s \in Unused(h) : h.rooms[s].retained = NoClip
  BY DEF Unused
<1> QED
  BY <1>3, <1>4, <1>5, DeleteRoomsKept

LEMMA RecordSeenKept ==
    ASSUME NEW g, IsRegistry(g), Kept(g), NEW r \in RoomIds, NEW m \in MsgIds
    PROVE  Kept(RecordSeen(g, r, m))
<1> DEFINE longer == Append(g.rooms[r].seen, m)
           q == IF Len(longer) > DedupWindow THEN Tail(longer) ELSE longer
           x == [g.rooms[r] EXCEPT !.seen = q]
<1>1. g.rooms[r] \in Room
  BY DEF IsRegistry
<1>2. longer \in Seq(MsgIds) /\ longer # << >>
  BY <1>1 DEF Room
<1>3. q \in Seq(MsgIds)
  BY <1>2
<1> HIDE DEF q
<1>4. x \in Room /\ x.retained = g.rooms[r].retained
  BY <1>1, <1>3 DEF Room
<1>5. /\ g.rooms[r].open => RecordSeen(g, r, m) = WithRoom(g, r, x)
      /\ ~g.rooms[r].open => RecordSeen(g, r, m) = g
  BY DEF RecordSeen, q
<1> HIDE DEF x
<1> QED
  BY <1>4, <1>5, WithRoomKept

(* retain: the clip replaced comes off the counter, and afterwards the     *)
(* total fits the budget, or the new clip is all there is.                 *)
LEMMA RetainKept ==
    ASSUME NEW g, IsRegistry(g), Kept(g), Tidy(g), NEW r \in RoomIds, NEW m \in MsgIds,
           NEW size \in Nat, NEW t \in Nat, NEW h \in Retain(g, r, m, size, t)
    PROVE  Kept(h)
<1>1. CASE size > RetainMax \/ ~g.rooms[r].open
  BY <1>1 DEF Retain
<1>2. CASE ~(size > RetainMax \/ ~g.rooms[r].open)
  <2> DEFINE clip == [id |-> m, size |-> size, at |-> t]
             x == [g.rooms[r] EXCEPT !.retained = clip, !.lastActive = t]
             w == WithRoom(g, r, x)
             k == [rooms |-> w.rooms, bytes |-> g.bytes - g.rooms[r].retained.size + size]
             O == RoomIds \ {r}
  <2>1. clip \in Retained /\ clip.size = size
    BY DEF Retained
  <2>2. h \in EvictUntilWithinBudget(k, r)
    BY <1>2 DEF Retain
  <2> HIDE DEF clip
  <2>3. x \in Room /\ x.retained = clip /\ x.open
    BY <1>2, <2>1 DEF IsRegistry, Room
  <2> HIDE DEF x
  <2>4. /\ IsRegistry(w) /\ w.rooms[r] = x
        /\ \A s \in RoomIds \ {r} : w.rooms[s] = g.rooms[s]
    BY <2>3, WithRoomEffect
  <2> HIDE DEF w
  <2>5. /\ IsRegistry(k) /\ k.rooms = w.rooms
        /\ k.bytes = g.bytes - g.rooms[r].retained.size + size
    BY <2>4 DEF IsRegistry
  <2> HIDE DEF k
  <2>6. k.rooms[r].retained.size = size /\ \A s \in O : k.rooms[s] = g.rooms[s]
    BY <2>1, <2>3, <2>4, <2>5
  <2>7. O \in SUBSET RoomIds /\ {r} \in SUBSET RoomIds /\ {r} \cap O = {} /\ {r} \cup O = RoomIds
    OBVIOUS
  <2> HIDE DEF O
  <2>8. /\ RetainedBytes(g, RoomIds) = RetainedBytes(g, {r}) + RetainedBytes(g, O)
        /\ RetainedBytes(k, RoomIds) = RetainedBytes(k, {r}) + RetainedBytes(k, O)
    BY <2>5, <2>7, BytesSplit
  <2>9. RetainedBytes(k, O) = RetainedBytes(g, O) /\ RetainedBytes(g, O) \in Nat
    BY <2>6, <2>7, BytesSame, UnitsFinite
  <2>10. /\ RetainedBytes(g, {r}) = g.rooms[r].retained.size
         /\ RetainedBytes(k, {r}) = size
         /\ g.rooms[r].retained.size \in Nat
    BY <2>5, <2>6, BytesOne
  <2>11. k.bytes = RetainedBytes(k, RoomIds)
    BY <2>5, <2>8, <2>9, <2>10 DEF Kept, Accounted
  <2>12. Accounted(k)
    BY <2>11 DEF Accounted
  <2>13. PICK D \in SUBSET RoomIds : h = DropRetained(k, D) /\ EvictionOrder(k, r, D)
    BY <2>2 DEF EvictUntilWithinBudget
  <2>14. Accounted(h) /\ IsRegistry(h) /\ h.bytes = k.bytes - RetainedBytes(k, D)
    <3>1. h.bytes = k.bytes - RetainedBytes(k, D)
      BY <2>13 DEF DropRetained
    <3> QED
      BY <2>5, <2>12, <2>13, <3>1, DropRetainedBytes, DropRetainedSame
  <2>15. CASE h.bytes <= Budget
    BY <2>14, <2>15 DEF Kept
  <2>16. CASE ~(h.bytes <= Budget)
    <3>1. D = {s \in OpenRooms(k) : s # r /\ k.rooms[s].retained # NoClip}
      BY <2>13, <2>14, <2>16 DEF EvictionOrder
    <3>2. ASSUME NEW s \in O PROVE h.rooms[s].retained = NoClip
      <4>1. s \in RoomIds /\ s # r /\ k.rooms[s] \in Room
        BY <2>5 DEF O, IsRegistry
      <4>2. CASE s \in D
        BY <2>13, <4>1, <4>2 DEF DropRetained, Room
      <4>3. CASE s \notin D
        <5>1. k.rooms[s].retained = NoClip
          <6>1. CASE k.rooms[s].open
            BY <3>1, <4>1, <4>3, <6>1 DEF OpenRooms
          <6>2. CASE ~k.rooms[s].open
            BY <2>6, <4>1, <6>2 DEF Tidy
          <6> QED
            BY <6>1, <6>2
        <5> QED
          BY <2>13, <4>1, <4>3, <5>1 DEF DropRetained
      <4> QED
        BY <4>2, <4>3
    <3>3. RetainedBytes(h, O) = 0
      BY <3>2, BytesNone
    <3>4. RetainedBytes(h, RoomIds) = RetainedBytes(h, {r}) + RetainedBytes(h, O)
      BY <2>7, <2>14, BytesSplit
    <3>5. h.rooms[r].retained.size = size
      <4>1. r \notin D
        BY <3>1
      <4> QED
        BY <2>6, <2>13, <4>1 DEF DropRetained
    <3>6. RetainedBytes(h, {r}) = size
      BY <2>14, <3>5, BytesOne
    <3>7. h.bytes = size /\ size <= RetainMax
      <4>1. size + 0 = size /\ (size > RetainMax \/ size <= RetainMax)
        BY RoomsAssumption
      <4>2. h.bytes = size + 0
        BY <2>14, <3>3, <3>4, <3>6 DEF Accounted
      <4> QED
        BY <1>2, <4>1, <4>2
    <3> QED
      BY <2>14, <3>7 DEF Kept
  <2> QED
    BY <2>15, <2>16
<1> QED
  BY <1>1, <1>2

-----------------------------------------------------------------------------
TypeOK ==
    /\ IsRegistry(reg)
    /\ now \in Nat
    /\ member \in [Conns -> SUBSET RoomIds]
    /\ newest \in [RoomIds -> Retained]

(* A clip that is still there is the newest of its room. *)
KeepsNewest == \A r \in RoomIds : reg.rooms[r].retained \in {newest[r], NoClip}

IInv == TypeOK /\ Tidy(reg) /\ KeepsNewest /\ Kept(reg)

(* The registry starts empty. *)
LEMMA InitIInv == Init => IInv
<1> SUFFICES ASSUME Init PROVE IInv
  OBVIOUS
<1>1. TypeOK
  BY EmptyRegistryType, NoClipType DEF Init, TypeOK
<1>2. \A r \in RoomIds : reg.rooms[r].retained = NoClip
  BY DEF Init, EmptyRegistry, ClosedRoom
<1>3. Kept(reg)
  <2>1. reg.bytes = 0
    BY DEF Init, EmptyRegistry
  <2>2. RetainedBytes(reg, RoomIds) = 0
    BY <1>2, BytesNone
  <2> QED
    BY <2>1, <2>2, RoomsAssumption DEF Kept, Accounted
<1> QED
  BY <1>1, <1>2, <1>3 DEF IInv, Tidy, KeepsNewest

(* A step that at most drops clips keeps the invariant. *)
LEMMA FadingIInv ==
    ASSUME IInv, IsRegistry(reg'), Fades(reg, reg'), Kept(reg)', UNCHANGED <<now, newest>>,
           member' \in [Conns -> SUBSET RoomIds]
    PROVE  IInv'
<1>1. TypeOK'
  BY DEF IInv, TypeOK
<1>2. Tidy(reg)' /\ KeepsNewest'
  BY DEF IInv, Tidy, KeepsNewest, Fades
<1> QED
  BY <1>1, <1>2 DEF IInv

(* A clip that is kept is the newest from then on. *)
LEMMA AcceptClipIInv ==
    ASSUME IInv, NEW c \in Conns, NEW m \in MsgIds, NEW size \in Sizes, AcceptClip(c, m, size)
    PROVE  IInv'
<1>1. PICK r \in member[c] :
         /\ reg' \in Retain(RecordSeen(reg, r, m), r, m, size, now)
         /\ newest' = IF size > RetainMax THEN newest
                      ELSE [newest EXCEPT ![r] = [id |-> m, size |-> size, at |-> now]]
         /\ UNCHANGED <<now, member>>
  BY DEF AcceptClip
<1>2. r \in RoomIds /\ size \in Nat /\ now \in Nat /\ IsRegistry(reg)
  BY RegistryAssumption DEF IInv, TypeOK
<1>3. PICK g : g = RecordSeen(reg, r, m)
  OBVIOUS
<1>4. IsRegistry(g) /\ Fades(reg, g)
  BY <1>2, <1>3, RecordSeenFades
<1>5. /\ IsRegistry(reg')
      /\ size > RetainMax \/ ~g.rooms[r].open => reg' = g
      /\ ~(size > RetainMax \/ ~g.rooms[r].open) =>
            /\ reg'.rooms[r].retained \in {[id |-> m, size |-> size, at |-> now], NoClip}
            /\ \A s \in RoomIds \ {r} : reg'.rooms[s].retained \in {g.rooms[s].retained, NoClip}
            /\ Tidy(g) => Tidy(reg')
  BY <1>1, <1>2, <1>3, <1>4, RetainEffect
<1>6. [id |-> m, size |-> size, at |-> now] \in Retained
  BY <1>2 DEF Retained
<1>7. TypeOK'
  BY <1>1, <1>2, <1>5, <1>6 DEF IInv, TypeOK
<1>8. Tidy(g) /\ \A s \in RoomIds : g.rooms[s].retained \in {newest[s], NoClip}
  BY <1>4 DEF IInv, KeepsNewest, Fades
<1>9. Tidy(reg)'
  BY <1>5, <1>8 DEF Tidy
<1>10. KeepsNewest'
  <2>1. \A s \in RoomIds \ {r} : newest'[s] = newest[s]
    BY <1>1 DEF IInv, TypeOK
  <2>2. CASE size > RetainMax
    BY <1>1, <1>5, <1>8, <2>2 DEF KeepsNewest
  <2>3. CASE ~(size > RetainMax)
    <3>1. newest'[r] = [id |-> m, size |-> size, at |-> now]
      BY <1>1, <1>2, <2>3 DEF IInv, TypeOK
    <3>2. CASE g.rooms[r].open
      BY <1>5, <1>8, <2>1, <2>3, <3>1, <3>2 DEF KeepsNewest
    <3>3. CASE ~g.rooms[r].open
      <4>1. reg' = g /\ g.rooms[r].retained = NoClip
        BY <1>2, <1>5, <1>8, <3>3 DEF Tidy
      <4> QED
        BY <1>8, <2>1, <4>1 DEF KeepsNewest
    <3> QED
      BY <3>2, <3>3
  <2> QED
    BY <2>2, <2>3
<1>11. Kept(reg)'
  <2>1. Kept(reg) /\ Tidy(g)
    BY <1>8 DEF IInv
  <2>2. Kept(g)
    BY <1>2, <1>3, <2>1, RecordSeenKept
  <2>3. Kept(reg')
    BY <1>1, <1>2, <1>3, <1>4, <2>1, <2>2, RetainKept
  <2> QED
    BY <2>3
<1> QED
  BY <1>7, <1>9, <1>10, <1>11 DEF IInv

(* Every step keeps the invariant. *)
LEMMA NextIInv == IInv /\ [Next]_vars => IInv'
<1> SUFFICES ASSUME IInv, [Next]_vars PROVE IInv'
  OBVIOUS
<1>0. IsRegistry(reg) /\ now \in Nat /\ member \in [Conns -> SUBSET RoomIds] /\ Kept(reg)
  BY DEF IInv, TypeOK
<1>1. ASSUME NEW c \in Conns, NEW r \in RoomIds, JoinRoom(c, r) PROVE IInv'
  <2>1. PICK h \in Join(reg, c, r, now) : reg' = AfterLookup(h, r, now)
    BY <1>1 DEF JoinRoom
  <2>2. IsRegistry(h) /\ Fades(reg, h) /\ Kept(h)
    BY <1>0, <2>1, JoinFades, JoinKept
  <2>3. IsRegistry(reg') /\ Fades(h, reg') /\ Kept(reg')
    BY <2>1, <2>2, AfterLookupFades, AfterLookupKept
  <2>4. Fades(reg, reg')
    BY <2>2, <2>3, FadesTransitive
  <2>5. member' \in [Conns -> SUBSET RoomIds]
    BY <1>0, <1>1 DEF JoinRoom
  <2> QED
    BY <1>1, <2>3, <2>4, <2>5, FadingIInv DEF JoinRoom
<1>2. ASSUME NEW c \in Conns, LeaveRoom(c) PROVE IInv'
  <2>1. PICK r \in member[c] : reg' = Leave(reg, c, r, now)
    BY <1>2 DEF LeaveRoom
  <2>2. IsRegistry(reg') /\ Fades(reg, reg') /\ Kept(reg')
    BY <1>0, <2>1, LeaveFades, LeaveKept
  <2>3. member' \in [Conns -> SUBSET RoomIds]
    BY <1>0, <1>2 DEF LeaveRoom
  <2> QED
    BY <1>2, <2>2, <2>3, FadingIInv DEF LeaveRoom
<1>3. ASSUME NEW c \in Conns, NEW m \in MsgIds, NEW size \in Sizes, AcceptClip(c, m, size)
      PROVE  IInv'
  BY <1>3, AcceptClipIInv
<1>4. ASSUME NEW c \in Conns, FetchLast(c) PROVE IInv'
  <2>1. PICK r \in member[c] : reg' = AfterLookup(reg, r, now)
    BY <1>4 DEF FetchLast
  <2>2. IsRegistry(reg') /\ Fades(reg, reg') /\ Kept(reg')
    BY <1>0, <2>1, AfterLookupFades, AfterLookupKept
  <2> QED
    BY <1>0, <1>4, <2>2, FadingIInv DEF FetchLast
<1>5. ASSUME SweepRooms PROVE IInv'
  <2>1. IsRegistry(reg') /\ Fades(reg, reg') /\ Kept(reg')
    BY <1>0, <1>5, SweepFades, SweepKept DEF SweepRooms
  <2> QED
    BY <1>0, <1>5, <2>1, FadingIInv DEF SweepRooms
<1>6. ASSUME Tick PROVE IInv'
  BY <1>6 DEF Tick, IInv, TypeOK, KeepsNewest
<1>7. ASSUME UNCHANGED vars PROVE IInv'
  BY <1>7 DEF vars, IInv, TypeOK, KeepsNewest
<1> QED
  BY <1>1, <1>2, <1>3, <1>4, <1>5, <1>6, <1>7 DEF Next

LEMMA AlwaysIInv == Spec => []IInv
BY InitIInv, NextIInv, PTL DEF Spec

(* The clip a lookup leaves is in date. *)
LEMMA LookupInDate ==
    ASSUME NEW g, IsRegistry(g), NEW r \in RoomIds, NEW t \in Nat,
           AfterLookup(g, r, t).rooms[r].retained # NoClip
    PROVE  /\ AfterLookup(g, r, t).rooms[r].retained = g.rooms[r].retained
           /\ t - g.rooms[r].retained.at <= Ttl
<1>1. g.rooms[r].retained.at \in Nat
  BY DEF IsRegistry, Room, Retained
<1>2. CASE Expired(g, r, t)
  <2>1. DropRetained(g, {r}).rooms[r].retained = NoClip
    BY DEF DropRetained, IsRegistry, Room
  <2> QED
    BY <1>2, <2>1 DEF AfterLookup
<1>3. CASE ~Expired(g, r, t)
  BY <1>1, <1>3, RoomsAssumption DEF AfterLookup, Expired
<1> QED
  BY <1>2, <1>3

(* What a device that asks is served is the newest clip of its room small  *)
(* enough to be kept, and it has not expired, however joins, evictions,    *)
(* sweeps and lookups came in between.                                     *)
THEOREM NewestServed == Spec => []ServesNewest
<1>1. IInv => ServesNewest
  <2> SUFFICES ASSUME IInv, NEW r \in RoomIds,
                      AfterLookup(reg, r, now).rooms[r].retained # NoClip
               PROVE  LET clip == AfterLookup(reg, r, now).rooms[r].retained
                      IN  clip = newest[r] /\ now - clip.at <= Ttl
    BY DEF ServesNewest
  <2>1. /\ AfterLookup(reg, r, now).rooms[r].retained = reg.rooms[r].retained
        /\ now - reg.rooms[r].retained.at <= Ttl
    BY LookupInDate DEF IInv, TypeOK
  <2> QED
    BY <2>1 DEF IInv, KeepsNewest
<1> QED
  BY <1>1, AlwaysIInv, PTL

(* However clips are replaced, expire on a read, are swept, make way for   *)
(* others or go with their room: the counter retainedBytes that retain and *)
(* dropRetained keep is the size of what is there, so that the budget is   *)
(* neither leaked away nor exceeded unnoticed.                             *)
THEOREM CounterIsRight == Spec => []BytesAccounted
<1>1. IInv => BytesAccounted
  BY DEF IInv, Kept, Accounted, BytesAccounted
<1> QED
  BY <1>1, AlwaysIInv, PTL

(* What evictUntilWithinBudget is for: after any step the clips of all     *)
(* rooms together fit the budget, or, where one clip may be larger than    *)
(* the budget, what one clip may have: it spares the room just stored to.  *)
THEOREM RetentionBounded == Spec => [](reg.bytes <= Budget \/ reg.bytes <= RetainMax)
<1>1. IInv => reg.bytes <= Budget \/ reg.bytes <= RetainMax
  BY DEF IInv, Kept
<1> QED
  BY <1>1, AlwaysIInv, PTL
=============================================================================
