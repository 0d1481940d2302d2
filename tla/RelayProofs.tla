---------------------------- MODULE RelayProofs ----------------------------
(***************************************************************************)
(* For any number of rooms and connections: the relay's sessions and its   *)
(* room registry always agree, and no frame crosses rooms.                 *)
(***************************************************************************)
EXTENDS Relay, RoomsProofs, FiniteSetTheorems

(* Rooms with someone in them exist. *)
Occupied == \A r \in RoomIds : reg.rooms[r].conns # {} => reg.rooms[r].open

(* How far a handshake got: a socket that has not connected has done       *)
(* nothing, and a ready session has a room and no outstanding nonce.       *)
Handshakes ==
    \A c \in Conns : /\ ws[c] = "none" => st[c] = "connected"
                     /\ st[c] = "ready" => room[c] \in RoomIds /\ ~nonce[c]

IInv ==
    /\ TypeOK
    /\ RegistryMatchesSessions
    /\ Occupied
    /\ Handshakes
    /\ RoomIsolation

ConnStates == {"none", "OPEN", "CLOSING", "CLOSED"}

(* Deciding to close a socket removes no session. *)
LEMMA ClosingEffect ==
    ASSUME NEW C, ws \in [Conns -> ConnStates]
    PROVE  /\ Closing(C) \in [Conns -> ConnStates]
           /\ \A c \in Conns : /\ (Closing(C)[c] \in {"OPEN", "CLOSING"}) = (c \in Sessions)
                               /\ (Closing(C)[c] = "none") = (ws[c] = "none")
BY DEF Closing, ConnStates, Sessions

(* The initial state is an empty relay. *)
LEMMA InitIInv == Init => IInv
<1> SUFFICES ASSUME Init PROVE IInv
  OBVIOUS
<1> USE DEF Init
<1>1. TypeOK
  BY EmptyRegistryType DEF TypeOK, Frame, NoFrame
<1>2. RegistryMatchesSessions /\ Occupied
  BY EmptyRegistryType DEF RegistryMatchesSessions, Occupied, Ready, Sessions
<1>3. Handshakes /\ RoomIsolation
  BY DEF Handshakes, RoomIsolation
<1> QED
  BY <1>1, <1>2, <1>3 DEF IInv

(* A step that admits and forgets no session, changes no session's room,   *)
(* and leaves the registry's connections alone keeps the two in agreement. *)
LEMMA AgreementKept ==
    ASSUME IInv, SameRooms(reg, reg'),
           \A c \in Conns : (ws'[c] \in {"OPEN", "CLOSING"}) = (c \in Sessions),
           \A c \in Conns : (st'[c] = "ready") = (st[c] = "ready"),
           \A c \in Conns : st[c] = "ready" => room'[c] = room[c]
    PROVE  RegistryMatchesSessions' /\ Occupied'
<1>1. \A r \in RoomIds : Ready(r)' = Ready(r)
  BY DEF Ready, Sessions
<1> QED
  BY <1>1 DEF IInv, RegistryMatchesSessions, Occupied, SameRooms

(* A step that only buffers frames of a ready connection's own room for it *)
(* keeps rooms isolated.                                                   *)
LEMMA IsolationKept ==
    ASSUME IInv, st' = st, room' = room,
           \A c \in Conns : \A i \in 1 .. Len(buf'[c]) :
              \/ \E j \in 1 .. Len(buf[c]) : buf'[c][i] = buf[c][j]
              \/ pending[c] # NoFrame /\ buf'[c][i] = pending[c]
              \/ st[c] = "ready" /\ buf'[c][i].room = room[c],
           \A c \in Conns : \/ pending'[c] \in {pending[c], NoFrame}
                            \/ st[c] = "ready" /\ pending'[c].room = room[c]
    PROVE  RoomIsolation'
BY DEF IInv, RoomIsolation

(* What the steps that close or strike a socket, or count its pings, change *)
SocketStep ==
    /\ UNCHANGED <<reg, up, st, nonce, room, buf, pending, since, told, stamp, got, due, msgs>>
    /\ \E C \in SUBSET Conns : ws' = Closing(C)
    /\ missed' \in [Conns -> Nat]
    /\ strikes' \in [Conns -> Nat]

(* Such a step keeps the invariant. *)
LEMMA SocketStepIInv == IInv /\ SocketStep => IInv'
<1> SUFFICES ASSUME IInv, SocketStep PROVE IInv'
  OBVIOUS
<1>a. ws \in [Conns -> ConnStates]
  BY DEF IInv, TypeOK, ConnStates
<1>b. PICK C \in SUBSET Conns : ws' = Closing(C)
  BY DEF SocketStep
<1>1. /\ ws' \in [Conns -> ConnStates]
      /\ \A c \in Conns : /\ (ws'[c] \in {"OPEN", "CLOSING"}) = (c \in Sessions)
                          /\ (ws'[c] = "none") = (ws[c] = "none")
  BY <1>a, <1>b, ClosingEffect
<1>2. TypeOK'
  BY <1>1 DEF IInv, TypeOK, SocketStep, ConnStates, IsRegistry
<1>3. RegistryMatchesSessions' /\ Occupied'
  BY <1>1, AgreementKept DEF SocketStep, SameRooms
<1>4. Handshakes' /\ RoomIsolation'
  BY <1>1 DEF IInv, Handshakes, RoomIsolation, SocketStep
<1> QED
  BY <1>2, <1>3, <1>4 DEF IInv

(* The timers, refusals and failures that are socket steps *)
LEMMA SocketSteps ==
    ASSUME IInv
    PROVE  /\ \A c \in Conns : AuthTimeout(c) => SocketStep
           /\ \A c \in Conns : RejectFrame(c) => SocketStep
           /\ \A c \in Conns : PeerGone(c) => SocketStep
           /\ \A c \in Conns, b \in BOOLEAN : RateLimited(c, b) => SocketStep
           /\ \A c \in Conns : Pong(c) => SocketStep
           /\ Heartbeat => SocketStep
<1>0. ws = Closing({}) /\ missed \in [Conns -> Nat] /\ strikes \in [Conns -> Nat]
  BY DEF IInv, TypeOK, Closing
<1> USE DEF SocketStep, identity, outgoing, history
<1>1. ASSUME NEW c \in Conns
      PROVE  AuthTimeout(c) \/ RejectFrame(c) \/ PeerGone(c) => SocketStep
  BY <1>0 DEF AuthTimeout, RejectFrame, PeerGone
<1>2. ASSUME NEW c \in Conns, NEW b \in BOOLEAN
      PROVE  RateLimited(c, b) => SocketStep
  <2> SUFFICES ASSUME RateLimited(c, b) PROVE SocketStep
    OBVIOUS
  <2>a. (IF b THEN 1 ELSE strikes[c] + 1) \in Nat
    BY <1>0
  <2>b. strikes' = [strikes EXCEPT ![c] = IF b THEN 1 ELSE strikes[c] + 1]
    BY DEF RateLimited
  <2>1. strikes' \in [Conns -> Nat]
    BY <1>0, <2>a, <2>b
  <2>2. ws' = Closing({c}) \/ ws' = Closing({})
    BY <1>0 DEF RateLimited
  <2> QED
    BY <1>0, <2>1, <2>2 DEF RateLimited
<1>3. ASSUME NEW c \in Conns
      PROVE  Pong(c) => SocketStep
  BY <1>0 DEF Pong
<1>4. Heartbeat => SocketStep
  <2> SUFFICES ASSUME Heartbeat PROVE SocketStep
    OBVIOUS
  <2>1. missed' \in [Conns -> Nat]
    BY <1>0 DEF Heartbeat
  <2>2. \E C \in SUBSET Conns : ws' = Closing(C)
    BY DEF Heartbeat, Sessions
  <2> QED
    BY <1>0, <2>1, <2>2 DEF Heartbeat
<1> QED
  BY <1>1, <1>2, <1>3, <1>4

(* A new socket is a session that has done nothing yet. *)
LEMMA ConnectIInv ==
    ASSUME IInv, NEW c \in Conns, Connect(c)
    PROVE  IInv'
<1> USE DEF identity, outgoing, history
<1>1. TypeOK'
  BY DEF IInv, TypeOK, Connect, IsRegistry
<1>2. \A r \in RoomIds : Ready(r)' = Ready(r)
  BY DEF IInv, TypeOK, Handshakes, Ready, Sessions, Connect
<1>3. RegistryMatchesSessions' /\ Occupied'
  BY <1>2 DEF IInv, RegistryMatchesSessions, Occupied, Connect
<1>4. Handshakes' /\ RoomIsolation'
  BY DEF IInv, TypeOK, Handshakes, RoomIsolation, Connect
<1> QED
  BY <1>1, <1>3, <1>4 DEF IInv

(* A challenge issues a nonce and joins nothing. *)
LEMMA HelloIInv ==
    ASSUME IInv, NEW c \in Conns, Hello(c)
    PROVE  IInv'
<1> USE DEF socket, outgoing, history, Listening
<1>1. TypeOK'
  BY DEF IInv, TypeOK, Hello, IsRegistry
<1>2. \A d \in Conns : (st'[d] = "ready") = (st[d] = "ready")
  BY DEF IInv, TypeOK, Hello
<1>3. RegistryMatchesSessions' /\ Occupied'
  BY <1>2, AgreementKept DEF Hello, SameRooms, Sessions
<1>4. Handshakes'
  BY DEF IInv, TypeOK, Handshakes, Hello
<1>5. RoomIsolation'
  BY <1>2 DEF IInv, RoomIsolation, Hello
<1> QED
  BY <1>1, <1>3, <1>4, <1>5 DEF IInv

(* An authentication that fails closes the socket. *)
LEMMA AuthRefusedIInv ==
    ASSUME IInv, NEW c \in Conns, NEW b \in BOOLEAN, AuthRefused(c, b)
    PROVE  IInv'
<1> USE DEF outgoing, history, Listening
<1>a. ws \in [Conns -> ConnStates]
  BY DEF IInv, TypeOK, ConnStates
<1>1. /\ ws' \in [Conns -> ConnStates]
      /\ \A d \in Conns : /\ (ws'[d] \in {"OPEN", "CLOSING"}) = (d \in Sessions)
                          /\ (ws'[d] = "none") = (ws[d] = "none")
  BY <1>a, ClosingEffect DEF AuthRefused
<1>2. nonce' \in [Conns -> BOOLEAN] /\ \A d \in Conns : nonce'[d] => nonce[d]
  BY DEF IInv, TypeOK, AuthRefused
<1>3. TypeOK'
  BY <1>1, <1>2 DEF IInv, TypeOK, AuthRefused, ConnStates, IsRegistry
<1>4. RegistryMatchesSessions' /\ Occupied'
  BY <1>1, AgreementKept DEF AuthRefused, SameRooms
<1>5. Handshakes' /\ RoomIsolation'
  BY <1>1, <1>2 DEF IInv, Handshakes, RoomIsolation, AuthRefused
<1> QED
  BY <1>3, <1>4, <1>5 DEF IInv

(* So does one the registry has no place for. *)
LEMMA AuthenticateNoPlaceIInv ==
    ASSUME IInv, NEW c \in Conns, NEW r \in RoomIds, AuthenticateNoPlace(c, r)
    PROVE  IInv'
<1> USE DEF outgoing, history, Listening
<1>a. ws \in [Conns -> ConnStates]
  BY DEF IInv, TypeOK, ConnStates
<1>1. /\ ws' \in [Conns -> ConnStates]
      /\ \A d \in Conns : /\ (ws'[d] \in {"OPEN", "CLOSING"}) = (d \in Sessions)
                          /\ (ws'[d] = "none") = (ws[d] = "none")
  BY <1>a, ClosingEffect DEF AuthenticateNoPlace
<1>2. /\ nonce' \in [Conns -> BOOLEAN]
      /\ room' \in [Conns -> RoomIds \cup {NoRoom}]
      /\ \A d \in Conns : nonce'[d] => nonce[d]
      /\ \A d \in Conns : st[d] = "ready" => room'[d] = room[d]
  BY DEF IInv, TypeOK, AuthenticateNoPlace
<1>3. TypeOK'
  BY <1>1, <1>2 DEF IInv, TypeOK, AuthenticateNoPlace, ConnStates, IsRegistry
<1>4. RegistryMatchesSessions' /\ Occupied'
  BY <1>1, <1>2, AgreementKept DEF AuthenticateNoPlace, SameRooms
<1>5. Handshakes'
  BY <1>1, <1>2 DEF IInv, Handshakes, AuthenticateNoPlace
<1>6. RoomIsolation'
  BY <1>2 DEF IInv, RoomIsolation, AuthenticateNoPlace
<1> QED
  BY <1>3, <1>4, <1>5, <1>6 DEF IInv

(* An authentication that succeeds puts the session in its room, with      *)
(* nothing buffered for it yet.                                            *)
LEMMA AuthenticateIInv ==
    ASSUME IInv, NEW c \in Conns, NEW r \in RoomIds, Authenticate(c, r)
    PROVE  IInv'
<1> USE DEF socket, outgoing, history, Listening
<1>0. PICK g \in Join(reg, c, r, 0) :
         /\ told' = [told EXCEPT ![c] = Cardinality(g.rooms[r].conns)]
         /\ reg' = SchedulePresence(AfterLookup(g, r, 0), r)
  BY DEF Authenticate
<1>1. IsRegistry(reg)
  BY DEF IInv, TypeOK
<1>2. /\ IsRegistry(g)
      /\ g.rooms[r].open
      /\ g.rooms[r].conns = reg.rooms[r].conns \cup {c}
      /\ \A s \in RoomIds \ {r} :
            /\ g.rooms[s].conns = reg.rooms[s].conns
            /\ reg.rooms[s].conns # {} => g.rooms[s].open = reg.rooms[s].open
  BY <1>1, JoinEffect
<1>3. PICK h : h = AfterLookup(g, r, 0)
  OBVIOUS
<1>4. IsRegistry(h) /\ SameRooms(g, h)
  BY <1>2, <1>3, AfterLookupSame
<1>5. IsRegistry(reg') /\ SameRooms(h, reg')
  BY <1>0, <1>3, <1>4, SchedulePresenceSame
<1>6. SameRooms(g, reg')
  BY <1>4, <1>5 DEF SameRooms
<1>7. told' \in [Conns -> Nat]
  <2>1. g.rooms[r].conns \in SUBSET Conns
    BY <1>2 DEF IsRegistry, Room
  <2>2. Cardinality(g.rooms[r].conns) \in Nat
    BY <2>1, RoomsAssumption, FS_Subset, FS_CardinalityType
  <2> QED
    BY <1>0, <2>2 DEF IInv, TypeOK
<1>8. TypeOK'
  BY <1>5, <1>7 DEF IInv, TypeOK, Authenticate
<1>9. /\ Ready(r)' = Ready(r) \cup {c}
      /\ \A s \in RoomIds \ {r} : Ready(s)' = Ready(s)
  BY DEF IInv, TypeOK, Ready, Sessions, Authenticate
<1>10. RegistryMatchesSessions'
  BY <1>2, <1>6, <1>9 DEF IInv, RegistryMatchesSessions, SameRooms
<1>11. Occupied'
  BY <1>2, <1>6 DEF IInv, Occupied, SameRooms
<1>12. Handshakes'
  BY DEF IInv, TypeOK, Handshakes, Authenticate
<1>13. RoomIsolation'
  BY DEF IInv, TypeOK, RoomIsolation, Authenticate
<1> QED
  BY <1>8, <1>10, <1>11, <1>12, <1>13 DEF IInv

(* The close handler forgets the session and leaves its room together. *)
LEMMA CloseEventIInv ==
    ASSUME IInv, NEW c \in Conns, CloseEvent(c)
    PROVE  IInv'
<1> USE DEF identity
<1>1. c \in Sessions /\ ws' = [ws EXCEPT ![c] = "CLOSED"] /\ Sessions' = Sessions \ {c}
  BY DEF IInv, TypeOK, CloseEvent, Sessions
<1>2. /\ IsRegistry(reg')
      /\ \A r \in RoomIds : /\ reg'.rooms[r].conns = reg.rooms[r].conns \ {c}
                            /\ reg'.rooms[r].conns # {} => reg'.rooms[r].open
  <2>1. CASE st[c] = "ready"
    <3>1. room[c] \in RoomIds /\ c \in reg.rooms[room[c]].conns
      BY <1>1, <2>1 DEF IInv, Handshakes, RegistryMatchesSessions, Ready
    <3>2. reg.rooms[room[c]].open /\ IsRegistry(reg)
      BY <3>1 DEF IInv, Occupied, TypeOK
    <3>3. PICK h : h = Leave(reg, c, room[c], 0)
      OBVIOUS
    <3>4. /\ IsRegistry(h)
          /\ h.rooms[room[c]].conns = reg.rooms[room[c]].conns \ {c}
          /\ reg.rooms[room[c]].conns \ {c} # {} => h.rooms[room[c]].open
          /\ \A s \in RoomIds \ {room[c]} : h.rooms[s] = reg.rooms[s]
      BY <3>1, <3>2, <3>3, LeaveEffect
    <3>5. reg' = SchedulePresence(h, room[c])
      BY <2>1, <3>3 DEF CloseEvent
    <3>6. IsRegistry(reg') /\ SameRooms(h, reg')
      BY <3>1, <3>4, <3>5, SchedulePresenceSame
    <3>7. \A s \in RoomIds \ {room[c]} : c \notin reg.rooms[s].conns
      BY DEF IInv, RegistryMatchesSessions, Ready
    <3> QED
      BY <3>1, <3>4, <3>6, <3>7 DEF SameRooms, IInv, Occupied
  <2>2. CASE st[c] # "ready"
    <3>1. reg' = reg
      BY <2>2 DEF CloseEvent
    <3>2. \A r \in RoomIds : c \notin reg.rooms[r].conns
      BY <2>2 DEF IInv, RegistryMatchesSessions, Ready
    <3> QED
      BY <3>1, <3>2 DEF IInv, TypeOK, Occupied
  <2> QED
    BY <2>1, <2>2
<1>3. TypeOK'
  <2>1. /\ ws' \in [Conns -> {"none", "OPEN", "CLOSING", "CLOSED"}]
        /\ since' \in [Conns -> BOOLEAN]
        /\ pending' \in [Conns -> Frame \cup {NoFrame}]
    BY <1>1 DEF IInv, TypeOK, CloseEvent
  <2>2. buf' \in [Conns -> Seq(Frame)] /\ msgs' \in [Conns -> Int]
    BY DEF IInv, TypeOK, CloseEvent
  <2> QED
    BY <1>2, <2>1, <2>2 DEF IInv, TypeOK, CloseEvent
<1>4. \A r \in RoomIds : Ready(r)' = Ready(r) \ {c}
  BY <1>1 DEF Ready, CloseEvent
<1>5. RegistryMatchesSessions' /\ Occupied'
  BY <1>2, <1>4 DEF IInv, RegistryMatchesSessions, Occupied
<1>6. Handshakes'
  BY <1>1 DEF IInv, TypeOK, Handshakes, CloseEvent
<1>7. RoomIsolation'
  BY DEF IInv, TypeOK, RoomIsolation, CloseEvent, NoFrame
<1> QED
  BY <1>3, <1>5, <1>6, <1>7 DEF IInv

(* What a step that forwards frames changes: the registry's connections    *)
(* and the sessions stay as they were, and whatever is buffered or parked  *)
(* for a connection was so before, or belongs to its room.                 *)
ForwardStep ==
    /\ IsRegistry(reg') /\ SameRooms(reg, reg')
    /\ UNCHANGED <<up, st, nonce, room, missed, strikes>>
    /\ \E C \in SUBSET Conns : ws' = Closing(C)
    /\ buf' \in [Conns -> Seq(Frame)]
    /\ \A c \in Conns : \A i \in 1 .. Len(buf'[c]) :
          \/ \E j \in 1 .. Len(buf[c]) : buf'[c][i] = buf[c][j]
          \/ pending[c] # NoFrame /\ buf'[c][i] = pending[c]
          \/ st[c] = "ready" /\ buf'[c][i].room = room[c]
    /\ pending' \in [Conns -> Frame \cup {NoFrame}]
    /\ \A c \in Conns : \/ pending'[c] \in {pending[c], NoFrame}
                        \/ st[c] = "ready" /\ pending'[c].room = room[c]
    /\ since' \in [Conns -> BOOLEAN]
    /\ told' \in [Conns -> Nat]
    /\ stamp' \in Nat
    /\ got' \in [Conns -> Nat] /\ due' \in [Conns -> Nat] /\ msgs' \in [Conns -> Int]

(* Such a step keeps the invariant. *)
LEMMA ForwardStepIInv == IInv /\ ForwardStep => IInv'
<1> SUFFICES ASSUME IInv, ForwardStep PROVE IInv'
  OBVIOUS
<1>a. ws \in [Conns -> ConnStates]
  BY DEF IInv, TypeOK, ConnStates
<1>b. PICK C \in SUBSET Conns : ws' = Closing(C)
  BY DEF ForwardStep
<1>1. /\ ws' \in [Conns -> ConnStates]
      /\ \A c \in Conns : /\ (ws'[c] \in {"OPEN", "CLOSING"}) = (c \in Sessions)
                          /\ (ws'[c] = "none") = (ws[c] = "none")
  BY <1>a, <1>b, ClosingEffect
<1>2. TypeOK'
  BY <1>1 DEF IInv, TypeOK, ForwardStep, ConnStates
<1>3. RegistryMatchesSessions' /\ Occupied'
  BY <1>1, AgreementKept DEF ForwardStep
<1>4. Handshakes'
  BY <1>1 DEF IInv, Handshakes, ForwardStep
<1>5. RoomIsolation'
  BY IsolationKept DEF ForwardStep
<1> QED
  BY <1>2, <1>3, <1>4, <1>5 DEF IInv

(* Appending a frame of the right room to some buffers *)
LEMMA AppendSome ==
    ASSUME IInv, NEW P, NEW f \in Frame,
           \A p \in P \cap Conns : st[p] = "ready" /\ f.room = room[p],
           buf' = [p \in Conns |-> IF p \in P THEN Append(buf[p], f) ELSE buf[p]]
    PROVE  /\ buf' \in [Conns -> Seq(Frame)]
           /\ \A c \in Conns : \A i \in 1 .. Len(buf'[c]) :
                 \/ \E j \in 1 .. Len(buf[c]) : buf'[c][i] = buf[c][j]
                 \/ st[c] = "ready" /\ buf'[c][i].room = room[c]
<1>1. buf \in [Conns -> Seq(Frame)]
  BY DEF IInv, TypeOK
<1>2. buf' \in [Conns -> Seq(Frame)]
  BY <1>1
<1>3. ASSUME NEW c \in Conns, NEW i \in 1 .. Len(buf'[c])
      PROVE  \/ \E j \in 1 .. Len(buf[c]) : buf'[c][i] = buf[c][j]
             \/ st[c] = "ready" /\ buf'[c][i].room = room[c]
  <2>1. CASE c \in P
    <3>1. buf[c] \in Seq(Frame) /\ buf'[c] = Append(buf[c], f)
      BY <1>1, <2>1
    <3>2. CASE i \in 1 .. Len(buf[c])
      BY <3>1, <3>2
    <3>3. CASE i = Len(buf[c]) + 1
      BY <2>1, <3>1, <3>3
    <3> QED
      BY <3>1, <3>2, <3>3
  <2>2. CASE c \notin P
    BY <1>1, <2>2
  <2> QED
    BY <2>1, <2>2
<1> QED
  BY <1>2, <1>3

(* Forwarding a clip *)
LEMMA ClipIInv ==
    ASSUME IInv, NEW c \in Conns, NEW m \in MsgIds, NEW size \in Nat, Clip(c, m, size)
    PROVE  ForwardStep
<1> DEFINE r == room[c]
           f == [kind |-> "clip", room |-> r, num |-> stamp + 1]
           P == Ready(r) \ {c}
<1>1. r \in RoomIds /\ f \in Frame /\ f.room = r /\ f.num \in Nat
  BY DEF IInv, TypeOK, Handshakes, Clip, Frame
<1>2. Deliver(P, f) /\ stamp' = stamp + 1
  BY DEF Clip
<1>3. PICK h : h = RecordSeen(reg, r, m)
  OBVIOUS
<1>4. IsRegistry(h) /\ SameRooms(reg, h)
  BY <1>1, <1>3, RecordSeenSame DEF IInv, TypeOK
<1>5. reg' \in Retain(h, r, m, size, 0)
  BY <1>3 DEF Clip
<1>6. IsRegistry(reg') /\ SameRooms(h, reg')
  BY <1>1, <1>4, <1>5, RetainSame
<1>7. SameRooms(reg, reg')
  BY <1>4, <1>6 DEF SameRooms
<1>8. \A p \in P : st[p] = "ready" /\ f.room = room[p]
  BY <1>1 DEF Ready
<1>9. ws' = Closing({})
  BY DEF Clip, Closing, IInv, TypeOK, socket
<1>10. UNCHANGED <<up, st, nonce, room, missed, strikes, told, got, msgs>>
  BY DEF Clip, socket, identity
<1> HIDE DEF f, P
<1> DEFINE A == {p \in P : ws[p] = "OPEN" /\ ~Parks(p)}
<1>11. /\ buf' \in [Conns -> Seq(Frame)]
       /\ \A d \in Conns : \A i \in 1 .. Len(buf'[d]) :
             \/ \E j \in 1 .. Len(buf[d]) : buf'[d][i] = buf[d][j]
             \/ st[d] = "ready" /\ buf'[d][i].room = room[d]
  <2>1. buf' = [p \in Conns |-> IF p \in A THEN Append(buf[p], f) ELSE buf[p]]
    BY <1>2 DEF Deliver
  <2>2. \A p \in A \cap Conns : st[p] = "ready" /\ f.room = room[p]
    BY <1>8
  <2> HIDE DEF A
  <2> QED
    BY <1>1, <2>1, <2>2, AppendSome
<1>12. /\ pending' \in [Conns -> Frame \cup {NoFrame}]
       /\ \A d \in Conns : \/ pending'[d] \in {pending[d], NoFrame}
                           \/ st[d] = "ready" /\ pending'[d].room = room[d]
  BY <1>1, <1>2, <1>8 DEF Deliver, IInv, TypeOK
<1>13. since' \in [Conns -> BOOLEAN] /\ due' \in [Conns -> Nat] /\ stamp' \in Nat
  BY <1>1, <1>2 DEF Deliver, IInv, TypeOK
<1>14. told' \in [Conns -> Nat] /\ got' \in [Conns -> Nat] /\ msgs' \in [Conns -> Int]
  BY <1>10 DEF IInv, TypeOK
<1> QED
  BY <1>6, <1>7, <1>9, <1>10, <1>11, <1>12, <1>13, <1>14 DEF ForwardStep

(* Forwarding an announcement *)
LEMMA AnnounceIInv ==
    ASSUME IInv, NEW c \in Conns, NEW m \in MsgIds, Announce(c, m)
    PROVE  ForwardStep
<1> DEFINE r == room[c]
           f == [kind |-> "announce", room |-> r, num |-> 0]
           P == {p \in Ready(r) \ {c} : ws[p] = "OPEN" /\ ~Parks(p)}
<1>1. r \in RoomIds /\ f \in Frame /\ f.room = r
  BY DEF IInv, TypeOK, Handshakes, Announce, Frame
<1>2. IsRegistry(reg') /\ SameRooms(reg, reg')
  BY <1>1, RecordSeenSame DEF IInv, TypeOK, Announce
<1>3. buf' = [p \in Conns |-> IF p \in P THEN Append(buf[p], f) ELSE buf[p]]
  BY DEF Announce
<1>4. \A p \in P \cap Conns : st[p] = "ready" /\ f.room = room[p]
  BY <1>1 DEF Ready
<1> HIDE DEF f, P
<1>5. /\ buf' \in [Conns -> Seq(Frame)]
      /\ \A d \in Conns : \A i \in 1 .. Len(buf'[d]) :
            \/ \E j \in 1 .. Len(buf[d]) : buf'[d][i] = buf[d][j]
            \/ st[d] = "ready" /\ buf'[d][i].room = room[d]
  BY <1>1, <1>3, <1>4, AppendSome
<1>6. UNCHANGED <<up, st, nonce, room, missed, strikes, pending, since, told,
                  stamp, got, due, msgs>>
  BY DEF Announce, socket, identity, history
<1>7. ws' = Closing({})
  BY DEF Announce, Closing, IInv, TypeOK, socket
<1> QED
  BY <1>2, <1>5, <1>6, <1>7 DEF ForwardStep, IInv, TypeOK

(* Forwarding a device message *)
LEMMA MsgIInv ==
    ASSUME IInv, NEW c \in Conns, NEW m \in MsgIds, NEW to, Msg(c, m, to)
    PROVE  ForwardStep
<1> DEFINE r == room[c]
           f == [kind |-> "msg", room |-> r, num |-> 0]
           R == {p \in Ready(r) \ {c} : to = Everyone \/ to = p}
           P == {p \in R : ws[p] = "OPEN" /\ ~Stalled(p)}
<1>1. r \in RoomIds /\ f \in Frame /\ f.room = r
  BY DEF IInv, TypeOK, Handshakes, Msg, Frame
<1>2. IsRegistry(reg') /\ SameRooms(reg, reg')
  BY <1>1, RecordSeenSame DEF IInv, TypeOK, Msg
<1>3. /\ DeliverChunk(R, f)
      /\ msgs' = [p \in Conns |-> IF p \in R /\ ws[p] = "OPEN" THEN msgs[p] + 1 ELSE msgs[p]]
  BY DEF Msg
<1>4. /\ \A p \in P \cap Conns : st[p] = "ready" /\ f.room = room[p]
      /\ R \subseteq Conns
  BY <1>1 DEF Ready, Sessions
<1> HIDE DEF f, R
<1>5. /\ buf' = [p \in Conns |-> IF p \in P THEN Append(buf[p], f) ELSE buf[p]]
      /\ ws' = Closing({p \in R : ws[p] = "OPEN" /\ Stalled(p)})
  <2>1. {p \in {q \in R : ws[q] = "OPEN"} : Stalled(p)} = {p \in R : ws[p] = "OPEN" /\ Stalled(p)}
    OBVIOUS
  <2> QED
    BY <1>3, <2>1 DEF DeliverChunk
<1>6. \E C \in SUBSET Conns : ws' = Closing(C)
  BY <1>4, <1>5
<1> HIDE DEF P
<1>7. /\ buf' \in [Conns -> Seq(Frame)]
      /\ \A d \in Conns : \A i \in 1 .. Len(buf'[d]) :
            \/ \E j \in 1 .. Len(buf[d]) : buf'[d][i] = buf[d][j]
            \/ st[d] = "ready" /\ buf'[d][i].room = room[d]
  BY <1>1, <1>4, <1>5, AppendSome
<1>8. msgs' \in [Conns -> Int]
  BY <1>3 DEF IInv, TypeOK
<1>9. UNCHANGED <<up, st, nonce, room, missed, strikes, pending, since, told,
                  stamp, got, due>>
  BY DEF Msg, identity
<1> QED
  BY <1>2, <1>6, <1>7, <1>8, <1>9 DEF ForwardStep, IInv, TypeOK

(* Answering a request for the retained clip *)
LEMMA FetchLastIInv ==
    ASSUME IInv, NEW c \in Conns, FetchLast(c)
    PROVE  ForwardStep
<1> DEFINE r == room[c]
           f == [kind |-> "retained", room |-> r, num |-> 0]
<1>1. r \in RoomIds /\ f \in Frame /\ f.room = r /\ st[c] = "ready"
  BY DEF IInv, TypeOK, Handshakes, FetchLast, Frame
<1>2. IsRegistry(reg') /\ SameRooms(reg, reg')
  BY <1>1, AfterLookupSame DEF IInv, TypeOK, FetchLast
<1>3. PICK P \in {{}, {c}} :
         buf' = [p \in Conns |-> IF p \in P THEN Append(buf[p], f) ELSE buf[p]]
  <2>1. buf' = buf \/ buf' = [buf EXCEPT ![c] = Append(@, f)]
    BY DEF FetchLast
  <2>2. buf \in [Conns -> Seq(Frame)]
    BY DEF IInv, TypeOK
  <2>3. CASE buf' = buf
    <3>1. buf' = [p \in Conns |-> IF p \in {} THEN Append(buf[p], f) ELSE buf[p]]
      BY <2>2, <2>3
    <3> QED
      BY <3>1
  <2>4. CASE buf' = [buf EXCEPT ![c] = Append(@, f)]
    <3>1. buf' = [p \in Conns |-> IF p \in {c} THEN Append(buf[p], f) ELSE buf[p]]
      BY <2>2, <2>4
    <3> QED
      BY <3>1
  <2> QED
    BY <2>1, <2>3, <2>4
<1>4. \A p \in P \cap Conns : st[p] = "ready" /\ f.room = room[p]
  BY <1>1
<1> HIDE DEF f
<1>5. /\ buf' \in [Conns -> Seq(Frame)]
      /\ \A d \in Conns : \A i \in 1 .. Len(buf'[d]) :
            \/ \E j \in 1 .. Len(buf[d]) : buf'[d][i] = buf[d][j]
            \/ st[d] = "ready" /\ buf'[d][i].room = room[d]
  BY <1>1, <1>3, <1>4, AppendSome
<1>6. UNCHANGED <<up, st, nonce, room, missed, strikes, pending, since, told,
                  stamp, got, due, msgs>>
  BY DEF FetchLast, socket, identity, history
<1>7. ws' = Closing({})
  BY DEF FetchLast, Closing, IInv, TypeOK, socket
<1> QED
  BY <1>2, <1>5, <1>6, <1>7 DEF ForwardStep, IInv, TypeOK

(* A socket takes the first frame of its buffer. *)
LEMMA DrainIInv ==
    ASSUME IInv, NEW c \in Conns, Drain(c)
    PROVE  ForwardStep
<1>1. buf \in [Conns -> Seq(Frame)] /\ buf[c] # << >>
  BY DEF IInv, TypeOK, Drain
<1>2. buf[c] \in Seq(Frame) /\ Head(buf[c]) \in Frame /\ Tail(buf[c]) \in Seq(Frame)
  BY <1>1
<1>3. buf' = [buf EXCEPT ![c] = Tail(buf[c])]
  BY DEF Drain
<1>4. buf' \in [Conns -> Seq(Frame)]
  BY <1>1, <1>2, <1>3
<1>5. ASSUME NEW d \in Conns, NEW i \in 1 .. Len(buf'[d])
      PROVE  \E j \in 1 .. Len(buf[d]) : buf'[d][i] = buf[d][j]
  <2>1. CASE d = c
    <3>1. buf'[d] = Tail(buf[d])
      BY <1>1, <1>3, <2>1
    <3>2. i + 1 \in 1 .. Len(buf[d]) /\ buf'[d][i] = buf[d][i + 1]
      BY <1>1, <1>2, <2>1, <3>1
    <3> QED
      BY <3>2
  <2>2. CASE d # c
    BY <1>1, <1>3, <2>2
  <2> QED
    BY <2>1, <2>2
<1>6. got' \in [Conns -> Nat] /\ msgs' \in [Conns -> Int]
  <2>1. Head(buf[c]).num \in Nat
    BY <1>2 DEF Frame
  <2>2. got' \in [Conns -> Nat]
    BY <2>1 DEF IInv, TypeOK, Drain
  <2>3. msgs' \in [Conns -> Int]
    BY DEF IInv, TypeOK, Drain
  <2> QED
    BY <2>2, <2>3
<1>7. UNCHANGED <<reg, up, st, nonce, room, missed, strikes, pending, since, told, stamp, due>>
  BY DEF Drain, socket, identity
<1>8. ws' = Closing({}) /\ SameRooms(reg, reg')
  BY <1>7 DEF Drain, Closing, IInv, TypeOK, socket, SameRooms
<1> QED
  BY <1>4, <1>5, <1>6, <1>7, <1>8 DEF ForwardStep, IInv, TypeOK

(* The presence broadcast *)
LEMMA PresenceFireIInv ==
    ASSUME IInv, NEW r \in RoomIds, PresenceFire(r)
    PROVE  ForwardStep
<1>1. IsRegistry(reg') /\ SameRooms(reg, reg')
  BY PresenceFiredSame DEF IInv, TypeOK, PresenceFire
<1>2. Cardinality(reg.rooms[r].conns) \in Nat
  <2>1. reg.rooms[r].conns \in SUBSET Conns
    BY DEF IInv, TypeOK, IsRegistry, Room
  <2> QED
    BY <2>1, RoomsAssumption, FS_Subset, FS_CardinalityType
<1>3. told' \in [Conns -> Nat]
  BY <1>2 DEF IInv, TypeOK, PresenceFire
<1>4. UNCHANGED <<up, st, nonce, room, missed, strikes, buf, pending, since,
                  stamp, got, due, msgs>>
  BY DEF PresenceFire, socket, identity, outgoing, history
<1>5. ws' = Closing({})
  BY DEF PresenceFire, Closing, IInv, TypeOK, socket
<1> QED
  BY <1>1, <1>3, <1>4, <1>5 DEF ForwardStep, IInv, TypeOK

(* The flusher sends what was parked, or closes the socket. *)
LEMMA FlusherIInv ==
    ASSUME IInv, NEW G \in SUBSET Conns, Flusher(G)
    PROVE  ForwardStep
<1>1. buf \in [Conns -> Seq(Frame)] /\ pending \in [Conns -> Frame \cup {NoFrame}]
  BY DEF IInv, TypeOK
<1>2. \A c \in Conns : Flushes(c) => pending[c] \in Frame /\ pending[c] # NoFrame
  BY <1>1 DEF Flushes
<1>3. buf' = [c \in Conns |-> IF Flushes(c) /\ ws[c] = "OPEN"
                              THEN Append(buf[c], pending[c]) ELSE buf[c]]
  BY DEF Flusher
<1>4. buf' \in [Conns -> Seq(Frame)]
  BY <1>1, <1>2, <1>3
<1>5. ASSUME NEW c \in Conns, NEW i \in 1 .. Len(buf'[c])
      PROVE  \/ \E j \in 1 .. Len(buf[c]) : buf'[c][i] = buf[c][j]
             \/ pending[c] # NoFrame /\ buf'[c][i] = pending[c]
  <2>1. CASE Flushes(c) /\ ws[c] = "OPEN"
    <3>1. buf'[c] = Append(buf[c], pending[c]) /\ buf[c] \in Seq(Frame)
      BY <1>1, <1>3, <2>1
    <3>2. CASE i \in 1 .. Len(buf[c])
      BY <3>1, <3>2
    <3>3. CASE i = Len(buf[c]) + 1
      BY <1>2, <2>1, <3>1, <3>3
    <3> QED
      BY <3>1, <3>2, <3>3
  <2>2. CASE ~(Flushes(c) /\ ws[c] = "OPEN")
    BY <1>1, <1>3, <2>2
  <2> QED
    BY <2>1, <2>2
<1>6. /\ pending' \in [Conns -> Frame \cup {NoFrame}]
      /\ \A c \in Conns : pending'[c] \in {pending[c], NoFrame}
      /\ since' \in [Conns -> BOOLEAN]
  BY <1>1 DEF Flusher, IInv, TypeOK
<1>7. \E C \in SUBSET Conns : ws' = Closing(C)
  BY DEF Flusher
<1>8. UNCHANGED <<reg, up, st, nonce, room, missed, strikes, told, stamp, got, due, msgs>>
  BY DEF Flusher, identity, history
<1>9. SameRooms(reg, reg')
  BY <1>8 DEF SameRooms
<1> QED
  BY <1>4, <1>5, <1>6, <1>7, <1>8, <1>9 DEF ForwardStep, IInv, TypeOK

(* Shutting down clears the timers and closes every socket. *)
LEMMA ShutdownIInv ==
    ASSUME IInv, Shutdown
    PROVE  IInv'
<1> USE DEF identity, outgoing, history
<1>a. ws \in [Conns -> ConnStates] /\ IsRegistry(reg)
  BY DEF IInv, TypeOK, ConnStates
<1>1. /\ ws' \in [Conns -> ConnStates]
      /\ \A d \in Conns : /\ (ws'[d] \in {"OPEN", "CLOSING"}) = (d \in Sessions)
                          /\ (ws'[d] = "none") = (ws[d] = "none")
  BY <1>a, ClosingEffect DEF Shutdown
<1>2. IsRegistry(reg') /\ SameRooms(reg, reg')
  BY <1>a, ClearTimersSame DEF Shutdown
<1>3. TypeOK'
  BY <1>1, <1>2 DEF IInv, TypeOK, Shutdown, ConnStates
<1>4. RegistryMatchesSessions' /\ Occupied'
  BY <1>1, <1>2, AgreementKept DEF Shutdown
<1>5. Handshakes' /\ RoomIsolation'
  BY <1>1 DEF IInv, Handshakes, RoomIsolation, Shutdown
<1> QED
  BY <1>3, <1>4, <1>5 DEF IInv

(* Every step of the relay keeps the invariant. *)
THEOREM NextIInv == IInv /\ [Next]_vars => IInv'
<1> SUFFICES ASSUME IInv, [Next]_vars PROVE IInv'
  OBVIOUS
<1>1. ASSUME NEW c \in Conns, Connect(c) PROVE IInv'
  BY <1>1, ConnectIInv
<1>2. ASSUME NEW c \in Conns, Hello(c) PROVE IInv'
  BY <1>2, HelloIInv
<1>3. ASSUME NEW c \in Conns, NEW r \in RoomIds, Authenticate(c, r) PROVE IInv'
  BY <1>3, AuthenticateIInv
<1>4. ASSUME NEW c \in Conns, NEW r \in RoomIds, AuthenticateNoPlace(c, r) PROVE IInv'
  BY <1>4, AuthenticateNoPlaceIInv
<1>5. ASSUME NEW c \in Conns, NEW b \in BOOLEAN, AuthRefused(c, b) PROVE IInv'
  BY <1>5, AuthRefusedIInv
<1>6. ASSUME NEW c \in Conns, NEW b \in BOOLEAN, RateLimited(c, b) PROVE IInv'
  BY <1>6, SocketSteps, SocketStepIInv
<1>7. ASSUME NEW c \in Conns, AuthTimeout(c) \/ RejectFrame(c) \/ PeerGone(c) \/ Pong(c)
      PROVE  IInv'
  BY <1>7, SocketSteps, SocketStepIInv
<1>8. ASSUME Heartbeat PROVE IInv'
  BY <1>8, SocketSteps, SocketStepIInv
<1>9. ASSUME NEW c \in Conns, CloseEvent(c) PROVE IInv'
  BY <1>9, CloseEventIInv
<1>10. ASSUME NEW c \in Conns, NEW m \in MsgIds, NEW size \in {RetainMax, RetainMax + 1},
              Clip(c, m, size)
       PROVE  IInv'
  <2>1. size \in Nat
    BY RoomsAssumption
  <2> QED
    BY <1>10, <2>1, ClipIInv, ForwardStepIInv
<1>11. ASSUME NEW c \in Conns, NEW m \in MsgIds, Announce(c, m) PROVE IInv'
  BY <1>11, AnnounceIInv, ForwardStepIInv
<1>12. ASSUME NEW c \in Conns, NEW m \in MsgIds, NEW to \in Conns \cup {Everyone}, Msg(c, m, to)
       PROVE  IInv'
  BY <1>12, MsgIInv, ForwardStepIInv
<1>13. ASSUME NEW c \in Conns, FetchLast(c) PROVE IInv'
  BY <1>13, FetchLastIInv, ForwardStepIInv
<1>14. ASSUME NEW c \in Conns, Drain(c) PROVE IInv'
  BY <1>14, DrainIInv, ForwardStepIInv
<1>15. ASSUME NEW r \in RoomIds, PresenceFire(r) PROVE IInv'
  BY <1>15, PresenceFireIInv, ForwardStepIInv
<1>16. ASSUME NEW G \in SUBSET Conns, Flusher(G) PROVE IInv'
  BY <1>16, FlusherIInv, ForwardStepIInv
<1>17. ASSUME Shutdown PROVE IInv'
  BY <1>17, ShutdownIInv
<1>18. ASSUME UNCHANGED vars PROVE IInv'
  BY <1>18 DEF vars, IInv, TypeOK, RegistryMatchesSessions, Occupied, Handshakes,
     RoomIsolation, Ready, Sessions, IsRegistry
<1> QED
  BY <1>1, <1>2, <1>3, <1>4, <1>5, <1>6, <1>7, <1>8, <1>9, <1>10, <1>11, <1>12, <1>13,
     <1>14, <1>15, <1>16, <1>17, <1>18 DEF Next

(* In every state the relay can reach, whatever the number of connections  *)
(* and rooms, the variables have their types.                              *)
THEOREM TypeCorrect == Spec => []TypeOK
<1>1. IInv => TypeOK
  BY DEF IInv
<1> QED
  BY InitIInv, NextIInv, <1>1, PTL DEF Spec

(* The sessions and the registry agree in every reachable state: a clip    *)
(* goes to the sessions of the room, presence counts the registry's.       *)
THEOREM RegistryAgrees == Spec => []RegistryMatchesSessions
<1>1. IInv => RegistryMatchesSessions
  BY DEF IInv
<1> QED
  BY InitIInv, NextIInv, <1>1, PTL DEF Spec

(* Every ready session has authenticated with the nonce it was given and   *)
(* is in a room that exists.                                               *)
THEOREM ReadySessions == Spec => []ReadyIsAuthenticated
<1>1. IInv => ReadyIsAuthenticated
  BY DEF IInv, Handshakes, ReadyIsAuthenticated, RegistryMatchesSessions, Occupied, Ready, Sessions
<1> QED
  BY InitIInv, NextIInv, <1>1, PTL DEF Spec

(* No frame of one room is ever buffered or parked for a connection of     *)
(* another room, or for one that has not authenticated.                    *)
THEOREM RoomsIsolated == Spec => []RoomIsolation
<1>1. IInv => RoomIsolation
  BY DEF IInv
<1> QED
  BY InitIInv, NextIInv, <1>1, PTL DEF Spec

-----------------------------------------------------------------------------
(***************************************************************************)
(* The order of clips                                                      *)
(***************************************************************************)

Clips(c) == {i \in 1 .. Len(buf[c]) : buf[c][i].kind = "clip"}

(* What is taken, buffered or parked was numbered before, and only clips   *)
(* are parked: a clip accepted next is newer than all of it.               *)
Numbered(c) ==
    /\ got[c] <= stamp
    /\ \A i \in Clips(c) : buf[c][i].num <= stamp
    /\ pending[c] # NoFrame => pending[c].kind = "clip" /\ pending[c].num <= stamp

(* ClipsInOrder, of one connection *)
InOrder(c) ==
    /\ \A i \in Clips(c) : got[c] < buf[c][i].num
    /\ \A i, j \in Clips(c) : i < j => buf[c][i].num < buf[c][j].num
    /\ pending[c] # NoFrame => /\ pending[c].num > got[c]
                               /\ \A i \in Clips(c) : buf[c][i].num < pending[c].num

(* The types of what a connection has outstanding *)
LEMMA OutgoingTypes ==
    ASSUME TypeOK, NEW c \in Conns
    PROVE  /\ stamp \in Nat /\ got[c] \in Nat
           /\ buf[c] \in Seq(Frame) /\ Len(buf[c]) \in Nat
           /\ \A i \in Clips(c) : i \in 1 .. Len(buf[c]) /\ buf[c][i].num \in Nat
           /\ pending[c] # NoFrame => pending[c].num \in Nat
<1>1. \A f \in Frame : f.num \in Nat
  BY DEF Frame
<1>2. buf[c] \in Seq(Frame) /\ Len(buf[c]) \in Nat
  BY DEF TypeOK
<1>3. \A i \in 1 .. Len(buf[c]) : buf[c][i] \in Frame
  BY <1>2
<1>4. pending[c] # NoFrame => pending[c] \in Frame
  BY DEF TypeOK
<1>5. stamp \in Nat /\ got[c] \in Nat
  BY DEF TypeOK
<1> QED
  BY <1>1, <1>2, <1>3, <1>4, <1>5 DEF Clips

(* A connection for which nothing is sent or taken; its slot may be emptied. *)
LEMMA QuietOrder ==
    ASSUME TypeOK, NEW c \in Conns, Numbered(c), InOrder(c),
           buf'[c] = buf[c], got'[c] = got[c], pending'[c] \in {pending[c], NoFrame},
           stamp' \in {stamp, stamp + 1}
    PROVE  Numbered(c)' /\ InOrder(c)'
<1>1. Clips(c)' = Clips(c)
  BY DEF Clips
<1>2. InOrder(c)'
  BY <1>1 DEF InOrder
<1>3. Numbered(c)'
  BY <1>1, OutgoingTypes DEF Numbered
<1> QED
  BY <1>2, <1>3

(* Sending it a frame: a clip, when none is parked, newer than all before  *)
LEMMA SentOrder ==
    ASSUME TypeOK, NEW c \in Conns, Numbered(c), InOrder(c), NEW f \in Frame,
           buf'[c] = Append(buf[c], f), got'[c] = got[c], stamp' \in {stamp, stamp + 1},
           f.kind # "clip" => pending'[c] = pending[c],
           f.kind = "clip" => /\ pending'[c] = NoFrame
                              /\ got[c] < f.num /\ f.num <= stamp'
                              /\ \A i \in Clips(c) : buf[c][i].num < f.num
    PROVE  Numbered(c)' /\ InOrder(c)'
<1> DEFINE n == Len(buf[c]) + 1
<1>1. /\ buf[c] \in Seq(Frame) /\ Len(buf[c]) \in Nat
      /\ stamp \in Nat /\ got[c] \in Nat
      /\ \A i \in Clips(c) : i \in 1 .. Len(buf[c]) /\ buf[c][i].num \in Nat
  BY OutgoingTypes
<1>2. /\ Len(buf'[c]) = n /\ buf'[c][n] = f
      /\ \A i \in 1 .. Len(buf[c]) : buf'[c][i] = buf[c][i]
  BY <1>1
<1>3. Clips(c)' = IF f.kind = "clip" THEN Clips(c) \cup {n} ELSE Clips(c)
  BY <1>1, <1>2 DEF Clips
<1>4. \A i \in Clips(c) : /\ i \in 1 .. Len(buf[c]) /\ i < n
                          /\ buf'[c][i] = buf[c][i]
                          /\ buf[c][i].num \in Nat
  BY <1>1, <1>2
<1>5. f.num \in Nat /\ (pending[c] # NoFrame => pending[c].num \in Nat)
  BY OutgoingTypes DEF Frame
<1> HIDE DEF n
<1>6. CASE f.kind # "clip"
  <2>1. Clips(c)' = Clips(c) /\ pending'[c] = pending[c]
    BY <1>3, <1>6
  <2>2. InOrder(c)'
    BY <1>4, <2>1 DEF InOrder
  <2>3. Numbered(c)'
    BY <1>1, <1>4, <1>5, <2>1 DEF Numbered
  <2> QED
    BY <2>2, <2>3
<1>7. CASE f.kind = "clip"
  <2>1. Clips(c)' = Clips(c) \cup {n} /\ pending'[c] = NoFrame
    BY <1>3, <1>7
  <2>2. \A i \in Clips(c)' : got'[c] < buf'[c][i].num /\ buf'[c][i].num <= stamp'
    BY <1>1, <1>2, <1>4, <1>7, <2>1 DEF InOrder, Numbered
  <2>3. \A i, j \in Clips(c)' : i < j => buf'[c][i].num < buf'[c][j].num
    BY <1>1, <1>2, <1>4, <1>7, <2>1 DEF InOrder, n
  <2>4. InOrder(c)'
    BY <2>1, <2>2, <2>3 DEF InOrder
  <2>5. got'[c] <= stamp'
    BY <1>1 DEF Numbered
  <2>6. Numbered(c)'
    BY <2>1, <2>2, <2>5 DEF Numbered
  <2> QED
    BY <2>4, <2>6
<1> QED
  BY <1>6, <1>7

(* Parking the newest clip *)
LEMMA ParkedOrder ==
    ASSUME TypeOK, NEW c \in Conns, Numbered(c), InOrder(c), NEW f \in Frame,
           buf'[c] = buf[c], got'[c] = got[c], stamp' = stamp + 1,
           pending'[c] = f, f.kind = "clip", f.num = stamp + 1
    PROVE  Numbered(c)' /\ InOrder(c)'
<1>1. /\ stamp \in Nat /\ got[c] \in Nat
      /\ \A i \in Clips(c) : buf[c][i].num \in Nat
  BY OutgoingTypes
<1>2. Clips(c)' = Clips(c)
  BY DEF Clips
<1>3. InOrder(c)'
  BY <1>1, <1>2 DEF InOrder, Numbered
<1>4. Numbered(c)'
  BY <1>1, <1>2 DEF Numbered
<1> QED
  BY <1>3, <1>4

(* The socket taking the first frame *)
LEMMA TakenOrder ==
    ASSUME TypeOK, NEW c \in Conns, Numbered(c), InOrder(c),
           buf[c] # << >>, buf'[c] = Tail(buf[c]), pending'[c] = pending[c], stamp' = stamp,
           got'[c] = IF Head(buf[c]).kind = "clip" THEN Head(buf[c]).num ELSE got[c]
    PROVE  Numbered(c)' /\ InOrder(c)'
<1>1. /\ stamp \in Nat /\ got[c] \in Nat /\ buf[c] \in Seq(Frame) /\ Len(buf[c]) \in Nat
      /\ pending[c] # NoFrame => pending[c].num \in Nat
      /\ \A i \in Clips(c) : buf[c][i].num \in Nat
  BY OutgoingTypes
<1>2. /\ Len(buf[c]) >= 1 /\ Head(buf[c]) = buf[c][1]
      /\ Len(buf'[c]) = Len(buf[c]) - 1
      /\ \A i \in 1 .. Len(buf'[c]) : buf'[c][i] = buf[c][i + 1]
  BY <1>1
<1>3. \A i \in Clips(c)' : /\ i \in Nat /\ i >= 1 /\ i + 1 \in Clips(c)
                           /\ buf'[c][i] = buf[c][i + 1]
  BY <1>1, <1>2 DEF Clips
<1>4. Head(buf[c]).kind = "clip" => 1 \in Clips(c) /\ got'[c] = buf[c][1].num
  BY <1>1, <1>2 DEF Clips
<1>5. Head(buf[c]).kind # "clip" => got'[c] = got[c]
  OBVIOUS
<1>6. ASSUME NEW i \in Clips(c)'
      PROVE  got'[c] < buf'[c][i].num /\ buf'[c][i].num <= stamp
  <2>0. i \in Nat /\ i >= 1 /\ i + 1 \in Clips(c) /\ buf'[c][i] = buf[c][i + 1]
    BY <1>3, Zenon
  <2>1. 1 < i + 1
    BY <2>0
  <2>2. Head(buf[c]).kind = "clip" => buf[c][1].num < buf[c][i + 1].num
    BY <1>4, <2>0, <2>1 DEF InOrder
  <2>3. got[c] < buf[c][i + 1].num /\ buf[c][i + 1].num <= stamp
    BY <2>0 DEF InOrder, Numbered
  <2> QED
    BY <1>4, <1>5, <2>0, <2>2, <2>3
<1>7. ASSUME NEW i \in Clips(c)', NEW j \in Clips(c)', i < j
      PROVE  buf'[c][i].num < buf'[c][j].num
  <2>1. i + 1 \in Clips(c) /\ j + 1 \in Clips(c) /\ i + 1 < j + 1
    BY <1>3, <1>7
  <2> QED
    BY <1>3, <2>1 DEF InOrder
<1>8. pending'[c] # NoFrame => /\ pending'[c].num > got'[c]
                               /\ \A i \in Clips(c)' : buf'[c][i].num < pending'[c].num
  BY <1>1, <1>3, <1>4, <1>5 DEF InOrder
<1>9. Numbered(c)'
  BY <1>1, <1>4, <1>5, <1>6 DEF Numbered
<1> QED
  BY <1>6, <1>7, <1>8, <1>9 DEF InOrder

(* A connection that is closed *)
LEMMA ClosedOrder ==
    ASSUME TypeOK, NEW c \in Conns, Numbered(c),
           buf'[c] = << >>, pending'[c] = NoFrame, got'[c] = got[c], stamp' = stamp
    PROVE  Numbered(c)' /\ InOrder(c)'
<1>1. Clips(c)' = {}
  BY DEF Clips
<1> QED
  BY <1>1 DEF Numbered, InOrder

(***************************************************************************)
(* Counting device messages                                                *)
(***************************************************************************)

MsgsIn(q) == {i \in 1 .. Len(q) : q[i].kind = "msg"}

(* The messages in a buffer can be counted. *)
LEMMA CountType ==
    ASSUME NEW q \in Seq(Frame)
    PROVE  IsFiniteSet(MsgsIn(q)) /\ Cardinality(MsgsIn(q)) \in Nat
<1>1. IsFiniteSet(1 .. Len(q))
  BY FS_Interval
<1>2. MsgsIn(q) \in SUBSET (1 .. Len(q))
  BY DEF MsgsIn
<1> QED
  BY <1>1, <1>2, FS_Subset, FS_CardinalityType

(* A frame more is a message more, or none. *)
LEMMA CountAppend ==
    ASSUME NEW q \in Seq(Frame), NEW f \in Frame
    PROVE  Cardinality(MsgsIn(Append(q, f))) =
              IF f.kind = "msg" THEN Cardinality(MsgsIn(q)) + 1 ELSE Cardinality(MsgsIn(q))
<1> DEFINE a == Append(q, f)
           n == Len(q) + 1
<1>1. /\ Len(q) \in Nat /\ Len(a) = n /\ a[n] = f
      /\ \A i \in 1 .. Len(q) : a[i] = q[i]
  OBVIOUS
<1>2. MsgsIn(a) = IF f.kind = "msg" THEN MsgsIn(q) \cup {n} ELSE MsgsIn(q)
  BY <1>1 DEF MsgsIn
<1>3. n \notin MsgsIn(q)
  BY <1>1 DEF MsgsIn
<1> HIDE DEF a, n
<1>4. IsFiniteSet(MsgsIn(q))
  BY CountType
<1>5. Cardinality(MsgsIn(q) \cup {n}) = Cardinality(MsgsIn(q)) + 1
  BY <1>3, <1>4, FS_AddElement
<1>6. Cardinality(MsgsIn(a)) =
         IF f.kind = "msg" THEN Cardinality(MsgsIn(q)) + 1 ELSE Cardinality(MsgsIn(q))
  BY <1>2, <1>5
<1> QED
  BY <1>6 DEF a

(* A frame less is a message less, or none. *)
LEMMA CountTail ==
    ASSUME NEW q \in Seq(Frame), q # << >>
    PROVE  Cardinality(MsgsIn(Tail(q))) =
              IF Head(q).kind = "msg" THEN Cardinality(MsgsIn(q)) - 1 ELSE Cardinality(MsgsIn(q))
<1> DEFINE t == Tail(q)
           M == MsgsIn(q) \ {1}
           f == [i \in MsgsIn(t) |-> i + 1]
<1>1. /\ Len(q) \in Nat /\ Len(q) >= 1 /\ Head(q) = q[1]
      /\ t \in Seq(Frame) /\ Len(t) = Len(q) - 1
      /\ \A i \in 1 .. Len(t) : t[i] = q[i + 1]
  OBVIOUS
<1>2. \A i \in MsgsIn(t) : i \in Nat /\ i + 1 \in M
  BY <1>1 DEF MsgsIn
<1>3. \A j \in M : j - 1 \in MsgsIn(t) /\ (j - 1) + 1 = j
  BY <1>1 DEF MsgsIn
<1>4. IsFiniteSet(MsgsIn(t)) /\ IsFiniteSet(MsgsIn(q))
  BY <1>1, CountType
<1> HIDE DEF t, M
<1>5. f \in Bijection(MsgsIn(t), M)
  <2>1. f \in [MsgsIn(t) -> M]
    BY <1>2
  <2>2. \A i, j \in MsgsIn(t) : f[i] = f[j] => i = j
    BY <1>2
  <2>3. \A j \in M : \E i \in MsgsIn(t) : f[i] = j
    BY <1>3
  <2> QED
    BY <2>1, <2>2, <2>3 DEF Bijection, Injection, IsInjective, Surjection
<1>6. Cardinality(M) = Cardinality(MsgsIn(t))
  BY <1>4, <1>5, FS_Bijection DEF ExistsBijection
<1>7. Cardinality(M) =
         IF 1 \in MsgsIn(q) THEN Cardinality(MsgsIn(q)) - 1 ELSE Cardinality(MsgsIn(q))
  BY <1>4, FS_RemoveElement DEF M
<1>8. (1 \in MsgsIn(q)) <=> (Head(q).kind = "msg")
  BY <1>1 DEF MsgsIn
<1>9. Cardinality(MsgsIn(t)) =
         IF Head(q).kind = "msg" THEN Cardinality(MsgsIn(q)) - 1 ELSE Cardinality(MsgsIn(q))
  BY <1>6, <1>7, <1>8
<1> QED
  BY <1>9 DEF t

(* MsgsNotDropped, of one connection, and before it connects. *)
Counted(c) == ws[c] \in {"none", "OPEN"} => msgs[c] = Cardinality(MsgsIn(buf[c]))

(***************************************************************************)
(* What each step does to what a connection has outstanding                *)
(***************************************************************************)

DeliveryInv == \A c \in Conns : Numbered(c) /\ InOrder(c) /\ Counted(c)

(* The steps that send and take nothing *)
QuietStep ==
    /\ UNCHANGED <<buf, pending, stamp, got, msgs>>
    /\ \A c \in Conns : ws'[c] \in {"none", "OPEN"} => ws[c] \in {"none", "OPEN"}

(* Such a step keeps the invariant. *)
LEMMA QuietStepDelivery ==
    ASSUME TypeOK, DeliveryInv, QuietStep
    PROVE  DeliveryInv'
<1> SUFFICES ASSUME NEW c \in Conns PROVE Numbered(c)' /\ InOrder(c)' /\ Counted(c)'
  BY DEF DeliveryInv
<1>1. Numbered(c)' /\ InOrder(c)'
  BY QuietOrder DEF QuietStep, DeliveryInv
<1>2. Counted(c)'
  BY DEF QuietStep, DeliveryInv, Counted, MsgsIn
<1> QED
  BY <1>1, <1>2

(* Deciding to close opens nothing. *)
LEMMA ClosingOpensNone ==
    ASSUME NEW C, NEW c \in Conns
    PROVE  Closing(C)[c] \in {"none", "OPEN"} => Closing(C)[c] = ws[c]
BY DEF Closing

(* They are the handshake, refusals, timers, presence and the end. *)
LEMMA QuietSteps ==
    ASSUME IInv
    PROVE  /\ SocketStep => QuietStep
           /\ Shutdown => QuietStep
           /\ \A r \in RoomIds : PresenceFire(r) => QuietStep
           /\ \A c \in Conns : Connect(c) \/ Hello(c) => QuietStep
           /\ \A c \in Conns, r \in RoomIds :
                 Authenticate(c, r) \/ AuthenticateNoPlace(c, r) => QuietStep
           /\ \A c \in Conns, b \in BOOLEAN : AuthRefused(c, b) => QuietStep
<1> USE DEF QuietStep, identity, outgoing, history, socket
<1>0. ws \in [Conns -> ConnStates]
  BY DEF IInv, TypeOK, ConnStates
<1>1. SocketStep => QuietStep
  BY ClosingOpensNone DEF SocketStep
<1>2. Shutdown => QuietStep
  BY ClosingOpensNone DEF Shutdown
<1>3. ASSUME NEW r \in RoomIds PROVE PresenceFire(r) => QuietStep
  BY DEF PresenceFire
<1>4. ASSUME NEW c \in Conns PROVE Connect(c) \/ Hello(c) => QuietStep
  BY <1>0 DEF Connect, Hello
<1>5. ASSUME NEW c \in Conns, NEW r \in RoomIds
      PROVE  Authenticate(c, r) \/ AuthenticateNoPlace(c, r) => QuietStep
  BY ClosingOpensNone DEF Authenticate, AuthenticateNoPlace
<1>6. ASSUME NEW c \in Conns, NEW b \in BOOLEAN PROVE AuthRefused(c, b) => QuietStep
  BY ClosingOpensNone DEF AuthRefused
<1> QED
  BY <1>1, <1>2, <1>3, <1>4, <1>5, <1>6

(* A connection that is sent a frame that is no clip, in a step that       *)
(* accepts none                                                            *)
LEMMA SentDelivery ==
    ASSUME TypeOK, NEW c \in Conns, Numbered(c), InOrder(c), Counted(c), NEW f \in Frame,
           f.kind # "clip", buf'[c] = Append(buf[c], f),
           UNCHANGED <<pending, stamp, got>>,
           ws'[c] \in {"none", "OPEN"} => ws[c] = ws'[c],
           msgs'[c] = IF f.kind = "msg" THEN msgs[c] + 1 ELSE msgs[c]
    PROVE  Numbered(c)' /\ InOrder(c)' /\ Counted(c)'
<1>1. Numbered(c)' /\ InOrder(c)'
  BY SentOrder
<1>2. buf[c] \in Seq(Frame)
  BY OutgoingTypes
<1>3. Counted(c)'
  BY <1>2, CountAppend DEF Counted
<1> QED
  BY <1>1, <1>3

(* One that is sent nothing *)
LEMMA LeftDelivery ==
    ASSUME TypeOK, NEW c \in Conns, Numbered(c), InOrder(c), Counted(c),
           buf'[c] = buf[c], pending'[c] \in {pending[c], NoFrame}, got'[c] = got[c],
           stamp' \in {stamp, stamp + 1},
           ws'[c] \in {"none", "OPEN"} => ws[c] = ws'[c] /\ msgs'[c] = msgs[c]
    PROVE  Numbered(c)' /\ InOrder(c)' /\ Counted(c)'
<1>1. Numbered(c)' /\ InOrder(c)'
  BY QuietOrder
<1>2. Counted(c)'
  BY DEF Counted
<1> QED
  BY <1>1, <1>2

(* handleClip: newer than everything, it is parked behind what is parked   *)
(* or sent where nothing is.                                               *)
LEMMA ClipDelivery ==
    ASSUME IInv, DeliveryInv, NEW c \in Conns, NEW m \in MsgIds, NEW size \in Nat,
           Clip(c, m, size)
    PROVE  DeliveryInv'
<1> DEFINE f == [kind |-> "clip", room |-> room[c], num |-> stamp + 1]
           live == {p \in Ready(room[c]) \ {c} : ws[p] = "OPEN"}
<1> SUFFICES ASSUME NEW d \in Conns PROVE Numbered(d)' /\ InOrder(d)' /\ Counted(d)'
  BY DEF DeliveryInv
<1>1. TypeOK /\ Numbered(d) /\ InOrder(d) /\ Counted(d)
  BY DEF IInv, DeliveryInv
<1>2. f \in Frame /\ f.kind = "clip" /\ f.num = stamp + 1
  BY DEF IInv, TypeOK, Handshakes, Clip, Frame
<1>3. /\ stamp' = stamp + 1 /\ got' = got /\ msgs' = msgs /\ ws' = ws
      /\ pending'[d] = IF d \in live /\ Parks(d) THEN f ELSE pending[d]
      /\ buf'[d] = IF d \in live /\ ~Parks(d) THEN Append(buf[d], f) ELSE buf[d]
  BY DEF Clip, Deliver, socket
<1>4. /\ stamp \in Nat /\ got[d] \in Nat /\ buf[d] \in Seq(Frame)
      /\ \A i \in Clips(d) : buf[d][i].num \in Nat
  BY <1>1, OutgoingTypes
<1> HIDE DEF f, live
<1>5. CASE d \in live /\ Parks(d)
  <2>1. pending'[d] = f /\ buf'[d] = buf[d]
    BY <1>3, <1>5
  <2>2. Numbered(d)' /\ InOrder(d)'
    BY <1>1, <1>2, <1>3, <2>1, ParkedOrder
  <2>3. Counted(d)'
    BY <1>1, <1>3, <2>1 DEF Counted
  <2> QED
    BY <2>2, <2>3
<1>6. CASE d \in live /\ ~Parks(d)
  <2>1. buf'[d] = Append(buf[d], f) /\ pending'[d] = NoFrame
    BY <1>3, <1>6 DEF Parks
  <2>2. got[d] < f.num /\ f.num <= stamp' /\ \A i \in Clips(d) : buf[d][i].num < f.num
    BY <1>1, <1>2, <1>3, <1>4 DEF Numbered
  <2>3. Numbered(d)' /\ InOrder(d)'
    BY <1>1, <1>2, <1>3, <2>1, <2>2, SentOrder
  <2>4. Counted(d)'
    BY <1>1, <1>2, <1>3, <1>4, <2>1, CountAppend DEF Counted
  <2> QED
    BY <2>3, <2>4
<1>7. CASE d \notin live
  BY <1>1, <1>3, <1>7, LeftDelivery
<1> QED
  BY <1>5, <1>6, <1>7

(* handleAnnounce *)
LEMMA AnnounceDelivery ==
    ASSUME IInv, DeliveryInv, NEW c \in Conns, NEW m \in MsgIds, Announce(c, m)
    PROVE  DeliveryInv'
<1> DEFINE f == [kind |-> "announce", room |-> room[c], num |-> 0]
           to == {p \in Ready(room[c]) \ {c} : ws[p] = "OPEN" /\ ~Parks(p)}
<1> SUFFICES ASSUME NEW d \in Conns PROVE Numbered(d)' /\ InOrder(d)' /\ Counted(d)'
  BY DEF DeliveryInv
<1>1. TypeOK /\ Numbered(d) /\ InOrder(d) /\ Counted(d)
  BY DEF IInv, DeliveryInv
<1>2. f \in Frame /\ f.kind = "announce"
  BY DEF IInv, TypeOK, Handshakes, Announce, Frame
<1>3. /\ UNCHANGED <<pending, stamp, got>> /\ msgs' = msgs /\ ws' = ws
      /\ buf'[d] = IF d \in to THEN Append(buf[d], f) ELSE buf[d]
  BY DEF Announce, socket, history
<1> HIDE DEF f, to
<1>4. CASE d \in to
  BY <1>1, <1>2, <1>3, <1>4, SentDelivery
<1>5. CASE d \notin to
  BY <1>1, <1>3, <1>5, LeftDelivery
<1> QED
  BY <1>4, <1>5

(* handleMsg: one that cannot take the message is closed. *)
LEMMA MsgDelivery ==
    ASSUME IInv, DeliveryInv, NEW c \in Conns, NEW m \in MsgIds, NEW to, Msg(c, m, to)
    PROVE  DeliveryInv'
<1> DEFINE f == [kind |-> "msg", room |-> room[c], num |-> 0]
           R == {p \in Ready(room[c]) \ {c} : to = Everyone \/ to = p}
           live == {p \in R : ws[p] = "OPEN"}
<1> SUFFICES ASSUME NEW d \in Conns PROVE Numbered(d)' /\ InOrder(d)' /\ Counted(d)'
  BY DEF DeliveryInv
<1>1. TypeOK /\ Numbered(d) /\ InOrder(d) /\ Counted(d)
  BY DEF IInv, DeliveryInv
<1>2. f \in Frame /\ f.kind = "msg"
  BY DEF IInv, TypeOK, Handshakes, Msg, Frame
<1>3. /\ UNCHANGED <<pending, stamp, got>>
      /\ ws' = Closing({p \in live : Stalled(p)})
      /\ buf'[d] = IF d \in live /\ ~Stalled(d) THEN Append(buf[d], f) ELSE buf[d]
      /\ msgs'[d] = IF d \in live THEN msgs[d] + 1 ELSE msgs[d]
  BY DEF Msg, DeliverChunk
<1>4. /\ ws'[d] \in {"none", "OPEN"} => ws[d] = ws'[d]
      /\ d \in live /\ Stalled(d) => ws'[d] = "CLOSING"
  BY <1>3 DEF Closing
<1> HIDE DEF f, live
<1>5. CASE d \in live /\ ~Stalled(d)
  BY <1>1, <1>2, <1>3, <1>4, <1>5, SentDelivery
<1>6. CASE ~(d \in live /\ ~Stalled(d))
  <2>1. buf'[d] = buf[d] /\ (ws'[d] \in {"none", "OPEN"} => msgs'[d] = msgs[d])
    BY <1>3, <1>4, <1>6
  <2> QED
    BY <1>1, <1>3, <1>4, <2>1, LeftDelivery
<1> QED
  BY <1>5, <1>6

(* handleFetchLast *)
LEMMA FetchLastDelivery ==
    ASSUME IInv, DeliveryInv, NEW c \in Conns, FetchLast(c)
    PROVE  DeliveryInv'
<1> DEFINE f == [kind |-> "retained", room |-> room[c], num |-> 0]
<1> SUFFICES ASSUME NEW d \in Conns PROVE Numbered(d)' /\ InOrder(d)' /\ Counted(d)'
  BY DEF DeliveryInv
<1>1. TypeOK /\ Numbered(d) /\ InOrder(d) /\ Counted(d)
  BY DEF IInv, DeliveryInv
<1>2. f \in Frame /\ f.kind = "retained"
  BY DEF IInv, TypeOK, Handshakes, FetchLast, Frame
<1>3. UNCHANGED <<pending, stamp, got>> /\ msgs' = msgs /\ ws' = ws
  BY DEF FetchLast, socket, history
<1>4. buf' = buf \/ buf' = [buf EXCEPT ![c] = Append(@, f)]
  BY DEF FetchLast
<1> HIDE DEF f
<1>5. buf'[d] = buf[d] \/ buf'[d] = Append(buf[d], f)
  BY <1>1, <1>4 DEF TypeOK
<1>6. CASE buf'[d] = buf[d]
  BY <1>1, <1>3, <1>6, LeftDelivery
<1>7. CASE buf'[d] = Append(buf[d], f)
  BY <1>1, <1>2, <1>3, <1>7, SentDelivery
<1> QED
  BY <1>5, <1>6, <1>7

(* The socket takes a frame *)
LEMMA DrainDelivery ==
    ASSUME IInv, DeliveryInv, NEW c \in Conns, Drain(c)
    PROVE  DeliveryInv'
<1> SUFFICES ASSUME NEW d \in Conns PROVE Numbered(d)' /\ InOrder(d)' /\ Counted(d)'
  BY DEF DeliveryInv
<1>1. TypeOK /\ Numbered(d) /\ InOrder(d) /\ Counted(d)
  BY DEF IInv, DeliveryInv
<1>2. /\ UNCHANGED <<pending, stamp>> /\ ws' = ws
      /\ buf' = [buf EXCEPT ![c] = Tail(@)] /\ buf[c] # << >>
      /\ got' = IF Head(buf[c]).kind = "clip"
                THEN [got EXCEPT ![c] = Head(buf[c]).num] ELSE got
      /\ msgs' = IF Head(buf[c]).kind = "msg" THEN [msgs EXCEPT ![c] = @ - 1] ELSE msgs
  BY DEF Drain, socket
<1>3. CASE d = c
  <2>1. /\ buf[d] # << >> /\ buf'[d] = Tail(buf[d]) /\ buf[d] \in Seq(Frame)
        /\ got'[d] = IF Head(buf[d]).kind = "clip" THEN Head(buf[d]).num ELSE got[d]
        /\ msgs'[d] = IF Head(buf[d]).kind = "msg" THEN msgs[d] - 1 ELSE msgs[d]
    BY <1>1, <1>2, <1>3 DEF TypeOK
  <2>2. Numbered(d)' /\ InOrder(d)'
    BY <1>1, <1>2, <2>1, TakenOrder
  <2>3. Counted(d)'
    BY <1>1, <1>2, <2>1, CountTail DEF Counted
  <2> QED
    BY <2>2, <2>3
<1>4. CASE d # c
  <2>1. buf'[d] = buf[d] /\ got'[d] = got[d] /\ msgs'[d] = msgs[d]
    BY <1>1, <1>2, <1>4 DEF TypeOK
  <2> QED
    BY <1>1, <1>2, <2>1, LeftDelivery
<1> QED
  BY <1>3, <1>4

(* The flusher sends what was parked, which is newer than what is buffered. *)
LEMMA FlusherDelivery ==
    ASSUME IInv, DeliveryInv, NEW G \in SUBSET Conns, Flusher(G)
    PROVE  DeliveryInv'
<1> SUFFICES ASSUME NEW d \in Conns PROVE Numbered(d)' /\ InOrder(d)' /\ Counted(d)'
  BY DEF DeliveryInv
<1>1. TypeOK /\ Numbered(d) /\ InOrder(d) /\ Counted(d)
  BY DEF IInv, DeliveryInv
<1>2. /\ stamp' = stamp /\ got' = got /\ msgs' = msgs
      /\ ws' = Closing({c \in G : ~Flushes(c)})
      /\ buf'[d] = IF Flushes(d) /\ ws[d] = "OPEN" THEN Append(buf[d], pending[d]) ELSE buf[d]
      /\ pending'[d] = IF Flushes(d) THEN NoFrame ELSE pending[d]
  BY DEF Flusher, history
<1>3. ws'[d] \in {"none", "OPEN"} => ws[d] = ws'[d]
  BY <1>2 DEF Closing
<1>4. CASE Flushes(d) /\ ws[d] = "OPEN"
  <2>1. pending[d] # NoFrame /\ pending[d] \in Frame
    BY <1>1, <1>4 DEF Flushes, TypeOK
  <2>2. buf'[d] = Append(buf[d], pending[d]) /\ pending'[d] = NoFrame /\ buf[d] \in Seq(Frame)
    BY <1>1, <1>2, <1>4 DEF TypeOK
  <2>3. /\ pending[d].kind = "clip" /\ pending[d].num <= stamp' /\ got[d] < pending[d].num
        /\ \A i \in Clips(d) : buf[d][i].num < pending[d].num
    BY <1>1, <1>2, <2>1, OutgoingTypes DEF Numbered, InOrder
  <2>4. Numbered(d)' /\ InOrder(d)'
    BY <1>1, <1>2, <2>1, <2>2, <2>3, SentOrder
  <2>5. Counted(d)'
    BY <1>1, <1>2, <1>3, <2>1, <2>2, <2>3, CountAppend DEF Counted
  <2> QED
    BY <2>4, <2>5
<1>5. CASE ~(Flushes(d) /\ ws[d] = "OPEN")
  BY <1>1, <1>2, <1>3, <1>5, LeftDelivery
<1> QED
  BY <1>4, <1>5

(* The close handler *)
LEMMA CloseEventDelivery ==
    ASSUME IInv, DeliveryInv, NEW c \in Conns, CloseEvent(c)
    PROVE  DeliveryInv'
<1> SUFFICES ASSUME NEW d \in Conns PROVE Numbered(d)' /\ InOrder(d)' /\ Counted(d)'
  BY DEF DeliveryInv
<1>1. TypeOK /\ Numbered(d) /\ InOrder(d) /\ Counted(d)
  BY DEF IInv, DeliveryInv
<1>2. stamp' = stamp /\ got' = got
  BY DEF CloseEvent
<1>3. CASE d = c
  <2>1. buf'[d] = << >> /\ pending'[d] = NoFrame /\ ws'[d] = "CLOSED"
    BY <1>1, <1>3 DEF CloseEvent, TypeOK
  <2> QED
    BY <1>1, <1>2, <2>1, ClosedOrder DEF Counted
<1>4. CASE d # c
  <2>1. buf'[d] = buf[d] /\ pending'[d] = pending[d] /\ msgs'[d] = msgs[d] /\ ws'[d] = ws[d]
    BY <1>1, <1>4 DEF CloseEvent, TypeOK
  <2> QED
    BY <1>1, <1>2, <2>1, LeftDelivery
<1> QED
  BY <1>3, <1>4

(* Nothing is outstanding at the start. *)
LEMMA InitDelivery == Init => DeliveryInv
<1> SUFFICES ASSUME Init, NEW c \in Conns PROVE Numbered(c) /\ InOrder(c) /\ Counted(c)
  BY DEF DeliveryInv
<1>1. Clips(c) = {} /\ MsgsIn(buf[c]) = {}
  BY DEF Init, Clips, MsgsIn
<1>2. Numbered(c) /\ InOrder(c)
  BY <1>1 DEF Init, Numbered, InOrder
<1>3. Counted(c)
  BY <1>1, FS_EmptySet DEF Init, Counted
<1> QED
  BY <1>2, <1>3

(* Every step of the relay keeps what is outstanding in order and counted. *)
LEMMA NextDelivery == IInv /\ DeliveryInv /\ [Next]_vars => DeliveryInv'
<1> SUFFICES ASSUME IInv, DeliveryInv, [Next]_vars PROVE DeliveryInv'
  OBVIOUS
<1>0. ASSUME QuietStep PROVE DeliveryInv'
  BY <1>0, QuietStepDelivery DEF IInv
<1>1. ASSUME NEW c \in Conns, Connect(c) \/ Hello(c) PROVE DeliveryInv'
  BY <1>0, <1>1, QuietSteps
<1>2. ASSUME NEW c \in Conns, NEW r \in RoomIds,
             Authenticate(c, r) \/ AuthenticateNoPlace(c, r)
      PROVE  DeliveryInv'
  BY <1>0, <1>2, QuietSteps
<1>3. ASSUME NEW c \in Conns, NEW b \in BOOLEAN, AuthRefused(c, b) \/ RateLimited(c, b)
      PROVE  DeliveryInv'
  BY <1>0, <1>3, QuietSteps, SocketSteps
<1>4. ASSUME NEW c \in Conns, AuthTimeout(c) \/ RejectFrame(c) \/ PeerGone(c) \/ Pong(c)
      PROVE  DeliveryInv'
  BY <1>0, <1>4, QuietSteps, SocketSteps
<1>5. ASSUME Heartbeat \/ Shutdown PROVE DeliveryInv'
  BY <1>0, <1>5, QuietSteps, SocketSteps
<1>6. ASSUME NEW r \in RoomIds, PresenceFire(r) PROVE DeliveryInv'
  BY <1>0, <1>6, QuietSteps
<1>7. ASSUME NEW c \in Conns, NEW m \in MsgIds, NEW size \in {RetainMax, RetainMax + 1},
             Clip(c, m, size)
      PROVE  DeliveryInv'
  <2>1. size \in Nat
    BY RoomsAssumption
  <2> QED
    BY <1>7, <2>1, ClipDelivery
<1>8. ASSUME NEW c \in Conns, NEW m \in MsgIds, Announce(c, m) PROVE DeliveryInv'
  BY <1>8, AnnounceDelivery
<1>9. ASSUME NEW c \in Conns, NEW m \in MsgIds, NEW to \in Conns \cup {Everyone}, Msg(c, m, to)
      PROVE  DeliveryInv'
  BY <1>9, MsgDelivery
<1>10. ASSUME NEW c \in Conns, FetchLast(c) PROVE DeliveryInv'
  BY <1>10, FetchLastDelivery
<1>11. ASSUME NEW c \in Conns, Drain(c) PROVE DeliveryInv'
  BY <1>11, DrainDelivery
<1>12. ASSUME NEW G \in SUBSET Conns, Flusher(G) PROVE DeliveryInv'
  BY <1>12, FlusherDelivery
<1>13. ASSUME NEW c \in Conns, CloseEvent(c) PROVE DeliveryInv'
  BY <1>13, CloseEventDelivery
<1>14. ASSUME UNCHANGED vars PROVE DeliveryInv'
  BY <1>0, <1>14 DEF vars, QuietStep
<1> QED
  BY <1>1, <1>2, <1>3, <1>4, <1>5, <1>6, <1>7, <1>8, <1>9, <1>10, <1>11, <1>12, <1>13, <1>14
     DEF Next

(* Whatever parks, flushes and drains in between, clips leave every        *)
(* connection's buffer in the order the relay accepted them.               *)
THEOREM ClipsOrdered == Spec => []ClipsInOrder
<1>1. DeliveryInv => ClipsInOrder
  BY DEF DeliveryInv, InOrder, Clips, ClipsInOrder
<1> QED
  BY <1>1, InitIInv, NextIInv, InitDelivery, NextDelivery, PTL DEF Spec

(* No device message is dropped quietly: on a connection still open, each  *)
(* was taken by the socket or is in its buffer.                            *)
THEOREM MsgsKept == Spec => []MsgsNotDropped
<1>1. DeliveryInv => MsgsNotDropped
  BY DEF DeliveryInv, Counted, MsgsIn, MsgsNotDropped
<1> QED
  BY <1>1, InitIInv, NextIInv, InitDelivery, NextDelivery, PTL DEF Spec

-----------------------------------------------------------------------------
(***************************************************************************)
(* Presence                                                                *)
(***************************************************************************)

(* A device that is open and ready *)
Present(c) == ws[c] = "OPEN" /\ st[c] = "ready"

(* What a device knows is current, or will be broadcast. *)
Informed(c) ==
    \/ reg.rooms[room[c]].timer
    \/ told[c] = Cardinality(reg.rooms[room[c]].conns)

(* The steps that change no room's connections, start or stop no timer and *)
(* tell nobody a count                                                     *)
StillStep ==
    /\ SameRooms(reg, reg') /\ SameTimers(reg, reg')
    /\ told' = told
    /\ \A c \in Conns : Present(c)' => Present(c) /\ room'[c] = room[c]

(* Such a step leaves everyone as informed as before. *)
LEMMA StillStepPresence ==
    ASSUME IInv, PresenceCurrent, StillStep
    PROVE  PresenceCurrent'
<1> SUFFICES ASSUME NEW c \in Conns, Present(c)' PROVE Informed(c)'
  BY DEF PresenceCurrent, Present, Informed
<1>1. Present(c) /\ room'[c] = room[c] /\ told'[c] = told[c]
  BY DEF StillStep
<1>2. room[c] \in RoomIds
  BY <1>1 DEF IInv, Handshakes, Present
<1>3. Informed(c)
  BY <1>1 DEF PresenceCurrent, Present, Informed
<1> QED
  BY <1>1, <1>2, <1>3 DEF StillStep, SameRooms, SameTimers, Informed

(* They are all steps but an authentication, a close, and the broadcast    *)
(* itself.                                                                 *)
LEMMA StillSteps ==
    ASSUME IInv
    PROVE  /\ SocketStep => StillStep
           /\ \A c \in Conns : Connect(c) \/ Hello(c) => StillStep
           /\ \A c \in Conns, r \in RoomIds : AuthenticateNoPlace(c, r) => StillStep
           /\ \A c \in Conns, b \in BOOLEAN : AuthRefused(c, b) => StillStep
           /\ \A c \in Conns, m \in MsgIds, size \in Nat : Clip(c, m, size) => StillStep
           /\ \A c \in Conns, m \in MsgIds : Announce(c, m) => StillStep
           /\ \A c \in Conns, m \in MsgIds, to \in Conns \cup {Everyone} :
                 Msg(c, m, to) => StillStep
           /\ \A c \in Conns : FetchLast(c) \/ Drain(c) => StillStep
           /\ \A G \in SUBSET Conns : Flusher(G) => StillStep
<1> USE DEF StillStep, Present, identity, outgoing, history, socket
<1>0. /\ ws \in [Conns -> ConnStates] /\ st \in [Conns -> {"connected", "challenged", "ready"}]
      /\ room \in [Conns -> RoomIds \cup {NoRoom}]
      /\ IsRegistry(reg)
      /\ SameRooms(reg, reg) /\ SameTimers(reg, reg)
      /\ \A c \in Conns : st[c] = "ready" => room[c] \in RoomIds
  BY DEF IInv, TypeOK, ConnStates, SameRooms, SameTimers, Handshakes
<1>1. SocketStep => StillStep
  BY <1>0, ClosingOpensNone DEF SocketStep, SameRooms, SameTimers
<1>2. ASSUME NEW c \in Conns PROVE Connect(c) \/ Hello(c) => StillStep
  BY <1>0 DEF Connect, Hello, IInv, Handshakes, SameRooms, SameTimers
<1>3. ASSUME NEW c \in Conns, NEW r \in RoomIds PROVE AuthenticateNoPlace(c, r) => StillStep
  BY <1>0, ClosingOpensNone DEF AuthenticateNoPlace, SameRooms, SameTimers
<1>4. ASSUME NEW c \in Conns, NEW b \in BOOLEAN PROVE AuthRefused(c, b) => StillStep
  BY <1>0, ClosingOpensNone DEF AuthRefused, SameRooms, SameTimers
<1>5. ASSUME NEW c \in Conns, NEW m \in MsgIds, NEW size \in Nat, Clip(c, m, size)
      PROVE  StillStep
  <2>1. PICK h : h = RecordSeen(reg, room[c], m)
    OBVIOUS
  <2>2. room[c] \in RoomIds /\ reg' \in Retain(h, room[c], m, size, 0)
    BY <1>0, <1>5, <2>1 DEF Clip
  <2>3. IsRegistry(h) /\ SameRooms(reg, h) /\ SameTimers(reg, h)
    BY <1>0, <2>1, <2>2, RecordSeenSame
  <2>4. SameRooms(h, reg') /\ SameTimers(h, reg')
    BY <2>2, <2>3, RetainSame
  <2>5. SameRooms(reg, reg') /\ SameTimers(reg, reg')
    BY <2>3, <2>4 DEF SameRooms, SameTimers
  <2> QED
    BY <1>5, <2>5 DEF Clip
<1>6. ASSUME NEW c \in Conns, NEW m \in MsgIds, Announce(c, m) PROVE StillStep
  <2>1. room[c] \in RoomIds /\ reg' = RecordSeen(reg, room[c], m)
    BY <1>0, <1>6 DEF Announce
  <2>2. SameRooms(reg, reg') /\ SameTimers(reg, reg')
    BY <1>0, <2>1, RecordSeenSame
  <2> QED
    BY <1>6, <2>2 DEF Announce
<1>7. ASSUME NEW c \in Conns, NEW m \in MsgIds, NEW to \in Conns \cup {Everyone}, Msg(c, m, to)
      PROVE  StillStep
  <2>1. room[c] \in RoomIds /\ reg' = RecordSeen(reg, room[c], m)
    BY <1>0, <1>7 DEF Msg
  <2>2. SameRooms(reg, reg') /\ SameTimers(reg, reg')
    BY <1>0, <2>1, RecordSeenSame
  <2>3. \E C : ws' = Closing(C)
    BY <1>7 DEF Msg, DeliverChunk
  <2> QED
    BY <1>7, <2>2, <2>3, ClosingOpensNone DEF Msg
<1>8. ASSUME NEW c \in Conns, FetchLast(c) PROVE StillStep
  <2>1. room[c] \in RoomIds /\ reg' = AfterLookup(reg, room[c], 0)
    BY <1>0, <1>8 DEF FetchLast
  <2>2. SameRooms(reg, reg') /\ SameTimers(reg, reg')
    BY <1>0, <2>1, AfterLookupSame
  <2> QED
    BY <1>8, <2>2 DEF FetchLast
<1>9. ASSUME NEW c \in Conns PROVE Drain(c) => StillStep
  BY DEF Drain, SameRooms, SameTimers
<1>10. ASSUME NEW G \in SUBSET Conns PROVE Flusher(G) => StillStep
  BY ClosingOpensNone DEF Flusher, SameRooms, SameTimers
<1> QED
  BY <1>1, <1>2, <1>3, <1>4, <1>5, <1>6, <1>7, <1>8, <1>9, <1>10

(* An authentication sets the timer of the room joined. *)
LEMMA AuthenticatePresence ==
    ASSUME IInv, PresenceCurrent, NEW c \in Conns, NEW r \in RoomIds, Authenticate(c, r)
    PROVE  PresenceCurrent'
<1> SUFFICES ASSUME NEW d \in Conns, Present(d)' PROVE Informed(d)'
  BY DEF PresenceCurrent, Present, Informed
<1>0. PICK g \in Join(reg, c, r, 0) :
         /\ told' = [told EXCEPT ![c] = Cardinality(g.rooms[r].conns)]
         /\ reg' = SchedulePresence(AfterLookup(g, r, 0), r)
  BY DEF Authenticate
<1>1. /\ IsRegistry(g) /\ g.rooms[r].open
      /\ \A s \in RoomIds \ {r} :
            /\ g.rooms[s].conns = reg.rooms[s].conns
            /\ reg.rooms[s].conns # {} => g.rooms[s].timer = reg.rooms[s].timer
  BY JoinEffect DEF IInv, TypeOK
<1>2. PICK h : h = AfterLookup(g, r, 0)
  OBVIOUS
<1>3. IsRegistry(h) /\ SameRooms(g, h) /\ SameTimers(g, h)
  BY <1>1, <1>2, AfterLookupSame
<1>4. /\ reg'.rooms[r].timer
      /\ \A s \in RoomIds \ {r} : reg'.rooms[s] = h.rooms[s]
  <2>1. h.rooms[r].open
    BY <1>1, <1>3 DEF SameRooms
  <2> QED
    BY <1>0, <1>2, <1>3, <2>1, SchedulePresenceSame
<1>5. CASE room'[d] = r
  BY <1>4, <1>5 DEF Informed
<1>6. CASE room'[d] # r
  <2>1. d # c /\ room'[d] = room[d] /\ told'[d] = told[d] /\ Present(d)
    BY <1>0, <1>6 DEF IInv, TypeOK, Authenticate, Present, socket
  <2>2. room[d] \in RoomIds \ {r} /\ d \in reg.rooms[room[d]].conns
    BY <1>6, <2>1 DEF IInv, Handshakes, RegistryMatchesSessions, Ready, Sessions, Present
  <2>3. Informed(d)
    BY <2>1 DEF PresenceCurrent, Present, Informed
  <2>4. /\ reg'.rooms[room[d]].timer = reg.rooms[room[d]].timer
        /\ reg'.rooms[room[d]].conns = reg.rooms[room[d]].conns
    BY <1>1, <1>3, <1>4, <2>2 DEF SameRooms, SameTimers
  <2> QED
    BY <2>1, <2>3, <2>4 DEF Informed
<1> QED
  BY <1>5, <1>6

(* A close sets the timer of the room left, if someone is still in it. *)
LEMMA CloseEventPresence ==
    ASSUME IInv, PresenceCurrent, NEW c \in Conns, CloseEvent(c)
    PROVE  PresenceCurrent'
<1> USE DEF identity
<1> SUFFICES ASSUME NEW d \in Conns, Present(d)' PROVE Informed(d)'
  BY DEF PresenceCurrent, Present, Informed
<1>1. d # c /\ Present(d) /\ room'[d] = room[d] /\ told'[d] = told[d]
  BY DEF IInv, TypeOK, CloseEvent, Present
<1>2. room[d] \in RoomIds /\ d \in reg.rooms[room[d]].conns
  BY <1>1 DEF IInv, Handshakes, RegistryMatchesSessions, Ready, Sessions, Present
<1>3. Informed(d)
  BY <1>1 DEF PresenceCurrent, Present, Informed
<1>4. CASE st[c] # "ready"
  BY <1>1, <1>3, <1>4 DEF CloseEvent, Informed
<1>5. CASE st[c] = "ready"
  <2>1. c \in Sessions
    BY DEF CloseEvent, Sessions
  <2>2. room[c] \in RoomIds /\ c \in reg.rooms[room[c]].conns
    BY <1>5, <2>1 DEF IInv, Handshakes, RegistryMatchesSessions, Ready
  <2>3. reg.rooms[room[c]].open /\ IsRegistry(reg)
    BY <2>2 DEF IInv, Occupied, TypeOK
  <2>4. PICK h : h = Leave(reg, c, room[c], 0)
    OBVIOUS
  <2>5. /\ IsRegistry(h)
        /\ reg.rooms[room[c]].conns \ {c} # {} => h.rooms[room[c]].open
        /\ \A s \in RoomIds \ {room[c]} : h.rooms[s] = reg.rooms[s]
    BY <2>2, <2>3, <2>4, LeaveEffect
  <2>6. reg' = SchedulePresence(h, room[c])
    BY <1>5, <2>4 DEF CloseEvent
  <2>7. /\ h.rooms[room[c]].open => reg'.rooms[room[c]].timer
        /\ \A s \in RoomIds \ {room[c]} : reg'.rooms[s] = h.rooms[s]
    BY <2>2, <2>5, <2>6, SchedulePresenceSame
  <2>8. CASE room[d] = room[c]
    <3>1. reg'.rooms[room[d]].timer
      BY <1>1, <1>2, <2>5, <2>7, <2>8
    <3> QED
      BY <1>1, <3>1 DEF Informed
  <2>9. CASE room[d] # room[c]
    <3>1. reg'.rooms[room[d]] = reg.rooms[room[d]]
      BY <1>2, <2>5, <2>7, <2>9
    <3> QED
      BY <1>1, <1>3, <3>1 DEF Informed
  <2> QED
    BY <2>8, <2>9
<1> QED
  BY <1>4, <1>5

(* The broadcast tells every device of the room the count. *)
LEMMA PresenceFirePresence ==
    ASSUME IInv, PresenceCurrent, NEW r \in RoomIds, PresenceFire(r)
    PROVE  PresenceCurrent'
<1> SUFFICES ASSUME NEW d \in Conns, Present(d)' PROVE Informed(d)'
  BY DEF PresenceCurrent, Present, Informed
<1>1. Present(d) /\ room'[d] = room[d]
  BY DEF PresenceFire, Present, socket, identity
<1>2. room[d] \in RoomIds /\ d \in Ready(room[d])
  BY <1>1 DEF IInv, Handshakes, Ready, Sessions, Present
<1>3. Informed(d)
  BY <1>1 DEF PresenceCurrent, Present, Informed
<1>4. SameRooms(reg, reg') /\ \A s \in RoomIds \ {r} : reg'.rooms[s] = reg.rooms[s]
  BY PresenceFiredSame DEF PresenceFire, IInv, TypeOK
<1>5. told'[d] = IF d \in Ready(r) /\ ws[d] = "OPEN"
                 THEN Cardinality(reg.rooms[r].conns) ELSE told[d]
  BY DEF PresenceFire
<1>6. CASE room[d] = r
  <2>1. told'[d] = Cardinality(reg.rooms[r].conns)
    BY <1>1, <1>2, <1>5, <1>6 DEF Present
  <2> QED
    BY <1>1, <1>4, <1>6, <2>1 DEF SameRooms, Informed
<1>7. CASE room[d] # r
  <2>1. told'[d] = told[d]
    BY <1>5, <1>7 DEF Ready
  <2> QED
    BY <1>1, <1>2, <1>3, <1>4, <1>7, <2>1 DEF Informed
<1> QED
  BY <1>6, <1>7

(* Shutting down leaves nobody open. *)
LEMMA ShutdownPresence ==
    ASSUME IInv, Shutdown
    PROVE  PresenceCurrent'
<1>1. \A d \in Conns : ws'[d] # "OPEN"
  BY DEF Shutdown, Closing
<1> QED
  BY <1>1 DEF PresenceCurrent

(* Every step of the relay keeps the devices informed. *)
LEMMA NextPresence == IInv /\ PresenceCurrent /\ [Next]_vars => PresenceCurrent'
<1> SUFFICES ASSUME IInv, PresenceCurrent, [Next]_vars PROVE PresenceCurrent'
  OBVIOUS
<1>0. ASSUME StillStep PROVE PresenceCurrent'
  BY <1>0, StillStepPresence
<1>1. ASSUME NEW c \in Conns, Connect(c) \/ Hello(c) \/ FetchLast(c) \/ Drain(c)
      PROVE  PresenceCurrent'
  BY <1>0, <1>1, StillSteps
<1>2. ASSUME NEW c \in Conns, AuthTimeout(c) \/ RejectFrame(c) \/ PeerGone(c) \/ Pong(c)
      PROVE  PresenceCurrent'
  BY <1>0, <1>2, StillSteps, SocketSteps
<1>3. ASSUME NEW c \in Conns, NEW b \in BOOLEAN, AuthRefused(c, b) \/ RateLimited(c, b)
      PROVE  PresenceCurrent'
  BY <1>0, <1>3, StillSteps, SocketSteps
<1>4. ASSUME Heartbeat PROVE PresenceCurrent'
  BY <1>0, <1>4, StillSteps, SocketSteps
<1>5. ASSUME NEW c \in Conns, NEW r \in RoomIds, AuthenticateNoPlace(c, r)
      PROVE  PresenceCurrent'
  BY <1>0, <1>5, StillSteps
<1>6. ASSUME NEW c \in Conns, NEW m \in MsgIds, NEW size \in {RetainMax, RetainMax + 1},
             Clip(c, m, size)
      PROVE  PresenceCurrent'
  <2>1. size \in Nat
    BY RoomsAssumption
  <2> QED
    BY <1>0, <1>6, <2>1, StillSteps
<1>7. ASSUME NEW c \in Conns, NEW m \in MsgIds, Announce(c, m) PROVE PresenceCurrent'
  BY <1>0, <1>7, StillSteps
<1>8. ASSUME NEW c \in Conns, NEW m \in MsgIds, NEW to \in Conns \cup {Everyone}, Msg(c, m, to)
      PROVE  PresenceCurrent'
  BY <1>0, <1>8, StillSteps
<1>9. ASSUME NEW G \in SUBSET Conns, Flusher(G) PROVE PresenceCurrent'
  BY <1>0, <1>9, StillSteps
<1>10. ASSUME NEW c \in Conns, NEW r \in RoomIds, Authenticate(c, r) PROVE PresenceCurrent'
  BY <1>10, AuthenticatePresence
<1>11. ASSUME NEW c \in Conns, CloseEvent(c) PROVE PresenceCurrent'
  BY <1>11, CloseEventPresence
<1>12. ASSUME NEW r \in RoomIds, PresenceFire(r) PROVE PresenceCurrent'
  BY <1>12, PresenceFirePresence
<1>13. ASSUME Shutdown PROVE PresenceCurrent'
  BY <1>13, ShutdownPresence
<1>14. ASSUME UNCHANGED vars PROVE PresenceCurrent'
  BY <1>0, <1>14 DEF vars, StillStep, SameRooms, SameTimers, Present
<1> QED
  BY <1>1, <1>2, <1>3, <1>4, <1>5, <1>6, <1>7, <1>8, <1>9, <1>10, <1>11, <1>12, <1>13, <1>14
     DEF Next

(* Every open device of a room knows how many are connected, or the timer  *)
(* that will tell it is running.                                           *)
THEOREM PresenceIsCurrent == Spec => []PresenceCurrent
<1>1. Init => PresenceCurrent
  BY DEF Init, PresenceCurrent
<1> QED
  BY <1>1, InitIInv, NextIInv, NextPresence, PTL DEF Spec

=============================================================================
