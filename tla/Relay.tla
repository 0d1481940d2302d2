------------------------------- MODULE Relay -------------------------------
(***************************************************************************)
(* The relay (server/src/server.ts): the life of a connection from the     *)
(* socket to the close handler, the handshake, the forwarding of clips,    *)
(* announcements and device messages under backpressure, the retained      *)
(* clip, presence, and the relay's timers, on top of the room registry of  *)
(* module Rooms.                                                           *)
(*                                                                         *)
(* The relay is one Node process: a handler or timer callback runs to its  *)
(* end, so each is one action; what interleaves are the connections, the   *)
(* sockets draining, and the timers.                                       *)
(*                                                                         *)
(* Frames.  A relayed frame is a record; bufferedAmount is the number of   *)
(* relayed frames the socket has not yet taken, and Soft and Hard are in   *)
(* the same unit.  The relay's own short replies (challenge, errors, pong, *)
(* presence) are not counted.  Whether a cap on connections, a token       *)
(* bucket or a daily quota refuses is left open here (modules Admission    *)
(* and Quotas).  Image chunks are not forwarded in this module.            *)
(***************************************************************************)
EXTENDS Rooms, Integers

CONSTANTS
    NoRoom,     \* conn.roomId before authentication
    Everyone,   \* a device message without `to`
    Soft,       \* config.backpressureSoftBytes
    Hard,       \* config.backpressureHardBytes
    MaxStrikes, \* rate limit strikes tolerated (server.ts compares with 3)
    MaxMissed,  \* pings without a pong tolerated (server.ts compares with 2)
    Kinds,      \* bound: the kinds of frame the clients send in this instance
    Events,     \* bound: the background events that happen in this instance
    MaxClips    \* bound: clips the relay accepts

ASSUME RelayAssumption ==
    /\ NoRoom \notin RoomIds
    /\ Everyone \notin Conns
    /\ Soft \in Nat /\ Hard \in Nat /\ Soft < Hard
    /\ MaxStrikes \in Nat
    /\ MaxMissed \in Nat
    /\ Kinds \subseteq {"clip", "announce", "msg", "fetch_last"}
    /\ Events \subseteq {"rate limit", "heartbeat", "shutdown"}
    /\ MaxClips \in Nat

VARIABLES
    reg,        \* the room registry
    up,         \* createRelay's close() has not been called
    ws,         \* ws[c]: readyState of the socket, "none" before it connects
    st,         \* st[c]: session.state
    nonce,      \* nonce[c]: session.nonce.issued is not null
    room,       \* room[c]: conn.roomId
    missed,     \* missed[c]: missedPongs
    strikes,    \* strikes[c]: rateStrikes
    buf,        \* buf[c]: frames in the socket's send buffer
    pending,    \* pending[c]: pendingClip, a frame or NoFrame
    since,      \* since[c]: backpressureSinceMs is not null
    told,       \* told[c]: the last device count c was sent
    stamp,      \* history: clips accepted so far, which numbers them
    got,        \* history: got[c], the number of the last live clip c's socket took
    due,        \* history: due[c], the number of the last clip forwarded to c
    msgs        \* history: msgs[c], device messages forwarded to c and not yet taken

vars == <<reg, up, ws, st, nonce, room, missed, strikes, buf, pending, since, told,
          stamp, got, due, msgs>>

socket == <<ws, missed, strikes>>
identity == <<st, nonce, room>>
outgoing == <<buf, pending, since>>
history == <<stamp, got, due, msgs>>

Frame == [kind : {"clip", "retained", "announce", "msg"}, room : RoomIds, num : Nat]
NoFrame == [kind |-> "none", room |-> NoRoom, num |-> 0]

Init ==
    /\ reg = EmptyRegistry
    /\ up = TRUE
    /\ ws = [c \in Conns |-> "none"]
    /\ st = [c \in Conns |-> "connected"]
    /\ nonce = [c \in Conns |-> FALSE]
    /\ room = [c \in Conns |-> NoRoom]
    /\ missed = [c \in Conns |-> 0]
    /\ strikes = [c \in Conns |-> 0]
    /\ buf = [c \in Conns |-> << >>]
    /\ pending = [c \in Conns |-> NoFrame]
    /\ since = [c \in Conns |-> FALSE]
    /\ told = [c \in Conns |-> 0]
    /\ stamp = 0
    /\ got = [c \in Conns |-> 0]
    /\ due = [c \in Conns |-> 0]
    /\ msgs = [c \in Conns |-> 0]

(* The set `sessions`: added on connection, removed by the close handler. *)
Sessions == {c \in Conns : ws[c] \in {"OPEN", "CLOSING"}}

Ready(r) == {c \in Sessions : st[c] = "ready" /\ room[c] = r}

(* The message handler's first test: a socket being closed is not heard. *)
Listening(c) == ws[c] = "OPEN"

(* ws.close and ws.terminate: the close event follows later. *)
Closing(C) == [c \in Conns |-> IF c \in C /\ ws[c] = "OPEN" THEN "CLOSING" ELSE ws[c]]

ShouldPark(c) == Len(buf[c]) > Soft

(***************************************************************************)
(* The life of a connection                                                *)
(***************************************************************************)

(* wss 'connection', for a socket that was admitted (module Admission) *)
Connect(c) ==
    /\ up
    /\ ws[c] = "none"
    /\ ws' = [ws EXCEPT ![c] = "OPEN"]
    /\ UNCHANGED <<reg, up, identity, missed, strikes, outgoing, told, history>>

(* handleHello, accepted *)
Hello(c) ==
    /\ Listening(c)
    /\ st[c] = "connected"
    /\ nonce' = [nonce EXCEPT ![c] = TRUE]
    /\ st' = [st EXCEPT ![c] = "challenged"]
    /\ UNCHANGED <<reg, up, socket, room, outgoing, told, history>>

(* handleAuth with a signature that verifies: the nonce is consumed, the   *)
(* room joined, the answer sent, and a presence broadcast scheduled.       *)
Authenticate(c, r) ==
    /\ Listening(c)
    /\ st[c] = "challenged"
    /\ nonce[c]
    /\ nonce' = [nonce EXCEPT ![c] = FALSE]
    /\ room' = [room EXCEPT ![c] = r]
    /\ st' = [st EXCEPT ![c] = "ready"]
    /\ \E g \in Join(reg, c, r, 0) :
          /\ told' = [told EXCEPT ![c] = Cardinality(g.rooms[r].conns)]
          /\ reg' = SchedulePresence(AfterLookup(g, r, 0), r)
    /\ UNCHANGED <<up, socket, outgoing, history>>

(* handleAuth with a signature that verifies, refused by the registry *)
AuthenticateNoPlace(c, r) ==
    /\ Listening(c)
    /\ st[c] = "challenged"
    /\ nonce[c]
    /\ Join(reg, c, r, 0) = {}
    /\ nonce' = [nonce EXCEPT ![c] = FALSE]
    /\ room' = [room EXCEPT ![c] = r]
    /\ ws' = Closing({c})
    /\ UNCHANGED <<reg, up, st, missed, strikes, outgoing, told, history>>

(* handleAuth and verifyAuth, refused: a room or key that does not match   *)
(* is refused before the nonce is looked at, a signature after.            *)
AuthRefused(c, consumed) ==
    /\ Listening(c)
    /\ st[c] = "challenged"
    /\ nonce' = [nonce EXCEPT ![c] = @ /\ ~consumed]
    /\ ws' = Closing({c})
    /\ UNCHANGED <<reg, up, st, room, missed, strikes, outgoing, told, history>>

(* The auth timer *)
AuthTimeout(c) ==
    /\ ws[c] = "OPEN"
    /\ st[c] # "ready"
    /\ ws' = Closing({c})
    /\ UNCHANGED <<reg, up, identity, missed, strikes, outgoing, told, history>>

(* Every way the message handler closes the connection it read a frame     *)
(* from: binary, unparsable or too large, of a type its state does not     *)
(* allow, fields that do not validate, another room's id, no shared suite, *)
(* or the room's daily quota spent.                                        *)
RejectFrame(c) ==
    /\ Listening(c)
    /\ ws' = Closing({c})
    /\ UNCHANGED <<reg, up, identity, missed, strikes, outgoing, told, history>>

(* A frame past the rate limits: a strike, the earlier ones forgotten if   *)
(* they are a minute old, and a close once there are too many.             *)
RateLimited(c, forget) ==
    /\ "rate limit" \in Events
    /\ Listening(c)
    /\ LET n == IF forget THEN 1 ELSE strikes[c] + 1
       IN  /\ strikes' = [strikes EXCEPT ![c] = n]
           /\ ws' = IF n > MaxStrikes THEN Closing({c}) ELSE ws
    /\ UNCHANGED <<reg, up, identity, missed, outgoing, told, history>>

(* The peer closes, or the socket fails and is terminated *)
PeerGone(c) ==
    /\ ws[c] = "OPEN"
    /\ ws' = Closing({c})
    /\ UNCHANGED <<reg, up, identity, missed, strikes, outgoing, told, history>>

(* ws 'close': the session is forgotten and leaves its room, whose other   *)
(* devices are told.                                                       *)
CloseEvent(c) ==
    /\ ws[c] = "CLOSING"
    /\ ws' = [ws EXCEPT ![c] = "CLOSED"]
    /\ reg' = IF st[c] = "ready"
              THEN SchedulePresence(Leave(reg, c, room[c], 0), room[c])
              ELSE reg
    /\ buf' = [buf EXCEPT ![c] = << >>]
    /\ pending' = [pending EXCEPT ![c] = NoFrame]
    /\ since' = [since EXCEPT ![c] = FALSE]
    /\ msgs' = [msgs EXCEPT ![c] = 0]
    /\ UNCHANGED <<up, identity, missed, strikes, told, stamp, got, due>>

(***************************************************************************)
(* Forwarding                                                              *)
(***************************************************************************)

(* A mistake: a clip passes the one that is parked. *)
ParksIfFull(p) == ShouldPark(p)

(* deliver, to every connection of P: a clip behind a parked one, or       *)
(* behind a full buffer, takes the single slot.                            *)
Parks(p) == pending[p] # NoFrame \/ ShouldPark(p)

(* A mistake: a clip is dropped when the buffer is full. *)
DeliverIfRoom(P, frame) ==
    LET live == {p \in P : ws[p] = "OPEN"}
    IN  /\ buf' = [p \in Conns |-> IF p \in live /\ ~Parks(p)
                                   THEN Append(buf[p], frame) ELSE buf[p]]
        /\ due' = [p \in Conns |-> IF p \in live THEN frame.num ELSE due[p]]
        /\ UNCHANGED <<pending, since>>

(* A mistake: the clip goes to every open session, whatever its room. *)
DeliverToAll(P, frame) ==
    LET live == {p \in Conns : ws[p] = "OPEN"}
    IN  /\ pending' = [p \in Conns |-> IF p \in live /\ Parks(p) THEN frame ELSE pending[p]]
        /\ since' = [p \in Conns |-> since[p] \/ (p \in live /\ Parks(p))]
        /\ buf' = [p \in Conns |-> IF p \in live /\ ~Parks(p)
                                   THEN Append(buf[p], frame) ELSE buf[p]]
        /\ due' = [p \in Conns |-> IF p \in live THEN frame.num ELSE due[p]]

Deliver(P, frame) ==
    LET live == {p \in P : ws[p] = "OPEN"}
    IN  /\ pending' = [p \in Conns |-> IF p \in live /\ Parks(p) THEN frame ELSE pending[p]]
        /\ since' = [p \in Conns |-> since[p] \/ (p \in live /\ Parks(p))]
        /\ buf' = [p \in Conns |-> IF p \in live /\ ~Parks(p)
                                   THEN Append(buf[p], frame) ELSE buf[p]]
        /\ due' = [p \in Conns |-> IF p \in live THEN frame.num ELSE due[p]]

(* handleClip *)
Clip(c, m, size) ==
    LET r == room[c]
        frame == [kind |-> "clip", room |-> r, num |-> stamp + 1]
    IN  /\ "clip" \in Kinds
        /\ stamp < MaxClips
        /\ Listening(c)
        /\ st[c] = "ready"
        /\ ~HasSeen(reg, r, m)
        /\ Deliver(Ready(r) \ {c}, frame)
        /\ reg' \in Retain(RecordSeen(reg, r, m), r, m, size, 0)
        /\ stamp' = stamp + 1
        /\ UNCHANGED <<up, socket, identity, told, got, msgs>>

(* handleAnnounce: never parked, and not sent to a connection that is behind *)
Announce(c, m) ==
    LET r == room[c]
        frame == [kind |-> "announce", room |-> r, num |-> 0]
        to == {p \in Ready(r) \ {c} : ws[p] = "OPEN" /\ ~Parks(p)}
    IN  /\ "announce" \in Kinds
        /\ Listening(c)
        /\ st[c] = "ready"
        /\ ~HasSeen(reg, r, m)
        /\ reg' = RecordSeen(reg, r, m)
        /\ buf' = [p \in Conns |-> IF p \in to THEN Append(buf[p], frame) ELSE buf[p]]
        /\ UNCHANGED <<up, socket, identity, pending, since, told, history>>

Stalled(p) == Len(buf[p]) > Hard

(* A mistake: a message for a connection that is too far behind is dropped quietly. *)
DeliverChunkIfRoom(P, frame) ==
    /\ buf' = [p \in Conns |-> IF p \in P /\ ws[p] = "OPEN" /\ ~Stalled(p)
                               THEN Append(buf[p], frame) ELSE buf[p]]
    /\ UNCHANGED ws

(* deliverChunk, to every connection of P: sent at once, and a connection  *)
(* already past the hard limit is closed instead.                          *)
DeliverChunk(P, frame) ==
    LET live == {p \in P : ws[p] = "OPEN"}
    IN  /\ ws' = Closing({p \in live : Stalled(p)})
        /\ buf' = [p \in Conns |-> IF p \in live /\ ~Stalled(p)
                                   THEN Append(buf[p], frame) ELSE buf[p]]

(* handleMsg: to one connection of the sender's room, or to all the others *)
Msg(c, m, to) ==
    LET r == room[c]
        frame == [kind |-> "msg", room |-> r, num |-> 0]
        recipients == {p \in Ready(r) \ {c} : to = Everyone \/ to = p}
    IN  /\ "msg" \in Kinds
        /\ Listening(c)
        /\ st[c] = "ready"
        /\ ~HasSeen(reg, r, m)
        /\ reg' = RecordSeen(reg, r, m)
        /\ DeliverChunk(recipients, frame)
        /\ msgs' = [p \in Conns |-> IF p \in recipients /\ ws[p] = "OPEN"
                                    THEN msgs[p] + 1 ELSE msgs[p]]
        /\ UNCHANGED <<up, identity, missed, strikes, pending, since, told, stamp, got, due>>

(* handleFetchLast, for a connection that is not behind; one that is, is   *)
(* told to try later.                                                      *)
FetchLast(c) ==
    LET r == room[c]
        g == AfterLookup(reg, r, 0)
        frame == [kind |-> "retained", room |-> r, num |-> 0]
    IN  /\ "fetch_last" \in Kinds
        /\ Listening(c)
        /\ st[c] = "ready"
        /\ ~ShouldPark(c)
        /\ reg' = g
        /\ buf' = IF g.rooms[r].retained = NoClip THEN buf
                  ELSE [buf EXCEPT ![c] = Append(@, frame)]
        /\ UNCHANGED <<up, socket, identity, pending, since, told, history>>

(* The socket takes the first frame of its buffer (external). *)
Drain(c) ==
    /\ buf[c] # << >>
    /\ buf' = [buf EXCEPT ![c] = Tail(@)]
    /\ got' = IF Head(buf[c]).kind = "clip"
              THEN [got EXCEPT ![c] = Head(buf[c]).num] ELSE got
    /\ msgs' = IF Head(buf[c]).kind = "msg" THEN [msgs EXCEPT ![c] = @ - 1] ELSE msgs
    /\ UNCHANGED <<reg, up, socket, identity, pending, since, told, stamp, due>>

(***************************************************************************)
(* Timers                                                                  *)
(***************************************************************************)

(* schedulePresence's callback and broadcastPresence's emit *)
PresenceFire(r) ==
    /\ reg.rooms[r].timer
    /\ reg' = PresenceFired(reg, r)
    /\ told' = [c \in Conns |-> IF c \in Ready(r) /\ ws[c] = "OPEN"
                                THEN Cardinality(reg.rooms[r].conns) ELSE told[c]]
    /\ UNCHANGED <<up, socket, identity, outgoing, history>>

(* The heartbeat interval *)
Heartbeat ==
    /\ "heartbeat" \in Events
    /\ up
    /\ ws' = Closing({c \in Sessions : missed[c] >= MaxMissed})
    /\ missed' = [c \in Conns |-> IF c \in Sessions /\ missed[c] < MaxMissed
                                  THEN missed[c] + 1 ELSE missed[c]]
    /\ UNCHANGED <<reg, up, identity, strikes, outgoing, told, history>>

(* ws 'pong' *)
Pong(c) ==
    /\ "heartbeat" \in Events
    /\ c \in Sessions
    /\ missed' = [missed EXCEPT ![c] = 0]
    /\ UNCHANGED <<reg, up, ws, strikes, identity, outgoing, told, history>>

(* The flusher interval.  G: the connections whose grace period is over.   *)
Flushes(c) == c \in Sessions /\ pending[c] # NoFrame /\ ~ShouldPark(c)

Flusher(G) ==
    /\ up
    /\ G \subseteq {c \in Sessions : since[c]}
    /\ buf' = [c \in Conns |-> IF Flushes(c) /\ ws[c] = "OPEN"
                               THEN Append(buf[c], pending[c]) ELSE buf[c]]
    /\ pending' = [c \in Conns |-> IF Flushes(c) THEN NoFrame ELSE pending[c]]
    /\ since' = [c \in Conns |-> since[c] /\ ~Flushes(c)]
    /\ ws' = Closing({c \in G : ~Flushes(c)})
    /\ UNCHANGED <<reg, up, identity, missed, strikes, told, history>>

(* close(): the intervals and timers stop, every connection is closed. *)
Shutdown ==
    /\ "shutdown" \in Events
    /\ up
    /\ up' = FALSE
    /\ reg' = ClearTimers(reg)
    /\ ws' = Closing(Conns)
    /\ UNCHANGED <<identity, missed, strikes, outgoing, told, history>>

Next ==
    \/ \E c \in Conns : Connect(c) \/ Hello(c) \/ AuthTimeout(c) \/ RejectFrame(c)
                          \/ PeerGone(c) \/ CloseEvent(c) \/ FetchLast(c) \/ Drain(c) \/ Pong(c)
    \/ \E c \in Conns, r \in RoomIds : Authenticate(c, r) \/ AuthenticateNoPlace(c, r)
    \/ \E c \in Conns, b \in BOOLEAN : AuthRefused(c, b) \/ RateLimited(c, b)
    \/ \E c \in Conns, m \in MsgIds, size \in {RetainMax, RetainMax + 1} : Clip(c, m, size)
    \/ \E c \in Conns, m \in MsgIds : Announce(c, m)
    \/ \E c \in Conns, m \in MsgIds, to \in Conns \cup {Everyone} : Msg(c, m, to)
    \/ \E r \in RoomIds : PresenceFire(r)
    \/ Heartbeat
    \/ \E G \in SUBSET Conns : Flusher(G)
    \/ Shutdown

Spec == Init /\ [][Next]_vars

(* The relay's timers fire for ever while it is up, and a socket that is   *)
(* being closed is closed at the latest by the library's close timeout.    *)
TimersFair ==
    /\ WF_vars(Heartbeat)
    /\ \A c \in Conns :
          /\ WF_vars(AuthTimeout(c))
          /\ WF_vars(CloseEvent(c))
          /\ WF_vars(\E G \in SUBSET Conns : c \in G /\ Flusher(G))

TimedSpec == Spec /\ TimersFair

(* The network keeps taking what is buffered for a connection. *)
NetworkTakes(c) == WF_vars(Drain(c))

-----------------------------------------------------------------------------
TypeOK ==
    /\ IsRegistry(reg)
    /\ up \in BOOLEAN
    /\ ws \in [Conns -> {"none", "OPEN", "CLOSING", "CLOSED"}]
    /\ st \in [Conns -> {"connected", "challenged", "ready"}]
    /\ nonce \in [Conns -> BOOLEAN]
    /\ room \in [Conns -> RoomIds \cup {NoRoom}]
    /\ missed \in [Conns -> Nat]
    /\ strikes \in [Conns -> Nat]
    /\ buf \in [Conns -> Seq(Frame)]
    /\ pending \in [Conns -> Frame \cup {NoFrame}]
    /\ since \in [Conns -> BOOLEAN]
    /\ told \in [Conns -> Nat]
    /\ stamp \in Nat
    /\ got \in [Conns -> Nat]
    /\ due \in [Conns -> Nat]
    /\ msgs \in [Conns -> Int]

(* The registry and the sessions agree: a room's connections are exactly   *)
(* the sessions that authenticated for it and whose close event has not    *)
(* been handled.  A connection that timed out, was refused, or was evicted *)
(* with its room, would break this.                                        *)
RegistryMatchesSessions ==
    \A r \in RoomIds : reg.rooms[r].conns = Ready(r)

(* A connection is ready only after an authentication that consumed the    *)
(* nonce it was given, and a room that has a session exists.               *)
ReadyIsAuthenticated ==
    \A c \in Sessions : st[c] = "ready" =>
        ~nonce[c] /\ room[c] \in RoomIds /\ reg.rooms[room[c]].open

(* Nothing of one room ever reaches, or waits for, a connection of another *)
(* room or one that has not authenticated.                                 *)
RoomIsolation ==
    \A c \in Conns :
        /\ \A i \in 1 .. Len(buf[c]) : st[c] = "ready" /\ buf[c][i].room = room[c]
        /\ pending[c] # NoFrame => st[c] = "ready" /\ pending[c].room = room[c]

(* Live clips leave a connection's buffer in the order the relay accepted  *)
(* them: whatever is buffered comes after what was taken, and a parked     *)
(* clip after everything buffered.                                         *)
ClipsInOrder ==
    \A c \in Conns :
        LET clips == {i \in 1 .. Len(buf[c]) : buf[c][i].kind = "clip"}
        IN  /\ \A i \in clips : got[c] < buf[c][i].num
            /\ \A i, j \in clips : i < j => buf[c][i].num < buf[c][j].num
            /\ pending[c] # NoFrame =>
                  /\ pending[c].num > got[c]
                  /\ \A i \in clips : buf[c][i].num < pending[c].num

(* "never parked and never dropped quietly": every device message          *)
(* forwarded to a connection that is still open has been taken or is in    *)
(* its buffer.                                                             *)
MsgsNotDropped ==
    \A c \in Conns : ws[c] = "OPEN" =>
        msgs[c] = Cardinality({i \in 1 .. Len(buf[c]) : buf[c][i].kind = "msg"})

(* Once the debounced broadcast has fired, every open device of a room     *)
(* knows how many are connected, however joins and leaves interleaved      *)
(* with the timer.                                                         *)
PresenceCurrent ==
    \A c \in Conns : (ws[c] = "OPEN" /\ st[c] = "ready") =>
        \/ reg.rooms[room[c]].timer
        \/ told[c] = Cardinality(reg.rooms[room[c]].conns)

(* While the network takes what is buffered for it, the newest clip        *)
(* forwarded to a connection reaches its device, or a newer one does, or   *)
(* the connection is closed.                                               *)
NewestClipArrives ==
    \A c \in Conns : NetworkTakes(c) =>
        \A n \in 1 .. MaxClips :
            (ws[c] = "OPEN" /\ due[c] = n) ~> (got[c] >= n \/ ws[c] # "OPEN")

=============================================================================
