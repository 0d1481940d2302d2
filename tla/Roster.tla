------------------------------- MODULE Roster -------------------------------
(***************************************************************************)
(* Who is online, and under which connection.  The relay tells its rooms   *)
(* how many connections there are, a while after that number last changed  *)
(* (schedulePresence in rooms.ts); a device that sees the number change    *)
(* announces itself, and what the others made of its announcements is      *)
(* their list of devices (session.rs, devices.rs, transfer/about.rs).      *)
(*                                                                         *)
(* An announcement and the signed card that always follows it are one      *)
(* frame.                                                                  *)
(* A connection's id is its number.  A device reads what the relay sends   *)
(* at once: reading later only delays its answers, and the relay may be    *)
(* as late as it likes in reading those.  Nothing is dropped for its rate. *)
(***************************************************************************)
EXTENDS Naturals, Sequences, FiniteSets

CONSTANTS
    Devices,        \* devices of one account
    MaxConns,       \* connections opened in all
    Overlaps,       \* whether connections may open and close before the same broadcast
    None

VARIABLES
    owner,      \* the device each connection was opened by
    room,       \* connections in the relay's room
    timer,      \* a presence broadcast is due
    opened,     \* a connection was opened since the last one
    closed,     \* a connection was closed since the last one
    conn,       \* each device's own connection
    up,         \* frames the relay has not read, by connection
    peers,      \* Session::peers
    cards,      \* cards each device has signed, the time on the last one
    known,      \* Session::known: the time on the last card taken from each device
    stored,     \* devices whose keys the list holds
    heard,      \* devices heard from since the count last went down (last_seen_ms)
    lately,     \* the device heard from last
    at,         \* Registry::conns
    left        \* devices that left the account

relay == <<owner, room, timer, opened, closed>>

list == <<known, stored, heard, lately, at>>

vars == <<relay, conn, up, peers, cards, list, left>>

Conns == 1 .. MaxConns

(* A connection is not none.                                               *)
RosterAssumption == MaxConns \in Nat /\ None \notin Conns

Connected(d) == conn[d] # None

Live(k) == k <= Len(owner) /\ conn[owner[k]] = k

Init ==
    /\ owner = << >>
    /\ room = {}
    /\ timer = FALSE
    /\ opened = FALSE
    /\ closed = FALSE
    /\ conn = [d \in Devices |-> None]
    /\ up = [k \in Conns |-> << >>]
    /\ peers = [d \in Devices |-> 0]
    /\ cards = [d \in Devices |-> 0]
    /\ known = [d \in Devices |-> [e \in Devices |-> 0]]
    /\ stored = [d \in Devices |-> {}]
    /\ heard = [d \in Devices |-> {}]
    /\ lately = [d \in Devices |-> None]
    /\ at = [d \in Devices |-> [e \in Devices |-> None]]
    /\ left = {}

-----------------------------------------------------------------------------
(* What a device sends.                                                    *)

(* push_announce and push_card.                                            *)
Card(d, k) == [type |-> "card", from |-> d, ts |-> cards[d] + 1, conn |-> k]

Leave(d) == [type |-> "leave", from |-> d]

(* auth_ok: the device takes the count it is told and says who it is.      *)
Connect(d) ==
    LET k == Len(owner) + 1 IN
    /\ ~Connected(d) /\ d \notin left /\ k \in Conns
    /\ closed => Overlaps
    /\ conn' = [conn EXCEPT ![d] = k]
    /\ owner' = Append(owner, d)
    /\ room' = room \cup {k}
    /\ timer' = TRUE
    /\ opened' = TRUE
    /\ peers' = [peers EXCEPT ![d] = Cardinality(room')]
    /\ cards' = [cards EXCEPT ![d] = @ + 1]
    /\ up' = [up EXCEPT ![k] = <<Card(d, k)>>]
    /\ UNCHANGED <<closed, list, left>>

(* set_connected: nobody is addressed until they have said where they are, *)
(* and nobody is online until heard from on the next connection.           *)
Drop(d) ==
    /\ Connected(d)
    /\ conn' = [conn EXCEPT ![d] = None]
    /\ at' = [at EXCEPT ![d] = [e \in Devices |-> None]]
    /\ heard' = [heard EXCEPT ![d] = {}]
    /\ lately' = [lately EXCEPT ![d] = None]
    /\ peers' = [peers EXCEPT ![d] = 0]
    /\ UNCHANGED <<relay, up, cards, known, stored, left>>

(* say_leaving: the device's own end of the connection follows.            *)
SayLeaving(d) ==
    /\ Connected(d) /\ d \notin left
    /\ left' = left \cup {d}
    /\ up' = [up EXCEPT ![conn[d]] = Append(@, Leave(d))]
    /\ UNCHANGED <<relay, conn, peers, cards, list>>

-----------------------------------------------------------------------------
(* Presence.                                                               *)

(* The relay learns that a connection has ended, at once or when it stops  *)
(* answering; what it had not read is gone.                                *)
Close(k) ==
    /\ k \in room /\ ~Live(k)
    /\ opened => Overlaps
    /\ room' = room \ {k}
    /\ timer' = TRUE
    /\ closed' = TRUE
    /\ up' = [up EXCEPT ![k] = << >>]
    /\ UNCHANGED <<owner, opened, conn, peers, cards, list, left>>

Told == {d \in Devices : Connected(d)}

(* A smaller count: only who announces again counts as online.  A device   *)
(* heard from in the very same millisecond counts as having done so.       *)
Departure(n) ==
    \E same \in IF Overlaps THEN BOOLEAN ELSE {FALSE} :
        heard' = [d \in Devices |->
            IF d \in Told /\ n < peers[d]
            THEN IF same THEN heard[d] \cap {lately[d]} ELSE {}
            ELSE heard[d]]

(* A mistake: announcing only when someone came.                           *)
AnnounceWhenJoined(n) == {d \in Told : n > peers[d]}

Announce(n) == {d \in Told : n # peers[d]}

(* The timer runs out: everyone in the room is told.                       *)
FirePresence ==
    LET n == Cardinality(room) IN
    /\ timer
    /\ timer' = FALSE
    /\ opened' = FALSE
    /\ closed' = FALSE
    /\ Departure(n)
    /\ peers' = [d \in Devices |-> IF d \in Told THEN n ELSE peers[d]]
    /\ cards' = [d \in Devices |-> IF d \in Announce(n) THEN cards[d] + 1 ELSE cards[d]]
    /\ up' = [k \in Conns |-> IF Live(k) /\ owner[k] \in Announce(n)
                 THEN Append(up[k], Card(owner[k], k)) ELSE up[k]]
    /\ UNCHANGED <<owner, room, conn, known, stored, lately, at, left>>

-----------------------------------------------------------------------------
(* A message goes to all of the room but the sender's connection; a device *)
(* ignores its own.                                                        *)

Receivers(k, f) ==
    {d \in Devices : Connected(d) /\ f.from # d /\ conn[d] # k}

Put(S, who, e) == [d \in Devices |-> IF d \in who THEN S[d] \cup {e} ELSE S[d]]

Cut(S, who, e) == [d \in Devices |-> IF d \in who THEN S[d] \ {e} ELSE S[d]]

(* An older card arriving late says nothing new.                           *)
Newer(d, f) == f.ts >= known[d][f.from]

(* on_announce, and heard.                                                 *)
Heard(who, f) ==
    /\ heard' = Put(heard, who, f.from)
    /\ lately' = [d \in Devices |-> IF d \in who THEN f.from ELSE lately[d]]

(* on_card, and heard_card.                                                *)
OnCard(who, f) ==
    LET take == {d \in who : Newer(d, f)} IN
        /\ Heard(who, f)
        /\ known' = [d \in Devices |-> IF d \in take THEN [known[d] EXCEPT ![f.from] = f.ts] ELSE known[d]]
        /\ stored' = Put(stored, take, f.from)
        /\ at' = [d \in Devices |-> IF d \in take THEN [at[d] EXCEPT ![f.from] = f.conn] ELSE at[d]]

(* on_leave: forget takes the whole entry off the list, and leaves its     *)
(* connection behind.                                                      *)
OnLeave(who, f) ==
    LET take == {d \in who : f.from \in stored[d]} IN
    /\ stored' = Cut(stored, take, f.from)
    /\ heard' = Cut(heard, take, f.from)
    /\ UNCHANGED <<known, lately, at>>

Forward(k) ==
    /\ k \in room /\ up[k] # << >>
    /\ up' = [up EXCEPT ![k] = Tail(@)]
    /\ LET f == Head(up[k])
           who == Receivers(k, f)
       IN  /\ \/ f.type = "card" /\ OnCard(who, f)
              \/ f.type = "leave" /\ OnLeave(who, f)
    /\ UNCHANGED <<relay, conn, peers, cards, left>>

Next ==
    \/ \E d \in Devices : Connect(d) \/ Drop(d) \/ SayLeaving(d)
    \/ \E k \in Conns : Close(k) \/ Forward(k)
    \/ FirePresence

Spec == Init /\ [][Next]_vars

-----------------------------------------------------------------------------
(* conn_of.                                                                *)
ConnOf(d, e) == IF Connected(d) /\ e \in heard[d] THEN at[d][e] ELSE None

(* The relay has seen every connection come and go, and has read           *)
(* everything.                                                             *)
Quiet ==
    /\ ~timer
    /\ \A k \in room : Live(k) /\ up[k] = << >>
    /\ \A d \in left : ~Connected(d)

(* Once things are quiet, every device lists exactly the devices that are  *)
(* connected, under the connections they have now, whichever of them came, *)
(* went, came back before their old connection was gone, or left the       *)
(* account, as long as no broadcast has to report comings and goings       *)
(* together (Presence in handle_frame, presence, on_card).                 *)
ListIsRight ==
    Quiet => \A d, e \in Devices : d # e /\ Connected(d) =>
        ConnOf(d, e) = conn[e]

-----------------------------------------------------------------------------
(* What is said of the code and not kept by it: TLC refutes each of these  *)
(* (README, "Where the words and the code part").                          *)

(* "a device that has just joined learns about everyone already there".    *)
NewcomerLearns ==
    Quiet => \A d, e \in Devices : d # e /\ Connected(d) /\ Connected(e) => e \in heard[d]
=============================================================================
