------------------------------ MODULE Registry ------------------------------
(***************************************************************************)
(* The room registry driven the way server.ts drives it: connections join  *)
(* and leave, clips are deduplicated and retained, retained clips are      *)
(* looked up, the sweeper runs, and time passes between any two of these.  *)
(* The rest of the relay, above all what is delivered to whom, is in       *)
(* module Relay.                                                           *)
(***************************************************************************)
EXTENDS Rooms

CONSTANTS
    Sizes,     \* frame sizes
    MaxNow     \* bound: the clock stops here

ASSUME RegistryAssumption == Sizes \subseteq Nat \ {0} /\ MaxNow \in Nat

VARIABLES
    reg,       \* the registry
    now,       \* Date.now(), in ticks
    member,    \* member[c]: the room connection c is in, {} or a singleton
    newest     \* history: newest[r], the last clip small enough to be kept

vars == <<reg, now, member, newest>>

Init ==
    /\ reg = EmptyRegistry
    /\ now = 0
    /\ member = [c \in Conns |-> {}]
    /\ newest = [r \in RoomIds |-> NoClip]

(* handleAuth, as far as the registry: a refused join closes the connection *)
JoinRoom(c, r) ==
    /\ member[c] = {}
    /\ \E h \in Join(reg, c, r, now) :
          reg' = AfterLookup(h, r, now)
    /\ member' = [member EXCEPT ![c] = {r}]
    /\ UNCHANGED <<now, newest>>

(* The connection's close handler *)
LeaveRoom(c) ==
    /\ \E r \in member[c] : reg' = Leave(reg, c, r, now)
    /\ member' = [member EXCEPT ![c] = {}]
    /\ UNCHANGED <<now, newest>>

(* handleClip, as far as the registry: a duplicate is dropped before retain *)
AcceptClip(c, m, size) ==
    \E r \in member[c] :
        /\ ~HasSeen(reg, r, m)
        /\ reg' \in Retain(RecordSeen(reg, r, m), r, m, size, now)
        /\ newest' = IF size > RetainMax THEN newest
                     ELSE [newest EXCEPT ![r] = [id |-> m, size |-> size, at |-> now]]
        /\ UNCHANGED <<now, member>>

(* handleFetchLast, as far as the registry *)
FetchLast(c) ==
    /\ \E r \in member[c] : reg' = AfterLookup(reg, r, now)
    /\ UNCHANGED <<now, member, newest>>

SweepRooms ==
    /\ reg' = Sweep(reg, now)
    /\ UNCHANGED <<now, member, newest>>

Tick ==
    /\ now < MaxNow
    /\ now' = now + 1
    /\ UNCHANGED <<reg, member, newest>>

Next ==
    \/ \E c \in Conns, r \in RoomIds : JoinRoom(c, r)
    \/ \E c \in Conns : LeaveRoom(c)
    \/ \E c \in Conns, m \in MsgIds, size \in Sizes : AcceptClip(c, m, size)
    \/ \E c \in Conns : FetchLast(c)
    \/ SweepRooms
    \/ Tick

Spec == Init /\ [][Next]_vars

-----------------------------------------------------------------------------
(* The byte counter is never out of step with the clips it counts, however *)
(* clips are replaced, expire on read, are swept, or go with their room.   *)
BytesAccounted ==
    reg.bytes = RetainedBytes(reg, RoomIds)

(* What a late joiner would be served at this moment is the most recent    *)
(* clip of the room that satisfies the size rule, and it has not expired,  *)
(* even when the sweep is behind.                                          *)
ServesNewest ==
    \A r \in RoomIds :
        LET clip == AfterLookup(reg, r, now).rooms[r].retained
        IN  clip # NoClip => clip = newest[r] /\ now - clip.at <= Ttl

=============================================================================
