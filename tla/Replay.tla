------------------------------- MODULE Replay -------------------------------
(***************************************************************************)
(* What a device remembers of the clips it has accepted, so that a relay   *)
(* it does not trust cannot make it write an old one again: the guard      *)
(* (asli-core/src/replay.rs), the session that consults it before it hands *)
(* a clip on (asli-net/src/session.rs on_clip, on_chunk), the daemon that  *)
(* writes the clipboard and then saves the memory, and the file a restart  *)
(* reads it back from (asli-app/src/daemon.rs, replay_store.rs).           *)
(*                                                                         *)
(* The relay delivers any clip that was ever sealed, as often as it likes, *)
(* in any order, as live or as stored.  A message id stands for the device *)
(* and number it was sealed with, which are drawn afresh for every copy.   *)
(***************************************************************************)
EXTENDS Naturals, Sequences, FiniteSets, Functions

CONSTANTS
    Devices,         \* the devices of the account
    Me,              \* this one
    MsgIdCapacity,   \* DEFAULT_MSG_ID_CAPACITY
    DeviceCapacity,  \* DEFAULT_DEVICE_CAPACITY
    MaxAge,          \* DEFAULT_MAX_AGE_MS
    RetainedMaxAge,  \* the relay's retention period
    FutureSkew,      \* DEFAULT_FUTURE_SKEW_MS
    MaxSeqJump,      \* MAX_SEQ_JUMP
    MaxSeq,          \* bound: numbers a device uses
    MaxNow,          \* bound: ticks of the clock
    MaxFailures,     \* bound: saves that fail
    MaxCrashes       \* bound: restarts without warning

ReplayAssumption ==
    /\ IsFiniteSet(Devices) /\ Me \in Devices
    /\ MaxSeq \in Nat
    /\ MsgIdCapacity \in Nat \ {0}
    /\ DeviceCapacity \in Nat /\ DeviceCapacity >= Cardinality(Devices \ {Me})

VARIABLES
    now,
    sealed,      \* every clip ever sealed, all of them in the relay's hands
    seen,        \* guard: recent message ids, oldest first
    highest,     \* guard: the highest number accepted from each device known
    order,       \* guard: known devices, first seen first
    sink,        \* what the session published for saving
    saved,       \* ReplaySaver.saved
    disk,        \* the file
    phase,       \* where the daemon is: off, idle, event, save
    hand,        \* the accepted clip on its way to the clipboard
    asked,       \* controls.retained_pending
    written,     \* history: the clips written to the clipboard
    lost,        \* history: a crash forgot an acceptance that was not saved
    failures, crashes

guard == <<seen, highest, order>>
vars == <<now, sealed, seen, highest, order, sink, saved, disk, phase, hand, asked, written,
          lost, failures, crashes>>

Numbers == 1..MaxSeq
Clips == [dev : Devices, seq : Numbers, ts : 0..MaxNow]
MsgId(c) == <<c.dev, c.seq>>
Empty == [highest |-> <<>>, recent |-> <<>>]

Init ==
    /\ now = 0
    /\ sealed = {}
    /\ seen = <<>> /\ highest = <<>> /\ order = <<>>
    /\ sink = Empty /\ saved = Empty /\ disk = Empty
    /\ phase = "idle"
    /\ hand = <<>>
    /\ asked = FALSE
    /\ written = <<>>
    /\ lost = FALSE
    /\ failures = 0 /\ crashes = 0

(***************************************************************************)
(* The guard                                                               *)
(***************************************************************************)

Known(d) == d \in DOMAIN highest

(* A mistake: only the message ids are consulted, not the numbers. *)
CheckIdsOnly(c, retained) ==
    /\ c.dev # Me
    /\ MsgId(c) \notin Range(seen)
    /\ c.ts <= now + FutureSkew
    /\ now <= c.ts + (IF retained THEN RetainedMaxAge ELSE MaxAge)

(* ReplayGuard::check, as far as the verdict Accept *)
Check(c, retained) ==
    /\ c.dev # Me
    /\ MsgId(c) \notin Range(seen)
    /\ c.ts <= now + FutureSkew
    /\ now <= c.ts + (IF retained THEN RetainedMaxAge ELSE MaxAge)
    /\ Known(c.dev) => c.seq > highest[c.dev] /\ c.seq - highest[c.dev] <= MaxSeqJump

(* A queue of bounded length: what is pushed beyond it drops the oldest. *)
Push(q, x, capacity) == Append(IF Len(q) = capacity THEN Tail(q) ELSE q, x)

(* ReplayGuard::record.  A device not known before may push out the one    *)
(* known longest.                                                          *)
Record(c) ==
    LET arrived == IF Known(c.dev) THEN order ELSE Append(order, c.dev)
        kept == IF Len(arrived) > DeviceCapacity THEN Tail(arrived) ELSE arrived
    IN  /\ seen' = Push(seen, MsgId(c), MsgIdCapacity)
        /\ order' = kept
        /\ highest' = Restrict([d \in DOMAIN highest \cup {c.dev} |->
                                   IF d = c.dev THEN c.seq ELSE highest[d]], Range(kept))

(* ReplayGuard::memory *)
Memory == [highest |-> highest, recent |-> seen]

(***************************************************************************)
(* The session and the daemon                                              *)
(***************************************************************************)

(* A frame that opens and is accepted is recorded and published before     *)
(* anyone acts on it.                                                      *)
Accept(c, retained) ==
    /\ phase = "idle"
    /\ Check(c, retained)
    /\ Record(c)
    /\ sink' = Memory'
    /\ hand' = <<c, retained>>
    /\ phase' = "event"
    /\ UNCHANGED <<now, sealed, saved, disk, asked, written, lost,
                   failures, crashes>>

(* A refused one is only reported; a report about a stored clip answers a  *)
(* request for it.                                                         *)
Refuse(c, retained) ==
    /\ phase = "idle"
    /\ ~Check(c, retained)
    /\ asked' = (asked /\ ~retained)
    /\ phase' = "save"
    /\ UNCHANGED <<now, sealed, guard, sink, saved, disk, hand, written, lost, failures, crashes>>

(* apply_clip and apply_image: the clipboard may refuse the write. *)
Write(c) ==
    \/ written' = Append(written, c)
    \/ UNCHANGED written

(* on_live_event: nothing is written while sync is paused, and a stored    *)
(* clip is written only if it was asked for.                               *)
OnLiveEvent(paused) ==
    LET c == hand[1]
        retained == hand[2]
    IN  /\ phase = "event"
        /\ phase' = "save"
        /\ hand' = <<>>
        /\ IF ~paused /\ (retained => asked) THEN Write(c) ELSE UNCHANGED written
        /\ IF ~paused /\ retained /\ asked
           THEN asked' = FALSE
           ELSE UNCHANGED asked
        /\ UNCHANGED <<now, sealed, guard, sink, saved, disk, lost, failures, crashes>>

(* ReplaySaver::save_if_changed, after every event *)
SaveIfChanged ==
    /\ phase = "save"
    /\ phase' = "idle"
    /\ \/ saved' = sink /\ disk' = (IF sink = saved THEN disk ELSE sink) /\ UNCHANGED failures
       \/ /\ sink # saved /\ failures < MaxFailures
          /\ failures' = failures + 1
          /\ UNCHANGED <<saved, disk>>
    /\ UNCHANGED <<now, sealed, guard, sink, hand, asked, written, lost, crashes>>

(* The tray asks for the stored clip. *)
AskForRetained ==
    /\ phase # "off"
    /\ asked' = TRUE
    /\ UNCHANGED <<now, sealed, guard, sink, saved, disk, phase, hand, written, lost,
                   failures, crashes>>

(* A new connection forgets the request; the session keeps its guard. *)
Reconnect ==
    /\ phase = "idle"
    /\ asked
    /\ asked' = FALSE
    /\ UNCHANGED <<now, sealed, guard, sink, saved, disk, phase, hand, written, lost, failures, crashes>>

(***************************************************************************)
(* Restarts                                                                *)
(***************************************************************************)

Crash ==
    /\ phase # "off"
    /\ crashes < MaxCrashes
    /\ crashes' = crashes + 1
    /\ phase' = "off"
    /\ lost' = (lost \/ disk # Memory)
    /\ seen' = <<>> /\ highest' = <<>> /\ order' = <<>>
    /\ sink' = Empty /\ saved' = Empty
    /\ hand' = <<>>
    /\ asked' = FALSE
    /\ UNCHANGED <<now, sealed, disk, written, failures>>

(* The file lists the devices by id.                                       *)
Listing(S) == CHOOSE q \in [1 .. Cardinality(S) -> S] : Range(q) = S

(* run: replay_store::load and ReplayGuard::restore into an empty guard.   *)
(* The order in the file becomes theirs.                                   *)
Start ==
    /\ phase = "off"
    /\ phase' = "idle"
    /\ highest' = disk.highest
    /\ order' = Listing(DOMAIN disk.highest)
    /\ seen' = disk.recent
    /\ sink' = disk /\ saved' = disk
    /\ UNCHANGED <<now, sealed, disk, hand, asked, written, lost, failures,
                   crashes>>

(***************************************************************************)
(* The other devices: numbers rise, not always by one, and clocks differ.  *)
(***************************************************************************)

Seal(c) ==
    /\ \A e \in sealed : e.dev = c.dev => e.seq < c.seq
    /\ sealed' = sealed \cup {c}
    /\ UNCHANGED <<now, guard, sink, saved, disk, phase, hand, asked, written, lost, failures, crashes>>

Tick ==
    /\ now < MaxNow
    /\ now' = now + 1
    /\ UNCHANGED <<sealed, guard, sink, saved, disk, phase, hand, asked, written, lost, failures, crashes>>

Next ==
    \/ \E c \in sealed, retained \in BOOLEAN : Accept(c, retained) \/ Refuse(c, retained)
    \/ \E paused \in BOOLEAN : OnLiveEvent(paused)
    \/ SaveIfChanged \/ AskForRetained \/ Reconnect \/ Crash \/ Start
    \/ \E c \in Clips : Seal(c)
    \/ Tick

Spec == Init /\ [][Next]_vars

-----------------------------------------------------------------------------
(* However the relay reorders, repeats and relabels what it was given, the *)
(* clips of a device reach the clipboard at most once and in the order it  *)
(* made them, across restarts too, except for acceptances a crash or a     *)
(* failed save kept out of the file (check, record, restore, save).        *)
ClipsInOrder ==
    lost \/ \A i, j \in DOMAIN written :
                i < j /\ written[i].dev = written[j].dev => written[i].seq < written[j].seq

=============================================================================
