------------------------------ MODULE Sequence ------------------------------
(***************************************************************************)
(* The numbers a device puts on its copies.  A peer drops a clip whose     *)
(* number is not above every number it has accepted from that device, so a *)
(* number must never be used twice, not even across a crash.  The daemon   *)
(* reserves a block on disk when it starts (reserve_sequence), the bridge  *)
(* thread raises the reservation as copies pass through it                 *)
(* (SequenceWatch), and the connection loop raises it after every          *)
(* connection, without knowing of each other (asli-app/src/daemon.rs).     *)
(*                                                                         *)
(* raise_reservation reads the file and then writes it: two steps, between *)
(* which the other thread may run.  A failed read or write is logged, and  *)
(* the thread goes on as if it had succeeded.                              *)
(***************************************************************************)
EXTENDS Naturals

CONSTANTS
    Reservation,   \* SEQ_RESERVATION
    MaxCopies,     \* bound: copies observed at the clipboard
    MaxResends,    \* bound: copies one process sends again, their connection lost
    MaxCrashes     \* bound: times the process ends without warning

ASSUME SequenceAssumption ==
    /\ Reservation \in Nat \ {0}
    /\ MaxCopies \in Nat /\ MaxResends \in Nat /\ MaxCrashes \in Nat

VARIABLES
    disk,       \* state.seq in the state file
    seq,        \* session.seq: the last number put on a copy
    issued,     \* SequenceWatch.issued
    ceiling,    \* SequenceWatch.ceiling
    bridge,     \* where the bridge thread is
    loop,       \* where the connection loop is
    held,       \* where a copy is waiting: in the local channel, on the connection
                \* unconfirmed by the relay, in the session to be sent again
    used,       \* history: the highest number ever put on a copy
    spoiled,    \* history: why the file need not cover the numbers used
    copies, crashes,
    resends     \* copies this process has sent again

watch == <<issued, ceiling>>
numbers == <<seq, used>>
file == <<disk, spoiled>>
counts == <<copies, crashes, resends>>
vars == <<disk, seq, issued, ceiling, bridge, loop, held, used, spoiled, copies, crashes, resends>>

Waits == {"queued", "unconfirmed", "resend"}

(* A write failed; a writer overwrote a higher reservation; a process sent *)
(* more copies again than its margin has room for.                         *)
Causes == {"failed", "lowered", "resent"}

Margin == Reservation \div 10

Init ==
    /\ disk = 0 /\ seq = 0 /\ issued = 0 /\ ceiling = 0 /\ used = 0
    /\ bridge = "off" /\ loop = "off"
    /\ held = {} /\ spoiled = {}
    /\ copies = 0 /\ crashes = 0 /\ resends = 0

(* run: reserve_sequence, then a session and a bridge that start from it.  *)
(* A reservation that cannot be written ends the process: no step.         *)
Start ==
    /\ loop = "off"
    /\ seq' = disk
    /\ issued' = disk
    /\ disk' = disk + Reservation
    /\ ceiling' = disk + Reservation
    /\ bridge' = "idle"
    /\ loop' = "down"
    /\ resends' = 0
    /\ UNCHANGED <<held, used, spoiled, copies, crashes>>

(* paths.save_state: the file now says n, or the write failed. *)
SaveState(n) ==
    \/ n >= disk /\ disk' = n /\ spoiled' = spoiled
    \/ n < disk /\ disk' = n /\ spoiled' = spoiled \cup {"lowered"}
    \/ disk' = disk /\ spoiled' = spoiled \cup {"failed"}

(***************************************************************************)
(* The bridge thread                                                       *)
(***************************************************************************)

(* SequenceWatch::issue: whether the reservation has to be raised *)
WatchDue == issued' + Margin >= ceiling

(* A mistake: the ceiling the watch asks for is the one it already had. *)
ObserveOldCeiling ==
    /\ bridge = "idle"
    /\ copies < MaxCopies
    /\ copies' = copies + 1
    /\ issued' = issued + 1
    /\ ceiling' = ceiling
    /\ bridge' = IF WatchDue THEN "raise" ELSE "handing"
    /\ UNCHANGED <<loop, numbers, held, file, crashes, resends>>

(* A copy is observed and counted. *)
Observe ==
    /\ bridge = "idle"
    /\ copies < MaxCopies
    /\ copies' = copies + 1
    /\ issued' = issued + 1
    /\ ceiling' = IF WatchDue THEN ceiling + Reservation ELSE ceiling
    /\ bridge' = IF WatchDue THEN "raise" ELSE "handing"
    /\ UNCHANGED <<loop, numbers, held, file, crashes, resends>>

(* raise_reservation: the read *)
BridgeLoad ==
    /\ bridge = "raise"
    /\ bridge' = IF disk < ceiling THEN "save" ELSE "handing"
    /\ UNCHANGED <<loop, watch, numbers, held, file, counts>>

(* raise_reservation: the write *)
BridgeSave ==
    /\ bridge = "save"
    /\ SaveState(ceiling)
    /\ bridge' = "handing"
    /\ UNCHANGED <<loop, watch, numbers, held, counts>>

(* The copy goes into the local channel, unless sync is paused or it is    *)
(* too large.                                                              *)
HandOn(kept) ==
    /\ bridge = "handing"
    /\ bridge' = "idle"
    /\ held' = IF kept THEN held \cup {"queued"} ELSE held
    /\ UNCHANGED <<loop, watch, numbers, file, counts>>

(***************************************************************************)
(* The connection loop                                                     *)
(***************************************************************************)

(* run_once, as far as session.is_ready *)
Connect ==
    /\ loop = "down"
    /\ loop' = "up"
    /\ UNCHANGED <<bridge, watch, numbers, held, file, counts>>

(* observe_local and observe_local_image: one number for each copy sealed *)
TakeNumber ==
    /\ seq' = seq + 1
    /\ used' = IF seq' > used THEN seq' ELSE used

(* The newest of the copies queued; a copy kept for resending goes first. *)
Send ==
    /\ loop = "up"
    /\ "queued" \in held /\ "resend" \notin held
    /\ held' = (held \ {"queued"}) \cup {"unconfirmed"}
    /\ TakeNumber
    /\ UNCHANGED <<bridge, loop, watch, file, counts>>

(* A copy the last connection lost is sealed again, under a new number. *)
Resend ==
    /\ loop = "up"
    /\ "resend" \in held
    /\ held' = (held \ {"resend"}) \cup {"unconfirmed"}
    /\ resends' = resends + 1
    /\ TakeNumber
    /\ spoiled' = IF resends' > Margin THEN spoiled \cup {"resent"} ELSE spoiled
    /\ UNCHANGED <<bridge, loop, watch, disk, copies, crashes>>

(* The answer to the ping that followed the copy *)
Confirmed ==
    /\ loop = "up"
    /\ "unconfirmed" \in held
    /\ held' = held \ {"unconfirmed"}
    /\ UNCHANGED <<bridge, loop, watch, numbers, file, counts>>

(* run_once returns and keeps an unconfirmed copy, here within the bound.  *)
Disconnect ==
    /\ loop = "up"
    /\ "unconfirmed" \in held => resends < MaxResends
    /\ loop' = "raise"
    /\ held' = IF "unconfirmed" \in held
               THEN (held \ {"unconfirmed"}) \cup {"resend"} ELSE held
    /\ UNCHANGED <<bridge, watch, numbers, file, counts>>

(* raise_reservation after the connection: the read *)
LoopLoad ==
    /\ loop = "raise"
    /\ loop' = IF disk < seq + Reservation THEN "save" ELSE "down"
    /\ UNCHANGED <<bridge, watch, numbers, held, file, counts>>

(* and the write *)
LoopSave ==
    /\ loop = "save"
    /\ SaveState(seq + Reservation)
    /\ loop' = "down"
    /\ UNCHANGED <<bridge, watch, numbers, held, counts>>

(* Everything but the file is lost. *)
Crash ==
    /\ loop # "off"
    /\ crashes < MaxCrashes
    /\ crashes' = crashes + 1
    /\ loop' = "off"
    /\ bridge' = "off"
    /\ held' = {}
    /\ UNCHANGED <<watch, numbers, file, copies, resends>>

Next ==
    \/ Start \/ Observe \/ BridgeLoad \/ BridgeSave \/ \E kept \in BOOLEAN : HandOn(kept)
    \/ Connect \/ Send \/ Resend \/ Confirmed \/ Disconnect \/ LoopLoad \/ LoopSave
    \/ Crash

Spec == Init /\ [][Next]_vars

-----------------------------------------------------------------------------
(* Every variable has its type, and the threads are where the code can be. *)
TypeOK ==
    /\ disk \in Nat /\ seq \in Nat /\ issued \in Nat /\ ceiling \in Nat /\ used \in Nat
    /\ bridge \in {"off", "idle", "raise", "save", "handing"}
    /\ loop \in {"off", "down", "up", "raise", "save"}
    /\ held \subseteq Waits /\ spoiled \subseteq Causes
    /\ copies \in Nat /\ crashes \in Nat /\ resends \in Nat

(* "The reservation on disk is raised before this process could run past   *)
(* it" (the bridge): whenever the process may end, the block the next one  *)
(* takes lies above every number used, whatever copies were observed,      *)
(* dropped, sent and sent again, as long as every write took effect and    *)
(* the copies sent again, which SequenceWatch does not count, fit into its *)
(* margin.                                                                 *)
NumbersCovered == spoiled = {} => used <= disk

(* raise_reservation "never lowering it": neither of the two threads that  *)
(* raise the reservation overwrites a higher value the other wrote.        *)
NeverLowered == [][disk' >= disk]_disk

-----------------------------------------------------------------------------
(* What the proof of NumbersCovered rests on: a copy is counted before it  *)
(* can be numbered, and the file is at the watch's ceiling except while    *)
(* the bridge is raising it, when it is still at the one before.           *)
Pending == (IF "queued" \in held THEN 1 ELSE 0) + (IF bridge \in {"raise", "save", "handing"} THEN 1 ELSE 0)

Counted == loop # "off" => seq + Pending <= issued + resends

Ahead ==
    (loop # "off" /\ spoiled = {}) =>
        IF bridge \in {"raise", "save"}
        THEN issued + Margin <= disk /\ issued + Margin < ceiling
        ELSE issued + Margin < ceiling /\ ceiling <= disk

NothingHeldWhenOff == loop = "off" => held = {} /\ bridge = "off"

WithinMargin == spoiled = {} => resends <= Margin

IInv == TypeOK /\ NothingHeldWhenOff /\ Counted /\ Ahead /\ WithinMargin /\ NumbersCovered

=============================================================================
