----------------------------- MODULE Selection ------------------------------
(***************************************************************************)
(* How the watcher of linux_wayland.rs reads the clipboard.  For every     *)
(* selection, and for every highlight, the compositor makes an offer       *)
(* object, names its formats and announces it.  The watcher keeps the      *)
(* newest, asks its source to write one format into a pipe, waits there    *)
(* while more is announced, and must destroy every offer it was given: the *)
(* compositor uses the number of a destroyed one again.                    *)
(*                                                                         *)
(* A source is what the code expects of another process: it writes all it  *)
(* has, closes the pipe without, or lets the reader wait.                  *)
(***************************************************************************)
EXTENDS Naturals, Sequences, Functions

CONSTANTS
    MaxCopies,      \* bound: selections after the device was bound
    MaxShown,       \* bound: highlights
    None

SelectionAssumption == MaxCopies \in Nat /\ MaxShown \in Nat /\ None \notin Nat

VARIABLES
    board,      \* the selection: its number and what it is, "empty" for none
    shown,      \* highlights so far
    live,       \* the offer objects there are, and the selection each is of
    wire,       \* events the compositor has sent
    offers,     \* State::offers
    pending,    \* State::pending: an offer's number, Clear, or None
    seen,       \* seen_initial_selection
    reading,    \* the offer whose pipe is read, or None
    told,       \* the selection reported last, as what it is
    gaveUp,     \* whether the last read ended without what there was
    first       \* the selection taken as the one from before the start

vars == <<board, shown, live, wire, offers, pending, seen, reading, told, gaveUp, first>>

Ids == 1 .. MaxCopies + MaxShown + 1
Free == CHOOSE i \in Ids : i \notin DOMAIN live
Contents == {"text", "large", "secret", "files"}
Clear == 0

(* data_offer, the formats, and what it is the offer of.                   *)
Announced(id, kind, of) ==
    <<[kind |-> "offer", id |-> id], [kind |-> "mime", id |-> id, mime |-> kind],
      [kind |-> of, id |-> id]>>
Emptied == [kind |-> "selection", id |-> None]

With(f, id, value) == [x \in DOMAIN f \cup {id} |-> IF x = id THEN value ELSE f[x]]
Without(f, id) == Restrict(f, DOMAIN f \ {id})

Init ==
    /\ \E kind \in Contents \cup {"empty"} :
        /\ board = [n |-> 0, kind |-> kind]
        /\ live = IF kind = "empty" THEN <<>> ELSE With(<<>>, 1, board)
        /\ wire = IF kind = "empty" THEN <<Emptied>> ELSE Announced(1, kind, "selection")
    /\ shown = 0
    /\ offers = <<>> /\ pending = None
    /\ seen = FALSE /\ reading = None
    /\ told = None /\ gaveUp = FALSE /\ first = None
-----------------------------------------------------------------------------
(* Somebody copies, an application that held the selection ends, somebody  *)
(* highlights a text.                                                      *)
Copy ==
    /\ board.n < MaxCopies
    /\ \E kind \in Contents :
        /\ board' = [n |-> board.n + 1, kind |-> kind]
        /\ live' = With(live, Free, board')
        /\ wire' = wire \o Announced(Free, kind, "selection")
    /\ UNCHANGED <<shown, offers, pending, seen, reading, told, gaveUp, first>>

SourceEnds ==
    /\ board.n < MaxCopies /\ board.kind # "empty"
    /\ board' = [n |-> board.n + 1, kind |-> "empty"]
    /\ wire' = Append(wire, Emptied)
    /\ UNCHANGED <<shown, live, offers, pending, seen, reading, told, gaveUp, first>>

Highlight ==
    /\ shown < MaxShown /\ shown' = shown + 1
    /\ live' = With(live, Free, [n |-> None, kind |-> "text"])
    /\ wire' = wire \o Announced(Free, "text", "primary")
    /\ UNCHANGED <<board, offers, pending, seen, reading, told, gaveUp, first>>
-----------------------------------------------------------------------------
(* offers.remove and offer.destroy                                         *)
Destroy(id) == offers' = Without(offers, id) /\ live' = Without(live, id)

(* A mistake: an offer that is replaced is only dropped.                   *)
ReplaceOnly(next) == pending' = next /\ UNCHANGED <<offers, live>>

(* replace_pending                                                         *)
ReplacePending(next) ==
    /\ pending' = next
    /\ IF pending \in Ids THEN Destroy(pending) ELSE UNCHANGED <<offers, live>>

(* One event, in a batch with the next or the last of it (wait_for_activity *)
(* reads what has come).                                                   *)
Taken(kind) == reading = None /\ wire # <<>> /\ Head(wire).kind = kind /\ wire' = Tail(wire)

DataOffer ==
    /\ Taken("offer")
    /\ offers' = With(offers, Head(wire).id, {})
    /\ UNCHANGED <<board, shown, live, pending, seen, reading, told, gaveUp, first>>

Mime ==
    /\ Taken("mime")
    /\ offers' = [offers EXCEPT ![Head(wire).id] = @ \cup {Head(wire).mime}]
    /\ UNCHANGED <<board, shown, live, pending, seen, reading, told, gaveUp, first>>

Selected ==
    /\ Taken("selection")
    /\ ReplacePending(IF Head(wire).id = None THEN Clear ELSE Head(wire).id)
    /\ UNCHANGED <<board, shown, seen, reading, told, gaveUp, first>>

Primary ==
    /\ Taken("primary")
    /\ Destroy(Head(wire).id)
    /\ UNCHANGED <<board, shown, pending, seen, reading, told, gaveUp, first>>
-----------------------------------------------------------------------------
(* run, what is pending after a batch.                                     *)
Baseline ==
    /\ reading = None /\ ~seen /\ pending \in Ids
    /\ seen' = TRUE /\ pending' = None
    /\ first' = live[pending].n
    /\ Destroy(pending)
    /\ UNCHANGED <<board, shown, wire, reading, told, gaveUp>>

Cleared ==
    /\ reading = None /\ pending = Clear
    /\ seen' = TRUE /\ pending' = None
    /\ UNCHANGED <<board, shown, live, wire, offers, reading, told, gaveUp, first>>

Carried(id) == offers[id] \cap {"text", "large"} # {}

(* read_offer, without anything to ask the source for.                     *)
LeaveAlone ==
    /\ reading = None /\ seen /\ pending \in Ids /\ ~Carried(pending)
    /\ pending' = None
    /\ told' = IF "secret" \in offers[pending] THEN live[pending] ELSE told
    /\ gaveUp' = FALSE
    /\ Destroy(pending)
    /\ UNCHANGED <<board, shown, wire, seen, reading, first>>

(* receive, up to the read.                                                *)
Receive ==
    /\ reading = None /\ seen /\ pending \in Ids /\ Carried(pending)
    /\ reading' = pending /\ pending' = None
    /\ UNCHANGED <<board, shown, live, wire, offers, seen, told, gaveUp, first>>

ReadEnds(reported, failed) ==
    /\ reading # None /\ reading' = None
    /\ told' = reported /\ gaveUp' = failed
    /\ Destroy(reading)
    /\ UNCHANGED <<board, shown, wire, pending, seen, first>>

(* All of it, or one byte past the limit, which is told as TooLarge.       *)
ReadWhole ==
    /\ reading # None
    /\ ReadEnds(live[reading], FALSE)

(* RECEIVE_TIMEOUT, or nothing written before the pipe is closed.          *)
ReadFails == ReadEnds(told, TRUE)
-----------------------------------------------------------------------------
Next ==
    \/ Copy \/ SourceEnds \/ Highlight
    \/ DataOffer \/ Mime \/ Selected \/ Primary
    \/ Baseline \/ Cleared \/ LeaveAlone \/ Receive \/ ReadWhole \/ ReadFails

Spec == Init /\ [][Next]_vars
-----------------------------------------------------------------------------
Quiet == wire = <<>> /\ pending = None /\ reading = None

(* Once the watcher has gone through its events, what it reported last is  *)
(* the newest selection, unless that was taken for the one from before the *)
(* start or its source did not answer in time; and it holds on to no offer *)
(* (replace_pending, read_offer, run).                                     *)
NewestIsRead ==
    Quiet =>
        /\ live = <<>> /\ offers = <<>>
        /\ board.n # first /\ board.kind \in {"text", "large", "secret"} /\ ~gaveUp => told = board

-----------------------------------------------------------------------------
(* What is said of the code and not kept by it: TLC refutes it (README,    *)
(* "Where the words and the code part").                                   *)

(* "the first event describes whatever was already on the clipboard before *)
(* we started": no later selection is taken for it.                        *)
OnlyTheFirstIsLeft == first \in {None, 0}
=============================================================================
