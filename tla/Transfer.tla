------------------------------ MODULE Transfer ------------------------------
(***************************************************************************)
(* One file offered by one device to another (asli-app/src/transfer/mod.rs *)
(* and asli-app/src/direct.rs).  The sender S hashes the file, offers it   *)
(* and listens on the local network; the receiver R, once its person       *)
(* accepts, fetches the file straight from S, or asks for it through the   *)
(* relay when that does not work.  Through the relay the pieces go under a *)
(* window of acknowledgements; a piece or an acknowledgement the relay     *)
(* drops is never sent again, and nobody is told of a timeout, so each end *)
(* must come to an end on its own.                                         *)
(*                                                                         *)
(* Time is abstract: a timeout is free when nothing can move any more, and *)
(* counts as a fault (a stall of the network or a disk) otherwise.  That   *)
(* only the pinned device's signature makes an offer or an answer, and the *)
(* freshness of an offer, are left to the checks of those messages.        *)
(***************************************************************************)
EXTENDS Naturals, Sequences

CONSTANTS
    Count,        \* pieces of the file (Offer::chunk_count)
    Window,       \* WINDOW
    MaxFaults,    \* bound: things that go wrong
    MaxSets       \* bound: changes of Same Network Only

ASSUME TransferAssumption ==
    Count \in Nat \ {0} /\ Window \in Nat \ {0} /\ MaxFaults \in Nat /\ MaxSets \in Nat

VARIABLES
    hash,       \* the thread of `send`: idle, reading, called off, over
    out,        \* S's entry in `sending`
    inc,        \* R's entry in `receiving`
    files,      \* R's folder: the temporary file, the kept one
    disk,       \* S's file against its hash: whole, altered, cut short, gone
    serve,      \* S's listener: off, listening, sending, wrote, confirming
    fetch,      \* R's direct thread: off, reaching, first, taking, asking
    sock,       \* the local connection: which ends are open, pieces sent, pieces and word in it
    conn, up,   \* the relay's connection of each device (0: none), and whether it thinks so
    link,       \* Link::conn_id of each device
    gen,        \* connections each device has had
    knows,      \* the connection each device's table has for the other (0: offline)
    wire,       \* what each device has queued and the relay not yet delivered
    only,       \* same_network_only
    wasOff,     \* history: the devices where it has been off since the offer
    late,       \* history: R gave the local connection up while S was starting
    calledOff,  \* history: the transfer was called off, or cleared with its last word owed
    faults, sets

ends == <<out, inc, files>>
threads == <<hash, serve, fetch, sock>>
net == <<conn, up, link, gen, knows>>
setting == <<only, wasOff, sets>>
history == <<late, calledOff>>
vars == <<hash, out, inc, files, disk, serve, fetch, sock, conn, up, link, gen, knows, wire, only,
          wasOff, late, calledOff, faults, sets>>

Sides == {"S", "R"}
Other(s) == IF s = "S" THEN "R" ELSE "S"
Live == {"offered", "moving"}
Finished(e) == e.stage \notin Live

NoOut == [stage |-> "none", to |-> 0, next |-> 0, acked |-> 0, direct |-> FALSE, offeredTo |-> 0]
NoInc == [stage |-> "none", received |-> 0, direct |-> FALSE, part |-> FALSE, good |-> TRUE,
          owed |-> "none", replyTo |-> 0, reachable |-> FALSE]
Closed == [s |-> FALSE, r |-> FALSE, sent |-> 0, pieces |-> <<>>, word |-> "none"]
HangUpS(k) == IF k.r THEN [k EXCEPT !.s = FALSE] ELSE Closed
HangUpR(k) == IF k.s THEN [k EXCEPT !.r = FALSE, !.pieces = <<>>] ELSE Closed

Init ==
    /\ hash = "idle" /\ out = NoOut /\ inc = NoInc /\ files = {} /\ disk = "whole"
    /\ serve = "off" /\ fetch = "off" /\ sock = Closed
    /\ conn = [s \in Sides |-> 1] /\ up = [s \in Sides |-> TRUE]
    /\ link = conn /\ gen = conn /\ knows = conn
    /\ wire = [s \in Sides |-> <<>>]
    /\ only = [s \in Sides |-> FALSE] /\ wasOff = {}
    /\ late = FALSE /\ calledOff = FALSE
    /\ faults = 0 /\ sets = 0

Fault == faults < MaxFaults /\ faults' = faults + 1
NoFault == UNCHANGED faults

(***************************************************************************)
(* Messages, and what both ends do to their entries                        *)
(***************************************************************************)

Message(kind, to, reply) ==
    [kind |-> kind, to |-> to, reply |-> reply, at |-> 0, data |-> "none"]

(* send_msg by a caller who carries on when the queue to the connection is full. *)
BestEffort(m) == {<<>>, <<m>>}
Queued(w, s, msgs) == [w EXCEPT ![s] = @ \o msgs]

(* Of an entry that is over, only its stage and an acknowledgement it owes are looked at. *)
EndOut(stage) == [NoOut EXCEPT !.stage = stage]
EndInc(i, stage) ==
    IF i.owed = "none" THEN [NoInc EXCEPT !.stage = stage]
    ELSE [i EXCEPT !.stage = stage, !.part = FALSE]
(* give_up_incoming, discard_part: the temporary file goes with the entry's handle on it. *)
Discarded == IF inc.part THEN files \ {"part"} ELSE files
EndIncoming(stage) == inc' = EndInc(inc, stage) /\ files' = Discarded

fail_all_live(s) ==
    /\ out' = IF s = "S" /\ ~Finished(out) /\ ~out.direct THEN EndOut("failed") ELSE out
    /\ IF s = "R" /\ ~Finished(inc) /\ ~inc.direct THEN EndIncoming("failed")
                                                     ELSE UNCHANGED <<inc, files>>

(* pump: the pieces the window allows, or fewer when the pace or the queue gives out.  A file    *)
(* that cannot be read fails the transfer.                                                       *)
Room(o) ==
    IF o.to = 0 \/ o.stage # "moving" THEN 0
    ELSE LET top == IF o.acked + Window < Count THEN o.acked + Window ELSE Count
         IN IF o.next < top THEN top - o.next ELSE 0
Piece(o, i) == [Message("chunk", o.to, 0) EXCEPT !.at = o.next + i - 1, !.data = disk]
pump(o) ==
    {[out |-> [o EXCEPT !.next = @ + k], msgs |-> [i \in 1..k |-> Piece(o, i)]] :
        k \in IF disk = "gone" THEN {0} ELSE 0..Room(o)}
    \cup IF disk = "gone" /\ Room(o) > 0 THEN {[out |-> EndOut("failed"), msgs |-> <<>>]} ELSE {}

(* take_piece and finish_incoming: what becomes of R's entry, its folder, and what is answered.  *)
(* A disk that will not take the piece, or the file, is a fault.                                 *)
Took(r, i, f, ill) == [res |-> r, inc |-> i, files |-> f, ill |-> ill]
take_piece(data) ==
    LET i == [inc EXCEPT !.received = @ + 1, !.good = @ /\ data = "whole"]
        last == i.received = Count
        kept == [i EXCEPT !.stage = "done", !.part = FALSE]
        spoiled == [i EXCEPT !.stage = "failed", !.part = FALSE]
        refused == Took("refused", EndInc(inc, "failed"), Discarded, FALSE)
    IN IF data = "cut" \/ ~inc.part THEN {refused}
       ELSE {[refused EXCEPT !.ill = TRUE]}
            \cup IF ~last THEN {Took("more", i, files, FALSE)}
                 ELSE IF ~i.good THEN {Took("corrupt", spoiled, files \ {"part"}, FALSE)}
                 ELSE {Took("done", kept, (files \ {"part"}) \cup {"kept"}, FALSE),
                       Took("corrupt", spoiled, files \ {"part"}, TRUE)}

(***************************************************************************)
(* The person at either end                                                *)
(***************************************************************************)

send ==
    /\ hash = "idle" /\ knows["S"] # 0
    /\ hash' = "reading"
    /\ out' = [out EXCEPT !.offeredTo = knows["S"]]
    /\ UNCHANGED <<inc, files, disk, serve, fetch, sock, net, wire, setting, history, faults>>

accept ==
    /\ inc.stage = "offered"
    /\ inc' = [inc EXCEPT !.stage = "moving", !.part = TRUE]
    /\ files' = files \cup {"part"}
    /\ \/ inc.reachable /\ fetch' = "reaching" /\ UNCHANGED wire
       \/ /\ ~inc.reachable /\ ~only["R"]
          /\ wire' = Queued(wire, "R", <<Message("accept", inc.replyTo, link["R"])>>)
          /\ UNCHANGED fetch
    /\ UNCHANGED <<hash, out, disk, serve, sock, net, setting, history, faults>>

decline ==
    /\ inc.stage = "offered"
    /\ inc' = EndInc(inc, "declined")
    /\ \E msgs \in BestEffort(Message("decline", inc.replyTo, link["R"])) :
        wire' = Queued(wire, "R", msgs)
    /\ UNCHANGED <<out, files, disk, threads, net, setting, history, faults>>

(* cancel, and cancel_to for a file that is still being read. *)
cancel(s) ==
    /\ calledOff' = TRUE
    /\ \/ /\ s = "S" /\ hash = "reading"
          /\ hash' = "called off"
          /\ UNCHANGED <<ends, wire>>
       \/ /\ s = "S" /\ ~Finished(out)
          /\ out' = EndOut("cancelled")
          /\ LET to == IF out.to # 0 THEN out.to ELSE knows["S"]
             IN \E msgs \in BestEffort(Message("cancel", to, 0)) :
                 wire' = IF to = 0 THEN wire ELSE Queued(wire, "S", msgs)
          /\ UNCHANGED <<hash, inc, files>>
       \/ /\ s = "R" /\ ~Finished(inc)
          /\ EndIncoming("cancelled")
          /\ \E msgs \in BestEffort(Message("cancel", inc.replyTo, 0)) :
              wire' = Queued(wire, "R", msgs)
          /\ UNCHANGED <<hash, out>>
    /\ UNCHANGED <<disk, serve, fetch, sock, net, setting, late, faults>>

clear_finished(s) ==
    /\ \/ s = "S" /\ hash = "over" /\ out.stage # "none" /\ Finished(out)
          /\ out' = NoOut /\ UNCHANGED inc
       \/ s = "R" /\ inc.stage # "none" /\ Finished(inc) /\ inc' = NoInc /\ UNCHANGED out
    /\ calledOff' = (calledOff \/ (s = "R" /\ inc.owed # "none"))
    /\ UNCHANGED <<files, disk, threads, net, wire, setting, late, faults>>

set_same_network_only(s) ==
    /\ sets < MaxSets /\ sets' = sets + 1
    /\ only' = [only EXCEPT ![s] = ~@]
    /\ wasOff' = wasOff \cup {t \in Sides : ~only'[t]}
    /\ UNCHANGED <<ends, disk, threads, net, wire, history, faults>>

(***************************************************************************)
(* Messages through the relay.  The relay hands the head of wire[s] to the *)
(* connection it is addressed to, if that is still there.                  *)
(***************************************************************************)

Arriving(s) == Head(wire[s])
Taken(s) == [wire EXCEPT ![s] = Tail(@)]
Arrives(s, kind) ==
    /\ wire[s] # <<>> /\ conn[s] # 0
    /\ Arriving(s).kind = kind
    /\ Arriving(s).to = conn[Other(s)]

Misaddressed(s) ==
    /\ wire[s] # <<>> /\ conn[s] # 0
    /\ Arriving(s).to # conn[Other(s)]
    /\ wire' = Taken(s)
    /\ UNCHANGED <<ends, disk, threads, net, setting, history, faults>>

(* The hash is done.  A file called off meanwhile is not offered at all; nor is one for which    *)
(* the queue is full, or that could only go through the relay with Same Network Only on.         *)
offer ==
    /\ hash \in {"reading", "called off"} /\ hash' = "over"
    /\ \/ /\ hash = "reading"
          /\ \E direct \in BOOLEAN :
              /\ direct \/ ~only["S"]
              /\ wire' = Queued(wire, "S",
                    <<[Message("offer", out.offeredTo, link["S"]) EXCEPT
                        !.data = IF direct THEN "direct" ELSE "none"]>>)
              /\ serve' = IF direct THEN "listening" ELSE "off"
          /\ out' = [out EXCEPT !.stage = "offered"]
          /\ wasOff' = {s \in Sides : ~only[s]}
       \/ UNCHANGED <<out, serve, wire, wasOff>>
    /\ UNCHANGED <<inc, files, disk, fetch, sock, net, only, sets, history, faults>>

(* An offer made on a connection its sender is known to have left is ignored. *)
on_offer ==
    /\ Arrives("S", "offer")
    /\ wire' = Taken("S")
    /\ LET m == Arriving("S")
           movedOn == knows["R"] # 0 /\ knows["R"] # m.reply
       IN inc' = IF movedOn \/ inc.stage # "none" THEN inc
                 ELSE [NoInc EXCEPT !.stage = "offered", !.replyTo = m.reply,
                                    !.reachable = m.data = "direct"]
    /\ UNCHANGED <<out, files, disk, threads, net, setting, history, faults>>

(* R asks through the relay only when nothing reached it directly: an answer while S is sending  *)
(* directly has the relay take the transfer over from the start.                                 *)
on_answer(kind) ==
    /\ Arrives("R", kind)
    /\ LET takingOver == out.direct /\ ~Finished(out)
           o == IF takingOver THEN [out EXCEPT !.direct = FALSE, !.next = 0, !.acked = 0] ELSE out
           reply == Arriving("R").reply
           results ==
               IF ~(out.stage = "offered" \/ takingOver) THEN {[out |-> out, msgs |-> <<>>]}
               ELSE IF kind = "decline" THEN {[out |-> EndOut("declined"), msgs |-> <<>>]}
               ELSE IF only["S"] THEN {[out |-> EndOut("failed"), msgs |-> msgs] :
                                           msgs \in BestEffort(Message("cancel", reply, 0))}
               ELSE pump([o EXCEPT !.to = reply, !.stage = "moving"])
       IN \E p \in results : out' = p.out /\ wire' = Queued(Taken("R"), "S", p.msgs)
    /\ UNCHANGED <<inc, files, disk, threads, net, setting, history, faults>>

(* A piece that is not the next one is ignored; the piece kept is acknowledged, at once or by    *)
(* the next tick.                                                                                *)
on_chunk ==
    /\ Arrives("S", "chunk")
    /\ LET m == Arriving("S")
           wanted == inc.stage = "moving" /\ ~inc.direct /\ m.at = inc.received
           ack(state) == [Message("ack", inc.replyTo, 0) EXCEPT !.at = inc.received + 1,
                                                                !.data = state]
       IN \/ ~wanted /\ wire' = Taken("S") /\ UNCHANGED <<inc, files>> /\ NoFault
          \/ /\ wanted
             /\ \E t \in take_piece(m.data) :
                 /\ IF t.ill THEN Fault ELSE NoFault
                 /\ files' = t.files
                 /\ \/ /\ t.res = "refused"
                       /\ inc' = t.inc
                       /\ \E msgs \in BestEffort(Message("cancel", inc.replyTo, 0)) :
                           wire' = Queued(Taken("S"), "R", msgs)
                    \/ /\ t.res # "refused"
                       /\ inc' = [t.inc EXCEPT !.owed = "none"]
                       /\ wire' = Queued(Taken("S"), "R", <<ack(t.res)>>)
                    \/ /\ t.res # "refused"
                       /\ inc' = [t.inc EXCEPT !.owed = t.res]
                       /\ wire' = Taken("S")
    /\ UNCHANGED <<out, disk, threads, net, setting, history>>

on_ack ==
    /\ Arrives("R", "ack")
    /\ LET m == Arriving("R")
           o == [out EXCEPT !.acked = IF @ < m.at THEN m.at ELSE @]
           results ==
               IF Finished(out) THEN {[out |-> out, msgs |-> <<>>]}
               ELSE CASE m.data = "more" -> pump([o EXCEPT !.stage = "moving"])
                      [] m.data = "done" -> {[out |-> EndOut("done"), msgs |-> <<>>]}
                      [] m.data = "corrupt" -> {[out |-> EndOut("failed"), msgs |-> <<>>]}
       IN \E p \in results : out' = p.out /\ wire' = Queued(Taken("R"), "S", p.msgs)
    /\ UNCHANGED <<inc, files, disk, threads, net, setting, history, faults>>

on_cancel(s) ==
    /\ Arrives(s, "cancel")
    /\ wire' = Taken(s)
    /\ out' = IF s = "R" /\ ~Finished(out) THEN EndOut("cancelled") ELSE out
    /\ IF s = "S" /\ ~Finished(inc) THEN EndIncoming("cancelled") ELSE UNCHANGED <<inc, files>>
    /\ UNCHANGED <<disk, threads, net, setting, history, faults>>

(***************************************************************************)
(* The direct path: S's listener                                           *)
(***************************************************************************)

(* Somebody called, or nobody came for LISTEN_FOR; a caller still waiting is hung up on. *)
StopListening ==
    /\ serve = "listening"
    /\ serve' = "off" /\ sock' = HangUpS(sock)
    /\ UNCHANGED <<hash, ends, disk, fetch, net, wire, setting, history, faults>>

(* greet and direct_begin. *)
direct_begin ==
    /\ serve = "listening" /\ sock.r
    /\ \/ /\ out.stage = "offered"
          /\ out' = [out EXCEPT !.stage = "moving", !.direct = TRUE]
          /\ serve' = "sending" /\ UNCHANGED sock
       \/ /\ out.stage # "offered"
          /\ serve' = "off" /\ sock' = HangUpS(sock)
          /\ UNCHANGED out
    /\ UNCHANGED <<hash, inc, files, disk, fetch, net, wire, setting, history, faults>>

(* direct_finished, direct_failed: nothing once the transfer is over or the relay's. *)
DirectEnds(stage) ==
    /\ serve' = "off" /\ sock' = HangUpS(sock)
    /\ out' = IF ~Finished(out) /\ out.direct THEN EndOut(stage) ELSE out

(* A piece is read and written.  An end the receiver closed refuses it, or loses it unseen. *)
SendPiece ==
    /\ serve = "sending"
    /\ LET unreadable == disk = "cut" \/ (disk = "gone" /\ sock.sent = 0)
           piece == IF disk = "altered" THEN "altered" ELSE "whole"
       IN \/ (unreadable \/ ~sock.r) /\ DirectEnds("failed")
          \/ /\ ~unreadable
             /\ sock' = [sock EXCEPT !.sent = @ + 1,
                                     !.pieces = IF sock.r THEN Append(@, piece) ELSE @]
             /\ serve' = "wrote" /\ UNCHANGED out
    /\ UNCHANGED <<hash, inc, files, disk, fetch, net, wire, setting, history, faults>>

direct_progress ==
    /\ serve = "wrote"
    /\ \/ /\ Finished(out) \/ ~out.direct
          /\ serve' = "off" /\ sock' = HangUpS(sock)
          /\ UNCHANGED out
       \/ /\ ~Finished(out) /\ out.direct
          /\ out' = [out EXCEPT !.acked = sock.sent, !.next = sock.sent, !.stage = "moving"]
          /\ serve' = IF sock.sent = Count THEN "confirming" ELSE "sending"
          /\ UNCHANGED sock
    /\ UNCHANGED <<hash, inc, files, disk, fetch, net, wire, setting, history, faults>>

(* A mistake: a connection that ends is taken for a confirmation. *)
ConfirmedByClosing ==
    /\ serve = "confirming" /\ (sock.word # "none" \/ ~sock.r)
    /\ DirectEnds("done") /\ NoFault
    /\ UNCHANGED <<hash, inc, files, disk, fetch, net, wire, setting, history>>
Confirmed ==
    /\ serve = "confirming"
    /\ \/ sock.word = "done" /\ DirectEnds("done") /\ NoFault
       \/ sock.word = "corrupt" /\ DirectEnds("failed") /\ NoFault
       \/ sock.word = "none" /\ ~sock.r /\ DirectEnds("failed") /\ NoFault
       \/ sock.word = "none" /\ sock.r /\ DirectEnds("failed") /\ Fault
    /\ UNCHANGED <<hash, inc, files, disk, fetch, net, wire, setting, history>>

(***************************************************************************)
(* The direct path: R's thread                                             *)
(***************************************************************************)

(* reach, and the hello; or no address answers. *)
Reach ==
    /\ fetch = "reaching"
    /\ \/ serve = "listening" /\ fetch' = "first"
          /\ sock' = [Closed EXCEPT !.s = TRUE, !.r = TRUE]
       \/ fetch' = "asking" /\ UNCHANGED sock
    /\ UNCHANGED <<hash, ends, disk, serve, net, wire, setting, history, faults>>

(* No first piece within FIRST_PIECE, or the sender hung up. *)
NoFirstPiece ==
    /\ fetch = "first" /\ sock.pieces = <<>>
    /\ fetch' = "asking" /\ sock' = HangUpR(sock)
    /\ late' = (late \/ sock.s)
    /\ UNCHANGED <<hash, ends, disk, serve, net, wire, setting, calledOff, faults>>

direct_receiving ==
    /\ fetch = "first" /\ sock.pieces # <<>>
    /\ fetch' = "taking"
    /\ inc' = IF inc.stage = "none" THEN inc ELSE [inc EXCEPT !.direct = TRUE]
    /\ UNCHANGED <<hash, out, files, disk, serve, sock, net, wire, setting, history, faults>>

direct_piece ==
    /\ fetch = "taking" /\ sock.pieces # <<>>
    /\ LET rest == [sock EXCEPT !.pieces = Tail(@)]
       IN \/ /\ inc.stage # "moving"
             /\ fetch' = "off" /\ sock' = HangUpR(rest)
             /\ UNCHANGED <<inc, files>> /\ NoFault
          \/ /\ inc.stage = "moving"
             /\ \E t \in take_piece(Head(sock.pieces)) :
                 /\ IF t.ill THEN Fault ELSE NoFault
                 /\ inc' = t.inc /\ files' = t.files
                 /\ IF t.res = "more" THEN sock' = rest /\ UNCHANGED fetch
                    ELSE /\ fetch' = "off"
                         /\ sock' = HangUpR([rest EXCEPT
                                        !.word = IF t.res = "refused" THEN @ ELSE t.res])
    /\ UNCHANGED <<hash, out, disk, serve, net, wire, setting, history>>

direct_receive_failed ==
    /\ fetch = "taking" /\ sock.pieces = <<>>
    /\ IF sock.s THEN Fault ELSE NoFault
    /\ fetch' = "off" /\ sock' = HangUpR(sock)
    /\ IF Finished(inc) THEN UNCHANGED <<inc, files>> ELSE EndIncoming("failed")
    /\ UNCHANGED <<hash, out, disk, serve, net, wire, setting, history>>

(* A mistake: whatever Same Network Only says. *)
answer_anyway ==
    /\ fetch = "asking" /\ fetch' = "off"
    /\ wire' = IF inc.stage = "moving" /\ inc.received = 0 /\ ~inc.direct
               THEN Queued(wire, "R", <<Message("accept", inc.replyTo, link["R"])>>) ELSE wire
    /\ UNCHANGED <<hash, out, inc, files, disk, serve, sock, net, setting, history, faults>>
answer_through_relay ==
    /\ fetch = "asking" /\ fetch' = "off"
    /\ LET asks == inc.stage = "moving" /\ inc.received = 0 /\ ~inc.direct
       IN \/ ~asks /\ UNCHANGED <<inc, files, wire, faults>>
          \/ /\ asks /\ only["R"]
             /\ EndIncoming("failed")
             /\ \E msgs \in BestEffort(Message("cancel", inc.replyTo, 0)) :
                 wire' = Queued(wire, "R", msgs)
             /\ NoFault
          \/ /\ asks /\ ~only["R"]
             /\ wire' = Queued(wire, "R", <<Message("accept", inc.replyTo, link["R"])>>)
             /\ UNCHANGED <<inc, files>> /\ NoFault
          \/ asks /\ ~only["R"] /\ EndIncoming("failed") /\ UNCHANGED wire /\ Fault
    /\ UNCHANGED <<hash, out, disk, serve, sock, net, setting, history>>

(***************************************************************************)
(* The tick                                                                *)
(***************************************************************************)

(* Nothing can move any more. *)
Quiet ==
    /\ \A s \in Sides : wire[s] = <<>>
    /\ serve = "off" /\ fetch = "off"
    /\ Room(out) = 0 /\ inc.owed = "none"

StallEnd(s) ==
    /\ \/ s = "S" /\ out.stage = "moving" /\ out' = EndOut("failed") /\ UNCHANGED <<inc, files>>
       \/ s = "R" /\ inc.stage = "moving" /\ EndIncoming("failed") /\ UNCHANGED out
    /\ UNCHANGED <<disk, threads, net, wire, setting, history>>
(* A mistake: only the sender gives up. *)
TickStallSender(s) == s = "S" /\ Quiet /\ StallEnd(s) /\ NoFault
TickStall(s) == Quiet /\ StallEnd(s) /\ NoFault
TickStallEarly(s) == ~Quiet /\ StallEnd(s) /\ Fault

(* went_away: a waiting offer whose other end has been off its connection for GONE. *)
TickGone(s) ==
    /\ \/ /\ s = "S" /\ out.stage = "offered" /\ knows["S"] # out.offeredTo
          /\ out' = EndOut("failed") /\ UNCHANGED inc
       \/ /\ s = "R" /\ inc.stage = "offered" /\ knows["R"] # inc.replyTo
          /\ inc' = EndInc(inc, "failed") /\ UNCHANGED out
    /\ UNCHANGED <<files, disk, threads, net, wire, setting, history, faults>>

TickPump ==
    /\ Room(out) > 0
    /\ \E p \in pump(out) :
        p.out # out /\ out' = p.out /\ wire' = Queued(wire, "S", p.msgs)
    /\ UNCHANGED <<inc, files, disk, threads, net, setting, history, faults>>

(* A mistake: an acknowledgement the queue refused is forgotten. *)
TickAckForgotten ==
    /\ inc.owed # "none" /\ inc' = [inc EXCEPT !.owed = "none"]
    /\ UNCHANGED <<out, files, disk, threads, net, wire, setting, history, faults>>
TickAck ==
    /\ inc.owed # "none"
    /\ inc' = [inc EXCEPT !.owed = "none"]
    /\ wire' = Queued(wire, "R", <<[Message("ack", inc.replyTo, 0) EXCEPT
                                        !.at = inc.received, !.data = inc.owed]>>)
    /\ UNCHANGED <<out, files, disk, threads, net, setting, history, faults>>

(***************************************************************************)
(* Connections, and what goes wrong                                        *)
(***************************************************************************)

(* The connection ends; what was on its way may be lost. *)
Drop(s) ==
    /\ conn[s] # 0 /\ Fault
    /\ conn' = [conn EXCEPT ![s] = 0]
    /\ \E n \in 0..Len(wire[s]) : wire' = [wire EXCEPT ![s] = SubSeq(@, n + 1, Len(@))]
    /\ UNCHANGED <<ends, disk, threads, up, link, gen, knows, setting, history>>

disconnected(s) ==
    /\ conn[s] = 0 /\ up[s]
    /\ up' = [up EXCEPT ![s] = FALSE]
    /\ fail_all_live(s)
    /\ UNCHANGED <<disk, threads, conn, link, gen, knows, wire, setting, history, faults>>

connected(s) ==
    /\ ~up[s]
    /\ up' = [up EXCEPT ![s] = TRUE]
    /\ gen' = [gen EXCEPT ![s] = @ + 1]
    /\ conn' = [conn EXCEPT ![s] = gen'[s]]
    /\ link' = [link EXCEPT ![s] = gen'[s]]
    /\ fail_all_live(s)
    /\ UNCHANGED <<disk, threads, knows, wire, setting, history, faults>>

over_quota(s) ==
    /\ Fault
    /\ (s = "S" /\ ~Finished(out)) \/ (s = "R" /\ ~Finished(inc))
    /\ fail_all_live(s)
    /\ UNCHANGED <<disk, threads, net, wire, setting, history>>

(* The devices' table: the other device announces itself, or is taken for offline when any       *)
(* device leaves.                                                                                *)
Presence(s) ==
    /\ \/ knows[s] # conn[Other(s)] /\ knows' = [knows EXCEPT ![s] = conn[Other(s)]] /\ NoFault
       \/ knows[s] # 0 /\ knows' = [knows EXCEPT ![s] = 0] /\ Fault
    /\ UNCHANGED <<ends, disk, threads, conn, up, link, gen, wire, setting, history>>

(* The relay drops a message for its rate or a full buffer; the local network breaks; the file   *)
(* changes after it was hashed.                                                                  *)
GoesWrong ==
    /\ Fault
    /\ \/ \E s \in Sides :
            wire[s] # <<>> /\ wire' = Taken(s) /\ UNCHANGED <<sock, disk>>
       \/ /\ sock.s \/ sock.r
          /\ sock' = [sock EXCEPT !.s = FALSE, !.r = FALSE, !.pieces = <<>>]
          /\ UNCHANGED <<wire, disk>>
       \/ hash = "over" /\ disk = "whole" /\ disk' \in {"altered", "cut", "gone"}
          /\ UNCHANGED <<wire, sock>>
    /\ UNCHANGED <<hash, ends, serve, fetch, net, setting, history>>

Person ==
    \/ send \/ accept \/ decline
    \/ \E s \in Sides : cancel(s) \/ clear_finished(s) \/ set_same_network_only(s)
FromSender == on_offer \/ on_chunk \/ on_cancel("S") \/ Misaddressed("S")
FromReceiver ==
    on_answer("accept") \/ on_answer("decline") \/ on_ack \/ on_cancel("R") \/ Misaddressed("R")
Listener == StopListening \/ direct_begin \/ SendPiece \/ direct_progress \/ Confirmed
Fetcher ==
    \/ Reach \/ NoFirstPiece \/ direct_receiving \/ direct_piece \/ direct_receive_failed
    \/ answer_through_relay
Next ==
    \/ Person \/ offer \/ FromSender \/ FromReceiver \/ Listener \/ Fetcher
    \/ TickPump \/ TickAck
    \/ \E s \in Sides : TickStall(s) \/ TickStallEarly(s) \/ TickGone(s)
    \/ \E s \in Sides : Drop(s) \/ disconnected(s) \/ connected(s) \/ over_quota(s) \/ Presence(s)
    \/ GoesWrong

(* Threads run, the relay delivers what it has, connections come back, the tick keeps ticking.   *)
(* Nobody has to answer an offer, and nothing has to go wrong.                                   *)
Fairness ==
    /\ WF_vars(offer) /\ WF_vars(FromSender) /\ WF_vars(FromReceiver)
    /\ WF_vars(Listener) /\ WF_vars(Fetcher) /\ WF_vars(TickPump) /\ WF_vars(TickAck)
    /\ \A s \in Sides : WF_vars(TickStall(s)) /\ WF_vars(disconnected(s) \/ connected(s))
Spec == Init /\ [][Next]_vars /\ Fairness

(***************************************************************************)
(* Properties                                                              *)
(***************************************************************************)

(* The sender is told a file arrived only when the receiver has checked it against the offer and *)
(* kept it, by whichever way it went and whatever was lost on the way (transfer/mod.rs on_ack,   *)
(* direct_finished).                                                                             *)
SentMeansKept == out.stage = "done" => "kept" \in files

(* With Same Network Only on at either device from the offer on, no piece of the file is handed  *)
(* to the relay (offer, accept_as, answer_through_relay, on_answer).                             *)
PrivateStaysLocal ==
    (\E i \in DOMAIN wire["S"] : wire["S"][i].kind = "chunk") => wasOff = Sides

(* An accepted file that nothing happens to arrives: pieces, acknowledgements, a full queue and  *)
(* the fallback to the relay never leave the two ends waiting on each other until one gives up   *)
(* (pump, owed_ack, answer_through_relay).                                                       *)
NoNeedlessFailure ==
    faults = 0 /\ ~late /\ ~calledOff /\ sets = 0
        => out.stage # "failed" /\ inc.stage # "failed"

(* However it goes, an accepted transfer comes to an end at both devices: neither is left moving *)
(* for ever by a piece, an answer or an acknowledgement that never came (tick, STALL).           *)
Settles == []<>(out.stage # "moving" /\ inc.stage # "moving")

-----------------------------------------------------------------------------
(* What is said of the code and not kept by it: TLC refutes each of these  *)
(* (README, "Where the words and the code part").                          *)

(* What direct.rs says of a sender that is slow to start: "Should it run out, the relay carries  *)
(* the file instead: the sender drops the direct path when the answer through the relay reaches  *)
(* it".                                                                                          *)
LateFallsBack ==
    faults = 0 /\ ~calledOff /\ sets = 0
        => out.stage # "failed" /\ inc.stage # "failed"
=============================================================================
