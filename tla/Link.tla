-------------------------------- MODULE Link --------------------------------
(***************************************************************************)
(* How a device's copies and messages reach the relay over connections     *)
(* that fail (asli-net/src/client.rs: run_once, converse, send_local,      *)
(* coalesce).  The relay answers a WebSocket ping only after it has read   *)
(* every frame before it, so the answer to the ping sent right after a     *)
(* copy confirms the copy.  A copy the connection ended without confirming *)
(* is kept, and is the first thing sent on the next one.                   *)
(*                                                                         *)
(* A connection can end cleanly, vanish without a word, fail in the middle *)
(* of a send, or be abandoned by the connection loop because the relay's   *)
(* address changed.                                                        *)
(***************************************************************************)
EXTENDS Naturals, Sequences, SequencesExt, FiniteSets

CONSTANTS
    MaxCopies,      \* bound: copies the person makes
    MaxMessages,    \* bound: device to device messages
    MaxTicks,       \* bound: periodic pings in one connection
    MaxSkips,       \* bound: copies that are not to be sent
    MaxDrops,       \* bound: connections that end or vanish
    MaxSendErrors,  \* bound: connections that fail during a send
    MaxReconnects,  \* bound: connections abandoned for another relay
    MaxRefusals     \* bound: frames the relay refuses for their rate

ASSUME LinkAssumption ==
    {MaxCopies, MaxMessages, MaxTicks, MaxSkips, MaxDrops, MaxSendErrors, MaxReconnects,
     MaxRefusals} \subseteq Nat

VARIABLES
    conn,         \* down, hello, ready
    live,         \* the relay still has the other end
    held,         \* hold_until lies ahead
    queue,        \* local_rx
    batch,        \* what send_local still has to send
    pinging,      \* the frames of the batch's first event are out, its ping is not
    unconfirmed,  \* the copy to keep if the connection ends; 0 for none
    resend,       \* session.resend; 0 for none
    pings, copy, tokens, \* Confirm
    out, in,      \* frames on their way to the relay and back
    ticks,
    made, messages, skipped, \* what the device has originated, and copies not to be sent
    relayed,      \* history: the newest copy the relay has forwarded
    sent,         \* tokens reported as Sent
    drops, sendErrors, reconnects, refusals

confirm == <<pings, copy, tokens>>
origin == <<made, messages, skipped>>
faults == <<drops, sendErrors, reconnects, refusals>>
vars == <<conn, live, held, queue, batch, pinging, unconfirmed, resend, pings, copy, tokens, out,
          in, ticks, made, messages, skipped, relayed, sent, drops, sendErrors, reconnects,
          refusals>>

IsCopy(e) == e[1] = "copy"

(* What the connection keeps for itself is new with each one. *)
FreshConnection ==
    /\ live' = TRUE
    /\ held' = FALSE
    /\ batch' = <<>> /\ pinging' = FALSE
    /\ unconfirmed' = 0
    /\ pings' = 0 /\ copy' = 0 /\ tokens' = <<>>
    /\ out' = <<>> /\ in' = <<>>
    /\ ticks' = 0

Init ==
    /\ conn = "down" /\ live = TRUE /\ held = FALSE
    /\ queue = <<>> /\ batch = <<>> /\ pinging = FALSE
    /\ unconfirmed = 0 /\ resend = 0
    /\ pings = 0 /\ copy = 0 /\ tokens = <<>>
    /\ out = <<>> /\ in = <<>> /\ ticks = 0
    /\ made = 0 /\ messages = 0 /\ skipped = {}
    /\ relayed = 0 /\ sent = {}
    /\ drops = 0 /\ sendErrors = 0 /\ reconnects = 0 /\ refusals = 0

(***************************************************************************)
(* What the device originates                                              *)
(***************************************************************************)

MakeCopy ==
    /\ made < MaxCopies
    /\ made' = made + 1
    /\ queue' = Append(queue, <<"copy", made'>>)
    /\ UNCHANGED <<conn, live, held, batch, pinging, unconfirmed, resend, confirm, out, in, ticks,
                   messages, skipped, relayed, sent, faults>>

MakeMessage ==
    /\ messages < MaxMessages
    /\ messages' = messages + 1
    /\ queue' = Append(queue, <<"msg", messages'>>)
    /\ UNCHANGED <<conn, live, held, batch, pinging, unconfirmed, resend, confirm, out, in, ticks,
                   made, skipped, relayed, sent, faults>>

(***************************************************************************)
(* The connection                                                          *)
(***************************************************************************)

(* run_once, as far as hello *)
Connect ==
    /\ conn = "down"
    /\ conn' = "hello"
    /\ FreshConnection
    /\ UNCHANGED <<queue, resend, origin, relayed, sent, faults>>

(* The handshake completes. *)
Ready ==
    /\ conn = "hello" /\ live
    /\ conn' = "ready"
    /\ UNCHANGED <<live, held, queue, batch, pinging, unconfirmed, resend, confirm, out, in, ticks,
                   origin, relayed, sent, faults>>

AtSelect == conn = "ready" /\ batch = <<>>

(* The top of converse's loop: a copy the last connection lost goes first. *)
TakeResend ==
    /\ AtSelect /\ ~held
    /\ unconfirmed = 0 /\ resend # 0
    /\ batch' = <<<<"copy", resend>>>>
    /\ resend' = 0
    /\ UNCHANGED <<conn, live, held, queue, pinging, unconfirmed, confirm, out, in, ticks, origin,
                   relayed, sent, faults>>

(* A mistake: the oldest of the copies is kept. *)
CoalesceOldest(q) ==
    LET copies == SelectSeq(q, IsCopy)
    IN  SelectSeq(q, LAMBDA e : ~IsCopy(e)) \o (IF copies = <<>> THEN <<>> ELSE <<Head(copies)>>)

(* coalesce: every message, in order, then the newest copy *)
Coalesce(q) ==
    LET copies == SelectSeq(q, IsCopy)
    IN  SelectSeq(q, LAMBDA e : ~IsCopy(e)) \o (IF copies = <<>> THEN <<>> ELSE <<Last(copies)>>)

(* A mistake: what is queued does not wait for the copy to be sent again. *)
TakeLocalFirst ==
    /\ AtSelect /\ ~held
    /\ queue # <<>>
    /\ batch' = Coalesce(queue)
    /\ queue' = <<>>
    /\ UNCHANGED <<conn, live, held, pinging, unconfirmed, resend, confirm, out, in, ticks, origin,
                   relayed, sent, faults>>

TakeLocal ==
    /\ AtSelect /\ ~held
    /\ ~(unconfirmed = 0 /\ resend # 0)
    /\ queue # <<>>
    /\ batch' = Coalesce(queue)
    /\ queue' = <<>>
    /\ UNCHANGED <<conn, live, held, pinging, unconfirmed, resend, confirm, out, in, ticks, origin,
                   relayed, sent, faults>>

Sending == conn = "ready" /\ batch # <<>>

(* send_local: the frames of the first event.  On a connection that has    *)
(* vanished they are written all the same.                                 *)
SendFrames ==
    /\ Sending /\ ~pinging
    /\ out' = IF live THEN Append(out, Head(batch)) ELSE out
    /\ pinging' = TRUE
    /\ UNCHANGED <<conn, live, held, queue, batch, unconfirmed, resend, confirm, in, ticks, origin,
                   relayed, sent, faults>>

(* frames_for finds nothing to send: an echo, empty, or over the limit.    *)
SkipCopy ==
    /\ Sending /\ ~pinging
    /\ IsCopy(Head(batch))
    /\ Cardinality(skipped) < MaxSkips
    /\ skipped' = skipped \cup {Head(batch)[2]}
    /\ batch' = Tail(batch)
    /\ UNCHANGED <<conn, live, held, queue, pinging, unconfirmed, resend, confirm, out, in, ticks,
                   made, messages, relayed, sent, faults>>

(* and then the ping that asks the relay to confirm it *)
SendPing ==
    /\ Sending /\ pinging
    /\ pinging' = FALSE
    /\ batch' = Tail(batch)
    /\ pings' = pings + 1
    /\ out' = IF live THEN Append(out, <<"ping", pings'>>) ELSE out
    /\ IF IsCopy(Head(batch))
       THEN copy' = pings' /\ unconfirmed' = Head(batch)[2] /\ UNCHANGED tokens
       ELSE tokens' = Append(tokens, <<pings', Head(batch)[2]>>) /\ UNCHANGED <<copy, unconfirmed>>
    /\ UNCHANGED <<conn, live, held, queue, resend, in, ticks, origin, relayed, sent, faults>>

(* The answer to a ping: it confirms the copy sent just before that ping,  *)
(* and every message sent before it.                                       *)
HearPong ==
    LET number == Head(in)[2]
    IN  /\ AtSelect
        /\ in # <<>> /\ Head(in)[1] = "pong"
        /\ in' = Tail(in)
        /\ IF copy = number
           THEN copy' = 0 /\ unconfirmed' = 0
           ELSE UNCHANGED <<copy, unconfirmed>>
        /\ sent' = sent \cup {tokens[i][2] : i \in {k \in DOMAIN tokens : tokens[k][1] <= number}}
        /\ tokens' = SelectSeq(tokens, LAMBDA t : t[1] > number)
        /\ UNCHANGED <<conn, live, held, queue, batch, pinging, resend, pings, out, ticks, origin,
                       relayed, faults>>

(* apply_action, RelayError: asked to slow down *)
HearSlowDown ==
    /\ AtSelect
    /\ in # <<>> /\ Head(in)[1] = "slow_down"
    /\ in' = Tail(in)
    /\ held' = TRUE
    /\ UNCHANGED <<conn, live, queue, batch, pinging, unconfirmed, resend, confirm, out, ticks,
                   origin, relayed, sent, faults>>

HoldEnds ==
    /\ AtSelect
    /\ held
    /\ held' = FALSE
    /\ UNCHANGED <<conn, live, queue, batch, pinging, unconfirmed, resend, confirm, out, in, ticks,
                   origin, relayed, sent, faults>>

PingTick ==
    /\ AtSelect
    /\ ticks < MaxTicks
    /\ ticks' = ticks + 1
    /\ pings' = pings + 1
    /\ out' = IF live THEN Append(out, <<"ping", pings'>>) ELSE out
    /\ UNCHANGED <<conn, live, held, queue, batch, pinging, unconfirmed, resend, copy, tokens, in,
                   origin, relayed, sent, faults>>

(***************************************************************************)
(* The relay: frames are read in the order they were written.              *)
(***************************************************************************)

RelayReads ==
    /\ live /\ out # <<>>
    /\ out' = Tail(out)
    /\ LET frame == Head(out)
       IN  /\ in' = IF frame[1] = "ping" THEN Append(in, <<"pong", frame[2]>>) ELSE in
           /\ relayed' = IF IsCopy(frame) THEN frame[2] ELSE relayed
    /\ UNCHANGED <<conn, live, held, queue, batch, pinging, unconfirmed, resend, confirm, ticks,
                   origin, sent, faults>>

(* A frame over the rate is dropped, and the device is told how long to    *)
(* wait.                                                                   *)
RelayRefuses ==
    /\ live /\ out # <<>> /\ Head(out)[1] # "ping"
    /\ refusals < MaxRefusals
    /\ refusals' = refusals + 1
    /\ out' = Tail(out)
    /\ in' = Append(in, <<"slow_down", 0>>)
    /\ UNCHANGED <<conn, live, held, queue, batch, pinging, unconfirmed, resend, confirm, ticks,
                   origin, relayed, sent, drops, sendErrors, reconnects>>

(***************************************************************************)
(* The end of a connection                                                 *)
(***************************************************************************)

(* run_once after converse: the unconfirmed copy is kept. *)
Returned ==
    /\ conn' = "down"
    /\ resend' = IF unconfirmed # 0 THEN unconfirmed ELSE resend
    /\ FreshConnection

(* A close frame, the end of the stream, or an error while reading *)
Closed ==
    /\ conn # "down" /\ batch = <<>> /\ live
    /\ drops < MaxDrops
    /\ drops' = drops + 1
    /\ Returned
    /\ UNCHANGED <<queue, origin, relayed, sent, sendErrors, reconnects, refusals>>

(* The other end is gone, with everything under way. *)
Vanish ==
    /\ conn # "down" /\ live
    /\ drops < MaxDrops
    /\ drops' = drops + 1
    /\ live' = FALSE
    /\ out' = <<>> /\ in' = <<>>
    /\ UNCHANGED <<conn, held, queue, batch, pinging, unconfirmed, resend, confirm, ticks, origin,
                   relayed, sent, sendErrors, reconnects, refusals>>

(* SILENCE_LIMIT *)
Silence ==
    /\ conn # "down" /\ batch = <<>> /\ ~live
    /\ Returned
    /\ UNCHANGED <<queue, origin, relayed, sent, faults>>

(* socket.send fails inside send_local, before the copy is noted. *)
SendError ==
    /\ Sending
    /\ sendErrors < MaxSendErrors
    /\ sendErrors' = sendErrors + 1
    /\ Returned
    /\ UNCHANGED <<queue, origin, relayed, sent, drops, reconnects, refusals>>

(* run_connection_loop's select drops the future of run_once. *)
Abandon ==
    /\ conn # "down"
    /\ reconnects < MaxReconnects
    /\ reconnects' = reconnects + 1
    /\ conn' = "down"
    /\ FreshConnection
    /\ UNCHANGED <<queue, resend, origin, relayed, sent, drops, sendErrors, refusals>>

Client ==
    \/ Connect \/ Ready \/ TakeResend \/ TakeLocal \/ SendFrames \/ SendPing \/ HearPong
    \/ HearSlowDown \/ HoldEnds \/ Silence

Next ==
    \/ Client \/ MakeCopy \/ MakeMessage \/ SkipCopy \/ PingTick \/ RelayReads \/ RelayRefuses
    \/ Closed \/ Vanish \/ SendError \/ Abandon

(* The task runs, its timers fire, and a relay that is there reads.        *)
Fairness == WF_vars(Client) /\ WF_vars(RelayReads)

Spec == Init /\ [][Next]_vars /\ Fairness

-----------------------------------------------------------------------------
(* The copies of a device reach the relay in the order they were made: a   *)
(* copy sent again never overtakes a newer one, whatever ends the          *)
(* connections between them (take_resend, coalesce), as long as no send    *)
(* fails halfway.                                                          *)
CopiesInOrder == [][sendErrors = 0 => relayed' >= relayed]_vars

(* A send failed, a connection was abandoned, or the relay refused a       *)
(* frame: the three ways a copy is lost.                                   *)
Excused == sendErrors + reconnects + refusals > 0

(* Once connections stop failing, every copy or a newer one reaches the    *)
(* relay, unless that newer one is itself not to be sent.                  *)
NewestCopyArrives ==
    \A n \in 1..MaxCopies :
        made >= n ~> \/ relayed >= n
                     \/ \E k \in skipped : k >= n
                     \/ Excused

-----------------------------------------------------------------------------
(* What is said of the code and not kept by it: TLC refutes each of these  *)
(* (README, "Where the words and the code part").                          *)

(* "a newer copy replaces it on every device's clipboard anyway, so once   *)
(* one is sent the older no longer matters" (converse): an older copy is   *)
(* never forwarded after a newer one.                                      *)
NoOlderCopyAfter == [][relayed' >= relayed]_vars

InBatch(n) == \E i \in DOMAIN batch : batch[i] = <<"copy", n>>
Queued(n) == \E i \in DOMAIN queue : queue[i] = <<"copy", n>>

(* "However the connection ended, a copy the relay never confirmed goes    *)
(* out again on the next one" (run_once): the newest copy has been         *)
(* forwarded, or the device still holds it.                                *)
UnconfirmedCopyKept ==
    made > 0 /\ made \notin skipped =>
        relayed = made \/ Queued(made) \/ InBatch(made) \/ unconfirmed = made \/ resend = made
=============================================================================
