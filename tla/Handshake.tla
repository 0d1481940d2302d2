------------------------------ MODULE Handshake ------------------------------
(***************************************************************************)
(* One Session of session.rs over its connections: hello, challenge, auth  *)
(* and auth_ok, then announcements, cards, messages and copies, to relays  *)
(* of which the oldest know neither announce nor msg and the next only     *)
(* announce.  The session outlives a connection; what it learned on one    *)
(* must not be taken to hold on the next, which may lead to another relay. *)
(*                                                                         *)
(* A connection carries frames in order each way and takes them with it    *)
(* when it ends.  The relay's side is what server.ts does with a device    *)
(* that keeps to the protocol; Odd is a relay that does not.               *)
(***************************************************************************)
EXTENDS Naturals, Sequences

CONSTANTS
    MaxDials,       \* bound: connections
    MaxSent,        \* bound: messages, copies and changes of name
    MaxNews,        \* bound: presence broadcasts and odd frames
    None

VARIABLES
    conn,       \* the number of the connection, which its nonce and conn_id stand for
    relay,      \* what is at the other end: at, knows and limit
    phase,      \* Session.phase, "gone" while there is no connection
    connId,     \* Session.conn_id
    limits,     \* Session.limits
    peers,      \* Session.peers
    probe,      \* announce_probe and msg_probe
    up,         \* frames on their way to the relay
    down,       \* frames on their way to the device
    sends,
    news

vars == <<conn, relay, phase, connId, limits, peers, probe, up, down, sends, news>>

learned == <<connId, limits, peers>>

(* The message types a relay can fail to know, as sets: every relay knows  *)
(* announce before it knows msg.                                           *)
Relays == {{}, {"announce"}, {"announce", "msg"}}
Untried == [announce |-> "untried", msg |-> "untried"]

(* Session::new                                                            *)
Init ==
    /\ conn = 0
    /\ relay = [at |-> "gone", knows |-> {}, limit |-> 1]
    /\ phase = "gone"
    /\ connId = None /\ limits = None /\ peers = 0
    /\ probe = Untried
    /\ up = <<>> /\ down = <<>>
    /\ sends = 0 /\ news = 0

(* hello_frame: the probes start again.  A mistake: the one of msg does    *)
(* not.                                                                    *)
HelloFrameKeepsProbe ==
    /\ phase' = "HelloSent"
    /\ probe' = [probe EXCEPT !.announce = "untried"]
    /\ up' = <<[kind |-> "hello"]>>

HelloFrame ==
    /\ phase' = "HelloSent"
    /\ probe' = Untried
    /\ up' = <<[kind |-> "hello"]>>

(* run_once: another connection, perhaps to another relay.                 *)
Dial ==
    /\ phase = "gone" /\ conn < MaxDials
    /\ conn' = conn + 1
    /\ \E knows \in Relays, limit \in 1 .. 2 :
        relay' = [at |-> "hello", knows |-> knows, limit |-> limit]
    /\ HelloFrame
    /\ down' = <<>>
    /\ UNCHANGED <<learned, sends, news>>

(* The connection ends, on an error of handle_frame or by itself.          *)
End ==
    /\ phase' = "gone"
    /\ relay' = [relay EXCEPT !.at = "gone"]
    /\ up' = <<>> /\ down' = <<>>
    /\ UNCHANGED <<conn, learned, probe>>

Drop == phase # "gone" /\ End /\ UNCHANGED <<sends, news>>
-----------------------------------------------------------------------------
(* announce_frame, card_frame and msg_frame, each with what is known of    *)
(* the probes p before it; what they send, and the probes after it.        *)
AnnounceFrame(p) ==
    IF p.announce = "refused" THEN [probe |-> p, frames |-> <<>>]
    ELSE [probe |-> [p EXCEPT !.announce = "sent"], frames |-> <<[kind |-> "announce"]>>]

CardFrame(p, id) ==
    IF p.msg = "refused" THEN [probe |-> p, frames |-> <<>>]
    ELSE [probe |-> [p EXCEPT !.msg = "sent"], frames |-> <<[kind |-> "msg", conn |-> id]>>]

(* push_announce, push_card                                                *)
Introduce(id) ==
    LET a == AnnounceFrame(probe)
        c == CardFrame(a.probe, id)
    IN  probe' = c.probe /\ up' = up \o a.frames \o c.frames

(* frames_for.  Before auth_ok nothing is sent, and no frame is kept.      *)
Sends ==
    /\ phase \in {"HelloSent", "Authenticating", "Ready"}
    /\ sends < MaxSent
    /\ sends' = sends + 1
    /\ UNCHANGED <<conn, relay, phase, learned, down, news>>

DeviceInfo ==
    /\ Sends
    /\ IF phase = "Ready" THEN Introduce(connId) ELSE UNCHANGED <<probe, up>>

(* A device message, which a card is one of; NotSent to a relay that does  *)
(* not forward them.                                                       *)
SendMessage ==
    /\ Sends
    /\ IF phase = "Ready"
       THEN LET m == CardFrame(probe, connId) IN probe' = m.probe /\ up' = up \o m.frames
       ELSE UNCHANGED <<probe, up>>

(* observe_local: skipped when it is over the relay's limit.               *)
Copy(size) ==
    /\ Sends
    /\ up' = IF phase = "Ready" /\ size <= limits THEN Append(up, [kind |-> "clip", size |-> size])
             ELSE up
    /\ UNCHANGED probe
-----------------------------------------------------------------------------
(* The relay reads the next frame.                                         *)
Answers(f) ==
    CASE f.kind = "hello" -> {[kind |-> "challenge", nonce |-> conn, limit |-> relay.limit]}
      [] f.kind = "auth"  ->
            {[kind |-> "auth_fail"]} \cup
            (IF f.nonce = conn THEN {[kind |-> "auth_ok", conn |-> conn, peers |-> 1]} ELSE {})
      [] f.kind \in {"announce", "msg"} /\ f.kind \notin relay.knows -> {[kind |-> "unknown_type"]}
      [] OTHER -> {None}

RelayReads ==
    /\ up # <<>>
    /\ up' = Tail(up)
    /\ \E answer \in Answers(Head(up)) :
        /\ down' = IF answer = None THEN down ELSE Append(down, answer)
        /\ relay' = IF answer # None /\ answer.kind = "auth_ok" THEN [relay EXCEPT !.at = "ready"]
                    ELSE relay
    /\ UNCHANGED <<conn, phase, learned, probe, sends, news>>

(* broadcastPresence, and frames no relay sends: a second challenge, a     *)
(* clip too early, a type only clients send, a type not known here.        *)
Broadcast ==
    /\ news < MaxNews /\ relay.at = "ready"
    /\ \E n \in 1 .. 2 : down' = Append(down, [kind |-> "presence", peers |-> n])
    /\ news' = news + 1
    /\ UNCHANGED <<conn, relay, phase, learned, probe, up, sends>>

Odd ==
    /\ news < MaxNews /\ relay.at # "gone"
    /\ \E k \in {"challenge", "clip", "hello", "newer type"} :
        down' = Append(down, IF k = "challenge" THEN [kind |-> k, nonce |-> 0, limit |-> 2]
                             ELSE [kind |-> k])
    /\ news' = news + 1
    /\ UNCHANGED <<conn, relay, phase, learned, probe, up, sends>>
-----------------------------------------------------------------------------
(* handle_frame, for the next frame.                                       *)
Hears(kind) == down # <<>> /\ Head(down).kind = kind

Took == down' = Tail(down) /\ UNCHANGED <<conn, relay, sends, news>>

(* on_challenge: only as the answer to hello.                              *)
OnChallenge ==
    /\ Hears("challenge") /\ phase = "HelloSent"
    /\ phase' = "Authenticating"
    /\ limits' = Head(down).limit
    /\ up' = Append(up, [kind |-> "auth", nonce |-> Head(down).nonce])
    /\ Took /\ UNCHANGED <<connId, peers, probe>>

OnAuthOk ==
    /\ Hears("auth_ok")
    /\ phase' = "Ready"
    /\ connId' = Head(down).conn
    /\ peers' = Head(down).peers
    /\ Introduce(Head(down).conn)
    /\ Took /\ UNCHANGED limits

OnPresence ==
    /\ Hears("presence")
    /\ peers' = Head(down).peers
    /\ IF peers' # peers /\ phase = "Ready" THEN Introduce(connId) ELSE UNCHANGED <<probe, up>>
    /\ Took /\ UNCHANGED <<phase, connId, limits>>

(* The answer of a relay from before msg, or from before announce; shown   *)
(* to the person when neither was sent.                                    *)
OnUnknownType ==
    /\ Hears("unknown_type")
    /\ probe' = CASE probe.msg = "sent"      -> [probe EXCEPT !.msg = "refused"]
                  [] probe.msg # "sent" /\ probe.announce = "sent"
                                             -> [probe EXCEPT !.announce = "refused"]
                  [] OTHER                   -> probe
    /\ Took /\ UNCHANGED <<phase, learned, up>>

Ignore ==
    /\ Hears("newer type") \/ (Hears("clip") /\ phase = "Ready")
    /\ Took /\ UNCHANGED <<phase, learned, probe, up>>

(* Whatever else comes ends the connection: auth_fail, and what is out of  *)
(* order.                                                                  *)
OutOfOrder ==
    /\ \/ Hears("auth_fail") \/ Hears("hello")
       \/ Hears("challenge") /\ phase # "HelloSent"
       \/ Hears("clip") /\ phase # "Ready"
    /\ End /\ UNCHANGED <<sends, news>>
-----------------------------------------------------------------------------
HandleFrame == OnChallenge \/ OnAuthOk \/ OnPresence \/ OnUnknownType \/ Ignore \/ OutOfOrder

Next ==
    \/ Dial \/ Drop
    \/ DeviceInfo \/ SendMessage \/ \E size \in 1 .. 2 : Copy(size)
    \/ RelayReads \/ Broadcast \/ Odd
    \/ HandleFrame

Spec == Init /\ [][Next]_vars
-----------------------------------------------------------------------------
(* What the session holds, and what it sends, is about the connection it   *)
(* is on, whatever relay the last one led to and wherever that one ended:  *)
(* a relay that forwards messages is not taken for one that does not, a    *)
(* card names this connection, and a copy is within this relay's limit     *)
(* unless the relay itself said otherwise (hello_frame, card_frame,        *)
(* observe_local).                                                         *)
AboutThisConnection ==
    /\ probe.msg = "refused" /\ phase # "gone" => "msg" \notin relay.knows
    /\ \A i \in DOMAIN up :
        /\ up[i].kind = "msg" => up[i].conn = conn
        /\ up[i].kind = "clip" /\ news = 0 => up[i].size <= relay.limit

-----------------------------------------------------------------------------
(* What is said of the code and not kept by it: TLC refutes it (README,    *)
(* "Where the words and the code part").                                   *)

(* "The first answer after a `msg` went out settles that this relay does   *)
(* not forward messages", and announce_probe tells "whether this           *)
(* connection's relay forwards announcements".                             *)
AnnouncesWhereForwarded ==
    probe.announce = "refused" /\ phase # "gone" => "announce" \notin relay.knows
=============================================================================
