--------------------------- MODULE TransferProofs ---------------------------
(***************************************************************************)
(* For a file of any number of pieces, any window and any number of faults *)
(* and changes of the setting: a sender that was told the file arrived is  *)
(* right, and with Same Network Only on at either end from the offer on no *)
(* piece goes through the relay; and while nothing goes wrong and nothing  *)
(* is called off, neither end fails.                                       *)
(***************************************************************************)
EXTENDS Transfer, SequenceTheorems, TLAPS

Messages ==
    [kind : {"offer", "accept", "decline", "cancel", "chunk", "ack"}, to : Nat, reply : Nat,
     at : Nat, data : {"none", "direct", "whole", "altered", "cut", "gone", "more", "done", "corrupt"}]
Outs ==
    [stage : {"none", "offered", "moving", "done", "failed", "declined", "cancelled"}, to : Nat,
     next : Nat, acked : Nat, direct : BOOLEAN, offeredTo : Nat]
Incs ==
    [stage : {"none", "offered", "moving", "done", "failed", "declined", "cancelled"},
     received : Nat, direct : BOOLEAN, part : BOOLEAN, good : BOOLEAN,
     owed : {"none", "more", "done", "corrupt"}, replyTo : Nat, reachable : BOOLEAN]
Socks ==
    [s : BOOLEAN, r : BOOLEAN, sent : Nat, pieces : Seq({"whole", "altered"}),
     word : {"none", "done", "corrupt"}]

Types ==
    /\ hash \in {"idle", "reading", "called off", "over"}
    /\ out \in Outs /\ inc \in Incs /\ files \subseteq {"part", "kept"}
    /\ disk \in {"whole", "altered", "cut", "gone"}
    /\ sock \in Socks
    /\ conn \in [Sides -> Nat] /\ up \in [Sides -> BOOLEAN]
    /\ link \in [Sides -> Nat] /\ gen \in [Sides -> Nat] /\ knows \in [Sides -> Nat]
    /\ wire \in [Sides -> Seq(Messages)]
    /\ only \in [Sides -> BOOLEAN] /\ wasOff \subseteq Sides

(* Whatever says that the file was kept, on its way to the sender or about *)
(* to be said, is right about it.                                          *)
Reported(o, i, k, f) ==
    o.stage = "done" \/ i.owed = "done" \/ k.word = "done" => "kept" \in f

(* What the receiver may have sent: a word of success is right, and an     *)
(* acceptance through the relay needed the setting off.  What the sender   *)
(* may have sent: a piece needed it off at both ends.                      *)
Answers(f, w) ==
    {m \in Messages : /\ m.kind = "ack" => m.data \in {"more", "done", "corrupt"}
                      /\ m.kind = "ack" /\ m.data = "done" => "kept" \in f
                      /\ m.kind = "accept" => "R" \in w}
Requests(w) == {m \in Messages : m.kind = "chunk" => w = Sides}
Carried(v, f, w) == v["S"] \in Seq(Requests(w)) /\ v["R"] \in Seq(Answers(f, w))

(* Before the offer there is nothing at either end or in between.          *)
Unoffered == hash # "over" => /\ out.stage = "none" /\ out.to = 0 /\ inc = NoInc
                              /\ wire["S"] = <<>> /\ wire["R"] = <<>>

(* Once there is an offer, wasOff has the ends where the setting is off;   *)
(* and the sender has an address for pieces only with both in it.          *)
Noted ==
    out.stage # "none" \/ inc.stage # "none" \/ wire["S"] # <<>>
        => {s \in Sides : ~only[s]} \subseteq wasOff
Addressed == out.to # 0 => wasOff = Sides

IInv ==
    /\ Types
    /\ Reported(out, inc, sock, files)
    /\ Carried(wire, files, wasOff)
    /\ Unoffered /\ Noted /\ Addressed

-----------------------------------------------------------------------------
(* What the operators of the model give.                                   *)

LEMMA SeqGrows == ASSUME NEW A, NEW B, A \subseteq B PROVE Seq(A) \subseteq Seq(B)
OBVIOUS

(* What was right to send stays right when more is kept or switched off.   *)
LEMMA CarriedStays ==
    ASSUME NEW v, NEW f, NEW g, NEW w, NEW x, Carried(v, f, w),
           "kept" \in f => "kept" \in g, w \subseteq x, x \subseteq Sides
    PROVE  Carried(v, g, x)
<1>1. Requests(w) \subseteq Requests(x) /\ Answers(f, w) \subseteq Answers(g, x)
    BY DEF Requests, Answers
<1>2. QED
    BY <1>1, SeqGrows DEF Carried

Right(s, f, w) == IF s = "S" THEN Requests(w) ELSE Answers(f, w)

(* A queue that takes messages that are right to send. *)
LEMMA QueuedRight ==
    ASSUME NEW v \in [Sides -> Seq(Messages)], NEW f, NEW w, Carried(v, f, w),
           NEW s \in Sides, NEW msgs \in Seq(Right(s, f, w))
    PROVE  /\ Queued(v, s, msgs) \in [Sides -> Seq(Messages)]
           /\ Carried(Queued(v, s, msgs), f, w)
           /\ \A t \in Sides \ {s} : Queued(v, s, msgs)[t] = v[t]
           /\ msgs = <<>> => Queued(v, s, msgs) = v
<1>1. Right(s, f, w) \subseteq Messages
    BY DEF Right, Requests, Answers
<1>2. msgs \in Seq(Messages)
    BY <1>1, SeqGrows
<1>3. Queued(v, s, msgs) = [v EXCEPT ![s] = v[s] \o msgs]
    BY DEF Queued
<1>4. v[s] \in Seq(Right(s, f, w))
    BY DEF Carried, Right, Sides
<1>5. v[s] \o msgs \in Seq(Messages) /\ v[s] \o msgs \in Seq(Right(s, f, w))
    BY <1>2, <1>4
<1>6. Carried(Queued(v, s, msgs), f, w)
    BY <1>3, <1>5 DEF Carried, Right, Sides
<1>7. msgs = <<>> => v[s] \o msgs = v[s]
    BY <1>2
<1>8. QED
    BY <1>3, <1>5, <1>6, <1>7

(* The queues once the head of one is taken off. *)
LEMMA TakenRight ==
    ASSUME NEW f, NEW w, wire \in [Sides -> Seq(Messages)], Carried(wire, f, w),
           NEW s \in Sides, wire[s] # <<>>
    PROVE  /\ Taken(s) \in [Sides -> Seq(Messages)]
           /\ Carried(Taken(s), f, w)
           /\ Arriving(s) \in Right(s, f, w) /\ Arriving(s) \in Messages
           /\ \A t \in Sides \ {s} : Taken(s)[t] = wire[t]
<1>1. wire[s] \in Seq(Right(s, f, w)) /\ wire[s] \in Seq(Messages)
    BY DEF Carried, Right, Sides
<1>2. /\ Head(wire[s]) \in Right(s, f, w) /\ Tail(wire[s]) \in Seq(Right(s, f, w))
      /\ Head(wire[s]) \in Messages /\ Tail(wire[s]) \in Seq(Messages)
    BY <1>1
<1>3. Taken(s) = [wire EXCEPT ![s] = Tail(wire[s])]
    BY DEF Taken
<1>4. Carried(Taken(s), f, w)
    BY <1>2, <1>3 DEF Carried, Right, Sides
<1>5. QED
    BY <1>2, <1>3, <1>4 DEF Arriving

LEMMA RoomIsNat ==
    ASSUME NEW o \in Outs
    PROVE  Room(o) \in Nat /\ (o.to = 0 \/ o.stage # "moving" => Room(o) = 0)
BY TransferAssumption DEF Outs, Room

LEMMA EndOutIs ==
    ASSUME NEW st \in {"done", "failed", "declined", "cancelled"}
    PROVE  /\ EndOut(st) \in Outs /\ EndOut(st).stage = st /\ EndOut(st).to = 0
BY DEF EndOut, NoOut, Outs

(* pump leaves the address of the pieces alone, or ends the transfer, and  *)
(* sends pieces only when it has one.                                      *)
LEMMA PumpSends ==
    ASSUME NEW o \in Outs, NEW p \in pump(o), NEW w, NEW f, o.to # 0 => w = Sides,
           disk \in {"whole", "altered", "cut", "gone"}
    PROVE  /\ p.out \in Outs
           /\ p.out.stage \in {o.stage, "failed"} /\ p.out.to \in {0, o.to}
           /\ p.msgs \in Seq(Right("S", f, w))
           /\ p.msgs # <<>> => p.out.stage # "none"
<1>1. CASE p = [out |-> EndOut("failed"), msgs |-> <<>>]
    <2>1. p.out = EndOut("failed") /\ p.msgs = <<>>
        BY <1>1
    <2>2. p.msgs \in Seq(Right("S", f, w))
        BY <2>1
    <2>3. QED
        BY <2>1, <2>2, EndOutIs
<1>2. CASE p # [out |-> EndOut("failed"), msgs |-> <<>>]
    <2>1. PICK k \in 0..Room(o) : p = [out |-> [o EXCEPT !.next = @ + k],
                                       msgs |-> [i \in 1..k |-> Piece(o, i)]]
        BY <1>2, RoomIsNat DEF pump
    <2>2. k \in Nat /\ (k # 0 => o.to # 0 /\ o.stage = "moving")
        BY RoomIsNat
    <2>3. \A i \in 1..k : Piece(o, i) \in Messages
        <3>1. o.next \in Nat /\ o.to \in Nat
            BY DEF Outs
        <3>2. SUFFICES ASSUME NEW i \in 1..k PROVE Piece(o, i) \in Messages
            OBVIOUS
        <3>3. o.next + i - 1 \in Nat
            BY <2>2, <3>1
        <3>4. Message("chunk", o.to, 0) \in Messages
            BY <3>1 DEF Messages, Message
        <3>5. QED
            BY <3>3, <3>4 DEF Messages, Piece
    <2>4. \A i \in 1..k : Piece(o, i) \in Right("S", f, w)
        BY <2>2, <2>3 DEF Right, Requests
    <2>5. p.msgs \in Seq(Right("S", f, w))
        BY <2>1, <2>2, <2>4
    <2>6. k = 0 => p.msgs = <<>>
        BY <2>1
    <2>7. p.out = [o EXCEPT !.next = o.next + k]
        BY <2>1
    <2>8. QED
        BY <2>2, <2>5, <2>6, <2>7 DEF Outs
<1>3. QED
    BY <1>1, <1>2

LEMMA EndIncIs ==
    ASSUME NEW i \in Incs, NEW st \in {"failed", "declined", "cancelled"}
    PROVE  /\ EndInc(i, st) \in Incs /\ EndInc(i, st).stage = st
           /\ EndInc(i, st).owed = i.owed
BY DEF EndInc, NoInc, Incs

LEMMA Counts ==
    ASSUME NEW i \in Incs, NEW n \in Nat, NEW g \in BOOLEAN
    PROVE  LET j == [i EXCEPT !.received = n, !.good = g]
           IN j \in Incs /\ j.stage = i.stage /\ j.owed = i.owed
BY DEF Incs

LEMMA HangUps ==
    ASSUME NEW k \in Socks
    PROVE  /\ HangUpS(k) \in Socks /\ HangUpS(k).word \in {k.word, "none"}
           /\ HangUpR(k) \in Socks /\ HangUpR(k).word \in {k.word, "none"}
<1>1. Closed \in Socks /\ Closed.word = "none"
    BY DEF Closed, Socks
<1>2. [k EXCEPT !.s = FALSE] \in Socks /\ [k EXCEPT !.s = FALSE].word = k.word
    BY DEF Socks
<1>3. [k EXCEPT !.r = FALSE, !.pieces = <<>>] \in Socks
      /\ [k EXCEPT !.r = FALSE, !.pieces = <<>>].word = k.word
    <2>1. <<>> \in Seq({"whole", "altered"})
        OBVIOUS
    <2>2. QED
        BY <2>1 DEF Socks
<1>4. QED
    BY <1>1, <1>2, <1>3 DEF HangUpS, HangUpR

(* A piece taken is answered with success only once the file is kept.      *)
LEMMA TookIs ==
    ASSUME inc \in Incs, inc.stage = "moving", files \subseteq {"part", "kept"}, NEW data,
           NEW t \in take_piece(data)
    PROVE  /\ t.res \in {"refused", "more", "corrupt", "done"}
           /\ t.inc \in Incs /\ t.inc.stage # "none" /\ t.inc.owed = inc.owed
           /\ t.files \subseteq {"part", "kept"}
           /\ "kept" \in files => "kept" \in t.files
           /\ t.res = "done" => "kept" \in t.files
<1> DEFINE i == [inc EXCEPT !.received = @ + 1, !.good = @ /\ data = "whole"]
           kept == [i EXCEPT !.stage = "done", !.part = FALSE]
           spoiled == [i EXCEPT !.stage = "failed", !.part = FALSE]
           ended == EndInc(inc, "failed")
<1>1. ended \in Incs /\ ended.stage = "failed" /\ ended.owed = inc.owed
    BY EndIncIs
<1>2. i \in Incs /\ i.stage = "moving" /\ i.owed = inc.owed
    <2>1. inc.received + 1 \in Nat
        BY DEF Incs
    <2>2. PICK g \in BOOLEAN : g = (inc.good /\ data = "whole")
        OBVIOUS
    <2>3. i = [inc EXCEPT !.received = inc.received + 1, !.good = g]
        BY <2>2, Zenon
    <2> HIDE DEF i
    <2>4. QED
        BY <2>1, <2>3, Counts
<1> HIDE DEF i
<1>3. kept \in Incs /\ kept.stage = "done" /\ kept.owed = inc.owed
    BY <1>2 DEF Incs
<1>4. spoiled \in Incs /\ spoiled.stage = "failed" /\ spoiled.owed = inc.owed
    BY <1>2 DEF Incs
<1>5. \/ t = Took("refused", ended, Discarded, FALSE)
      \/ t = Took("refused", ended, Discarded, TRUE)
      \/ t = Took("more", i, files, FALSE)
      \/ t = Took("corrupt", spoiled, files \ {"part"}, FALSE)
      \/ t = Took("done", kept, (files \ {"part"}) \cup {"kept"}, FALSE)
      \/ t = Took("corrupt", spoiled, files \ {"part"}, TRUE)
    <2> HIDE DEF ended
    <2>1. ASSUME NEW r, NEW f, NEW b \in BOOLEAN, NEW c \in BOOLEAN
          PROVE  [Took(r, ended, f, b) EXCEPT !.ill = c] = Took(r, ended, f, c)
        BY SMT DEF Took
    <2>2. QED
        BY <2>1 DEF take_piece, ended, i
<1> HIDE DEF kept, spoiled, ended
<1>6. ASSUME NEW r, NEW j, NEW f, NEW b, t = Took(r, j, f, b)
      PROVE  t.res = r /\ t.inc = j /\ t.files = f
    BY <1>6 DEF Took
<1>7. Discarded \in {files, files \ {"part"}}
    BY DEF Discarded
<1> DEFINE rest == files \ {"part"}
           whole == rest \cup {"kept"}
<1>8. /\ rest \subseteq {"part", "kept"} /\ whole \subseteq {"part", "kept"}
      /\ "kept" \in whole /\ ("kept" \in files => "kept" \in rest)
    OBVIOUS
<1> HIDE DEF rest, whole
<1>9. CASE \E b \in BOOLEAN : t = Took("refused", ended, Discarded, b)
    BY <1>1, <1>6, <1>7, <1>9
<1>10. CASE t = Took("more", i, files, FALSE)
    BY <1>2, <1>6, <1>10
<1>11. CASE \E b \in BOOLEAN : t = Took("corrupt", spoiled, files \ {"part"}, b)
    <2>1. PICK b : t = Took("corrupt", spoiled, rest, b)
        BY <1>11 DEF rest
    <2>2. t.res = "corrupt" /\ t.inc = spoiled /\ t.files = rest
        BY <1>6, <2>1
    <2>3. QED
        BY <1>4, <1>8, <2>2
<1>12. CASE t = Took("done", kept, whole, FALSE)
    <2>1. t.res = "done" /\ t.inc = kept /\ t.files = whole
        BY <1>6, <1>12
    <2>2. QED
        BY <1>3, <1>8, <2>1
<1>13. QED
    BY <1>5, <1>9, <1>10, <1>11, <1>12 DEF whole, rest

LEMMA MessageIs ==
    ASSUME NEW kind \in {"offer", "accept", "decline", "cancel", "chunk", "ack"},
           NEW to \in Nat, NEW reply \in Nat
    PROVE  /\ Message(kind, to, reply) \in Messages
           /\ Message(kind, to, reply).kind = kind /\ Message(kind, to, reply).data = "none"
BY DEF Message, Messages

(* What either end may always send. *)
LEMMA PlainRight ==
    ASSUME NEW kind \in {"offer", "decline", "cancel"}, NEW to \in Nat, NEW reply \in Nat,
           NEW s, NEW f, NEW w
    PROVE  Message(kind, to, reply) \in Right(s, f, w)
BY MessageIs DEF Right, Requests, Answers

LEMMA BestEffortRight ==
    ASSUME NEW X, NEW m \in X, NEW msgs \in BestEffort(m)
    PROVE  msgs \in Seq(X)
<1>1. <<>> \in Seq(X) /\ <<m>> \in Seq(X)
    OBVIOUS
<1>2. QED
    BY <1>1, Zenon DEF BestEffort

-----------------------------------------------------------------------------
(* The steps.                                                              *)

Begun == out.stage # "none" \/ inc.stage # "none" \/ wire["S"] # <<>>

(* Enough for a step that neither makes the offer nor changes the setting. *)
LEMMA Follows ==
    ASSUME IInv, hash' = hash, only' = only, wasOff' = wasOff,
           Types', Reported(out', inc', sock', files'), Carried(wire', files', wasOff),
           Begun' => Begun, out'.to = 0 \/ out'.to = out.to \/ wasOff = Sides,
           hash # "over" => out' = out /\ inc' = inc /\ wire' = wire
    PROVE  IInv'
<1>1. Unoffered'
    BY DEF IInv, Unoffered
<1>2. Noted'
    BY DEF IInv, Noted, Begun
<1>3. Addressed'
    BY DEF IInv, Addressed
<1>4. QED
    BY <1>1, <1>2, <1>3 DEF IInv

(* A step that touches neither the queues nor what was kept. *)
LEMMA FollowsQuietly ==
    ASSUME IInv, hash' = hash, only' = only, wasOff' = wasOff, wire' = wire,
           Types', "kept" \in files => "kept" \in files',
           Reported(out', inc', sock', files'),
           out'.stage # "none" \/ inc'.stage # "none" => Begun,
           out'.to = 0 \/ out'.to = out.to,
           hash # "over" => out' = out /\ inc' = inc
    PROVE  IInv'
<1>1. Carried(wire', files', wasOff)
    BY CarriedStays DEF IInv, Types
<1>2. Begun' => Begun
    BY DEF Begun
<1>3. QED
    BY <1>1, <1>2, Follows

LEMMA InitIInv == Init => IInv
<1> SUFFICES ASSUME Init PROVE IInv
    OBVIOUS
<1>1. NoOut \in Outs /\ NoInc \in Incs /\ Closed \in Socks
    BY DEF NoOut, NoInc, Closed, Outs, Incs, Socks
<1>2. wire["S"] = <<>> /\ wire["R"] = <<>>
    BY DEF Init, Sides
<1>3. wire \in [Sides -> Seq(Messages)]
    BY DEF Init
<1>4. conn \in [Sides -> Nat] /\ only \in [Sides -> BOOLEAN] /\ up \in [Sides -> BOOLEAN]
    BY DEF Init
<1>5. Types
    BY <1>1, <1>3, <1>4 DEF Init, Types
<1>6. Carried(wire, files, wasOff)
    BY <1>2 DEF Carried
<1>7. Reported(out, inc, sock, files) /\ Unoffered /\ Noted /\ Addressed
    BY <1>2 DEF Init, NoOut, NoInc, Closed, Reported, Unoffered, Noted, Addressed
<1>8. QED
    BY <1>5, <1>6, <1>7 DEF IInv

LEMMA SendStep == ASSUME IInv, send PROVE IInv'
<1> USE DEF net, setting, history
<1>1. out.stage = "none" /\ out.to = 0 /\ inc = NoInc /\ wire["S"] = <<>> /\ wire["R"] = <<>>
    BY DEF IInv, Unoffered, send
<1>2. out' \in Outs /\ out'.stage = "none" /\ out'.to = 0
    BY <1>1 DEF IInv, Types, send, Outs, Sides
<1>3. Types'
    BY <1>2 DEF IInv, Types, send
<1>4. Reported(out', inc', sock', files') /\ Carried(wire', files', wasOff')
    BY <1>2 DEF IInv, Reported, send
<1>5. Unoffered' /\ Noted' /\ Addressed'
    BY <1>1, <1>2 DEF IInv, Unoffered, Noted, Addressed, send, NoInc
<1>6. QED
    BY <1>3, <1>4, <1>5 DEF IInv

LEMMA AcceptStep == ASSUME IInv, accept PROVE IInv'
<1> USE DEF net, setting, history
<1>1. inc' \in Incs /\ inc'.stage = "moving" /\ inc'.owed = inc.owed /\ inc.stage = "offered"
    BY DEF IInv, Types, accept, Incs
<1>2. files' \subseteq {"part", "kept"} /\ ("kept" \in files => "kept" \in files')
    BY DEF IInv, Types, accept
<1>3. hash = "over" /\ Begun
    BY <1>1 DEF IInv, Unoffered, NoInc, Begun
<1>4. Reported(out', inc', sock', files')
    BY <1>1, <1>2 DEF IInv, Reported, accept
<1>5. CASE wire' = wire
    <2>1. Types'
        BY <1>1, <1>2, <1>5 DEF IInv, Types, accept
    <2>2. QED
        BY <1>1, <1>2, <1>3, <1>4, <1>5, <2>1, FollowsQuietly DEF accept
<1>6. CASE ~only["R"] /\ wire' = Queued(wire, "R", <<Message("accept", inc.replyTo, link["R"])>>)
    <2>1. inc.replyTo \in Nat /\ link["R"] \in Nat /\ "R" \in Sides
        BY DEF IInv, Types, Incs, Sides
    <2>2. "R" \in wasOff
        BY <1>3, <1>6, <2>1 DEF IInv, Noted, Begun
    <2>3. Message("accept", inc.replyTo, link["R"]) \in Right("R", files, wasOff)
        BY <2>1, <2>2, MessageIs DEF Right, Answers
    <2>4. <<Message("accept", inc.replyTo, link["R"])>> \in Seq(Right("R", files, wasOff))
        BY <2>3
    <2>5. wire' \in [Sides -> Seq(Messages)] /\ Carried(wire', files, wasOff)
        BY <1>6, <2>1, <2>4, QueuedRight DEF IInv, Types
    <2>6. Types'
        BY <1>1, <1>2, <2>5 DEF IInv, Types, accept
    <2>7. Carried(wire', files', wasOff)
        BY <1>2, <2>5, CarriedStays DEF IInv, Types
    <2>8. QED
        BY <1>3, <1>4, <2>6, <2>7, Follows DEF accept
<1>7. QED
    BY <1>5, <1>6 DEF accept

(* The queues after a message more. *)
LEMMA QueuesMore ==
    ASSUME IInv, NEW s \in Sides, NEW f, "kept" \in files => "kept" \in f,
           NEW msgs \in Seq(Right(s, f, wasOff))
    PROVE  /\ Queued(wire, s, msgs) \in [Sides -> Seq(Messages)]
           /\ Carried(Queued(wire, s, msgs), f, wasOff)
           /\ s = "R" => Queued(wire, s, msgs)["S"] = wire["S"]
           /\ msgs = <<>> => Queued(wire, s, msgs) = wire
<1>1. wire \in [Sides -> Seq(Messages)] /\ Carried(wire, f, wasOff)
    BY CarriedStays DEF IInv, Types
<1>2. QED
    BY <1>1, QueuedRight DEF Sides

(* ... and after one is taken off one, and others are put on one. *)
LEMMA QueuesMoved ==
    ASSUME IInv, NEW s \in Sides, NEW t \in Sides, NEW f, "kept" \in files => "kept" \in f,
           wire[s] # <<>>, NEW msgs \in Seq(Right(t, f, wasOff))
    PROVE  /\ Queued(Taken(s), t, msgs) \in [Sides -> Seq(Messages)]
           /\ Carried(Queued(Taken(s), t, msgs), f, wasOff)
           /\ Taken(s) \in [Sides -> Seq(Messages)] /\ Carried(Taken(s), f, wasOff)
           /\ Arriving(s) \in Right(s, files, wasOff) /\ Arriving(s) \in Messages
           /\ Queued(Taken(s), t, msgs)["S"] # <<>> =>
                  wire["S"] # <<>> \/ (t = "S" /\ msgs # <<>>)
           /\ Taken(s)["S"] # <<>> => wire["S"] # <<>>
           /\ msgs = <<>> => Queued(Taken(s), t, msgs) = Taken(s)
<1>1. wire \in [Sides -> Seq(Messages)] /\ Carried(wire, files, wasOff)
    BY DEF IInv, Types
<1>2. /\ Taken(s) \in [Sides -> Seq(Messages)] /\ Carried(Taken(s), files, wasOff)
      /\ Arriving(s) \in Right(s, files, wasOff) /\ Arriving(s) \in Messages
      /\ \A u \in Sides \ {s} : Taken(s)[u] = wire[u]
    BY <1>1, TakenRight
<1>3. Carried(Taken(s), f, wasOff)
    BY <1>2, CarriedStays DEF IInv, Types
<1>4. /\ Queued(Taken(s), t, msgs) \in [Sides -> Seq(Messages)]
      /\ Carried(Queued(Taken(s), t, msgs), f, wasOff)
      /\ \A u \in Sides \ {t} : Queued(Taken(s), t, msgs)[u] = Taken(s)[u]
      /\ msgs = <<>> => Queued(Taken(s), t, msgs) = Taken(s)
    BY <1>2, <1>3, QueuedRight
<1>5. Taken(s)["S"] # <<>> => wire["S"] # <<>>
    BY <1>2 DEF Sides
<1>6. Queued(Taken(s), t, msgs)["S"] # <<>> => wire["S"] # <<>> \/ (t = "S" /\ msgs # <<>>)
    <2>1. CASE t = "S"
        BY <1>4, <1>5, <2>1
    <2>2. CASE t # "S"
        BY <1>4, <1>5, <2>2 DEF Sides
    <2>3. QED
        BY <2>1, <2>2
<1>7. QED
    BY <1>2, <1>3, <1>4, <1>5, <1>6

(* Before the offer neither end has anything to end. *)
LEMMA OfferedFirst ==
    ASSUME IInv
    PROVE  /\ ~Finished(out) => hash = "over" /\ out.stage # "none"
           /\ ~Finished(inc) => hash = "over" /\ inc.stage # "none"
           /\ inc.stage # "none" \/ out.stage # "none" => hash = "over"
           /\ \A s \in Sides : wire[s] # <<>> => hash = "over"
BY DEF IInv, Unoffered, NoInc, Finished, Live, Sides

LEMMA DeclineStep == ASSUME IInv, decline PROVE IInv'
<1> USE DEF net, setting, history, threads
<1>1. PICK msgs \in BestEffort(Message("decline", inc.replyTo, link["R"])) :
          wire' = Queued(wire, "R", msgs)
    BY DEF decline
<1>2. inc.stage = "offered" /\ inc' = EndInc(inc, "declined")
    BY DEF decline
<1>3. inc.replyTo \in Nat /\ link["R"] \in Nat /\ "R" \in Sides /\ inc \in Incs
    BY DEF IInv, Types, Incs, Sides
<1>4. msgs \in Seq(Right("R", files, wasOff))
    BY <1>3, PlainRight, BestEffortRight
<1>5. /\ wire' \in [Sides -> Seq(Messages)] /\ Carried(wire', files, wasOff)
      /\ wire'["S"] = wire["S"]
    BY <1>1, <1>3, <1>4, QueuesMore
<1>6. inc' \in Incs /\ inc'.owed = inc.owed
    BY <1>2, <1>3, EndIncIs
<1>7. Types'
    BY <1>5, <1>6 DEF IInv, Types, decline
<1>8. Reported(out', inc', sock', files') /\ hash = "over" /\ Begun
    BY <1>2, <1>6, OfferedFirst DEF IInv, Reported, decline, Begun
<1>9. QED
    BY <1>5, <1>7, <1>8, Follows DEF decline

LEMMA EndIncomingIs ==
    ASSUME IInv, NEW st \in {"failed", "cancelled"}, EndIncoming(st)
    PROVE  /\ inc' \in Incs /\ inc'.owed = inc.owed /\ inc'.stage = st
           /\ files' \subseteq {"part", "kept"} /\ ("kept" \in files => "kept" \in files')
<1>1. inc \in Incs /\ files \subseteq {"part", "kept"}
    BY DEF IInv, Types
<1>2. QED
    BY <1>1, EndIncIs DEF EndIncoming, Discarded

LEMMA CancelStep == ASSUME IInv, NEW s \in Sides, cancel(s) PROVE IInv'
<1> USE DEF net, setting, ends
<1>1. CASE hash = "reading" /\ hash' = "called off" /\ UNCHANGED <<ends, wire>>
    <2>1. Types'
        BY <1>1 DEF IInv, Types, cancel
    <2>2. Reported(out', inc', sock', files') /\ Carried(wire', files', wasOff')
        BY <1>1 DEF IInv, cancel
    <2>3. Unoffered' /\ Noted' /\ Addressed'
        BY <1>1 DEF IInv, Unoffered, Noted, Addressed, cancel
    <2>4. QED
        BY <2>1, <2>2, <2>3 DEF IInv
<1>2. CASE /\ ~Finished(out) /\ out' = EndOut("cancelled") /\ UNCHANGED <<hash, inc, files>>
           /\ LET to == IF out.to # 0 THEN out.to ELSE knows["S"]
              IN \E msgs \in BestEffort(Message("cancel", to, 0)) :
                  wire' = IF to = 0 THEN wire ELSE Queued(wire, "S", msgs)
    <2> DEFINE to == IF out.to # 0 THEN out.to ELSE knows["S"]
    <2>1. PICK msgs \in BestEffort(Message("cancel", to, 0)) :
              wire' = IF to = 0 THEN wire ELSE Queued(wire, "S", msgs)
        BY <1>2
    <2>2. to \in Nat /\ "S" \in Sides
        BY DEF IInv, Types, Outs, Sides
    <2> HIDE DEF to
    <2>3. msgs \in Seq(Right("S", files, wasOff))
        BY <2>2, PlainRight, BestEffortRight
    <2>4. wire' \in [Sides -> Seq(Messages)] /\ Carried(wire', files, wasOff)
        BY <2>1, <2>2, <2>3, QueuesMore DEF IInv, Types
    <2>5. out' \in Outs /\ out'.stage = "cancelled" /\ out'.to = 0
        BY <1>2, EndOutIs
    <2>6. Types'
        BY <1>2, <2>4, <2>5 DEF IInv, Types, cancel
    <2>7. Reported(out', inc', sock', files') /\ hash = "over" /\ Begun
        BY <1>2, <2>5, OfferedFirst DEF IInv, Reported, cancel, Begun
    <2>8. QED
        BY <1>2, <2>4, <2>5, <2>6, <2>7, Follows DEF cancel
<1>3. CASE /\ ~Finished(inc) /\ EndIncoming("cancelled") /\ UNCHANGED <<hash, out>>
           /\ \E msgs \in BestEffort(Message("cancel", inc.replyTo, 0)) :
               wire' = Queued(wire, "R", msgs)
    <2>1. PICK msgs \in BestEffort(Message("cancel", inc.replyTo, 0)) :
              wire' = Queued(wire, "R", msgs)
        BY <1>3
    <2>2. inc.replyTo \in Nat /\ "R" \in Sides
        BY DEF IInv, Types, Incs, Sides
    <2>3. msgs \in Seq(Right("R", files', wasOff))
        BY <2>2, PlainRight, BestEffortRight
    <2>4. /\ inc' \in Incs /\ inc'.owed = inc.owed
          /\ files' \subseteq {"part", "kept"} /\ ("kept" \in files => "kept" \in files')
        BY <1>3, EndIncomingIs
    <2>5. /\ wire' \in [Sides -> Seq(Messages)] /\ Carried(wire', files', wasOff)
          /\ wire'["S"] = wire["S"]
        BY <2>1, <2>2, <2>3, <2>4, QueuesMore
    <2>6. Types'
        BY <1>3, <2>4, <2>5 DEF IInv, Types, cancel
    <2>7. Reported(out', inc', sock', files') /\ hash = "over" /\ Begun
        BY <1>3, <2>4, OfferedFirst DEF IInv, Reported, cancel, Begun
    <2>8. QED
        BY <1>3, <2>5, <2>6, <2>7, Follows DEF cancel
<1>4. QED
    BY <1>1, <1>2, <1>3 DEF cancel

LEMMA ClearStep == ASSUME IInv, NEW s \in Sides, clear_finished(s) PROVE IInv'
<1> USE DEF net, setting, threads
<1>1. NoOut \in Outs /\ NoOut.stage = "none" /\ NoOut.to = 0
    BY DEF NoOut, Outs
<1>2. NoInc \in Incs /\ NoInc.stage = "none" /\ NoInc.owed = "none"
    BY DEF NoInc, Incs
<1>3. Types'
    BY <1>1, <1>2 DEF IInv, Types, clear_finished
<1>4. Reported(out', inc', sock', files')
    BY <1>1, <1>2 DEF IInv, Reported, clear_finished
<1>5. hash = "over" /\ Begun
    BY OfferedFirst DEF clear_finished, Begun
<1>6. QED
    BY <1>1, <1>3, <1>4, <1>5, FollowsQuietly DEF clear_finished

LEMMA SetStep == ASSUME IInv, NEW s \in Sides, set_same_network_only(s) PROVE IInv'
<1> USE DEF net, ends, threads, history
<1>1. only' \in [Sides -> BOOLEAN]
    BY DEF IInv, Types, set_same_network_only
<1>2. wasOff \subseteq wasOff' /\ wasOff' \subseteq Sides /\ {t \in Sides : ~only'[t]} \subseteq wasOff'
    BY DEF IInv, Types, set_same_network_only
<1>3. Types'
    BY <1>1, <1>2 DEF IInv, Types, set_same_network_only
<1>4. Carried(wire', files', wasOff')
    BY <1>2, CarriedStays DEF IInv, set_same_network_only
<1>5. Reported(out', inc', sock', files') /\ Unoffered' /\ Noted' /\ Addressed'
    BY <1>2 DEF IInv, Unoffered, Noted, Addressed, set_same_network_only
<1>6. QED
    BY <1>3, <1>4, <1>5 DEF IInv

LEMMA NothingRight == ASSUME NEW X PROVE <<>> \in Seq(X)
OBVIOUS

LEMMA MisaddressedStep == ASSUME IInv, NEW s \in Sides, Misaddressed(s) PROVE IInv'
<1> USE DEF net, setting, ends, threads, history
<1>1. wire[s] # <<>> /\ wire' = Taken(s)
    BY DEF Misaddressed
<1>2. /\ wire' \in [Sides -> Seq(Messages)] /\ Carried(wire', files, wasOff)
      /\ wire'["S"] # <<>> => wire["S"] # <<>>
    BY <1>1, QueuesMoved, NothingRight
<1>3. Types'
    BY <1>2 DEF IInv, Types, Misaddressed
<1>4. Reported(out', inc', sock', files') /\ hash = "over" /\ (Begun' => Begun)
    BY <1>1, <1>2, OfferedFirst DEF IInv, Misaddressed, Begun
<1>5. QED
    BY <1>2, <1>3, <1>4, Follows DEF Misaddressed

LEMMA OfferStep == ASSUME IInv, offer PROVE IInv'
<1> USE DEF net, history
<1>1. hash # "over" /\ hash' = "over"
    BY DEF offer
<1>2. out.stage = "none" /\ out.to = 0 /\ inc = NoInc /\ wire["S"] = <<>> /\ wire["R"] = <<>>
    BY <1>1 DEF IInv, Unoffered
<1>3. CASE UNCHANGED <<out, serve, wire, wasOff>>
    <2>1. Types'
        BY <1>1, <1>3 DEF IInv, Types, offer
    <2>2. Reported(out', inc', sock', files') /\ Carried(wire', files', wasOff')
        BY <1>3 DEF IInv, offer
    <2>3. Unoffered' /\ Noted' /\ Addressed'
        BY <1>1, <1>3 DEF IInv, Unoffered, Noted, Addressed, offer
    <2>4. QED
        BY <2>1, <2>2, <2>3 DEF IInv
<1>4. CASE /\ \E direct \in BOOLEAN :
               wire' = Queued(wire, "S", <<[Message("offer", out.offeredTo, link["S"]) EXCEPT
                                              !.data = IF direct THEN "direct" ELSE "none"]>>)
           /\ out' = [out EXCEPT !.stage = "offered"]
           /\ wasOff' = {s \in Sides : ~only[s]}
    <2>1. PICK direct \in BOOLEAN :
              wire' = Queued(wire, "S", <<[Message("offer", out.offeredTo, link["S"]) EXCEPT
                                             !.data = IF direct THEN "direct" ELSE "none"]>>)
        BY <1>4
    <2> DEFINE m == [Message("offer", out.offeredTo, link["S"]) EXCEPT
                        !.data = IF direct THEN "direct" ELSE "none"]
    <2>2. out.offeredTo \in Nat /\ link["S"] \in Nat /\ "S" \in Sides
        BY DEF IInv, Types, Outs, Sides
    <2>3. m \in Messages /\ m.kind = "offer"
        BY <2>2, MessageIs DEF Messages
    <2>4. m \in Right("S", files, wasOff')
        BY <2>3 DEF Right, Requests
    <2> HIDE DEF m
    <2>5. <<m>> \in Seq(Right("S", files, wasOff')) /\ <<m>> # <<>>
        BY <2>4
    <2>6. wire \in [Sides -> Seq(Messages)] /\ Carried(wire, files, wasOff')
        BY <1>2, NothingRight DEF IInv, Types, Carried
    <2>7. /\ wire' \in [Sides -> Seq(Messages)] /\ Carried(wire', files, wasOff')
        BY <2>1, <2>2, <2>5, <2>6, QueuedRight DEF m
    <2>8. out' \in Outs /\ out'.stage = "offered" /\ out'.to = 0
        BY <1>2, <1>4 DEF IInv, Types, Outs
    <2>9. wasOff' \subseteq Sides
        BY <1>4
    <2>10. Types'
        BY <1>1, <2>7, <2>8, <2>9 DEF IInv, Types, offer
    <2>11. Reported(out', inc', sock', files')
        BY <2>8 DEF IInv, Reported, offer
    <2>12. Unoffered' /\ Noted' /\ Addressed'
        BY <1>1, <1>4, <2>8 DEF Unoffered, Noted, Addressed, offer
    <2>13. QED
        BY <2>7, <2>10, <2>11, <2>12 DEF IInv, offer
<1>5. QED
    BY <1>3, <1>4 DEF offer

LEMMA OnOfferStep == ASSUME IInv, on_offer PROVE IInv'
<1> USE DEF net, setting, threads, history
<1>1. wire["S"] # <<>> /\ wire' = Taken("S") /\ "S" \in Sides
    BY DEF on_offer, Arrives, Sides
<1>2. /\ wire' \in [Sides -> Seq(Messages)] /\ Carried(wire', files, wasOff)
      /\ Arriving("S") \in Messages
    BY <1>1, QueuesMoved, NothingRight
<1>3. inc' \in Incs /\ inc'.owed \in {inc.owed, "none"}
    <2>1. inc \in Incs /\ Arriving("S").reply \in Nat /\ (Arriving("S").data = "direct") \in BOOLEAN
        BY <1>2 DEF IInv, Types, Messages
    <2>2. ASSUME NEW b \in BOOLEAN, NEW n \in Nat
          PROVE  LET j == [NoInc EXCEPT !.stage = "offered", !.replyTo = n, !.reachable = b]
                 IN j \in Incs /\ j.owed = "none"
        BY DEF NoInc, Incs
    <2>3. PICK b \in BOOLEAN : b = (Arriving("S").data = "direct")
        BY <2>1
    <2>4. \/ inc' = inc
          \/ inc' = [NoInc EXCEPT !.stage = "offered", !.replyTo = Arriving("S").reply,
                                  !.reachable = b]
        BY <2>3, Zenon DEF on_offer
    <2>5. QED
        BY <2>1, <2>2, <2>4
<1>4. Types'
    BY <1>2, <1>3 DEF IInv, Types, on_offer
<1>5. Reported(out', inc', sock', files') /\ hash = "over" /\ Begun
    BY <1>1, <1>3, OfferedFirst DEF IInv, Reported, on_offer, Begun
<1>6. QED
    BY <1>2, <1>4, <1>5, Follows DEF on_offer

LEMMA OnAnswerStep ==
    ASSUME IInv, NEW kind \in {"accept", "decline"}, on_answer(kind) PROVE IInv'
<1> USE DEF net, setting, threads, history
<1> DEFINE takingOver == out.direct /\ ~Finished(out)
           o == IF takingOver THEN [out EXCEPT !.direct = FALSE, !.next = 0, !.acked = 0] ELSE out
           reply == Arriving("R").reply
<1>1. wire["R"] # <<>> /\ Arriving("R").kind = kind /\ "R" \in Sides /\ "S" \in Sides
    BY DEF on_answer, Arrives, Sides
<1>2. Arriving("R") \in Right("R", files, wasOff) /\ Arriving("R") \in Messages
    BY <1>1, QueuesMoved, NothingRight
<1>3. reply \in Nat /\ (kind = "accept" => "R" \in wasOff)
    BY <1>1, <1>2 DEF Messages, Right, Answers
<1>4. out \in Outs /\ disk \in {"whole", "altered", "cut", "gone"} /\ hash = "over"
    BY <1>1, OfferedFirst DEF IInv, Types
<1>5. o \in Outs /\ o.to = out.to /\ o.stage = out.stage
    BY <1>4 DEF Outs
<1>6. PICK p : /\ \/ p = [out |-> out, msgs |-> <<>>]
                  \/ p = [out |-> EndOut("declined"), msgs |-> <<>>]
                  \/ \E msgs \in BestEffort(Message("cancel", reply, 0)) :
                        p = [out |-> EndOut("failed"), msgs |-> msgs] /\ out.stage # "none"
                  \/ /\ p \in pump([o EXCEPT !.to = reply, !.stage = "moving"])
                     /\ kind = "accept" /\ ~only["S"] /\ out.stage # "none"
               /\ out' = p.out /\ wire' = Queued(Taken("R"), "S", p.msgs)
               /\ out.stage = "none" => p = [out |-> out, msgs |-> <<>>]
    <2>1. out.stage = "offered" \/ takingOver => out.stage # "none"
        BY DEF Finished, Live
    <2> HIDE DEF takingOver, o, reply
    <2>2. QED
        BY <2>1 DEF on_answer, takingOver, o, reply
<1> HIDE DEF takingOver, o, reply
<1>7. /\ p.out \in Outs /\ p.msgs \in Seq(Right("S", files, wasOff))
      /\ p.out.stage # "none" => out.stage # "none"
      /\ p.out.stage = "done" => out.stage = "done"
      /\ p.msgs # <<>> => out.stage # "none"
      /\ p.out.to = 0 \/ p.out.to = out.to \/ wasOff = Sides
    <2>1. CASE p = [out |-> out, msgs |-> <<>>]
        BY <1>4, <2>1, NothingRight
    <2>2. CASE p = [out |-> EndOut("declined"), msgs |-> <<>>] /\ out.stage # "none"
        BY <2>2, EndOutIs, NothingRight
    <2>3. CASE \E msgs \in BestEffort(Message("cancel", reply, 0)) :
                   p = [out |-> EndOut("failed"), msgs |-> msgs] /\ out.stage # "none"
        <3>1. PICK msgs \in BestEffort(Message("cancel", reply, 0)) :
                  p = [out |-> EndOut("failed"), msgs |-> msgs]
            BY <2>3
        <3>2. msgs \in Seq(Right("S", files, wasOff))
            BY <1>3, PlainRight, BestEffortRight
        <3>3. p.out = EndOut("failed") /\ p.msgs = msgs
            BY <3>1
        <3>4. QED
            BY <2>3, <3>2, <3>3, EndOutIs
    <2>4. CASE /\ p \in pump([o EXCEPT !.to = reply, !.stage = "moving"])
               /\ kind = "accept" /\ ~only["S"] /\ out.stage # "none"
        <3> DEFINE q == [o EXCEPT !.to = reply, !.stage = "moving"]
        <3>1. q \in Outs /\ q.stage = "moving" /\ q.to = reply
            BY <1>3, <1>5 DEF Outs
        <3>2. wasOff = Sides
            BY <1>1, <1>3, <2>4 DEF IInv, Types, Noted, Sides
        <3> HIDE DEF q
        <3>3. p \in pump(q)
            BY <2>4 DEF q
        <3>4. p.out \in Outs /\ p.out.stage \in {"moving", "failed"}
              /\ p.msgs \in Seq(Right("S", files, wasOff))
            BY <1>4, <3>1, <3>2, <3>3, PumpSends
        <3>5. QED
            BY <2>4, <3>2, <3>4
    <2>5. QED
        BY <1>6, <2>1, <2>2, <2>3, <2>4
<1>8. /\ wire' \in [Sides -> Seq(Messages)] /\ Carried(wire', files, wasOff)
      /\ wire'["S"] # <<>> => wire["S"] # <<>> \/ p.msgs # <<>>
    BY <1>1, <1>6, <1>7, QueuesMoved
<1>9. Types'
    BY <1>6, <1>7, <1>8 DEF IInv, Types, on_answer
<1>10. Reported(out', inc', sock', files') /\ (Begun' => Begun)
    BY <1>6, <1>7, <1>8 DEF IInv, Reported, on_answer, Begun
<1>11. QED
    BY <1>4, <1>6, <1>7, <1>8, <1>9, <1>10, Follows DEF on_answer

LEMMA OnChunkStep == ASSUME IInv, on_chunk PROVE IInv'
<1> USE DEF net, setting, threads, history
<1> DEFINE m == Arriving("S")
           ack(state) == [Message("ack", inc.replyTo, 0) EXCEPT !.at = inc.received + 1,
                                                                !.data = state]
<1>1. wire["S"] # <<>> /\ "S" \in Sides /\ "R" \in Sides
    BY DEF on_chunk, Arrives, Sides
<1>2. inc \in Incs /\ files \subseteq {"part", "kept"} /\ hash = "over" /\ Begun
    BY <1>1, OfferedFirst DEF IInv, Types, Begun
<1>3. inc.replyTo \in Nat /\ inc.received + 1 \in Nat
    BY <1>2 DEF Incs
<1>4. CASE wire' = Taken("S") /\ UNCHANGED <<inc, files>>
    <2>1. wire' \in [Sides -> Seq(Messages)] /\ Carried(wire', files, wasOff)
        BY <1>1, <1>4, QueuesMoved, NothingRight
    <2>2. Types'
        BY <1>4, <2>1 DEF IInv, Types, on_chunk
    <2>3. Reported(out', inc', sock', files')
        BY <1>4 DEF IInv, on_chunk
    <2>4. QED
        BY <1>2, <1>4, <2>1, <2>2, <2>3, Follows DEF on_chunk
<1>5. CASE /\ inc.stage = "moving"
           /\ \E t \in take_piece(m.data) :
               /\ files' = t.files
               /\ \/ /\ t.res = "refused" /\ inc' = t.inc
                     /\ \E msgs \in BestEffort(Message("cancel", inc.replyTo, 0)) :
                          wire' = Queued(Taken("S"), "R", msgs)
                  \/ /\ t.res # "refused" /\ inc' = [t.inc EXCEPT !.owed = "none"]
                     /\ wire' = Queued(Taken("S"), "R", <<ack(t.res)>>)
                  \/ /\ t.res # "refused" /\ inc' = [t.inc EXCEPT !.owed = t.res]
                     /\ wire' = Taken("S")
    <2>1. PICK t \in take_piece(m.data) :
               /\ files' = t.files
               /\ \/ /\ t.res = "refused" /\ inc' = t.inc
                     /\ \E msgs \in BestEffort(Message("cancel", inc.replyTo, 0)) :
                          wire' = Queued(Taken("S"), "R", msgs)
                  \/ /\ t.res # "refused" /\ inc' = [t.inc EXCEPT !.owed = "none"]
                     /\ wire' = Queued(Taken("S"), "R", <<ack(t.res)>>)
                  \/ /\ t.res # "refused" /\ inc' = [t.inc EXCEPT !.owed = t.res]
                     /\ wire' = Taken("S")
        BY <1>5
    <2>2. /\ t.res \in {"refused", "more", "corrupt", "done"}
          /\ t.inc \in Incs /\ t.inc.owed = inc.owed
          /\ files' \subseteq {"part", "kept"} /\ ("kept" \in files => "kept" \in files')
          /\ t.res = "done" => "kept" \in files'
        BY <1>2, <1>5, <2>1, TookIs
    <2>3. /\ inc' \in Incs
          /\ inc'.owed = "done" => "kept" \in files' \/ inc.owed = "done"
        BY <2>1, <2>2 DEF Incs
    <2>4. wire' \in [Sides -> Seq(Messages)] /\ Carried(wire', files', wasOff)
        <3>1. CASE wire' = Taken("S")
            BY <1>1, <2>2, <3>1, QueuesMoved, NothingRight
        <3>2. CASE \E msgs \in BestEffort(Message("cancel", inc.replyTo, 0)) :
                       wire' = Queued(Taken("S"), "R", msgs)
            <4>1. PICK msgs \in BestEffort(Message("cancel", inc.replyTo, 0)) :
                       wire' = Queued(Taken("S"), "R", msgs)
                BY <3>2
            <4>2. msgs \in Seq(Right("R", files', wasOff))
                BY <1>3, PlainRight, BestEffortRight
            <4>3. QED
                BY <1>1, <2>2, <4>1, <4>2, QueuesMoved
        <3>3. CASE t.res # "refused" /\ wire' = Queued(Taken("S"), "R", <<ack(t.res)>>)
            <4>1. Message("ack", inc.replyTo, 0) \in Messages
                  /\ Message("ack", inc.replyTo, 0).kind = "ack"
                BY <1>3, MessageIs
            <4>2. ack(t.res) \in Messages /\ ack(t.res).kind = "ack" /\ ack(t.res).data = t.res
                BY <1>3, <2>2, <3>3, <4>1 DEF Messages
            <4> HIDE DEF ack
            <4>3. ack(t.res) \in Right("R", files', wasOff)
                BY <2>2, <3>3, <4>2 DEF Right, Answers
            <4>4. <<ack(t.res)>> \in Seq(Right("R", files', wasOff))
                BY <4>3
            <4>5. QED
                BY <1>1, <2>2, <3>3, <4>4, QueuesMoved
        <3>4. QED
            BY <2>1, <3>1, <3>2, <3>3
    <2>5. Types'
        BY <2>2, <2>3, <2>4 DEF IInv, Types, on_chunk
    <2>6. Reported(out', inc', sock', files')
        BY <2>2, <2>3 DEF IInv, Reported, on_chunk
    <2>7. QED
        BY <1>2, <2>4, <2>5, <2>6, Follows DEF on_chunk
<1>6. QED
    BY <1>4, <1>5 DEF on_chunk

LEMMA OnAckStep == ASSUME IInv, on_ack PROVE IInv'
<1> USE DEF net, setting, threads, history
<1> DEFINE m == Arriving("R")
           o == [out EXCEPT !.acked = IF @ < m.at THEN m.at ELSE @]
<1>1. wire["R"] # <<>> /\ m.kind = "ack" /\ "R" \in Sides /\ "S" \in Sides
    BY DEF on_ack, Arrives, Sides
<1>2. m \in Right("R", files, wasOff) /\ m \in Messages
    BY <1>1, QueuesMoved, NothingRight
<1>3. /\ m.at \in Nat /\ m.data \in {"more", "done", "corrupt"}
      /\ m.data = "done" => "kept" \in files
    BY <1>1, <1>2 DEF Messages, Right, Answers
<1>4. out \in Outs /\ disk \in {"whole", "altered", "cut", "gone"} /\ hash = "over"
    BY <1>1, OfferedFirst DEF IInv, Types
<1>5. o \in Outs /\ o.to = out.to /\ o.stage = out.stage
    BY <1>3, <1>4 DEF Outs
<1>6. PICK p : /\ out' = p.out /\ wire' = Queued(Taken("R"), "S", p.msgs)
               /\ \/ p = [out |-> out, msgs |-> <<>>]
                  \/ ~Finished(out) /\ p \in pump([o EXCEPT !.stage = "moving"])
                  \/ ~Finished(out) /\ m.data = "done" /\ p = [out |-> EndOut("done"), msgs |-> <<>>]
                  \/ ~Finished(out) /\ p = [out |-> EndOut("failed"), msgs |-> <<>>]
    <2> HIDE DEF m, o
    <2>1. QED
        BY <1>3 DEF on_ack, m, o
<1> HIDE DEF m, o
<1>7. /\ p.out \in Outs /\ p.msgs \in Seq(Right("S", files, wasOff))
      /\ p.out.stage # "none" \/ p.msgs # <<>> => out.stage # "none"
      /\ p.out.stage = "done" => out.stage = "done" \/ "kept" \in files
      /\ p.out.to \in {0, out.to}
    <2>1. ~Finished(out) => out.stage # "none"
        BY DEF Finished, Live
    <2>2. CASE p = [out |-> out, msgs |-> <<>>]
        BY <1>4, <2>2, NothingRight
    <2>3. CASE ~Finished(out) /\ p \in pump([o EXCEPT !.stage = "moving"])
        <3> DEFINE q == [o EXCEPT !.stage = "moving"]
        <3>1. q \in Outs /\ q.stage = "moving" /\ q.to = out.to
            BY <1>5 DEF Outs
        <3>2. q.to # 0 => wasOff = Sides
            BY <3>1 DEF IInv, Addressed
        <3> HIDE DEF q
        <3>3. p \in pump(q)
            BY <2>3 DEF q
        <3>4. /\ p.out \in Outs /\ p.out.stage \in {"moving", "failed"}
              /\ p.msgs \in Seq(Right("S", files, wasOff)) /\ p.out.to \in {0, out.to}
            BY <1>4, <3>1, <3>2, <3>3, PumpSends
        <3>5. QED
            BY <2>1, <2>3, <3>4
    <2>4. CASE ~Finished(out) /\ m.data = "done" /\ p = [out |-> EndOut("done"), msgs |-> <<>>]
        BY <1>3, <2>1, <2>4, EndOutIs, NothingRight
    <2>5. CASE ~Finished(out) /\ p = [out |-> EndOut("failed"), msgs |-> <<>>]
        BY <2>1, <2>5, EndOutIs, NothingRight
    <2>6. QED
        BY <1>6, <2>2, <2>3, <2>4, <2>5
<1>8. /\ wire' \in [Sides -> Seq(Messages)] /\ Carried(wire', files, wasOff)
      /\ wire'["S"] # <<>> => wire["S"] # <<>> \/ p.msgs # <<>>
    BY <1>1, <1>6, <1>7, QueuesMoved
<1>9. Types'
    BY <1>6, <1>7, <1>8 DEF IInv, Types, on_ack
<1>10. Reported(out', inc', sock', files') /\ (Begun' => Begun)
    BY <1>6, <1>7, <1>8 DEF IInv, Reported, on_ack, Begun
<1>11. QED
    BY <1>4, <1>6, <1>7, <1>8, <1>9, <1>10, Follows DEF on_ack

LEMMA OnCancelStep == ASSUME IInv, NEW s \in Sides, on_cancel(s) PROVE IInv'
<1> USE DEF net, setting, threads, history
<1>1. wire[s] # <<>> /\ wire' = Taken(s)
    BY DEF on_cancel, Arrives
<1>2. /\ out' \in Outs /\ out'.to \in {0, out.to}
      /\ out'.stage # "none" => out.stage # "none"
      /\ out'.stage = "done" => out.stage = "done"
    BY EndOutIs DEF IInv, Types, on_cancel, Finished, Live
<1>3. /\ inc' \in Incs /\ inc'.owed = inc.owed /\ files' \subseteq {"part", "kept"}
      /\ "kept" \in files => "kept" \in files'
      /\ inc'.stage # "none" => inc.stage # "none"
    <2>1. CASE ~Finished(inc) /\ EndIncoming("cancelled")
        BY <2>1, EndIncomingIs DEF Finished, Live
    <2>2. CASE UNCHANGED <<inc, files>>
        BY <2>2 DEF IInv, Types
    <2>3. QED
        BY <2>1, <2>2 DEF on_cancel
<1>4. /\ wire' \in [Sides -> Seq(Messages)] /\ Carried(wire', files', wasOff)
      /\ wire'["S"] # <<>> => wire["S"] # <<>>
    BY <1>1, <1>3, QueuesMoved, NothingRight
<1>5. Types'
    BY <1>2, <1>3, <1>4 DEF IInv, Types, on_cancel
<1>6. Reported(out', inc', sock', files') /\ hash = "over" /\ (Begun' => Begun)
    BY <1>1, <1>2, <1>3, <1>4, OfferedFirst DEF IInv, Reported, on_cancel, Begun
<1>7. QED
    BY <1>2, <1>4, <1>5, <1>6, Follows DEF on_cancel

(* S's listener only ends a transfer, or goes on with it. *)
LEMMA ListenerStep == ASSUME IInv, Listener PROVE IInv'
<1> USE DEF net, setting, ends, history
<1>1. /\ HangUpS(sock) \in Socks /\ HangUpS(sock).word \in {sock.word, "none"}
      /\ sock \in Socks /\ out \in Outs
    BY HangUps DEF IInv, Types
<1>2. UNCHANGED <<hash, inc, files, disk, conn, up, link, gen, knows, wire, only, wasOff>>
    BY DEF Listener, StopListening, direct_begin, SendPiece, direct_progress, Confirmed, DirectEnds
<1>3. ASSUME NEW st \in {"failed", "done"}, DirectEnds(st),
             st = "done" => sock.word = "done"
      PROVE  /\ sock' = HangUpS(sock) /\ out' \in Outs /\ out'.to \in {0, out.to}
             /\ out'.stage # "none" => out.stage # "none"
             /\ out'.stage = "done" => out.stage = "done" \/ sock.word = "done"
             /\ Finished(out) => out' = out
    BY <1>1, <1>3, EndOutIs DEF DirectEnds, Finished, Live
<1>4. /\ out' \in Outs /\ sock' \in Socks /\ out'.to \in {0, out.to}
      /\ sock'.word \in {sock.word, "none"}
      /\ out'.stage # "none" => out.stage # "none"
      /\ out'.stage = "done" => out.stage = "done" \/ sock.word = "done"
      /\ out.stage = "none" => out' = out
    <2>1. CASE StopListening
        BY <1>1, <2>1 DEF StopListening
    <2>2. CASE direct_begin
        BY <1>1, <2>2 DEF direct_begin, Outs
    <2>3. CASE SendPiece
        <3>1. CASE DirectEnds("failed")
            BY <1>1, <1>3, <3>1 DEF Finished, Live
        <3>2. CASE UNCHANGED out /\ \E piece \in {"whole", "altered"} :
                       sock' = [sock EXCEPT !.sent = @ + 1,
                                            !.pieces = IF sock.r THEN Append(@, piece) ELSE @]
            <4>1. PICK piece \in {"whole", "altered"} :
                      sock' = [sock EXCEPT !.sent = @ + 1,
                                           !.pieces = IF sock.r THEN Append(@, piece) ELSE @]
                BY <3>2
            <4>2. sock.pieces \in Seq({"whole", "altered"}) /\ sock.sent + 1 \in Nat
                BY <1>1 DEF Socks
            <4>3. (IF sock.r THEN Append(sock.pieces, piece) ELSE sock.pieces)
                      \in Seq({"whole", "altered"})
                BY <4>2
            <4>4. sock' \in Socks /\ sock'.word = sock.word
                BY <1>1, <4>1, <4>2, <4>3 DEF Socks
            <4>5. QED
                BY <1>1, <3>2, <4>4
        <3>3. QED
            BY <2>3, <3>1, <3>2 DEF SendPiece
    <2>4. CASE direct_progress
        <3>1. CASE UNCHANGED out /\ sock' = HangUpS(sock)
            BY <1>1, <3>1
        <3>2. CASE ~Finished(out) /\ UNCHANGED sock
                   /\ out' = [out EXCEPT !.acked = sock.sent, !.next = sock.sent, !.stage = "moving"]
            <4>1. sock.sent \in Nat
                BY <1>1 DEF Socks
            <4>2. QED
                BY <1>1, <3>2, <4>1 DEF Outs, Finished, Live
        <3>3. QED
            BY <2>4, <3>1, <3>2 DEF direct_progress
    <2>5. CASE Confirmed
        BY <1>1, <1>3, <2>5 DEF Confirmed, Finished, Live
    <2>6. QED
        BY <2>1, <2>2, <2>3, <2>4, <2>5 DEF Listener
<1>5. Types'
    BY <1>2, <1>4 DEF IInv, Types
<1>6. Reported(out', inc', sock', files')
    BY <1>2, <1>4 DEF IInv, Reported
<1>7. hash # "over" => out' = out /\ inc' = inc
    BY <1>2, <1>4 DEF IInv, Unoffered
<1>8. QED
    BY <1>2, <1>4, <1>5, <1>6, <1>7, FollowsQuietly DEF Begun

(* R's thread: the local connection. *)
LEMMA FetcherStep ==
    ASSUME IInv, Reach \/ NoFirstPiece \/ direct_receiving \/ direct_piece \/ direct_receive_failed
    PROVE  IInv'
<1> USE DEF net, setting, ends, history
<1>1. /\ HangUpR(sock) \in Socks /\ HangUpR(sock).word \in {sock.word, "none"}
      /\ sock \in Socks /\ inc \in Incs /\ files \subseteq {"part", "kept"}
    BY HangUps DEF IInv, Types
<1>2. UNCHANGED <<hash, out, disk, conn, up, link, gen, knows, wire, only, wasOff>>
    BY DEF Reach, NoFirstPiece, direct_receiving, direct_piece, direct_receive_failed
<1>3. /\ inc' \in Incs /\ sock' \in Socks /\ files' \subseteq {"part", "kept"}
      /\ "kept" \in files => "kept" \in files'
      /\ inc'.owed = inc.owed
      /\ sock'.word = "done" => sock.word = "done" \/ "kept" \in files'
      /\ inc.stage = "none" => inc' = inc
    <2>1. CASE Reach
        <3>1. <<>> \in Seq({"whole", "altered"})
            BY NothingRight
        <3>2. [Closed EXCEPT !.s = TRUE, !.r = TRUE] \in Socks
              /\ [Closed EXCEPT !.s = TRUE, !.r = TRUE].word = "none"
            BY <3>1 DEF Closed, Socks
        <3>3. QED
            BY <1>1, <2>1, <3>2 DEF Reach
    <2>2. CASE NoFirstPiece
        BY <1>1, <2>2 DEF NoFirstPiece
    <2>3. CASE direct_receiving
        BY <1>1, <2>3 DEF direct_receiving, Incs
    <2>4. CASE direct_piece
        <3> DEFINE rest == [sock EXCEPT !.pieces = Tail(@)]
        <3>1. rest \in Socks /\ rest.word = sock.word
            <4>1. sock.pieces \in Seq({"whole", "altered"}) /\ sock.pieces # <<>>
                BY <1>1, <2>4 DEF Socks, direct_piece
            <4>2. Tail(sock.pieces) \in Seq({"whole", "altered"})
                BY <4>1
            <4>3. QED
                BY <1>1, <4>2 DEF Socks
        <3>2. CASE sock' = HangUpR(rest) /\ UNCHANGED <<inc, files>>
            <4> HIDE DEF rest
            <4>1. QED
                BY <1>1, <3>1, <3>2, HangUps
        <3>3. CASE /\ inc.stage = "moving"
                   /\ \E t \in take_piece(Head(sock.pieces)) :
                       /\ inc' = t.inc /\ files' = t.files
                       /\ \/ sock' = rest
                          \/ sock' = HangUpR([rest EXCEPT
                                         !.word = IF t.res = "refused" THEN @ ELSE t.res])
                             /\ t.res # "more"
            <4>1. PICK t \in take_piece(Head(sock.pieces)) :
                       /\ inc' = t.inc /\ files' = t.files
                       /\ \/ sock' = rest
                          \/ sock' = HangUpR([rest EXCEPT
                                         !.word = IF t.res = "refused" THEN @ ELSE t.res])
                             /\ t.res # "more"
                BY <3>3
            <4>2. /\ t.res \in {"refused", "more", "corrupt", "done"}
                  /\ t.inc \in Incs /\ t.inc.owed = inc.owed
                  /\ t.files \subseteq {"part", "kept"}
                  /\ "kept" \in files => "kept" \in t.files
                  /\ t.res = "done" => "kept" \in t.files
                BY <1>1, <3>3, TookIs
            <4> HIDE DEF rest
            <4>3. CASE sock' = rest
                BY <3>1, <3>3, <4>1, <4>2, <4>3
            <4>4. CASE sock' = HangUpR([rest EXCEPT
                                 !.word = IF t.res = "refused" THEN @ ELSE t.res]) /\ t.res # "more"
                <5> DEFINE k == [rest EXCEPT !.word = IF t.res = "refused" THEN @ ELSE t.res]
                <5>1. k \in Socks /\ k.word \in {rest.word, t.res} /\ k.word # "refused"
                    BY <3>1, <4>2, <4>4 DEF Socks
                <5> HIDE DEF k
                <5>2. sock' \in Socks /\ sock'.word \in {k.word, "none"}
                    BY <4>4, <5>1, HangUps DEF k
                <5>3. QED
                    BY <3>1, <3>3, <4>1, <4>2, <5>1, <5>2
            <4>5. QED
                BY <4>1, <4>3, <4>4
        <3>4. QED
            BY <2>4, <3>2, <3>3 DEF direct_piece
    <2>5. CASE direct_receive_failed
        <3>1. CASE EndIncoming("failed") /\ ~Finished(inc)
            BY <1>1, <2>5, <3>1, EndIncomingIs DEF direct_receive_failed, Finished, Live
        <3>2. CASE UNCHANGED <<inc, files>>
            BY <1>1, <2>5, <3>2 DEF direct_receive_failed
        <3>3. QED
            BY <2>5, <3>1, <3>2 DEF direct_receive_failed
    <2>6. QED
        BY <2>1, <2>2, <2>3, <2>4, <2>5
<1>4. Types'
    BY <1>2, <1>3 DEF IInv, Types
<1>5. Reported(out', inc', sock', files')
    BY <1>2, <1>3 DEF IInv, Reported
<1>6. hash # "over" => out' = out /\ inc' = inc
    BY <1>2, <1>3, OfferedFirst
<1>7. QED
    BY <1>2, <1>3, <1>4, <1>5, <1>6, FollowsQuietly DEF Begun

(* ... and the question through the relay. *)
LEMMA AnswerStep == ASSUME IInv, answer_through_relay PROVE IInv'
<1> USE DEF net, setting, history
<1>1. UNCHANGED <<hash, out, disk, sock, conn, up, link, gen, knows, only, wasOff>>
    BY DEF answer_through_relay
<1>2. inc.replyTo \in Nat /\ link["R"] \in Nat /\ "R" \in Sides
    BY DEF IInv, Types, Incs, Sides
<1>3. CASE UNCHANGED <<inc, files, wire>>
    <2>1. Types' /\ Reported(out', inc', sock', files')
        BY <1>1, <1>3 DEF IInv, Types, Reported
    <2>2. QED
        BY <1>1, <1>3, <2>1, FollowsQuietly DEF Begun
<1>4. CASE /\ inc.stage = "moving" /\ EndIncoming("failed")
           /\ \/ UNCHANGED wire
              \/ \E msgs \in BestEffort(Message("cancel", inc.replyTo, 0)) :
                    wire' = Queued(wire, "R", msgs)
    <2>1. /\ inc' \in Incs /\ inc'.owed = inc.owed /\ files' \subseteq {"part", "kept"}
          /\ "kept" \in files => "kept" \in files'
        BY <1>4, EndIncomingIs
    <2>2. /\ wire' \in [Sides -> Seq(Messages)] /\ Carried(wire', files', wasOff)
          /\ wire'["S"] = wire["S"]
        <3>1. CASE UNCHANGED wire
            BY <2>1, <3>1, CarriedStays DEF IInv, Types
        <3>2. CASE \E msgs \in BestEffort(Message("cancel", inc.replyTo, 0)) :
                       wire' = Queued(wire, "R", msgs)
            <4>1. PICK msgs \in BestEffort(Message("cancel", inc.replyTo, 0)) :
                      wire' = Queued(wire, "R", msgs)
                BY <3>2
            <4>2. msgs \in Seq(Right("R", files', wasOff))
                BY <1>2, PlainRight, BestEffortRight
            <4>3. QED
                BY <1>2, <2>1, <4>1, <4>2, QueuesMore
        <3>3. QED
            BY <1>4, <3>1, <3>2
    <2>3. Types'
        BY <1>1, <2>1, <2>2 DEF IInv, Types
    <2>4. Reported(out', inc', sock', files') /\ hash = "over" /\ Begun
        BY <1>1, <1>4, <2>1, OfferedFirst DEF IInv, Reported, Begun
    <2>5. QED
        BY <1>1, <2>2, <2>3, <2>4, Follows
<1>5. CASE /\ inc.stage = "moving" /\ ~only["R"] /\ UNCHANGED <<inc, files>>
           /\ wire' = Queued(wire, "R", <<Message("accept", inc.replyTo, link["R"])>>)
    <2>1. "R" \in wasOff
        BY <1>2, <1>5 DEF IInv, Noted
    <2>2. Message("accept", inc.replyTo, link["R"]) \in Right("R", files, wasOff)
        BY <1>2, <2>1, MessageIs DEF Right, Answers
    <2>3. <<Message("accept", inc.replyTo, link["R"])>> \in Seq(Right("R", files, wasOff))
        BY <2>2
    <2>4. wire' \in [Sides -> Seq(Messages)] /\ Carried(wire', files', wasOff)
        BY <1>2, <1>5, <2>3, QueuesMore
    <2>5. Types'
        BY <1>1, <1>5, <2>4 DEF IInv, Types
    <2>6. Reported(out', inc', sock', files') /\ hash = "over" /\ Begun
        BY <1>1, <1>5, OfferedFirst DEF IInv, Reported, Begun
    <2>7. QED
        BY <1>1, <2>4, <2>5, <2>6, Follows
<1>6. QED
    BY <1>3, <1>4, <1>5 DEF answer_through_relay

LEMMA TickStep ==
    ASSUME IInv, NEW s \in Sides, TickStall(s) \/ TickStallEarly(s) \/ TickGone(s)
    PROVE  IInv'
<1> USE DEF net, setting, history, threads
<1>1. UNCHANGED <<hash, disk, sock, conn, up, link, gen, knows, only, wasOff, wire>>
    BY DEF TickStall, TickStallEarly, TickGone, StallEnd
<1>2. /\ out' \in Outs /\ out'.to \in {0, out.to} /\ out'.stage \in {out.stage, "failed"}
      /\ inc' \in Incs /\ inc'.owed = inc.owed /\ files' \subseteq {"part", "kept"}
      /\ "kept" \in files => "kept" \in files'
      /\ out.stage # "none" \/ inc.stage # "none"
    <2>1. out \in Outs /\ inc \in Incs /\ files \subseteq {"part", "kept"}
        BY DEF IInv, Types
    <2>2. CASE StallEnd(s)
        BY <2>1, <2>2, EndOutIs, EndIncomingIs DEF StallEnd
    <2>3. CASE TickGone(s)
        BY <2>1, <2>3, EndOutIs, EndIncIs DEF TickGone
    <2>4. QED
        BY <2>2, <2>3 DEF TickStall, TickStallEarly
<1>3. Types'
    BY <1>1, <1>2 DEF IInv, Types
<1>4. Reported(out', inc', sock', files') /\ hash = "over" /\ Begun
    BY <1>1, <1>2, OfferedFirst DEF IInv, Reported, Begun
<1>5. QED
    BY <1>1, <1>2, <1>3, <1>4, FollowsQuietly

LEMMA TickPumpStep == ASSUME IInv, TickPump PROVE IInv'
<1> USE DEF net, setting, threads, history
<1>1. PICK p \in pump(out) : out' = p.out /\ wire' = Queued(wire, "S", p.msgs)
    BY DEF TickPump
<1>2. out \in Outs /\ disk \in {"whole", "altered", "cut", "gone"} /\ "S" \in Sides
      /\ (out.to # 0 => wasOff = Sides)
    BY DEF IInv, Types, Addressed, Sides
<1>3. out.stage = "moving" /\ hash = "over"
    BY <1>2, RoomIsNat, OfferedFirst DEF TickPump
<1>4. /\ p.out \in Outs /\ p.out.stage \in {"moving", "failed"} /\ p.out.to \in {0, out.to}
      /\ p.msgs \in Seq(Right("S", files, wasOff))
    BY <1>2, <1>3, PumpSends
<1>5. wire' \in [Sides -> Seq(Messages)] /\ Carried(wire', files, wasOff)
    BY <1>1, <1>2, <1>4, QueuesMore
<1>6. Types'
    BY <1>1, <1>4, <1>5 DEF IInv, Types, TickPump
<1>7. Reported(out', inc', sock', files') /\ Begun
    BY <1>1, <1>3, <1>4 DEF IInv, Reported, TickPump, Begun
<1>8. QED
    BY <1>1, <1>3, <1>4, <1>5, <1>6, <1>7, Follows DEF TickPump

LEMMA TickAckStep == ASSUME IInv, TickAck PROVE IInv'
<1> USE DEF net, setting, threads, history
<1> DEFINE m == [Message("ack", inc.replyTo, 0) EXCEPT !.at = inc.received, !.data = inc.owed]
<1>1. inc \in Incs /\ inc.replyTo \in Nat /\ inc.received \in Nat /\ "R" \in Sides
      /\ inc.owed \in {"more", "done", "corrupt"}
    BY DEF IInv, Types, Incs, Sides, TickAck
<1>2. m \in Messages /\ m.kind = "ack" /\ m.data = inc.owed
    <2>1. Message("ack", inc.replyTo, 0) \in Messages
          /\ Message("ack", inc.replyTo, 0).kind = "ack"
        BY <1>1, MessageIs
    <2>2. QED
        BY <1>1, <2>1 DEF Messages
<1>3. wire' = Queued(wire, "R", <<m>>)
    BY DEF TickAck
<1> HIDE DEF m
<1>4. m \in Right("R", files, wasOff)
    BY <1>1, <1>2 DEF IInv, Reported, Right, Answers
<1>5. <<m>> \in Seq(Right("R", files, wasOff))
    BY <1>4
<1>6. /\ wire' \in [Sides -> Seq(Messages)] /\ Carried(wire', files, wasOff)
      /\ wire'["S"] = wire["S"]
    BY <1>1, <1>3, <1>5, QueuesMore
<1>7. inc' \in Incs /\ inc'.owed = "none" /\ inc'.stage = inc.stage
    BY <1>1 DEF Incs, TickAck
<1>8. hash = "over"
    BY <1>1 DEF IInv, Unoffered, NoInc
<1>9. Types'
    BY <1>6, <1>7 DEF IInv, Types, TickAck
<1>10. Reported(out', inc', sock', files') /\ (Begun' => Begun)
    BY <1>6, <1>7 DEF IInv, Reported, TickAck, Begun
<1>11. QED
    BY <1>6, <1>8, <1>9, <1>10, Follows DEF TickAck

LEMMA FailAllIs ==
    ASSUME IInv, NEW s \in Sides, fail_all_live(s)
    PROVE  /\ out' \in Outs /\ out'.to \in {0, out.to} /\ out'.stage \in {out.stage, "failed"}
           /\ inc' \in Incs /\ inc'.owed = inc.owed /\ files' \subseteq {"part", "kept"}
           /\ "kept" \in files => "kept" \in files'
           /\ out.stage = "none" => out' = out
           /\ inc.stage = "none" => inc' = inc
<1>1. out \in Outs /\ inc \in Incs /\ files \subseteq {"part", "kept"}
    BY DEF IInv, Types
<1>2. /\ out' \in Outs /\ out'.to \in {0, out.to} /\ out'.stage \in {out.stage, "failed"}
      /\ out.stage = "none" => out' = out
    BY <1>1, EndOutIs DEF fail_all_live, Finished, Live
<1>3. CASE UNCHANGED <<inc, files>>
    BY <1>1, <1>2, <1>3
<1>4. CASE ~Finished(inc) /\ EndIncoming("failed")
    <2>1. inc.stage # "none"
        BY <1>4 DEF Finished, Live
    <2>2. QED
        BY <1>2, <1>4, <2>1, EndIncomingIs
<1>5. QED
    BY <1>3, <1>4 DEF fail_all_live

LEMMA FailStep ==
    ASSUME IInv, NEW s \in Sides, disconnected(s) \/ connected(s) \/ over_quota(s)
    PROVE  IInv'
<1> USE DEF net, setting, history, threads
<1>1. UNCHANGED <<hash, disk, sock, knows, only, wasOff, wire>>
    BY DEF disconnected, connected, over_quota
<1>2. fail_all_live(s)
    BY DEF disconnected, connected, over_quota
<1>3. /\ out' \in Outs /\ out'.to \in {0, out.to} /\ out'.stage \in {out.stage, "failed"}
      /\ inc' \in Incs /\ inc'.owed = inc.owed /\ files' \subseteq {"part", "kept"}
      /\ "kept" \in files => "kept" \in files'
      /\ out.stage = "none" => out' = out
      /\ inc.stage = "none" => inc' = inc
    BY <1>2, FailAllIs
<1>4. /\ conn' \in [Sides -> Nat] /\ up' \in [Sides -> BOOLEAN]
      /\ link' \in [Sides -> Nat] /\ gen' \in [Sides -> Nat]
    <2>1. /\ conn \in [Sides -> Nat] /\ up \in [Sides -> BOOLEAN]
          /\ link \in [Sides -> Nat] /\ gen \in [Sides -> Nat]
        BY DEF IInv, Types
    <2>2. CASE disconnected(s)
        BY <2>1, <2>2 DEF disconnected
    <2>3. CASE connected(s)
        <3>1. gen' \in [Sides -> Nat]
            BY <2>1, <2>3 DEF connected
        <3>2. gen'[s] \in Nat
            BY <3>1
        <3>3. QED
            BY <2>1, <2>3, <3>1, <3>2 DEF connected
    <2>4. CASE over_quota(s)
        BY <2>1, <2>4 DEF over_quota
    <2>5. QED
        BY <2>2, <2>3, <2>4
<1>5. Types'
    BY <1>1, <1>3, <1>4 DEF IInv, Types
<1>6. Reported(out', inc', sock', files')
    BY <1>1, <1>3 DEF IInv, Reported
<1>7. /\ hash # "over" => out' = out /\ inc' = inc
      /\ out'.stage # "none" \/ inc'.stage # "none" => Begun
    BY <1>3, OfferedFirst DEF Begun
<1>8. QED
    BY <1>1, <1>3, <1>5, <1>6, <1>7, FollowsQuietly

LEMMA DropStep == ASSUME IInv, NEW s \in Sides, Drop(s) PROVE IInv'
<1> USE DEF setting, history, threads, ends
<1>1. PICK n \in 0..Len(wire[s]) : wire' = [wire EXCEPT ![s] = SubSeq(@, n + 1, Len(@))]
    BY DEF Drop
<1> DEFINE kept == SubSeq(wire[s], n + 1, Len(wire[s]))
<1>2. /\ wire \in [Sides -> Seq(Messages)] /\ wire[s] \in Seq(Messages)
      /\ wire[s] \in Seq(Right(s, files, wasOff)) /\ Carried(wire, files, wasOff)
    BY DEF IInv, Types, Carried, Right, Sides
<1>3. n + 1 \in Int /\ Len(wire[s]) \in Int
      /\ \A i \in n + 1 .. Len(wire[s]) : i \in 1 .. Len(wire[s])
    BY <1>2
<1>4. \A i \in n + 1 .. Len(wire[s]) :
          wire[s][i] \in Messages /\ wire[s][i] \in Right(s, files, wasOff)
    BY <1>2, <1>3
<1>5. kept \in Seq(Messages) /\ kept \in Seq(Right(s, files, wasOff))
    <2>1. kept \in Seq(Messages)
        BY <1>3, <1>4, SubSeqProperties
    <2>2. kept \in Seq(Right(s, files, wasOff))
        BY <1>3, <1>4, SubSeqProperties
    <2>3. QED
        BY <2>1, <2>2
<1>6. wire[s] = <<>> => kept = <<>>
    <2> SUFFICES ASSUME wire[s] = <<>> PROVE kept = <<>>
        OBVIOUS
    <2>1. Len(wire[s]) < n + 1
        OBVIOUS
    <2>2. QED
        BY <1>3, <2>1, SubSeqEmpty
<1>7. wire' = [wire EXCEPT ![s] = kept]
    BY <1>1
<1> HIDE DEF kept
<1>8. /\ wire' \in [Sides -> Seq(Messages)] /\ Carried(wire', files, wasOff)
      /\ wire["S"] = <<>> => wire'["S"] = <<>>
      /\ hash # "over" => wire' = wire
    <2>1. wire' \in [Sides -> Seq(Messages)]
        BY <1>2, <1>5, <1>7
    <2>2. Carried(wire', files, wasOff)
        BY <1>2, <1>5, <1>7 DEF Carried, Right, Sides
    <2>3. wire["S"] = <<>> => wire'["S"] = <<>>
        BY <1>2, <1>6, <1>7 DEF Sides
    <2>4. wire[s] = <<>> => wire' = wire
        BY <1>2, <1>6, <1>7
    <2>5. QED
        BY <2>1, <2>2, <2>3, <2>4, OfferedFirst
<1>9. conn' \in [Sides -> Nat]
    BY DEF IInv, Types, Drop
<1>10. Types'
    BY <1>8, <1>9 DEF IInv, Types, Drop
<1>11. Reported(out', inc', sock', files') /\ (Begun' => Begun)
    BY <1>8 DEF IInv, Reported, Drop, Begun
<1>12. QED
    BY <1>8, <1>10, <1>11, Follows DEF Drop

LEMMA PresenceStep == ASSUME IInv, NEW s \in Sides, Presence(s) PROVE IInv'
<1> USE DEF setting, history, threads, ends
<1>1. knows' \in [Sides -> Nat]
    <2>1. knows \in [Sides -> Nat] /\ conn[Other(s)] \in Nat
        BY DEF IInv, Types, Other, Sides
    <2>2. QED
        BY <2>1 DEF Presence
<1>2. Types' /\ Reported(out', inc', sock', files')
    BY <1>1 DEF IInv, Types, Reported, Presence
<1>3. QED
    BY <1>2, FollowsQuietly DEF Presence, Begun

LEMMA GoesWrongStep == ASSUME IInv, GoesWrong PROVE IInv'
<1> USE DEF setting, history, net, ends
<1>1. UNCHANGED <<hash, out, inc, files, conn, up, link, gen, knows, only, wasOff>>
    BY DEF GoesWrong
<1>2. CASE \E s \in Sides : wire[s] # <<>> /\ wire' = Taken(s) /\ UNCHANGED <<sock, disk>>
    <2>1. PICK s \in Sides : wire[s] # <<>> /\ wire' = Taken(s)
        BY <1>2
    <2>2. /\ wire' \in [Sides -> Seq(Messages)] /\ Carried(wire', files, wasOff)
          /\ wire'["S"] # <<>> => wire["S"] # <<>>
        BY <2>1, QueuesMoved, NothingRight
    <2>3. Types' /\ Reported(out', inc', sock', files')
        BY <1>1, <1>2, <2>2 DEF IInv, Types, Reported
    <2>4. hash = "over" /\ (Begun' => Begun)
        BY <1>1, <2>1, <2>2, OfferedFirst DEF Begun
    <2>5. QED
        BY <1>1, <2>2, <2>3, <2>4, Follows
<1>3. CASE UNCHANGED wire /\ sock' \in Socks /\ sock'.word = sock.word
           /\ disk' \in {"whole", "altered", "cut", "gone"}
    <2>1. Types' /\ Reported(out', inc', sock', files')
        BY <1>1, <1>3 DEF IInv, Types, Reported
    <2>2. QED
        BY <1>1, <1>3, <2>1, FollowsQuietly DEF Begun
<1>4. sock \in Socks /\ disk \in {"whole", "altered", "cut", "gone"}
    BY DEF IInv, Types
<1>5. LET k == [sock EXCEPT !.s = FALSE, !.r = FALSE, !.pieces = <<>>]
      IN k \in Socks /\ k.word = sock.word
    <2>1. <<>> \in Seq({"whole", "altered"})
        BY NothingRight
    <2>2. QED
        BY <1>4, <2>1 DEF Socks
<1>6. QED
    BY <1>2, <1>3, <1>4, <1>5 DEF GoesWrong

LEMMA StepIInv == IInv /\ [Next]_vars => IInv'
<1> SUFFICES ASSUME IInv, [Next]_vars PROVE IInv'
    OBVIOUS
<1>1. CASE Person
    BY <1>1, SendStep, AcceptStep, DeclineStep, CancelStep, ClearStep, SetStep DEF Person
<1>2. CASE offer
    BY <1>2, OfferStep
<1>3. CASE FromSender
    BY <1>3, OnOfferStep, OnChunkStep, OnCancelStep, MisaddressedStep DEF FromSender, Sides
<1>4. CASE FromReceiver
    BY <1>4, OnAnswerStep, OnAckStep, OnCancelStep, MisaddressedStep DEF FromReceiver, Sides
<1>5. CASE Listener
    BY <1>5, ListenerStep
<1>6. CASE Fetcher
    BY <1>6, FetcherStep, AnswerStep DEF Fetcher
<1>7. CASE TickPump \/ TickAck
    BY <1>7, TickPumpStep, TickAckStep
<1>8. CASE \E s \in Sides : TickStall(s) \/ TickStallEarly(s) \/ TickGone(s)
    BY <1>8, TickStep
<1>9. CASE \E s \in Sides :
               Drop(s) \/ disconnected(s) \/ connected(s) \/ over_quota(s) \/ Presence(s)
    BY <1>9, DropStep, FailStep, PresenceStep
<1>10. CASE GoesWrong
    BY <1>10, GoesWrongStep
<1>11. CASE UNCHANGED vars
    BY <1>11 DEF vars, IInv, Types, Unoffered, Noted, Addressed
<1>12. QED
    BY <1>1, <1>2, <1>3, <1>4, <1>5, <1>6, <1>7, <1>8, <1>9, <1>10, <1>11 DEF Next

LEMMA AlwaysIInv == Spec => []IInv
BY InitIInv, StepIInv, PTL DEF Spec

-----------------------------------------------------------------------------
(* Whatever is lost, refused, late or cut off: a sender told that the file *)
(* arrived (on_ack, direct_finished) was told by a receiver that had       *)
(* checked and kept it.                                                    *)
THEOREM SuccessIsKept == Spec => []SentMeansKept
<1>1. IInv => SentMeansKept
    BY DEF IInv, Reported, SentMeansKept
<1>2. QED
    BY <1>1, AlwaysIInv, PTL

(* However often the setting is changed and by whichever way the answer    *)
(* comes: a piece is handed to the relay (pump) only if Same Network Only  *)
(* was off at both devices at the offer or later.                          *)
THEOREM FileStaysLocal == Spec => []PrivateStaysLocal
<1>1. IInv => PrivateStaysLocal
    <2> SUFFICES ASSUME IInv, NEW i \in DOMAIN wire["S"], wire["S"][i].kind = "chunk"
                 PROVE  wasOff = Sides
        BY DEF PrivateStaysLocal
    <2>1. wire["S"] \in Seq(Requests(wasOff))
        BY DEF IInv, Carried
    <2>2. wire["S"][i] \in Requests(wasOff)
        BY <2>1
    <2>3. QED
        BY <2>2 DEF Requests
<1>2. QED
    BY <1>1, AlwaysIInv, PTL

-----------------------------------------------------------------------------
(* While nothing goes wrong: nothing has failed at either end, because the *)
(* two ends and what is between them are always at one of a few places of  *)
(* the transfer, none of which is a failure.  These name the places.       *)

(* Nothing has gone wrong, been called off or been changed. *)
Calm == faults = 0 /\ ~late /\ ~calledOff /\ sets = 0

(* Then the connections are those of the beginning, and what they carry    *)
(* reaches whom it is addressed to.                                        *)
Steady ==
    /\ \A s \in Sides : conn[s] = 1 /\ up[s] /\ link[s] = 1 /\ knows[s] = 1 /\ ~only[s]
    /\ disk = "whole" /\ hash # "called off"

(* Nothing on its way. *)
Silent == wire["S"] = <<>> /\ wire["R"] = <<>>
(* The direct path is not used, though the sender may still listen.        *)
Apart == serve \in {"off", "listening"} /\ sock = Closed

(* The sender's entry of an offer nobody has answered. *)
Waiting ==
    out.stage = "offered" /\ out.to = 0 /\ out.next = 0 /\ out.acked = 0 /\ ~out.direct
    /\ out.offeredTo = 1
(* The receiver's entry that nothing has come for, and one that is accepted. *)
Unused == inc.owed = "none" /\ inc.received = 0 /\ inc.replyTo = 1 /\ ~inc.direct /\ inc.good
Ready == inc.stage = "moving" /\ inc.part /\ Unused
(* The receiver's entry that is over, with nothing owed. *)
Ended == inc.stage \in {"none", "done", "declined"} /\ inc.owed = "none"

(* No offer; an offer on its way; one its person looks at. *)
Nothing ==
    /\ out.stage = "none" /\ out.to = 0 /\ out.next = 0 /\ out.acked = 0 /\ ~out.direct
    /\ hash = "reading" => out.offeredTo = 1
    /\ inc = NoInc /\ Silent /\ serve = "off" /\ fetch = "off" /\ sock = Closed
Proposed ==
    /\ hash = "over" /\ Waiting /\ inc = NoInc /\ fetch = "off" /\ Apart
    /\ wire["R"] = <<>> /\ Len(wire["S"]) = 1
    /\ LET m == wire["S"][1] IN m.kind = "offer" /\ m.to = 1 /\ m.reply = 1
Considered ==
    /\ hash = "over" /\ Waiting /\ inc.stage = "offered" /\ Unused /\ fetch = "off"
    /\ Apart /\ Silent
(* Accepted: the receiver tries the local network, or has asked through the relay. *)
Reaching ==
    /\ hash = "over" /\ Waiting /\ Ready /\ Silent
    /\ \/ fetch \in {"reaching", "asking"} /\ Apart
       \/ /\ fetch = "first" /\ sock.r /\ sock.sent = 0 /\ sock.pieces = <<>> /\ sock.word = "none"
          /\ serve = IF sock.s THEN "listening" ELSE "off"
Asked ==
    /\ hash = "over" /\ Waiting /\ Ready /\ fetch = "off" /\ Apart
    /\ wire["S"] = <<>> /\ Len(wire["R"]) = 1
    /\ LET m == wire["R"][1] IN m.kind = "accept" /\ m.to = 1 /\ m.reply = 1
(* Sent directly: the receiver takes the pieces, or has them all and the sender must hear of it. *)
Taking ==
    /\ inc.stage = "moving" /\ inc.part /\ inc.good /\ inc.owed = "none"
    /\ inc.direct = (fetch = "taking") /\ fetch \in {"first", "taking"}
    /\ fetch = "first" => inc.received = 0
    /\ inc.received < Count /\ sock.r /\ sock.word = "none"
    /\ sock.sent = inc.received + Len(sock.pieces) /\ sock.sent <= Count
    /\ \A i \in 1..Len(sock.pieces) : sock.pieces[i] = "whole"
    /\ \/ serve = "sending" /\ sock.sent < Count
       \/ serve = "wrote"
       \/ serve = "confirming" /\ sock.sent = Count
Fetched ==
    /\ Ended /\ fetch = "off" /\ ~sock.r /\ sock.word = "done" /\ sock.sent = Count
    /\ serve \in {"wrote", "confirming"}
Fetching ==
    /\ hash = "over" /\ out.stage = "moving" /\ out.direct /\ out.to = 0 /\ Silent
    /\ sock.s /\ (Taking \/ Fetched)
(* The pieces the receiver has kept. *)
Got == IF inc.stage = "moving" THEN inc.received ELSE Count
(* Through the relay: the pieces on their way are the next ones; of the acknowledgements on  *)
(* their way only the last says that the file is kept, and with none on its way nor owed the *)
(* sender knows how far the receiver is.                                                     *)
Pieces(w, got, next) ==
    /\ next = got + Len(w)
    /\ \A i \in 1..Len(w) : /\ w[i].kind = "chunk" /\ w[i].to = 1
                            /\ w[i].at = got + i - 1 /\ w[i].data = "whole"
Acks(w, got, acked, owed) ==
    /\ acked <= got
    /\ \A i \in 1..Len(w) :
           /\ w[i].kind = "ack" /\ w[i].to = 1 /\ w[i].at <= got
           /\ w[i].data \in {"more", "done"}
           /\ w[i].data = "done" <=> i = Len(w) /\ owed = "none" /\ got = Count
           /\ i = Len(w) /\ owed = "none" => w[i].at = got
    /\ w = <<>> /\ owed = "none" => acked = got /\ got < Count
Relayed ==
    /\ hash = "over" /\ out.stage = "moving" /\ ~out.direct /\ out.to = 1 /\ fetch = "off" /\ Apart
    /\ inc.stage \in {"none", "moving", "done"}
    /\ inc.stage = "moving" =>
           /\ inc.part /\ inc.good /\ ~inc.direct /\ inc.received < Count
           /\ inc.owed \in {"none", "more"}
    /\ inc.stage # "moving" => inc.owed \in {"none", "done"}
    /\ inc.stage = "moving" \/ inc.owed # "none" => inc.replyTo = 1
    /\ inc.owed = "done" => inc.received = Count
    /\ out.next <= Count
    /\ Pieces(wire["S"], Got, out.next) /\ Acks(wire["R"], Got, out.acked, inc.owed)
(* All over, or over at the receiver and the sender still to hear of it. *)
Settled ==
    /\ hash = "over" /\ fetch = "off" /\ Apart /\ Ended /\ wire["S"] = <<>>
    /\ \/ out.stage \in {"none", "done", "declined"} /\ out.to = 0 /\ wire["R"] = <<>>
       \/ /\ Waiting /\ Len(wire["R"]) <= 1
          /\ \A i \in 1..Len(wire["R"]) : wire["R"][i].kind = "decline" /\ wire["R"][i].to = 1

Somewhere ==
    \/ Nothing \/ Proposed \/ Considered \/ Reaching \/ Asked \/ Fetching \/ Relayed \/ Settled
CalmInv == Calm => Steady /\ Somewhere

-----------------------------------------------------------------------------
(* Each step of a calm transfer goes from one place to another.            *)

(* Faults and changes are counted from nothing. *)
Counted == faults \in Nat /\ sets \in Nat

(* What has gone wrong, been called off or been changed stays so.          *)
LEMMA CalmBefore ==
    ASSUME Counted, [Next]_vars PROVE Counted' /\ (Calm' => Calm)
<1> DEFINE Kept == /\ faults' = faults \/ faults' = faults + 1
                   /\ sets' = sets \/ sets' = sets + 1
                   /\ late => late'
                   /\ calledOff => calledOff'
<1> SUFFICES Kept
    BY DEF Counted, Calm
<1> USE DEF Fault, NoFault, setting, history
<1>1. CASE Person
    <2>1. CASE send \/ accept \/ decline
        BY <2>1 DEF send, accept, decline
    <2>2. ASSUME NEW s \in Sides, cancel(s) PROVE Kept
        BY <2>2, Zenon DEF cancel
    <2>3. CASE \E s \in Sides : set_same_network_only(s)
        BY <2>3 DEF set_same_network_only
    <2>4. ASSUME NEW s \in Sides, clear_finished(s) PROVE Kept
        BY <2>4, Zenon DEF clear_finished
    <2>5. QED
        BY <1>1, <2>1, <2>2, <2>3, <2>4 DEF Person
<1>2. CASE offer
    BY <1>2, Zenon DEF offer
<1>3. CASE on_offer
    BY <1>3, Zenon DEF on_offer
<1>4. ASSUME NEW s \in Sides, on_cancel(s) PROVE Kept
    BY <1>4 DEF on_cancel
<1>5. ASSUME NEW s \in Sides, Misaddressed(s) PROVE Kept
    BY <1>5 DEF Misaddressed
<1>6. CASE on_chunk
    BY <1>6 DEF on_chunk
<1>7. CASE on_answer("accept") \/ on_answer("decline") \/ on_ack
    BY <1>7 DEF on_answer, on_ack
<1>8. CASE Listener
    BY <1>8 DEF Listener, StopListening, direct_begin, SendPiece, direct_progress, Confirmed
<1>9. CASE Reach \/ direct_receiving \/ direct_receive_failed
    BY <1>9 DEF Reach, direct_receiving, direct_receive_failed
<1>10. CASE NoFirstPiece
    BY <1>10, Zenon DEF NoFirstPiece
<1>11. CASE direct_piece
    BY <1>11 DEF direct_piece
<1>12. CASE answer_through_relay
    BY <1>12 DEF answer_through_relay
<1>13. CASE TickPump \/ TickAck
    BY <1>13 DEF TickPump, TickAck
<1>14. CASE \E s \in Sides : TickStall(s) \/ TickStallEarly(s) \/ TickGone(s)
    BY <1>14 DEF TickStall, TickStallEarly, TickGone, StallEnd
<1>15. CASE \E s \in Sides :
               Drop(s) \/ disconnected(s) \/ connected(s) \/ over_quota(s) \/ Presence(s)
    BY <1>15 DEF Drop, disconnected, connected, over_quota, Presence
<1>16. CASE GoesWrong
    BY <1>16 DEF GoesWrong
<1>17. CASE UNCHANGED vars
    BY <1>17 DEF vars
<1>18. QED
    BY <1>1, <1>2, <1>3, <1>4, <1>5, <1>6, <1>7, <1>8, <1>9, <1>10, <1>11, <1>12, <1>13,
       <1>14, <1>15, <1>16, <1>17
       DEF Next, FromSender, FromReceiver, Fetcher, Sides

(* What cannot happen while nothing goes wrong. *)
LEMMA CalmSteps ==
    ASSUME Counted, Calm, Calm', Steady, [Next]_vars
    PROVE  /\ ~Fault
           /\ \/ send \/ accept \/ decline \/ offer
              \/ FromSender \/ FromReceiver \/ Listener \/ Fetcher
              \/ TickPump \/ TickAck
              \/ \E s \in Sides : clear_finished(s) \/ TickStall(s) \/ TickGone(s)
              \/ UNCHANGED vars
<1>1. ~Fault
    BY DEF Counted, Calm, Fault
<1>2. ASSUME NEW s \in Sides, cancel(s) PROVE FALSE
    BY <1>2 DEF cancel, Calm
<1>3. ASSUME NEW s \in Sides, set_same_network_only(s) PROVE FALSE
    BY <1>3 DEF set_same_network_only, Calm
<1>4. ASSUME NEW s \in Sides,
             TickStallEarly(s) \/ Drop(s) \/ over_quota(s) \/ disconnected(s) \/ connected(s)
      PROVE  FALSE
    <2>1. conn[s] = 1 /\ up[s]
        BY Zenon DEF Steady
    <2>2. ~disconnected(s) /\ ~connected(s)
        BY <2>1, SMT DEF disconnected, connected
    <2>3. QED
        BY <1>1, <1>4, <2>2 DEF TickStallEarly, Drop, over_quota
<1>5. ASSUME NEW s \in Sides, Presence(s) PROVE FALSE
    <2>1. Other(s) \in Sides
        BY DEF Other, Sides
    <2>2. QED
        BY <1>1, <1>5, <2>1 DEF Presence, Steady
<1>6. ~GoesWrong
    BY <1>1 DEF GoesWrong
<1>7. QED
    BY <1>1, <1>2, <1>3, <1>4, <1>5, <1>6 DEF Next, Person

(* The connections and the file stay as they were. *)
LEMMA SteadyStays ==
    ASSUME Counted, Calm, Calm', Steady, [Next]_vars PROVE Steady'
<1> USE DEF setting, net, ends, threads
<1>1. ~Fault
    BY CalmSteps
<1>2. UNCHANGED <<conn, up, link, knows, only, disk>> /\ hash' \in {hash, "reading", "over"}
    <2>1. CASE send \/ accept \/ decline \/ offer
        BY <2>1 DEF send, accept, decline, offer
    <2>2. CASE FromSender
        <3>1. CASE on_offer
            BY <3>1, Zenon DEF on_offer
        <3>2. CASE on_chunk
            BY <3>2, Zenon DEF on_chunk
        <3>3. CASE on_cancel("S") \/ Misaddressed("S")
            BY <3>3 DEF on_cancel, Misaddressed
        <3>4. QED
            BY <2>2, <3>1, <3>2, <3>3 DEF FromSender
    <2>3. CASE FromReceiver
        <3>1. CASE on_answer("accept") \/ on_answer("decline")
            BY <3>1 DEF on_answer
        <3>2. CASE on_ack
            BY <3>2 DEF on_ack
        <3>3. CASE on_cancel("R") \/ Misaddressed("R")
            BY <3>3 DEF on_cancel, Misaddressed
        <3>4. QED
            BY <2>3, <3>1, <3>2, <3>3 DEF FromReceiver
    <2>4. CASE Listener
        BY <2>4 DEF Listener, StopListening, direct_begin, SendPiece, direct_progress, Confirmed
    <2>5. CASE Fetcher
        BY <2>5 DEF Fetcher, Reach, NoFirstPiece, direct_receiving, direct_piece,
                    direct_receive_failed, answer_through_relay
    <2>6. CASE TickPump \/ TickAck
        BY <2>6 DEF TickPump, TickAck
    <2>7. CASE \E s \in Sides : clear_finished(s) \/ TickStall(s) \/ TickGone(s)
        BY <2>7 DEF clear_finished, TickStall, StallEnd, TickGone
    <2>8. CASE UNCHANGED vars
        BY <2>8 DEF vars
    <2>9. QED
        BY <2>1, <2>2, <2>3, <2>4, <2>5, <2>6, <2>7, <2>8, CalmSteps
<1>3. QED
    BY <1>2 DEF Steady

(* A calm transfer at one of its places.                                   *)
Here == IInv /\ Calm /\ Steady /\ Somewhere

(* What the invariants say of it, one fact at a time. *)
LEMMA HereIs ==
    ASSUME Here
    PROVE  /\ "S" \in Sides /\ "R" \in Sides /\ Other("S") = "R" /\ Other("R") = "S"
           /\ \A s \in Sides : conn[s] = 1 /\ link[s] = 1 /\ knows[s] = 1 /\ ~only[s]
           /\ disk = "whole" /\ out \in Outs /\ inc \in Incs /\ sock \in Socks
           /\ wire \in [Sides -> Seq(Messages)]
           /\ wire["S"] \in Seq(Messages) /\ wire["R"] \in Seq(Messages)
           /\ Count \in Nat \ {0} /\ Window \in Nat \ {0}
BY TransferAssumption, Zenon DEF Here, IInv, Types, Steady, Sides, Other

(* Where the others are not. *)
LEMMA OverOrNothing == ASSUME Here, hash # "over" PROVE Nothing
BY DEF Here, Somewhere, Proposed, Considered, Reaching, Asked, Fetching, Taking, Fetched, Relayed,
       Settled

(* The person at either end, and the hash that is done. *)
LEMMA SendCalm == ASSUME Here, send PROVE Somewhere'
<1> USE DEF net, setting, history
<1>1. Nothing
    BY OverOrNothing DEF send
<1>2. knows["S"] = 1 /\ out \in Outs
    BY HereIs
<1>3. Nothing'
    BY <1>1, <1>2 DEF Nothing, send, Outs, Silent
<1>4. QED
    BY <1>3 DEF Somewhere

(* A queue that was empty, with one message on it. *)
LEMMA OneQueued ==
    ASSUME wire \in [Sides -> Seq(Messages)], NEW s \in Sides, wire[s] = <<>>, NEW m,
           wire' = Queued(wire, s, <<m>>)
    PROVE  /\ Len(wire'[s]) = 1 /\ wire'[s][1] = m
           /\ \A t \in Sides \ {s} : wire'[t] = wire[t]
<1>1. wire' = [wire EXCEPT ![s] = wire[s] \o <<m>>]
    BY DEF Queued
<1>2. wire'[s] = <<>> \o <<m>> /\ \A t \in Sides \ {s} : wire'[t] = wire[t]
    BY <1>1
<1>3. QED
    BY <1>2

(* And with its one message taken off. *)
LEMMA OneTaken ==
    ASSUME wire \in [Sides -> Seq(Messages)], NEW s \in Sides, Len(wire[s]) = 1
    PROVE  /\ Taken(s)[s] = <<>> /\ Arriving(s) = wire[s][1]
           /\ \A t \in Sides \ {s} : Taken(s)[t] = wire[t]
<1>1. wire[s] \in Seq(Messages) /\ Tail(wire[s]) = <<>> /\ Head(wire[s]) = wire[s][1]
    <2>1. wire[s] \in Seq(Messages) /\ wire[s] # <<>>
        <3>1. wire[s] \in Seq(Messages)
            OBVIOUS
        <3>2. ASSUME wire[s] = <<>> PROVE FALSE
            <4>1. Len(wire[s]) = 0
                BY <3>2
            <4>2. QED
                BY <4>1
        <3>3. QED
            BY <3>1, <3>2
    <2>2. Tail(wire[s]) \in Seq(Messages) /\ Len(Tail(wire[s])) = Len(wire[s]) - 1
        BY <2>1, HeadTailProperties
    <2>3. Len(Tail(wire[s])) = 0
        BY <2>2
    <2>4. Tail(wire[s]) = <<>>
        BY <2>2, <2>3, EmptySeq
    <2>5. QED
        BY <2>1, <2>4
<1>2. Taken(s) = [wire EXCEPT ![s] = Tail(wire[s])]
    BY DEF Taken
<1>3. QED
    BY <1>1, <1>2 DEF Arriving

LEMMA OfferCalm == ASSUME Here, offer PROVE Somewhere'
<1> USE DEF net, history
<1>1. Nothing
    BY OverOrNothing DEF offer
<1>2. CASE UNCHANGED <<out, serve, wire, wasOff>>
    <2>1. Nothing'
        BY <1>1, <1>2 DEF Nothing, offer, Silent
    <2>2. QED
        BY <2>1 DEF Somewhere
<1>3. CASE /\ hash = "reading"
           /\ \E direct \in BOOLEAN :
                 /\ wire' = Queued(wire, "S", <<[Message("offer", out.offeredTo, link["S"]) EXCEPT
                                                    !.data = IF direct THEN "direct" ELSE "none"]>>)
                 /\ serve' = IF direct THEN "listening" ELSE "off"
           /\ out' = [out EXCEPT !.stage = "offered"]
    <2>1. PICK direct \in BOOLEAN :
              /\ wire' = Queued(wire, "S", <<[Message("offer", out.offeredTo, link["S"]) EXCEPT
                                                  !.data = IF direct THEN "direct" ELSE "none"]>>)
              /\ serve' = IF direct THEN "listening" ELSE "off"
        BY <1>3
    <2> DEFINE m == [Message("offer", out.offeredTo, link["S"]) EXCEPT
                        !.data = IF direct THEN "direct" ELSE "none"]
    <2>2. m.kind = "offer" /\ m.to = 1 /\ m.reply = 1
        BY <1>1, <1>3, HereIs DEF Message, Nothing
    <2> HIDE DEF m
    <2>3. wire["S"] = <<>> /\ wire["R"] = <<>>
        BY <1>1 DEF Nothing, Silent
    <2>4. Len(wire'["S"]) = 1 /\ wire'["S"][1] = m /\ wire'["R"] = <<>>
        BY <2>1, <2>3, HereIs, OneQueued DEF m, Sides
    <2>5. Waiting'
        BY <1>1, <1>3, HereIs DEF Nothing, Waiting, Outs
    <2>6. Proposed'
        BY <1>1, <2>1, <2>2, <2>4, <2>5 DEF Nothing, offer, Proposed, Apart
    <2>7. QED
        BY <2>6 DEF Somewhere
<1>4. QED
    BY <1>2, <1>3 DEF offer

(* What is at the head of a queue that is not empty. *)
LEMMA HeadIs ==
    ASSUME Here, NEW s \in Sides, wire[s] # <<>>
    PROVE  /\ Arriving(s) = wire[s][1] /\ Len(wire[s]) \in Nat \ {0} /\ 1 \in 1..Len(wire[s])
           /\ Arriving(s) \in Messages
<1>1. wire[s] \in Seq(Messages)
    BY HereIs
<1>2. QED
    BY <1>1 DEF Arriving

(* The receiver answers what it was offered. *)
LEMMA OnOfferCalm == ASSUME Here, on_offer PROVE Somewhere'
<1> USE DEF net, setting, threads, history
<1>1. wire["S"] # <<>> /\ Arriving("S") = wire["S"][1] /\ Arriving("S").kind = "offer"
      /\ 1 \in 1..Len(wire["S"])
    BY HereIs, HeadIs DEF on_offer, Arrives
<1>2. Proposed
    BY <1>1 DEF Here, Somewhere, Nothing, Considered, Reaching, Asked, Fetching, Taking, Fetched,
                Relayed, Pieces, Acks, Settled,
                Silent
<1> DEFINE m == Arriving("S")
<1>3. m.kind = "offer" /\ m.to = 1 /\ m.reply = 1 /\ Len(wire["S"]) = 1
    BY <1>1, <1>2 DEF Proposed
<1>4. wire' = Taken("S") /\ wire'["S"] = <<>> /\ wire'["R"] = <<>>
    BY <1>2, <1>3, HereIs, OneTaken DEF on_offer, Proposed, Sides
<1>5. PICK b : inc' = [NoInc EXCEPT !.stage = "offered", !.replyTo = 1, !.reachable = b]
    <2>1. knows["R"] = 1 /\ inc.stage = "none"
        BY <1>2, HereIs DEF Proposed, NoInc
    <2>2. QED
        BY <1>3, <2>1 DEF on_offer
<1>6. Considered'
    BY <1>2, <1>4, <1>5 DEF Considered, Proposed, on_offer, Unused, NoInc, Silent, Apart, Waiting
<1>7. QED
    BY <1>6 DEF Somewhere

LEMMA AcceptCalm == ASSUME Here, accept PROVE Somewhere'
<1> USE DEF net, setting, history
<1>1. Considered
    BY DEF accept, Here, Somewhere, Nothing, Proposed, Reaching, Asked, Fetching, Taking, Fetched,
           Relayed, Settled,
           Ready, Ended, NoInc
<1>2. Ready' /\ Waiting'
    BY <1>1, HereIs DEF accept, Considered, Unused, Ready, Incs, Waiting
<1>3. CASE fetch' = "reaching" /\ UNCHANGED wire
    <2>1. Reaching'
        BY <1>1, <1>2, <1>3 DEF accept, Considered, Reaching, Silent, Apart
    <2>2. QED
        BY <2>1 DEF Somewhere
<1>4. CASE wire' = Queued(wire, "R", <<Message("accept", inc.replyTo, link["R"])>>)
           /\ UNCHANGED fetch
    <2> DEFINE m == Message("accept", inc.replyTo, link["R"])
    <2>1. m.kind = "accept" /\ m.to = 1 /\ m.reply = 1
        BY <1>1, HereIs DEF Message, Considered, Unused
    <2>2. wire["S"] = <<>> /\ wire["R"] = <<>> /\ wire' = Queued(wire, "R", <<m>>)
        BY <1>1, <1>4 DEF Considered, Silent
    <2> HIDE DEF m
    <2>3. Len(wire'["R"]) = 1 /\ wire'["R"][1] = m /\ wire'["S"] = <<>>
        BY <2>2, HereIs, OneQueued DEF Sides
    <2>4. Asked'
        BY <1>1, <1>2, <1>4, <2>1, <2>3 DEF accept, Considered, Asked, Apart
    <2>5. QED
        BY <2>4 DEF Somewhere
<1>5. QED
    BY <1>3, <1>4 DEF accept

LEMMA DeclineCalm == ASSUME Here, decline PROVE Somewhere'
<1> USE DEF net, setting, history, threads
<1>1. Considered
    BY DEF decline, Here, Somewhere, Nothing, Proposed, Reaching, Asked, Fetching, Taking,
           Fetched, Relayed, Settled,
           Ready, Ended, NoInc
<1>2. Ended' /\ Waiting'
    BY <1>1, HereIs DEF decline, Considered, Unused, Ended, Incs, Waiting, EndInc, NoInc
<1> DEFINE m == Message("decline", inc.replyTo, link["R"])
<1>3. m.kind = "decline" /\ m.to = 1
    BY <1>1, HereIs DEF Message, Considered, Unused
<1>4. wire["S"] = <<>> /\ wire["R"] = <<>>
    BY <1>1 DEF Considered, Silent
<1>5. wire' = Queued(wire, "R", <<>>) \/ wire' = Queued(wire, "R", <<m>>)
    BY DEF decline, BestEffort
<1> HIDE DEF m
<1>6. wire'["S"] = <<>> /\ \/ wire'["R"] = <<>>
                           \/ Len(wire'["R"]) = 1 /\ wire'["R"][1] = m
    <2>1. CASE wire' = Queued(wire, "R", <<>>)
        BY <1>4, <2>1, HereIs DEF Queued
    <2>2. CASE wire' = Queued(wire, "R", <<m>>)
        BY <1>4, <2>2, HereIs, OneQueued DEF Sides
    <2>3. QED
        BY <1>5, <2>1, <2>2
<1>7. Settled'
    <2>1. hash' = "over" /\ fetch' = "off" /\ Apart'
        BY <1>1 DEF decline, Considered, Apart
    <2>2. CASE wire'["R"] = <<>>
        BY <1>2, <1>6, <2>1, <2>2 DEF Settled
    <2>3. CASE Len(wire'["R"]) = 1 /\ wire'["R"][1] = m
        <3>1. \A i \in 1..Len(wire'["R"]) :
                  wire'["R"][i].kind = "decline" /\ wire'["R"][i].to = 1
            BY <1>3, <2>3
        <3>2. QED
            BY <1>2, <1>6, <2>1, <2>3, <3>1 DEF Settled
    <2>4. QED
        BY <1>6, <2>2, <2>3
<1>8. QED
    BY <1>7 DEF Somewhere

(* Clearing what is over leaves a place of its own. *)
LEMMA ClearCalm ==
    ASSUME Here, NEW s \in Sides, clear_finished(s), ~calledOff' PROVE Somewhere'
<1> USE DEF net, setting, threads
<1>1. CASE s = "S"
    <2>1. out.stage # "none" /\ Finished(out) /\ out' = NoOut /\ UNCHANGED inc
        BY <1>1 DEF clear_finished
    <2>2. Settled /\ ~Waiting
        BY <2>1 DEF Here, Somewhere, Nothing, Proposed, Considered, Reaching, Asked, Fetching,
                    Taking, Fetched,
                    Relayed, Waiting, Finished, Live
    <2>3. Settled'
        BY <2>1, <2>2 DEF Settled, NoOut, Ended, Apart, clear_finished
    <2>4. QED
        BY <2>3 DEF Somewhere
<1>2. CASE s = "R"
    <2>1. inc.stage # "none" /\ Finished(inc) /\ inc' = NoInc /\ UNCHANGED out /\ inc.owed = "none"
        BY <1>2, Zenon DEF clear_finished
    <2>2. Fetching \/ Relayed \/ Settled
        BY <2>1 DEF Here, Somewhere, Nothing, Proposed, Considered, Reaching, Asked, NoInc, Ready,
                    Finished, Live
    <2>3. inc'.stage = "none" /\ inc'.owed = "none" /\ inc.stage # "moving"
        BY <2>1 DEF NoInc, Finished, Live
    <2>4. ASSUME Fetching PROVE Fetching'
        BY <2>1, <2>3, <2>4 DEF Fetching, Taking, Fetched, Ended, Silent, clear_finished
    <2>5. ASSUME Relayed PROVE Relayed'
        BY <2>1, <2>3, <2>5 DEF Relayed, Got, Apart, clear_finished
    <2>6. ASSUME Settled PROVE Settled'
        BY <2>1, <2>3, <2>6 DEF Settled, Ended, Apart, Waiting, clear_finished
    <2>7. QED
        BY <2>2, <2>4, <2>5, <2>6 DEF Somewhere
<1>3. QED
    BY <1>1, <1>2 DEF Sides

(* Nobody calls off and nothing is addressed wrongly. *)
LEMMA NoCancel == ASSUME Here, NEW s \in Sides, on_cancel(s) PROVE FALSE
<1>1. wire[s] # <<>> /\ Arriving(s) = wire[s][1] /\ Arriving(s).kind = "cancel"
      /\ 1 \in 1..Len(wire[s])
    BY HeadIs DEF on_cancel, Arrives
<1>2. wire[s][1].kind # "cancel"
    <2>1. CASE s = "S"
        BY <1>1, <2>1 DEF Here, Somewhere, Nothing, Proposed, Considered, Reaching, Asked,
                          Fetching, Taking, Fetched,
                          Relayed, Pieces, Acks, Settled, Silent
    <2>2. CASE s = "R"
        BY <1>1, <2>2 DEF Here, Somewhere, Nothing, Proposed, Considered, Reaching, Asked,
                          Fetching, Taking, Fetched,
                          Relayed, Pieces, Acks, Settled, Silent
    <2>3. QED
        BY <2>1, <2>2 DEF Sides
<1>3. QED
    BY <1>1, <1>2

LEMMA NoneMisaddressed == ASSUME Here, NEW s \in Sides, Misaddressed(s) PROVE FALSE
<1>1. wire[s] # <<>> /\ Arriving(s) = wire[s][1] /\ 1 \in 1..Len(wire[s])
    BY HeadIs DEF Misaddressed
<1>2. wire[s][1].to = 1
    <2>1. CASE s = "S"
        BY <1>1, <2>1 DEF Here, Somewhere, Nothing, Proposed, Considered, Reaching, Asked,
                          Fetching, Taking, Fetched,
                          Relayed, Pieces, Acks, Settled, Silent
    <2>2. CASE s = "R"
        BY <1>1, <2>2 DEF Here, Somewhere, Nothing, Proposed, Considered, Reaching, Asked,
                          Fetching, Taking, Fetched,
                          Relayed, Pieces, Acks, Settled, Silent
    <2>3. QED
        BY <2>1, <2>2 DEF Sides
<1>3. conn[Other(s)] = 1
    BY HereIs DEF Sides
<1>4. QED
    BY <1>1, <1>2, <1>3 DEF Misaddressed

(* The listener: it stops, somebody calls, a piece is written, counted and confirmed. *)
LEMMA StopCalm == ASSUME Here, StopListening PROVE Somewhere'
<1> USE DEF net, setting, ends, history
<1>1. serve = "listening" /\ serve' = "off" /\ sock' = HangUpS(sock)
    BY DEF StopListening
<1>2. HangUpS(Closed) = Closed
    BY DEF HangUpS, Closed
<1>3. Apart => Apart'
    BY <1>1, <1>2 DEF Apart
<1>4. ASSUME Proposed PROVE Proposed'
    BY <1>3, <1>4 DEF Proposed, Waiting, StopListening
<1>5. ASSUME Considered PROVE Considered'
    BY <1>3, <1>5 DEF Considered, Waiting, Unused, Silent, StopListening
<1>6. ASSUME Reaching PROVE Reaching'
    <2>1. CASE fetch \in {"reaching", "asking"} /\ Apart
        BY <1>3, <1>6, <2>1 DEF Reaching, Waiting, Ready, Unused, Silent, StopListening
    <2>2. CASE /\ fetch = "first" /\ sock.r /\ sock.sent = 0 /\ sock.pieces = <<>>
               /\ sock.word = "none"
        <3>1. sock' = [sock EXCEPT !.s = FALSE] /\ sock \in Socks
            BY <1>1, <2>2, HereIs DEF HangUpS
        <3>2. /\ ~sock'.s /\ sock'.r /\ sock'.sent = 0 /\ sock'.pieces = <<>>
              /\ sock'.word = "none"
            BY <2>2, <3>1 DEF Socks
        <3>3. QED
            BY <1>1, <1>6, <2>2, <3>2 DEF Reaching, Waiting, Ready, Unused, Silent, StopListening
    <2>3. QED
        BY <1>1, <1>6, <2>1, <2>2 DEF Reaching
<1>7. ASSUME Asked PROVE Asked'
    BY <1>3, <1>7 DEF Asked, Waiting, Ready, Unused, StopListening
<1>8. ASSUME Relayed PROVE Relayed'
    BY <1>3, <1>8 DEF Relayed, Got, StopListening
<1>9. ASSUME Settled PROVE Settled'
    BY <1>3, <1>9 DEF Settled, Ended, Waiting, StopListening
<1>10. ~Nothing /\ ~Fetching
    BY <1>1 DEF Nothing, Fetching, Taking, Fetched
<1>11. QED
    BY <1>4, <1>5, <1>6, <1>7, <1>8, <1>9, <1>10 DEF Here, Somewhere

LEMMA BeginCalm == ASSUME Here, direct_begin PROVE Somewhere'
<1> USE DEF net, setting, history
<1>1. serve = "listening" /\ sock.r
    BY DEF direct_begin
<1>2. /\ Reaching /\ fetch = "first"
      /\ sock.s /\ sock.r /\ sock.sent = 0 /\ sock.pieces = <<>> /\ sock.word = "none"
    <2>1. ~Apart
        BY <1>1 DEF Apart, Closed
    <2>2. Reaching
        BY <1>1, <2>1 DEF Here, Somewhere, Nothing, Proposed, Considered, Asked, Fetching, Taking,
                          Fetched, Relayed, Settled
    <2>3. QED
        BY <1>1, <2>1, <2>2 DEF Reaching
<1>3. Len(sock.pieces) = 0
    BY <1>2
<1>4. out' = [out EXCEPT !.stage = "moving", !.direct = TRUE] /\ serve' = "sending" /\ sock' = sock
    BY <1>2 DEF direct_begin, Reaching, Waiting
<1>5. out'.stage = "moving" /\ out'.direct /\ out'.to = 0
    BY <1>2, <1>4, HereIs DEF Reaching, Waiting, Outs
<1>6. 0 < Count /\ 0 <= Count /\ 0 + 0 = 0
    BY HereIs
<1>7. Fetching'
    <2>1. UNCHANGED <<hash, inc, fetch, wire>>
        BY DEF direct_begin
    <2>2. inc.stage = "moving" /\ inc.part /\ inc.good /\ inc.owed = "none" /\ inc.direct = FALSE
          /\ inc.received = 0 /\ Silent /\ hash = "over"
        BY <1>2, HereIs, Zenon DEF Reaching, Ready, Unused, Incs
    <2>3. Silent'
        BY <2>1, <2>2 DEF Silent
    <2>4. /\ inc'.received < Count
          /\ sock'.sent = inc'.received + Len(sock'.pieces) /\ sock'.sent < Count
          /\ sock'.sent <= Count
          /\ \A i \in 1..Len(sock'.pieces) : sock'.pieces[i] = "whole"
        <3>1. inc'.received = 0 /\ sock'.sent = 0 /\ Len(sock'.pieces) = 0
            BY <1>2, <1>3, <1>4, <2>1, <2>2
        <3>2. \A i \in 1..Len(sock'.pieces) : sock'.pieces[i] = "whole"
            BY <3>1
        <3>3. inc'.received < Count /\ sock'.sent < Count /\ sock'.sent <= Count
            BY <1>6, <3>1
        <3>4. sock'.sent = inc'.received + Len(sock'.pieces)
            BY <3>1
        <3>5. QED
            BY <3>2, <3>3, <3>4
    <2>5. sock'.s /\ sock'.r /\ sock'.word = "none" /\ serve' = "sending"
        BY <1>2, <1>4
    <2>6. /\ fetch' = "first" /\ inc'.direct = (fetch' = "taking")
          /\ fetch' = "first" => inc'.received = 0
        BY <1>2, <2>1, <2>2
    <2>7. inc'.stage = "moving" /\ inc'.part /\ inc'.good /\ inc'.owed = "none" /\ hash' = "over"
        BY <2>1, <2>2
    <2>8. QED
        BY <1>5, <2>3, <2>4, <2>5, <2>6, <2>7 DEF Fetching, Taking, Fetched
<1>8. QED
    BY <1>7 DEF Somewhere

LEMMA SendPieceCalm == ASSUME Here, SendPiece PROVE Somewhere'
<1> USE DEF net, setting, history
<1>1. Fetching /\ serve = "sending"
    BY DEF SendPiece, Here, Somewhere, Nothing, Proposed, Considered, Reaching, Asked, Relayed,
           Settled, Apart
<1>2. sock.r /\ Taking /\ sock.sent < Count
    BY <1>1 DEF Fetching, Taking, Fetched
<1>3. /\ sock' = [sock EXCEPT !.sent = @ + 1, !.pieces = Append(@, "whole")]
      /\ serve' = "wrote" /\ UNCHANGED <<hash, inc, out, fetch, wire>>
    BY <1>1, <1>2, HereIs DEF SendPiece
<1>4. sock \in Socks /\ Len(sock.pieces) \in Nat /\ sock.sent \in Nat /\ Count \in Nat
      /\ sock.pieces \in Seq({"whole", "altered"})
    BY HereIs DEF Socks
<1>5. /\ sock'.s = sock.s /\ sock'.r = sock.r /\ sock'.word = sock.word
      /\ sock'.sent = sock.sent + 1 /\ sock'.pieces = Append(sock.pieces, "whole")
    BY <1>3, <1>4 DEF Socks
<1>6. /\ Len(sock'.pieces) = Len(sock.pieces) + 1
      /\ \A i \in 1..Len(sock'.pieces) : sock'.pieces[i] = "whole"
    BY <1>2, <1>4, <1>5 DEF Taking
<1>7. Taking'
    <2>1. inc.received \in Nat
        BY HereIs DEF Incs
    <2>2. sock'.sent = inc.received + Len(sock'.pieces) /\ sock'.sent <= Count
        BY <1>2, <1>4, <1>5, <1>6, <2>1 DEF Taking
    <2>3. QED
        BY <1>2, <1>3, <1>5, <1>6, <2>2 DEF Taking
<1>8. Fetching'
    BY <1>1, <1>3, <1>5, <1>7 DEF Fetching, Silent
<1>9. QED
    BY <1>8 DEF Somewhere

LEMMA ProgressCalm == ASSUME Here, direct_progress PROVE Somewhere'
<1> USE DEF net, setting, history
<1>1. Fetching /\ serve = "wrote" /\ out.direct /\ out.stage = "moving"
    BY DEF direct_progress, Here, Somewhere, Nothing, Proposed, Considered, Reaching, Asked,
           Relayed,
           Settled, Apart, Fetching
<1>2. /\ out' = [out EXCEPT !.acked = sock.sent, !.next = sock.sent, !.stage = "moving"]
      /\ serve' = IF sock.sent = Count THEN "confirming" ELSE "sending"
      /\ UNCHANGED <<hash, inc, sock, fetch, wire>>
    BY <1>1 DEF direct_progress, Finished, Live
<1>3. out'.stage = "moving" /\ out'.direct = out.direct /\ out'.to = out.to
    BY <1>1, <1>2, HereIs DEF Outs
<1>4. sock.sent \in Nat /\ Count \in Nat
    BY HereIs DEF Socks
<1>5. Fetching'
    <2>1. CASE Taking
        <3>1. \/ serve' = "sending" /\ sock'.sent < Count
              \/ serve' = "confirming" /\ sock'.sent = Count
            BY <1>2, <1>4, <2>1 DEF Taking
        <3>2. Taking'
            BY <1>2, <2>1, <3>1 DEF Taking
        <3>3. QED
            BY <1>1, <1>2, <1>3, <3>2 DEF Fetching, Silent
    <2>2. CASE Fetched
        BY <1>1, <1>2, <1>3, <2>2 DEF Fetching, Fetched, Silent, Ended
    <2>3. QED
        BY <1>1, <2>1, <2>2 DEF Fetching
<1>6. QED
    BY <1>5 DEF Somewhere

LEMMA ConfirmedCalm == ASSUME Here, Confirmed, ~Fault PROVE Somewhere'
<1> USE DEF net, setting, history
<1>1. Fetching /\ serve = "confirming"
    BY DEF Confirmed, Here, Somewhere, Nothing, Proposed, Considered, Reaching, Asked, Relayed,
           Settled, Apart
<1>2. sock.word = "done" /\ Ended /\ fetch = "off" /\ ~sock.r
    BY <1>1 DEF Confirmed, Fetching, Taking, Fetched
<1>3. DirectEnds("done") /\ UNCHANGED <<hash, inc, fetch, wire>>
    BY <1>2 DEF Confirmed
<1>4. sock' = Closed /\ serve' = "off"
    BY <1>2, <1>3 DEF DirectEnds, HangUpS
<1>5. out'.stage = "done" /\ out'.to = 0
    BY <1>1, <1>3 DEF DirectEnds, Fetching, Finished, Live, EndOut, NoOut
<1>6. Settled'
    BY <1>1, <1>2, <1>3, <1>4, <1>5 DEF Settled, Fetching, Ended, Apart, Silent
<1>7. QED
    BY <1>6 DEF Somewhere

(* The receiver's thread: it reaches the sender or does not, and takes what it sends. *)
LEMMA ReachCalm == ASSUME Here, Reach PROVE Somewhere'
<1> USE DEF net, setting, history, ends
<1>1. Reaching /\ fetch = "reaching" /\ Apart
    BY DEF Reach, Here, Somewhere, Nothing, Proposed, Considered, Reaching, Asked, Relayed,
           Settled, Fetching, Taking, Fetched
<1>2. UNCHANGED <<hash, out, inc, serve, wire>>
    BY DEF Reach
<1>3. hash' = "over" /\ Waiting' /\ Ready' /\ Silent'
    BY <1>1, <1>2 DEF Reaching, Waiting, Ready, Unused, Silent
<1>4. Reaching'
    <2>1. CASE fetch' = "asking" /\ UNCHANGED sock
        BY <1>1, <1>2, <1>3, <2>1 DEF Reaching, Apart
    <2>2. CASE /\ serve = "listening" /\ fetch' = "first"
               /\ sock' = [Closed EXCEPT !.s = TRUE, !.r = TRUE]
        <3>1. /\ sock'.s /\ sock'.r /\ sock'.sent = 0 /\ sock'.pieces = <<>>
              /\ sock'.word = "none"
            BY <2>2 DEF Closed
        <3>2. QED
            BY <1>2, <1>3, <2>2, <3>1 DEF Reaching
    <2>3. QED
        BY <2>1, <2>2 DEF Reach
<1>5. QED
    BY <1>4 DEF Somewhere

LEMMA NoFirstCalm == ASSUME Here, NoFirstPiece, ~late' PROVE Somewhere'
<1> USE DEF net, setting, ends
<1>1. fetch = "first" /\ fetch' = "asking" /\ sock' = HangUpR(sock) /\ ~sock.s
      /\ UNCHANGED <<hash, out, inc, serve, wire>>
    BY Zenon DEF NoFirstPiece
<1>2. Reaching /\ serve = "off"
    BY <1>1 DEF Here, Somewhere, Nothing, Proposed, Considered, Reaching, Asked, Relayed,
                Settled, Fetching, Taking, Fetched
<1>3. sock' = Closed
    BY <1>1 DEF HangUpR
<1>4. Reaching'
    BY <1>1, <1>2, <1>3 DEF Reaching, Waiting, Ready, Unused, Silent, Apart
<1>5. QED
    BY <1>4 DEF Somewhere

LEMMA ReceivingCalm == ASSUME Here, direct_receiving PROVE Somewhere'
<1> USE DEF net, setting, history
<1>1. fetch = "first" /\ sock.pieces # <<>> /\ fetch' = "taking"
      /\ UNCHANGED <<hash, out, serve, sock, wire>>
    BY DEF direct_receiving
<1>2. Fetching /\ Taking
    BY <1>1 DEF Here, Somewhere, Nothing, Proposed, Considered, Reaching, Asked, Relayed,
                Settled, Fetching, Taking, Fetched
<1>3. inc' = [inc EXCEPT !.direct = TRUE]
    BY <1>2 DEF direct_receiving, Taking
<1>4. /\ inc'.direct = TRUE /\ inc'.stage = inc.stage /\ inc'.part = inc.part
      /\ inc'.good = inc.good /\ inc'.owed = inc.owed /\ inc'.received = inc.received
    BY <1>3, HereIs DEF Incs
<1>5. Taking'
    BY <1>1, <1>2, <1>4 DEF Taking
<1>6. Fetching'
    BY <1>1, <1>2, <1>5 DEF Fetching, Silent
<1>7. QED
    BY <1>6 DEF Somewhere

LEMMA NoReceiveFailure == ASSUME Here, direct_receive_failed, ~Fault PROVE FALSE
<1>1. fetch = "taking" /\ ~sock.s
    BY DEF direct_receive_failed
<1>2. QED
    BY <1>1 DEF Here, Somewhere, Nothing, Proposed, Considered, Reaching, Asked, Relayed,
                Settled, Fetching, Taking, Fetched

(* A piece of the file as it was offered is taken. *)
LEMMA TookCalm ==
    ASSUME Here, inc.stage = "moving", inc.part, inc.good, NEW t \in take_piece("whole"), ~t.ill
    PROVE  /\ t.inc \in Incs /\ t.inc.received = inc.received + 1 /\ t.inc.good
           /\ t.inc.owed = inc.owed /\ t.inc.replyTo = inc.replyTo /\ t.inc.direct = inc.direct
           /\ IF inc.received + 1 = Count THEN t.res = "done" /\ t.inc.stage = "done"
              ELSE t.res = "more" /\ t.inc.stage = "moving" /\ t.inc.part
<1> DEFINE i == [inc EXCEPT !.received = @ + 1, !.good = @ /\ "whole" = "whole"]
           kept == [i EXCEPT !.stage = "done", !.part = FALSE]
           spoiled == [i EXCEPT !.stage = "failed", !.part = FALSE]
           ended == EndInc(inc, "failed")
<1>1. inc \in Incs /\ inc.received \in Nat
    BY HereIs DEF Incs
<1>2. /\ i \in Incs /\ i.received = inc.received + 1 /\ i.good /\ i.stage = "moving" /\ i.part
      /\ i.owed = inc.owed /\ i.replyTo = inc.replyTo /\ i.direct = inc.direct
    <2> DEFINE j == [inc EXCEPT !.received = inc.received + 1, !.good = TRUE]
    <2>1. inc.received + 1 \in Nat
        BY <1>1
    <2>2. i = j
        <3>1. (inc.good /\ "whole" = "whole") = TRUE
            BY <1>1 DEF Incs
        <3>2. QED
            BY <3>1, Zenon
    <2>3. /\ j \in Incs /\ j.received = inc.received + 1 /\ j.good /\ j.stage = inc.stage
          /\ j.part = inc.part /\ j.owed = inc.owed /\ j.replyTo = inc.replyTo
          /\ j.direct = inc.direct
        BY <1>1, <2>1 DEF Incs
    <2> HIDE DEF i, j
    <2>4. QED
        BY <2>2, <2>3
<1>3. \/ t = [Took("refused", ended, Discarded, FALSE) EXCEPT !.ill = TRUE]
      \/ i.received # Count /\ t = Took("more", i, files, FALSE)
      \/ i.received = Count /\ t = Took("done", kept, (files \ {"part"}) \cup {"kept"}, FALSE)
      \/ t = Took("corrupt", spoiled, files \ {"part"}, TRUE)
    <2>1. i.good /\ inc.part
        BY <1>2
    <2> HIDE DEF ended
    <2>2. QED
        BY <2>1 DEF take_piece, ended
<1> HIDE DEF i
<1>4. /\ kept \in Incs /\ kept.received = i.received /\ kept.good = i.good /\ kept.stage = "done"
      /\ kept.owed = i.owed /\ kept.replyTo = i.replyTo /\ kept.direct = i.direct
    BY <1>2 DEF Incs
<1> HIDE DEF kept, spoiled, ended
<1>5. /\ t # [Took("refused", ended, Discarded, FALSE) EXCEPT !.ill = TRUE]
      /\ t # Took("corrupt", spoiled, files \ {"part"}, TRUE)
    BY DEF Took
<1>6. CASE i.received # Count /\ t = Took("more", i, files, FALSE)
    <2>1. t.res = "more" /\ t.inc = i
        BY <1>6 DEF Took
    <2>2. QED
        BY <1>2, <1>6, <2>1
<1>7. CASE i.received = Count /\ t = Took("done", kept, (files \ {"part"}) \cup {"kept"}, FALSE)
    <2>1. t.res = "done" /\ t.inc = kept
        BY <1>7 DEF Took
    <2>2. QED
        BY <1>2, <1>4, <1>7, <2>1
<1>8. QED
    BY <1>3, <1>5, <1>6, <1>7

LEMMA DirectPieceCalm == ASSUME Here, direct_piece, ~Fault PROVE Somewhere'
<1> USE DEF net, setting, history
<1> DEFINE rest == [sock EXCEPT !.pieces = Tail(@)]
<1>1. fetch = "taking" /\ sock.pieces # <<>>
    BY DEF direct_piece
<1>2. Fetching /\ Taking
    BY <1>1 DEF Here, Somewhere, Nothing, Proposed, Considered, Reaching, Asked, Relayed,
                Settled, Fetching, Fetched
<1>3. /\ sock \in Socks /\ sock.pieces \in Seq({"whole", "altered"}) /\ sock.sent \in Nat
      /\ inc.received \in Nat /\ Count \in Nat
    BY HereIs DEF Socks, Incs
<1>4. /\ Head(sock.pieces) = "whole" /\ Tail(sock.pieces) \in Seq({"whole", "altered"})
      /\ Len(Tail(sock.pieces)) = Len(sock.pieces) - 1 /\ Len(sock.pieces) \in Nat \ {0}
      /\ \A j \in 1..Len(Tail(sock.pieces)) : Tail(sock.pieces)[j] = "whole"
    BY <1>1, <1>2, <1>3 DEF Taking
<1>5. /\ rest \in Socks /\ rest.pieces = Tail(sock.pieces) /\ rest.s = sock.s
      /\ rest.r = sock.r /\ rest.sent = sock.sent /\ rest.word = sock.word
    BY <1>3, <1>4 DEF Socks
<1>6. PICK t \in take_piece("whole") :
          /\ ~t.ill
          /\ inc' = t.inc /\ files' = t.files
          /\ IF t.res = "more" THEN sock' = rest /\ UNCHANGED fetch
             ELSE /\ fetch' = "off"
                  /\ sock' = HangUpR([rest EXCEPT !.word = IF t.res = "refused" THEN @ ELSE t.res])
    <2>1. inc.stage = "moving"
        BY <1>2 DEF Taking
    <2> HIDE DEF rest
    <2>2. QED
        BY <1>4, <2>1 DEF direct_piece, rest
<1> HIDE DEF rest
<1>7. UNCHANGED <<hash, out, serve, wire>>
    BY DEF direct_piece
<1>8. /\ t.inc.received = inc.received + 1 /\ t.inc.good
      /\ t.inc.owed = inc.owed /\ t.inc.direct = inc.direct
      /\ IF inc.received + 1 = Count THEN t.res = "done" /\ t.inc.stage = "done"
         ELSE t.res = "more" /\ t.inc.stage = "moving" /\ t.inc.part
    BY <1>2, <1>6, TookCalm DEF Taking
<1>12. /\ inc.received < Count /\ sock.sent = inc.received + Len(sock.pieces) /\ sock.sent <= Count
       /\ \/ serve = "sending" /\ sock.sent < Count
          \/ serve = "wrote"
          \/ serve = "confirming" /\ sock.sent = Count
       /\ inc.direct = TRUE /\ inc.owed = "none" /\ sock.r /\ sock.word = "none"
    BY <1>1, <1>2 DEF Taking
<1>9. CASE inc.received + 1 # Count
    <2>1. sock' = rest /\ fetch' = "taking" /\ inc' = t.inc
        BY <1>1, <1>6, <1>8, <1>9
    <2>2. inc'.received = inc.received + 1 /\ sock'.pieces = Tail(sock.pieces)
          /\ sock'.sent = sock.sent
        BY <1>5, <1>8, <2>1
    <2>3. inc'.received < Count /\ sock'.sent = inc'.received + Len(sock'.pieces)
          /\ sock'.sent <= Count
        BY <1>3, <1>4, <1>9, <1>12, <2>2
    <2>4. \A j \in 1..Len(sock'.pieces) : sock'.pieces[j] = "whole"
        BY <1>4, <2>2
    <2>5. /\ inc'.stage = "moving" /\ inc'.part /\ inc'.good /\ inc'.owed = "none"
          /\ inc'.direct = (fetch' = "taking") /\ fetch' = "taking" /\ sock'.r
          /\ sock'.word = "none"
        BY <1>2, <1>5, <1>8, <1>9, <1>12, <2>1 DEF Taking
    <2>6. Taking'
        BY <1>7, <1>12, <2>2, <2>3, <2>4, <2>5 DEF Taking
    <2>7. Fetching'
        BY <1>2, <1>5, <1>7, <2>1, <2>6 DEF Fetching, Silent
    <2>8. QED
        BY <2>7 DEF Somewhere
<1>10. CASE inc.received + 1 = Count
    <2> DEFINE k == [rest EXCEPT !.word = "done"]
    <2>1. t.res = "done" /\ inc' = t.inc /\ fetch' = "off" /\ sock' = HangUpR(k)
        BY <1>6, <1>8, <1>10
    <2>2. k \in Socks /\ k.s = sock.s /\ k.word = "done" /\ k.sent = sock.sent
        BY <1>5 DEF Socks
    <2> HIDE DEF k
    <2>3. sock.s /\ sock' = [k EXCEPT !.r = FALSE, !.pieces = <<>>]
        BY <1>2, <2>1, <2>2 DEF HangUpR, Fetching
    <2>4. sock'.s /\ ~sock'.r /\ sock'.word = "done" /\ sock'.sent = sock.sent
        BY <2>2, <2>3 DEF Socks
    <2>5. sock.sent = Count
        <3>1. PICK n \in Nat \ {0}, r \in Nat, a \in Nat :
                  n = Len(sock.pieces) /\ r = inc.received /\ a = sock.sent
            BY <1>3, <1>4
        <3>2. r + 1 = Count /\ a = r + n /\ a <= Count
            BY <1>10, <1>12, <3>1
        <3>3. a = Count
            BY <1>3, <3>2
        <3>4. QED
            BY <3>1, <3>3
    <2>6. serve' \in {"wrote", "confirming"}
        BY <1>3, <1>7, <1>12, <2>5
    <2>7. Fetched'
        BY <1>2, <1>8, <1>10, <2>1, <2>4, <2>5, <2>6 DEF Fetched, Ended, Taking
    <2>8. Fetching'
        BY <1>2, <1>7, <2>4, <2>7 DEF Fetching, Silent
    <2>9. QED
        BY <2>8 DEF Somewhere
<1>11. QED
    BY <1>9, <1>10

(* What could not be fetched is asked for through the relay. *)
LEMMA AskingCalm == ASSUME Here, answer_through_relay, ~Fault PROVE Somewhere'
<1> USE DEF net, setting, history
<1>1. Reaching /\ fetch = "asking" /\ Apart
    BY DEF answer_through_relay, Here, Somewhere, Nothing, Proposed, Considered, Reaching, Asked,
           Relayed, Settled, Fetching, Taking, Fetched
<1> DEFINE m == Message("accept", inc.replyTo, link["R"])
<1>2. m.kind = "accept" /\ m.to = 1 /\ m.reply = 1
    BY <1>1, HereIs DEF Message, Reaching, Ready, Unused
<1>3. /\ fetch' = "off" /\ wire' = Queued(wire, "R", <<m>>)
      /\ UNCHANGED <<hash, out, inc, serve, sock>>
    <2>1. inc.stage = "moving" /\ inc.received = 0 /\ ~inc.direct /\ ~only["R"]
        BY <1>1, HereIs, Zenon DEF Reaching, Ready, Unused
    <2>2. QED
        BY <2>1, Zenon DEF answer_through_relay
<1> HIDE DEF m
<1>4. Len(wire'["R"]) = 1 /\ wire'["R"][1] = m /\ wire'["S"] = <<>>
    BY <1>1, <1>3, HereIs, OneQueued DEF Sides, Reaching, Silent
<1>5. Asked'
    BY <1>1, <1>2, <1>3, <1>4 DEF Asked, Reaching, Waiting, Ready, Unused, Apart
<1>6. QED
    BY <1>5 DEF Somewhere

(* Nobody gives up. *)
LEMMA NobodyStalls == ASSUME Here, NEW s \in Sides, TickStall(s) PROVE FALSE
<1>1. /\ \A u \in Sides : wire[u] = <<>>
      /\ serve = "off" /\ fetch = "off" /\ Room(out) = 0 /\ inc.owed = "none"
    BY Zenon DEF TickStall, Quiet
<1>2. out.stage = "moving" \/ inc.stage = "moving"
    BY DEF TickStall, StallEnd
<1>3. wire["S"] = <<>> /\ wire["R"] = <<>>
    BY <1>1, HereIs
<1>4. Relayed
    BY <1>1, <1>2, <1>3 DEF Here, Somewhere, Nothing, Proposed, Considered, Reaching, Asked,
           Settled, Fetching, Taking, Fetched, NoInc, Waiting, Ended
<1>5. /\ out.stage = "moving" /\ out.to = 1 /\ out.acked = Got /\ out.next = Got + 0 /\ Got < Count
    <2>1. Len(wire["S"]) = 0
        BY <1>3
    <2>2. QED
        BY <1>1, <1>3, <1>4, <2>1 DEF Relayed, Pieces, Acks
<1>6. Got \in Nat /\ Count \in Nat /\ Window \in Nat \ {0}
    BY HereIs DEF Got, Incs
<1> HIDE DEF Got
<1>7. out.next < (IF out.acked + Window < Count THEN out.acked + Window ELSE Count)
    BY <1>5, <1>6
<1>8. Room(out) # 0
    BY <1>5, <1>6, <1>7 DEF Room
<1>9. QED
    BY <1>1, <1>8

LEMMA NobodyIsGone == ASSUME Here, NEW s \in Sides, TickGone(s) PROVE FALSE
<1>1. knows["S"] = 1 /\ knows["R"] = 1
    BY HereIs
<1>2. CASE out.stage = "offered" /\ knows["S"] # out.offeredTo
    BY <1>1, <1>2 DEF Here, Somewhere, Nothing, Proposed, Considered, Reaching, Asked,
           Settled, Fetching, Relayed, Waiting
<1>3. CASE inc.stage = "offered" /\ knows["R"] # inc.replyTo
    BY <1>1, <1>3 DEF Here, Somewhere, Nothing, Proposed, Considered, Reaching, Asked,
           Settled, Fetching, Taking, Fetched, Relayed, Ended, Ready, Unused, NoInc
<1>4. QED
    BY <1>2, <1>3 DEF TickGone

(* What pump gives while the file is there to read.                        *)
LEMMA PumpCalm ==
    ASSUME NEW o \in Outs, NEW p \in pump(o), disk = "whole"
    PROVE  \E k \in 0..Room(o) :
              /\ p.out = [o EXCEPT !.next = o.next + k] /\ p.out \in Outs
              /\ p.out.stage = o.stage /\ p.out.to = o.to /\ p.out.acked = o.acked
              /\ p.out.direct = o.direct /\ p.out.next = o.next + k
              /\ p.msgs \in Seq(Messages) /\ Len(p.msgs) = k
              /\ \A i \in 1..k : /\ p.msgs[i].kind = "chunk" /\ p.msgs[i].to = o.to
                                 /\ p.msgs[i].at = o.next + i - 1 /\ p.msgs[i].data = "whole"
<1>1. PICK k \in 0..Room(o) : p = [out |-> [o EXCEPT !.next = @ + k],
                                   msgs |-> [i \in 1..k |-> Piece(o, i)]]
    BY RoomIsNat DEF pump
<1>2. k \in Nat /\ o.next \in Nat /\ o.to \in Nat
    BY RoomIsNat DEF Outs
<1>3. p.out = [o EXCEPT !.next = o.next + k] /\ p.msgs = [i \in 1..k |-> Piece(o, i)]
    BY <1>1
<1>4. /\ p.out \in Outs /\ p.out.stage = o.stage /\ p.out.to = o.to /\ p.out.acked = o.acked
      /\ p.out.direct = o.direct /\ p.out.next = o.next + k
    BY <1>2, <1>3 DEF Outs
<1>5. ASSUME NEW i \in 1..k
      PROVE  /\ Piece(o, i) \in Messages /\ Piece(o, i).kind = "chunk" /\ Piece(o, i).to = o.to
             /\ Piece(o, i).at = o.next + i - 1 /\ Piece(o, i).data = "whole"
    <2>1. o.next + i - 1 \in Nat
        BY <1>2
    <2>2. Message("chunk", o.to, 0) \in Messages
          /\ Message("chunk", o.to, 0).kind = "chunk" /\ Message("chunk", o.to, 0).to = o.to
        BY <1>2 DEF Message, Messages
    <2>3. QED
        BY <2>1, <2>2 DEF Piece, Messages
<1>6. p.msgs \in Seq(Messages) /\ Len(p.msgs) = k /\ \A i \in 1..k : p.msgs[i] = Piece(o, i)
    BY <1>2, <1>3, <1>5
<1>7. /\ p.msgs \in Seq(Messages) /\ Len(p.msgs) = k
      /\ \A i \in 1..k : /\ p.msgs[i].kind = "chunk" /\ p.msgs[i].to = o.to
                         /\ p.msgs[i].at = o.next + i - 1 /\ p.msgs[i].data = "whole"
    BY <1>5, <1>6
<1>8. QED
    BY <1>3, <1>4, <1>7

(* The window never goes past the end of the file. *)
LEMMA RoomEnds ==
    ASSUME NEW o \in Outs, o.next <= Count, NEW k \in 0..Room(o)
    PROVE  o.next + k <= Count
BY RoomIsNat, TransferAssumption DEF Outs, Room

(* The pieces on their way: more of them, and one of them taken. *)
LEMMA PiecesMore ==
    ASSUME NEW w \in Seq(Messages), NEW msgs \in Seq(Messages), NEW got \in Nat, NEW next \in Nat,
           NEW k \in Nat, Pieces(w, got, next), Len(msgs) = k,
           \A i \in 1..k : /\ msgs[i].kind = "chunk" /\ msgs[i].to = 1
                           /\ msgs[i].at = next + i - 1 /\ msgs[i].data = "whole"
    PROVE  Pieces(w \o msgs, got, next + k)
<1>1. Len(w) \in Nat /\ Len(w \o msgs) = Len(w) + k /\ next = got + Len(w)
    <2>1. Len(w) \in Nat /\ Len(w \o msgs) = Len(w) + Len(msgs)
        BY LenProperties, ConcatProperties, Zenon
    <2>2. next = got + Len(w)
        BY DEF Pieces
    <2>3. QED
        BY <2>1, <2>2
<1>2. ASSUME NEW i \in 1..Len(w \o msgs)
      PROVE  LET m == (w \o msgs)[i]
             IN m.kind = "chunk" /\ m.to = 1 /\ m.at = got + i - 1 /\ m.data = "whole"
    <2>1. CASE i <= Len(w)
        <3>1. i \in 1..Len(w) /\ (w \o msgs)[i] = w[i]
            BY <1>1, <2>1
        <3>2. QED
            BY <3>1 DEF Pieces
    <2>2. CASE i > Len(w)
        <3>1. i - Len(w) \in 1..k /\ (w \o msgs)[i] = msgs[i - Len(w)]
            BY <1>1, <2>2
        <3>2. next + (i - Len(w)) - 1 = got + i - 1
            BY <1>1
        <3>3. QED
            BY <3>1, <3>2
    <2>3. QED
        BY <1>1, <2>1, <2>2
<1>3. next + k = got + Len(w \o msgs)
    BY <1>1
<1>4. QED
    BY <1>2, <1>3 DEF Pieces

LEMMA PiecesTaken ==
    ASSUME NEW w \in Seq(Messages), w # <<>>, NEW got \in Nat, NEW next \in Nat, Pieces(w, got,
           next)
    PROVE  /\ Head(w).kind = "chunk" /\ Head(w).at = got /\ Head(w).data = "whole"
           /\ Pieces(Tail(w), got + 1, next) /\ got + 1 <= next
<1>1. /\ Len(w) \in Nat \ {0} /\ Tail(w) \in Seq(Messages) /\ Len(Tail(w)) = Len(w) - 1
      /\ Head(w) = w[1] /\ \A i \in 1..Len(Tail(w)) : Tail(w)[i] = w[i + 1]
    OBVIOUS
<1>2. 1 \in 1..Len(w) /\ next = got + Len(w) /\ got + 1 - 1 = got
    BY <1>1 DEF Pieces
<1>3. next = (got + 1) + Len(Tail(w)) /\ got + 1 <= next
    BY <1>1, <1>2
<1>4. ASSUME NEW i \in 1..Len(Tail(w))
      PROVE  LET m == Tail(w)[i]
             IN m.kind = "chunk" /\ m.to = 1 /\ m.at = (got + 1) + i - 1 /\ m.data = "whole"
    <2>1. i + 1 \in 1..Len(w) /\ got + (i + 1) - 1 = (got + 1) + i - 1
        BY <1>1
    <2>2. QED
        BY <1>1, <2>1 DEF Pieces
<1>5. QED
    BY <1>1, <1>2, <1>3, <1>4 DEF Pieces

(* The acknowledgements on their way: one owed, one more, one taken. *)
LEMMA AcksOwed ==
    ASSUME NEW w \in Seq(Messages), NEW got \in Nat, NEW acked \in Nat, NEW owed, Acks(w, got,
           acked, owed),
           got < Count, NEW state \in {"more", "done"}
    PROVE  Acks(w, got + 1, acked, state)
<1>1. acked <= got + 1
    BY DEF Acks
<1>2. ASSUME NEW i \in 1..Len(w)
      PROVE  w[i].kind = "ack" /\ w[i].to = 1 /\ w[i].at <= got + 1 /\ w[i].data = "more"
    <2>1. w[i] \in Messages
        OBVIOUS
    <2>2. w[i].at \in Nat
        BY <2>1 DEF Messages
    <2>3. w[i].kind = "ack" /\ w[i].to = 1 /\ w[i].at <= got /\ w[i].data = "more"
        BY DEF Acks
    <2>4. QED
        BY <2>2, <2>3
<1>3. QED
    BY <1>1, <1>2 DEF Acks

LEMMA AcksMore ==
    ASSUME NEW w \in Seq(Messages), NEW got \in Nat, NEW h \in Nat, NEW acked \in Nat, NEW owed,
           Acks(w, got, acked, owed), got <= h, got < Count \/ owed # "none",
           NEW m \in Messages, m.kind = "ack", m.to = 1, m.at = h,
           m.data = IF h = Count THEN "done" ELSE "more"
    PROVE  Acks(w \o <<m>>, h, acked, "none")
<1>1. /\ Len(w) \in Nat /\ Len(w \o <<m>>) = Len(w) + 1 /\ (w \o <<m>>)[Len(w) + 1] = m
      /\ \A i \in 1..Len(w) : (w \o <<m>>)[i] = w[i]
    OBVIOUS
<1>2. w \o <<m>> # <<>>
    BY <1>1
<1>3. acked <= h
    BY DEF Acks
<1>4. ASSUME NEW i \in 1..Len(w \o <<m>>)
      PROVE  LET a == (w \o <<m>>)[i]
             IN /\ a.kind = "ack" /\ a.to = 1 /\ a.at <= h
                /\ a.data \in {"more", "done"}
                /\ a.data = "done" <=> i = Len(w \o <<m>>) /\ "none" = "none" /\ h = Count
                /\ i = Len(w \o <<m>>) /\ "none" = "none" => a.at = h
    <2>1. CASE i = Len(w) + 1
        BY <1>1, <2>1
    <2>2. CASE i \in 1..Len(w)
        <3>1. w[i].kind = "ack" /\ w[i].to = 1 /\ w[i].at <= got /\ w[i].data = "more"
            BY <2>2 DEF Acks
        <3>2. w[i].at \in Nat
            <4>1. w[i] \in Messages
                BY <2>2
            <4>2. QED
                BY <4>1 DEF Messages
        <3>3. w[i].at <= h
            BY <3>1, <3>2
        <3>4. QED
            BY <1>1, <2>2, <3>1, <3>3
    <2>3. QED
        BY <1>1, <2>1, <2>2
<1>5. QED
    BY <1>2, <1>3, <1>4 DEF Acks

LEMMA AcksTaken ==
    ASSUME NEW w \in Seq(Messages), w # <<>>, NEW got \in Nat, got <= Count, NEW acked \in Nat,
           NEW owed,
           Acks(w, got, acked, owed)
    PROVE  /\ Head(w).kind = "ack" /\ Head(w).data \in {"more", "done"}
           /\ Head(w).data = "done" => Tail(w) = <<>> /\ owed = "none" /\ got = Count
           /\ Head(w).data = "more" =>
                 Acks(Tail(w), got, IF acked < Head(w).at THEN Head(w).at ELSE acked, owed)
<1>1. /\ Len(w) \in Nat \ {0} /\ Tail(w) \in Seq(Messages) /\ Len(Tail(w)) = Len(w) - 1
      /\ Head(w) = w[1] /\ Head(w) \in Messages
      /\ \A i \in 1..Len(Tail(w)) : Tail(w)[i] = w[i + 1]
      /\ Tail(w) = <<>> <=> Len(w) = 1
    <2>1. /\ Len(w) \in Nat \ {0} /\ Tail(w) \in Seq(Messages) /\ Len(Tail(w)) = Len(w) - 1
          /\ Head(w) = w[1] /\ Head(w) \in Messages
          /\ \A i \in 1..Len(Tail(w)) : Tail(w)[i] = w[i + 1]
        OBVIOUS
    <2>2. Tail(w) = <<>> <=> Len(Tail(w)) = 0
        BY <2>1, EmptySeq
    <2>3. QED
        BY <2>1, <2>2
<1>2. 1 \in 1..Len(w) /\ Head(w).at \in Nat /\ Count \in Nat
    BY <1>1, TransferAssumption DEF Messages
<1>3. /\ w[1].kind = "ack" /\ w[1].at <= got /\ w[1].data \in {"more", "done"}
      /\ w[1].data = "done" <=> 1 = Len(w) /\ owed = "none" /\ got = Count
      /\ 1 = Len(w) /\ owed = "none" => w[1].at = got
    BY <1>2 DEF Acks
<1> DEFINE a == IF acked < Head(w).at THEN Head(w).at ELSE acked
<1>4. a <= got /\ a \in Nat
    BY <1>1, <1>2, <1>3 DEF Acks
<1>5. ASSUME Head(w).data = "more" PROVE Acks(Tail(w), got, a, owed)
    <2>1. Tail(w) = <<>> /\ owed = "none" => a = got /\ got < Count
        <3>1. acked <= got
            BY DEF Acks
        <3>2. QED
            BY <1>1, <1>2, <1>3, <1>5, <3>1
    <2>2. ASSUME NEW i \in 1..Len(Tail(w))
          PROVE  LET m == Tail(w)[i]
                 IN /\ m.kind = "ack" /\ m.to = 1 /\ m.at <= got
                    /\ m.data \in {"more", "done"}
                    /\ m.data = "done" <=> i = Len(Tail(w)) /\ owed = "none" /\ got = Count
                    /\ i = Len(Tail(w)) /\ owed = "none" => m.at = got
        <3>1. i + 1 \in 1..Len(w) /\ (i = Len(Tail(w)) <=> i + 1 = Len(w)) /\ Tail(w)[i] = w[i + 1]
            BY <1>1
        <3>2. QED
            BY <3>1 DEF Acks
    <2> HIDE DEF a
    <2>3. QED
        BY <1>4, <2>1, <2>2 DEF Acks
<1>6. QED
    BY <1>1, <1>3, <1>5

(* The queue that something is put on, and the other one. *)
LEMMA QueueIs ==
    ASSUME NEW v \in [Sides -> Seq(Messages)], NEW msgs
    PROVE  /\ Queued(v, "S", msgs)["S"] = v["S"] \o msgs /\ Queued(v, "S", msgs)["R"] = v["R"]
           /\ Queued(v, "R", msgs)["R"] = v["R"] \o msgs /\ Queued(v, "R", msgs)["S"] = v["S"]
BY DEF Queued, Sides

(* The two of them. *)
LEMMA SidesAre ==
    "S" \in Sides /\ "R" \in Sides /\ "R" \in Sides \ {"S"} /\ "S" \in Sides \ {"R"}
BY DEF Sides

(* The queue the head is taken off, and the other one. *)
LEMMA TakeIs ==
    ASSUME wire \in [Sides -> Seq(Messages)], NEW s \in Sides, wire[s] # <<>>
    PROVE  /\ Taken(s)[s] = Tail(wire[s]) /\ Taken(s) \in [Sides -> Seq(Messages)]
           /\ \A t \in Sides \ {s} : Taken(s)[t] = wire[t]
<1>1. wire[s] \in Seq(Messages)
    OBVIOUS
<1>2. Tail(wire[s]) \in Seq(Messages)
    BY <1>1
<1>3. QED
    BY <1>2 DEF Taken

(* The sender may go on as far as its window lets it. *)
LEMMA Pumped ==
    ASSUME NEW o \in Outs, NEW p \in pump(o), disk = "whole", o.next <= Count, o.to = 1,
           NEW w \in Seq(Messages), NEW got \in Nat, Pieces(w, got, o.next)
    PROVE  /\ p.out \in Outs /\ p.out.stage = o.stage /\ p.out.to = o.to /\ p.out.acked = o.acked
           /\ p.out.direct = o.direct /\ p.out.next <= Count
           /\ p.msgs \in Seq(Messages) /\ Pieces(w \o p.msgs, got, p.out.next)
<1>1. PICK k \in 0..Room(o) :
          /\ p.out = [o EXCEPT !.next = o.next + k] /\ p.out \in Outs
          /\ p.out.stage = o.stage /\ p.out.to = o.to /\ p.out.acked = o.acked
          /\ p.out.direct = o.direct /\ p.out.next = o.next + k
          /\ p.msgs \in Seq(Messages) /\ Len(p.msgs) = k
          /\ \A i \in 1..k : /\ p.msgs[i].kind = "chunk" /\ p.msgs[i].to = o.to
                             /\ p.msgs[i].at = o.next + i - 1 /\ p.msgs[i].data = "whole"
    BY PumpCalm
<1>2. k \in Nat /\ o.next \in Nat /\ o.next + k <= Count
    BY RoomIsNat, RoomEnds DEF Outs
<1>3. Pieces(w \o p.msgs, got, o.next + k)
    BY <1>1, <1>2, PiecesMore
<1>4. QED
    BY <1>1, <1>2, <1>3

(* The sender on an answer, the receiver on a piece, the sender on an acknowledgement. *)
LEMMA OnAnswerCalm ==
    ASSUME Here, NEW kind \in {"accept", "decline"}, on_answer(kind) PROVE Somewhere'
<1> USE DEF net, setting, threads, history
<1>1. /\ wire["R"] # <<>> /\ Arriving("R") = wire["R"][1] /\ Arriving("R").kind = kind
      /\ 1 \in 1..Len(wire["R"])
    BY HereIs, HeadIs DEF on_answer, Arrives
<1>2. Asked \/ (Settled /\ Waiting)
    BY <1>1 DEF Here, Somewhere, Nothing, Proposed, Considered, Reaching, Fetching, Relayed, Acks,
                Settled, Silent
<1>3. out.stage = "offered" /\ ~out.direct /\ out.next = 0 /\ out.acked = 0 /\ out \in Outs
    BY <1>2, HereIs DEF Asked, Waiting
<1>4. CASE Asked
    <2>1. kind = "accept" /\ Arriving("R").reply = 1 /\ Len(wire["R"]) = 1
        BY <1>1, <1>4 DEF Asked
    <2> DEFINE o == [out EXCEPT !.to = 1, !.stage = "moving"]
    <2>2. PICK p \in pump(o) : out' = p.out /\ wire' = Queued(Taken("R"), "S", p.msgs)
        <3>1. ~only["S"]
            BY HereIs, Zenon
        <3> HIDE DEF o
        <3>2. QED
            BY <1>3, <2>1, <3>1 DEF on_answer, o
    <2>3. o \in Outs /\ o.next = 0 /\ o.to = 1 /\ o.stage = "moving" /\ o.acked = 0 /\ ~o.direct
        BY <1>3, <2>1 DEF Outs
    <2>4. /\ Taken("R")["R"] = <<>> /\ Taken("R")["S"] = <<>>
          /\ Taken("R") \in [Sides -> Seq(Messages)]
        BY <1>1, <1>4, <2>1, HereIs, OneTaken, TakeIs DEF Asked, Sides
    <2>5. Pieces(<<>>, 0, 0) /\ <<>> \in Seq(Messages)
        BY DEF Pieces
    <2> HIDE DEF o
    <2>6. /\ p.out.stage = "moving" /\ p.out.to = 1 /\ p.out.acked = 0
          /\ ~p.out.direct /\ p.out.next <= Count
          /\ Pieces(<<>> \o p.msgs, 0, p.out.next)
        <3>1. disk = "whole" /\ Count \in Nat /\ 0 <= Count
            BY HereIs
        <3>2. Pieces(<<>>, 0, o.next) /\ o.next <= Count /\ o.to = 1
            BY <2>3, <2>5, <3>1
        <3>3. /\ p.out.stage = o.stage /\ p.out.to = o.to /\ p.out.acked = o.acked
              /\ p.out.direct = o.direct /\ p.out.next <= Count
              /\ Pieces(<<>> \o p.msgs, 0, p.out.next)
            BY <2>2, <2>3, <2>5, <3>1, <3>2, Pumped
        <3>4. QED
            BY <2>3, <3>3
    <2>7. wire'["S"] = <<>> \o p.msgs /\ wire'["R"] = <<>>
        <3>1. /\ Queued(Taken("R"), "S", p.msgs)["S"] = Taken("R")["S"] \o p.msgs
              /\ Queued(Taken("R"), "S", p.msgs)["R"] = Taken("R")["R"]
            BY <2>4, QueueIs, Zenon
        <3>2. QED
            BY <2>2, <2>4, <3>1
    <2>8. Got = 0 /\ 0 < Count
        BY <1>4, HereIs DEF Asked, Ready, Unused, Got
    <2>9. Acks(<<>>, 0, 0, "none")
        BY <2>8 DEF Acks
    <2>10. UNCHANGED <<hash, inc, serve, fetch, sock>>
        BY DEF on_answer
    <2>11. Got' = 0 /\ Apart'
        BY <1>4, <2>8, <2>10 DEF Got, Asked, Apart
    <2>12. Pieces(wire'["S"], Got', out'.next) /\ Acks(wire'["R"], Got', out'.acked, inc'.owed)
        BY <1>4, <2>2, <2>6, <2>7, <2>9, <2>10, <2>11 DEF Asked, Ready, Unused
    <2>13. Relayed'
        BY <1>4, <2>2, <2>6, <2>8, <2>10, <2>11, <2>12 DEF Relayed, Asked, Ready, Unused
    <2>14. QED
        BY <2>13 DEF Somewhere
<1>5. CASE Settled /\ Waiting
    <2>1. kind = "decline" /\ Len(wire["R"]) = 1
        <3>1. Len(wire["R"]) <= 1 /\ wire["R"][1].kind = "decline" /\ wire["R"] \in Seq(Messages)
            BY <1>1, <1>3, <1>5, HereIs DEF Settled
        <3>2. Len(wire["R"]) = 1
            <4>1. PICK n \in Nat : n = Len(wire["R"])
                BY <3>1, LenProperties, Zenon
            <4>2. n <= 1 /\ 1 \in 1..n
                BY <1>1, <3>1, <4>1
            <4>3. \A k \in Nat : k <= 1 /\ 1 \in 1..k => k = 1
                OBVIOUS
            <4>4. n = 1
                BY <4>1, <4>2, <4>3, Zenon
            <4>5. QED
                BY <4>1, <4>4
        <3>3. QED
            BY <1>1, <3>1, <3>2
    <2>2. out' = EndOut("declined") /\ wire' = Queued(Taken("R"), "S", <<>>)
        <3> DEFINE q == [out |-> EndOut("declined"), msgs |-> <<>>]
        <3>1. out' = q.out /\ wire' = Queued(Taken("R"), "S", q.msgs)
            BY <1>3, <2>1 DEF on_answer
        <3>2. q.out = EndOut("declined") /\ q.msgs = <<>>
            OBVIOUS
        <3>3. QED
            BY <3>1, <3>2
    <2>3. /\ Taken("R")["R"] = <<>> /\ Taken("R")["S"] = <<>>
          /\ Taken("R") \in [Sides -> Seq(Messages)]
        BY <1>1, <1>5, <2>1, HereIs, OneTaken, TakeIs DEF Settled, Sides
    <2>4. wire'["S"] = <<>> /\ wire'["R"] = <<>>
        <3>1. /\ Queued(Taken("R"), "S", <<>>)["S"] = Taken("R")["S"] \o <<>>
              /\ Queued(Taken("R"), "S", <<>>)["R"] = Taken("R")["R"]
            BY <2>3, QueueIs, Zenon
        <3>2. QED
            BY <2>2, <2>3, <3>1
    <2>5. Settled'
        BY <1>5, <2>2, <2>4, EndOutIs DEF on_answer, Settled, Ended, Apart
    <2>6. QED
        BY <2>5 DEF Somewhere
<1>6. QED
    BY <1>2, <1>4, <1>5

LEMMA OnChunkCalm == ASSUME Here, on_chunk, ~Fault PROVE Somewhere'
<1> USE DEF net, setting, threads, history
<1> DEFINE m == Arriving("S")
           ack(state) == [Message("ack", inc.replyTo, 0) EXCEPT !.at = inc.received + 1,
                                                                !.data = state]
<1>1. wire["S"] # <<>> /\ m = wire["S"][1] /\ m.kind = "chunk" /\ 1 \in 1..Len(wire["S"])
    BY HereIs, HeadIs DEF on_chunk, Arrives
<1>2. Relayed
    BY <1>1 DEF Here, Somewhere, Nothing, Proposed, Considered, Reaching, Asked, Fetching, Settled,
                Silent
<1>3. /\ wire \in [Sides -> Seq(Messages)] /\ wire["S"] \in Seq(Messages)
      /\ wire["R"] \in Seq(Messages)
      /\ inc \in Incs /\ inc.received \in Nat /\ out \in Outs /\ out.next \in Nat
      /\ out.acked \in Nat
      /\ Count \in Nat
    BY HereIs DEF Incs, Outs
<1>4. /\ Pieces(wire["S"], Got, out.next) /\ Acks(wire["R"], Got, out.acked, inc.owed)
      /\ out.next <= Count
    BY <1>2 DEF Relayed
<1>5. Got \in Nat
    BY <1>3 DEF Got
<1>6. /\ Head(wire["S"]).at = Got /\ Head(wire["S"]).data = "whole"
      /\ Pieces(Tail(wire["S"]), Got + 1, out.next) /\ Got + 1 <= out.next
    BY <1>1, <1>3, <1>4, <1>5, PiecesTaken
<1>7. /\ inc.stage = "moving" /\ ~inc.direct /\ inc.part /\ inc.good /\ inc.replyTo = 1
      /\ Got = inc.received /\ inc.received < Count
    <2>1. Got # Count
        BY <1>3, <1>4, <1>5, <1>6
    <2>2. QED
        BY <1>2, <2>1 DEF Got, Relayed
<1>8. m.at = inc.received /\ m.data = "whole"
    BY <1>6, <1>7 DEF Arriving
<1>9. PICK t \in take_piece("whole") :
          /\ ~t.ill /\ files' = t.files
          /\ \/ t.res = "refused"
             \/ /\ inc' = [t.inc EXCEPT !.owed = "none"]
                /\ wire' = Queued(Taken("S"), "R", <<ack(t.res)>>)
             \/ inc' = [t.inc EXCEPT !.owed = t.res] /\ wire' = Taken("S")
    <2> HIDE DEF ack, m
    <2>1. QED
        BY <1>7, <1>8 DEF on_chunk, ack, m
<1>10. /\ t.inc \in Incs /\ t.inc.received = inc.received + 1 /\ t.inc.good
       /\ t.inc.owed = inc.owed /\ t.inc.replyTo = inc.replyTo /\ t.inc.direct = inc.direct
       /\ IF inc.received + 1 = Count THEN t.res = "done" /\ t.inc.stage = "done"
          ELSE t.res = "more" /\ t.inc.stage = "moving" /\ t.inc.part
    BY <1>7, <1>9, TookCalm
<1>11. UNCHANGED <<hash, out, serve, fetch, sock>>
    BY DEF on_chunk
<1>12. /\ Taken("S")["S"] = Tail(wire["S"]) /\ Taken("S")["R"] = wire["R"]
       /\ Taken("S") \in [Sides -> Seq(Messages)]
    BY <1>1, <1>3, TakeIs, SidesAre, Zenon
<1>13. /\ inc'.received = inc.received + 1 /\ inc'.good /\ inc'.replyTo = 1 /\ ~inc'.direct
       /\ inc'.stage = t.inc.stage /\ inc'.part = t.inc.part
       /\ IF inc.received + 1 = Count THEN inc'.stage = "done"
          ELSE inc'.stage = "moving" /\ inc'.part
    BY <1>7, <1>9, <1>10 DEF Incs
<1>14. Got' = Got + 1 /\ Got' \in Nat
    BY <1>5, <1>7, <1>13 DEF Got
<1>15. /\ wire'["S"] = Tail(wire["S"])
       /\ \/ inc'.owed = "none" /\ wire'["R"] = wire["R"] \o <<ack(t.res)>>
          \/ inc'.owed = t.res /\ wire'["R"] = wire["R"]
    <2>1. CASE inc' = [t.inc EXCEPT !.owed = t.res] /\ wire' = Taken("S")
        BY <1>10, <1>12, <2>1 DEF Incs
    <2>2. CASE /\ inc' = [t.inc EXCEPT !.owed = "none"]
               /\ wire' = Queued(Taken("S"), "R", <<ack(t.res)>>)
        <3> HIDE DEF ack
        <3>1. /\ wire'["R"] = Taken("S")["R"] \o <<ack(t.res)>> /\ wire'["S"] = Taken("S")["S"]
            BY <1>12, <2>2, QueueIs, Zenon
        <3>2. inc'.owed = "none"
            BY <1>10, <2>2 DEF Incs
        <3>3. QED
            BY <1>12, <3>1, <3>2
    <2>3. QED
        BY <1>9, <1>10, <2>1, <2>2
<1>16. Acks(wire'["R"], Got', out'.acked, inc'.owed)
    <2>1. CASE inc'.owed = t.res /\ wire'["R"] = wire["R"]
        <3>1. t.res \in {"more", "done"}
            BY <1>10
        <3>2. Acks(wire["R"], Got + 1, out.acked, t.res)
            BY <1>3, <1>4, <1>5, <1>7, <3>1, AcksOwed
        <3>3. QED
            BY <1>11, <1>14, <2>1, <3>2
    <2>2. CASE inc'.owed = "none" /\ wire'["R"] = wire["R"] \o <<ack(t.res)>>
        <3> DEFINE a == ack(t.res)
        <3>1. /\ a \in Messages /\ a.kind = "ack" /\ a.to = 1 /\ a.at = Got + 1
              /\ a.data = IF Got + 1 = Count THEN "done" ELSE "more"
            <4>1. Message("ack", 1, 0) \in Messages /\ Message("ack", 1, 0).kind = "ack"
                  /\ Message("ack", 1, 0).to = 1
                BY DEF Message, Messages
            <4>2. inc.received + 1 \in Nat /\ t.res \in {"more", "done"}
                  /\ t.res = IF Got + 1 = Count THEN "done" ELSE "more"
                BY <1>3, <1>7, <1>10
            <4>3. a = [Message("ack", 1, 0) EXCEPT !.at = Got + 1, !.data = t.res]
                BY <1>7
            <4> HIDE DEF a
            <4>4. QED
                BY <1>7, <4>1, <4>2, <4>3 DEF Messages
        <3> HIDE DEF a
        <3>2. Got + 1 \in Nat /\ Got <= Got + 1 /\ Got < Count
            BY <1>5, <1>7
        <3>3. Acks(wire["R"] \o <<a>>, Got + 1, out.acked, "none")
            BY <1>3, <1>4, <1>5, <3>1, <3>2, AcksMore
        <3>4. wire'["R"] = wire["R"] \o <<a>>
            BY <2>2 DEF a
        <3>5. QED
            BY <1>11, <1>14, <2>2, <3>3, <3>4
    <2>3. QED
        BY <1>15, <2>1, <2>2
<1> HIDE DEF ack, m
<1>17. Pieces(wire'["S"], Got', out'.next) /\ out'.next <= Count
    BY <1>4, <1>6, <1>11, <1>14, <1>15
<1>18. /\ inc'.stage = "moving" =>
            /\ inc'.part /\ inc'.good /\ ~inc'.direct /\ inc'.received < Count
            /\ inc'.owed \in {"none", "more"}
       /\ inc'.stage # "moving" => inc'.owed \in {"none", "done"}
       /\ inc'.owed = "done" => inc'.received = Count
       /\ inc'.stage \in {"moving", "done"}
    BY <1>3, <1>7, <1>10, <1>13, <1>15
<1>19. Relayed'
    BY <1>2, <1>11, <1>13, <1>16, <1>17, <1>18 DEF Relayed, Apart
<1>20. QED
    BY <1>19 DEF Somewhere

LEMMA OnAckCalm == ASSUME Here, on_ack PROVE Somewhere'
<1> USE DEF net, setting, threads, history
<1>1. /\ wire["R"] # <<>> /\ Arriving("R") = wire["R"][1] /\ Arriving("R").kind = "ack"
      /\ 1 \in 1..Len(wire["R"])
    BY HereIs, HeadIs DEF on_ack, Arrives
<1>2. Relayed
    BY <1>1 DEF Here, Somewhere, Nothing, Proposed, Considered, Reaching, Asked, Fetching, Settled,
                Silent
<1>3. /\ wire \in [Sides -> Seq(Messages)] /\ wire["S"] \in Seq(Messages)
      /\ wire["R"] \in Seq(Messages)
      /\ inc \in Incs /\ inc.received \in Nat /\ out \in Outs /\ out.next \in Nat
      /\ out.acked \in Nat
      /\ Count \in Nat /\ disk = "whole"
    BY HereIs DEF Incs, Outs
<1>4. /\ Pieces(wire["S"], Got, out.next) /\ Acks(wire["R"], Got, out.acked, inc.owed)
      /\ out.next <= Count /\ out.stage = "moving" /\ out.to = 1 /\ ~out.direct
    BY <1>2 DEF Relayed
<1>5. Got \in Nat /\ Got <= Count
    BY <1>2, <1>3 DEF Got, Relayed
<1> DEFINE m == Arriving("R")
           o == [out EXCEPT !.acked = IF out.acked < m.at THEN m.at ELSE out.acked]
<1>6. /\ m = Head(wire["R"]) /\ m.data \in {"more", "done"} /\ m \in Messages /\ m.at \in Nat
      /\ m.data = "done" => Tail(wire["R"]) = <<>> /\ inc.owed = "none" /\ Got = Count
      /\ m.data = "more" => Acks(Tail(wire["R"]), Got, o.acked, inc.owed)
    <2>1. m = Head(wire["R"]) /\ m \in Messages
        BY <1>1, HereIs, HeadIs DEF Arriving
    <2>2. m.at \in Nat
        BY <2>1 DEF Messages
    <2>3. o.acked = IF out.acked < m.at THEN m.at ELSE out.acked
        BY <1>3 DEF Outs
    <2> HIDE DEF m, o
    <2>4. /\ Head(wire["R"]).data \in {"more", "done"}
          /\ Head(wire["R"]).data = "done" =>
                Tail(wire["R"]) = <<>> /\ inc.owed = "none" /\ Got = Count
          /\ Head(wire["R"]).data = "more" =>
                Acks(Tail(wire["R"]), Got,
                     IF out.acked < Head(wire["R"]).at THEN Head(wire["R"]).at ELSE out.acked,
                     inc.owed)
        BY <1>1, <1>3, <1>4, <1>5, AcksTaken
    <2>5. QED
        BY <2>1, <2>2, <2>3, <2>4
<1>7. UNCHANGED <<hash, inc, serve, fetch, sock>>
    BY DEF on_ack
<1>8. /\ Taken("R")["R"] = Tail(wire["R"]) /\ Taken("R")["S"] = wire["S"]
      /\ Taken("R") \in [Sides -> Seq(Messages)]
    BY <1>1, <1>3, TakeIs, SidesAre, Zenon
<1>9. CASE m.data = "more"
    <2> DEFINE r == [o EXCEPT !.stage = "moving"]
    <2>1. PICK p \in pump(r) : out' = p.out /\ wire' = Queued(Taken("R"), "S", p.msgs)
        <3>1. ~Finished(out)
            BY <1>4 DEF Finished, Live
        <3>2. QED
            BY <1>9, <3>1 DEF on_ack
    <2>2. /\ r \in Outs /\ r.next = out.next /\ r.to = 1 /\ r.stage = "moving"
          /\ r.acked = o.acked /\ ~r.direct
        BY <1>3, <1>4, <1>6 DEF Outs
    <2> HIDE DEF r, o, m
    <2>3. /\ p.out.stage = "moving" /\ p.out.to = 1 /\ p.out.acked = o.acked /\ ~p.out.direct
          /\ p.out.next <= Count /\ Pieces(wire["S"] \o p.msgs, Got, p.out.next)
        <3>1. Pieces(wire["S"], Got, r.next) /\ r.next <= Count /\ r.to = 1
            BY <1>4, <2>2
        <3>2. /\ p.out.stage = r.stage /\ p.out.to = r.to /\ p.out.acked = r.acked
              /\ p.out.direct = r.direct /\ p.out.next <= Count
              /\ Pieces(wire["S"] \o p.msgs, Got, p.out.next)
            BY <1>3, <1>5, <2>1, <2>2, <3>1, Pumped
        <3>3. QED
            BY <2>2, <3>2
    <2>4. wire'["S"] = wire["S"] \o p.msgs /\ wire'["R"] = Tail(wire["R"])
        <3>1. /\ Queued(Taken("R"), "S", p.msgs)["S"] = Taken("R")["S"] \o p.msgs
              /\ Queued(Taken("R"), "S", p.msgs)["R"] = Taken("R")["R"]
            BY <1>8, QueueIs, Zenon
        <3>2. QED
            BY <1>8, <2>1, <3>1
    <2>5. Got' = Got /\ Apart'
        BY <1>2, <1>7 DEF Got, Relayed, Apart
    <2>6. Pieces(wire'["S"], Got', out'.next) /\ Acks(wire'["R"], Got', out'.acked, inc'.owed)
        BY <1>6, <1>7, <1>9, <2>1, <2>3, <2>4, <2>5
    <2>7. Relayed'
        BY <1>2, <1>7, <2>1, <2>3, <2>5, <2>6 DEF Relayed
    <2>8. QED
        BY <2>7 DEF Somewhere
<1>10. CASE m.data = "done"
    <2> DEFINE q == [out |-> EndOut("done"), msgs |-> <<>>]
    <2>1. out' = q.out /\ wire' = Queued(Taken("R"), "S", q.msgs)
        <3>1. ~Finished(out)
            BY <1>4 DEF Finished, Live
        <3>2. QED
            BY <1>10, <3>1 DEF on_ack
    <2>2. q.out = EndOut("done") /\ q.msgs = <<>>
        OBVIOUS
    <2> HIDE DEF q
    <2>3. wire["S"] = <<>>
        <3>1. PICK n \in Nat : n = Len(wire["S"])
            BY <1>3, LenProperties, Zenon
        <3>2. out.next = Got + n
            BY <1>4, <3>1 DEF Pieces
        <3>3. n = 0
            BY <1>3, <1>4, <1>5, <1>6, <1>10, <3>1, <3>2
        <3>4. QED
            BY <1>3, <3>1, <3>3, EmptySeq
    <2>4. wire'["S"] = <<>> /\ wire'["R"] = <<>>
        <3>1. /\ Queued(Taken("R"), "S", <<>>)["S"] = Taken("R")["S"] \o <<>>
              /\ Queued(Taken("R"), "S", <<>>)["R"] = Taken("R")["R"]
            BY <1>8, QueueIs, Zenon
        <3>2. Taken("R")["S"] = <<>> /\ Taken("R")["R"] = <<>>
            BY <1>6, <1>8, <1>10, <2>3
        <3>3. QED
            BY <2>1, <2>2, <3>1, <3>2
    <2>5. Ended
        BY <1>2, <1>3, <1>6, <1>10 DEF Relayed, Ended, Got
    <2>6. Settled'
        BY <1>2, <1>7, <2>1, <2>2, <2>4, <2>5, EndOutIs DEF Settled, Ended, Apart, Relayed
    <2>7. QED
        BY <2>6 DEF Somewhere
<1>11. QED
    BY <1>6, <1>9, <1>10

(* The tick sends what the window has room for, and what is owed. *)
LEMMA TickPumpCalm == ASSUME Here, TickPump PROVE Somewhere'
<1> USE DEF net, setting, threads, history
<1>1. PICK p \in pump(out) : out' = p.out /\ wire' = Queued(wire, "S", p.msgs)
    BY DEF TickPump
<1>2. UNCHANGED <<hash, inc, serve, fetch, sock>>
    BY DEF TickPump
<1>3. /\ wire \in [Sides -> Seq(Messages)] /\ wire["S"] \in Seq(Messages)
      /\ inc.received \in Nat /\ out \in Outs /\ Count \in Nat /\ disk = "whole"
    BY HereIs DEF Incs, Outs
<1>4. out.to # 0 /\ out.stage = "moving"
    BY <1>3, RoomIsNat DEF TickPump
<1>5. Relayed
    BY <1>4 DEF Here, Somewhere, Nothing, Proposed, Considered, Reaching, Asked, Fetching, Settled,
                Waiting
<1>6. /\ Pieces(wire["S"], Got, out.next) /\ Acks(wire["R"], Got, out.acked, inc.owed)
      /\ out.next <= Count /\ out.to = 1 /\ ~out.direct
    BY <1>5 DEF Relayed
<1>7. Got \in Nat
    BY <1>3 DEF Got
<1>8. /\ p.out.stage = "moving" /\ p.out.to = 1 /\ p.out.acked = out.acked /\ ~p.out.direct
      /\ p.out.next <= Count /\ Pieces(wire["S"] \o p.msgs, Got, p.out.next)
    <2>1. /\ p.out.stage = out.stage /\ p.out.to = out.to /\ p.out.acked = out.acked
          /\ p.out.direct = out.direct /\ p.out.next <= Count
          /\ Pieces(wire["S"] \o p.msgs, Got, p.out.next)
        BY <1>1, <1>3, <1>6, <1>7, Pumped
    <2>2. QED
        BY <1>4, <1>6, <2>1
<1>9. wire'["S"] = wire["S"] \o p.msgs /\ wire'["R"] = wire["R"]
    BY <1>1, <1>3, QueueIs, Zenon
<1>10. Got' = Got /\ Apart'
    BY <1>2, <1>5 DEF Got, Relayed, Apart
<1>11. Pieces(wire'["S"], Got', out'.next) /\ Acks(wire'["R"], Got', out'.acked, inc'.owed)
    BY <1>1, <1>2, <1>6, <1>8, <1>9, <1>10
<1>12. Relayed'
    BY <1>1, <1>2, <1>5, <1>8, <1>10, <1>11 DEF Relayed
<1>13. QED
    BY <1>12 DEF Somewhere

LEMMA TickAckCalm == ASSUME Here, TickAck PROVE Somewhere'
<1> USE DEF net, setting, threads, history
<1> DEFINE a == [Message("ack", inc.replyTo, 0) EXCEPT !.at = inc.received, !.data = inc.owed]
<1>1. inc.owed # "none" /\ inc' = [inc EXCEPT !.owed = "none"] /\ wire' = Queued(wire, "R", <<a>>)
    BY DEF TickAck
<1>2. UNCHANGED <<hash, out, serve, fetch, sock>>
    BY DEF TickAck
<1>3. Relayed
    BY <1>1 DEF Here, Somewhere, Nothing, Proposed, Considered, Reaching, Asked, Fetching, Settled,
                Ready, Unused, NoInc, Taking, Fetched, Ended
<1>4. /\ wire \in [Sides -> Seq(Messages)] /\ wire["S"] \in Seq(Messages)
      /\ wire["R"] \in Seq(Messages)
      /\ inc \in Incs /\ inc.received \in Nat /\ out.acked \in Nat /\ Count \in Nat
    BY HereIs DEF Incs, Outs
<1>5. /\ Pieces(wire["S"], Got, out.next) /\ Acks(wire["R"], Got, out.acked, inc.owed)
      /\ inc.replyTo = 1
    BY <1>1, <1>3 DEF Relayed
<1>6. Got = inc.received /\ Got \in Nat /\ inc.owed = IF Got = Count THEN "done" ELSE "more"
    BY <1>1, <1>3, <1>4 DEF Relayed, Got
<1>7. /\ a \in Messages /\ a.kind = "ack" /\ a.to = 1 /\ a.at = Got
      /\ a.data = IF Got = Count THEN "done" ELSE "more"
    <2>1. Message("ack", 1, 0) \in Messages /\ Message("ack", 1, 0).kind = "ack"
          /\ Message("ack", 1, 0).to = 1
        BY DEF Message, Messages
    <2>2. a = [Message("ack", 1, 0) EXCEPT !.at = Got, !.data = inc.owed]
        BY <1>5, <1>6
    <2> HIDE DEF a
    <2>3. QED
        BY <1>6, <2>1, <2>2 DEF Messages
<1> HIDE DEF a
<1>8. Acks(wire["R"] \o <<a>>, Got, out.acked, "none")
    <2>1. Got <= Got
        BY <1>6
    <2>2. QED
        BY <1>1, <1>4, <1>5, <1>6, <1>7, <2>1, AcksMore
<1>9. wire'["R"] = wire["R"] \o <<a>> /\ wire'["S"] = wire["S"]
    BY <1>1, <1>4, QueueIs, Zenon
<1>10. /\ inc'.owed = "none" /\ inc'.stage = inc.stage /\ inc'.part = inc.part
       /\ inc'.good = inc.good /\ inc'.direct = inc.direct /\ inc'.received = inc.received
       /\ inc'.replyTo = inc.replyTo
    BY <1>1, <1>4 DEF Incs
<1>11. Got' = Got
    BY <1>10 DEF Got
<1>12. Pieces(wire'["S"], Got', out'.next) /\ Acks(wire'["R"], Got', out'.acked, inc'.owed)
    BY <1>2, <1>5, <1>8, <1>9, <1>10, <1>11
<1>13. Relayed'
    BY <1>2, <1>3, <1>10, <1>12 DEF Relayed, Apart
<1>14. QED
    BY <1>13 DEF Somewhere

-----------------------------------------------------------------------------
(* So each place leads to another.                                         *)
LEMMA CalmInit == Init => CalmInv /\ Counted
<1> SUFFICES ASSUME Init PROVE CalmInv /\ Counted
    OBVIOUS
<1>1. Nothing
    BY DEF Init, Nothing, NoOut, Silent, Sides
<1>2. Steady
    BY DEF Init, Steady, Sides
<1>3. QED
    BY <1>1, <1>2 DEF CalmInv, Somewhere, Counted, Init

LEMMA CalmStep == IInv /\ Counted /\ CalmInv /\ [Next]_vars => CalmInv' /\ Counted'
<1> SUFFICES ASSUME IInv, Counted, CalmInv, [Next]_vars, Calm' PROVE Steady' /\ Somewhere'
    BY CalmBefore DEF CalmInv
<1>1. Calm /\ Steady /\ Somewhere /\ Here
    BY CalmBefore DEF CalmInv, Here
<1>2. ~Fault /\ Steady' /\ ~late' /\ ~calledOff'
    BY <1>1, CalmSteps, SteadyStays DEF Calm
<1>3. CASE send \/ accept \/ decline \/ offer
    <2>1. CASE send
        BY <1>1, <1>2, <2>1, SendCalm
    <2>2. CASE accept
        BY <1>1, <1>2, <2>2, AcceptCalm
    <2>3. CASE decline
        BY <1>1, <1>2, <2>3, DeclineCalm
    <2>4. CASE offer
        BY <1>1, <1>2, <2>4, OfferCalm
    <2>5. QED
        BY <1>2, <1>3, <2>1, <2>2, <2>3, <2>4
<1>4. CASE FromSender
    BY <1>1, <1>2, <1>4, OnOfferCalm, OnChunkCalm, NoCancel, NoneMisaddressed,
       SidesAre DEF FromSender
<1>5. CASE FromReceiver
    <2>1. CASE on_answer("accept") \/ on_answer("decline")
        BY <1>1, <1>2, <2>1, OnAnswerCalm
    <2>2. CASE on_ack
        BY <1>1, <1>2, <2>2, OnAckCalm
    <2>3. ~on_cancel("R") /\ ~Misaddressed("R")
        BY <1>1, NoCancel, NoneMisaddressed, SidesAre
    <2>4. QED
        BY <1>2, <1>5, <2>1, <2>2, <2>3 DEF FromReceiver
<1>6. CASE Listener
    BY <1>1, <1>2, <1>6, StopCalm, BeginCalm, SendPieceCalm, ProgressCalm,
       ConfirmedCalm DEF Listener
<1>7. CASE Fetcher
    BY <1>1, <1>2, <1>7, ReachCalm, NoFirstCalm, ReceivingCalm, DirectPieceCalm, NoReceiveFailure,
       AskingCalm DEF Fetcher
<1>8. CASE TickPump \/ TickAck
    <2>1. CASE TickPump
        BY <1>1, <1>2, <2>1, TickPumpCalm
    <2>2. CASE TickAck
        BY <1>1, <1>2, <2>2, TickAckCalm
    <2>3. QED
        BY <1>2, <1>8, <2>1, <2>2
<1>9. CASE \E s \in Sides : clear_finished(s) \/ TickStall(s) \/ TickGone(s)
    BY <1>1, <1>2, <1>9, ClearCalm, NobodyStalls, NobodyIsGone
<1>10. CASE UNCHANGED vars
    <2>1. UNCHANGED <<hash, out, inc, serve, fetch, sock, wire>>
        BY <1>10 DEF vars
    <2>2. Somewhere <=> Somewhere'
        BY <2>1 DEF Somewhere, Nothing, Proposed, Considered, Reaching, Asked, Fetching, Relayed,
                    Settled, Silent, Apart, Waiting, Unused, Ready, Ended, Taking, Fetched, Got
    <2>3. QED
        BY <1>1, <1>2, <2>2
<1>11. QED
    BY <1>1, <1>2, <1>3, <1>4, <1>5, <1>6, <1>7, <1>8, <1>9, <1>10, CalmSteps

(* While nothing is lost, stalled or called off, and the connections and   *)
(* the setting stay: no order of what the two ends, the relay and the      *)
(* local network do makes either end fail.  The window and the             *)
(* acknowledgements, at once or owed, never leave both waiting (pump,      *)
(* owed_ack), and an answer that could not be fetched directly always      *)
(* finds the sender waiting for it (answer_through_relay, on_answer).      *)
THEOREM NoFailureIsNeedless == Spec => []NoNeedlessFailure
<1>1. CalmInv => NoNeedlessFailure
    <2> SUFFICES ASSUME Somewhere PROVE out.stage # "failed" /\ inc.stage # "failed"
        BY DEF CalmInv, Calm, NoNeedlessFailure
    <2>1. QED
        BY DEF Somewhere, Nothing, Proposed, Considered, Reaching, Asked, Fetching, Relayed,
               Settled, Waiting, Ready, Ended, Taking, Fetched, NoInc
<1>2. QED
    BY <1>1, CalmInit, CalmStep, AlwaysIInv, PTL DEF Spec
=============================================================================
