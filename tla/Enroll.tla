------------------------------- MODULE Enroll -------------------------------
(***************************************************************************)
(* Adding a device to an account (asli-app/src/enroll.rs): the invitation  *)
(* on the device that has the account, and the attempts of the devices     *)
(* that typed its code.  They meet in a room of the relay, which keeps     *)
(* nothing: a message reaches the ends whose connection is up when the     *)
(* relay reads it.  With Same Network Only a request counts only when it   *)
(* comes over the local network, and it is answered there as well.         *)
(*                                                                         *)
(* Both ends run the same loop: a connection and a pump side by side       *)
(* ("running"), then a pause ("waiting"), until there is an outcome        *)
(* ("done").                                                               *)
(***************************************************************************)
EXTENDS Naturals, Sequences, FiniteSets

CONSTANTS
  Attempts,     \* one per code typed in: a request id and the keys behind it
  Near,         \* the ones made on the approving device's local network
  None,
  MaxRequests,  \* MAX_REQUESTS
  MaxClicks,    \* decisions the person makes
  MaxFaults     \* connections that break, on either end

VARIABLES
  nearbyOnly,   \* Same Network Only, read when the invitation is opened
  inv,          \* the invitation
  join,         \* the attempts
  talk,         \* the attempts with a local connection to the invitation
  clicks,       \* what the person decided, in order
  faults

vars == <<nearbyOnly, inv, join, talk, clicks, faults>>

Decision == [kind : {"grant", "decline"}, to : Attempts]

EnrollAssumption == None \notin Decision

\* Invitation::open.
Opened ==
  [at |-> "running", up |-> FALSE,
   heard |-> {},           \* requests on their way up its connection
   asking |-> <<>>,        \* the requests taken, oldest first
   commands |-> <<>>,      \* decisions the pump has not read
   answer |-> None,
   out |-> FALSE,          \* the answer is queued on this connection
   ack |-> FALSE,          \* the relay's confirmation is on its way
   confirmed |-> FALSE,
   over |-> FALSE,         \* closed by the person, or ten minutes old
   outcome |-> "none"]

\* JoinAttempt::start.
Started ==
  [at |-> "running", up |-> FALSE,
   coming |-> FALSE,    \* the answer is on its way to it
   nearby |-> FALSE,    \* the answer lies in its nearby_answer
   found |-> "none",    \* the outcome slot, first answer only
   over |-> FALSE,
   outcome |-> "none"]

Init ==
  /\ nearbyOnly \in BOOLEAN
  /\ inv = Opened
  /\ join = [j \in Attempts |-> Started]
  /\ talk = {}
  /\ clicks = <<>>
  /\ faults = 0

Ended == inv.outcome # "none"

-----------------------------------------------------------------------------
(* The relay, and the connections to it.                                   *)

InviteUp ==
  /\ inv.at = "running" /\ ~inv.up
  /\ inv' = [inv EXCEPT !.up = TRUE]
  /\ UNCHANGED <<nearbyOnly, join, talk, clicks, faults>>

JoinUp(j) ==
  /\ join[j].at = "running" /\ ~join[j].up
  /\ join' = [join EXCEPT ![j].up = TRUE]
  /\ UNCHANGED <<nearbyOnly, inv, talk, clicks, faults>>

\* The answer is addressed to nobody: the relay hands it to every end that is
\* connected, and confirms having read it, whoever that was.
RelayAnswer ==
  /\ inv.up /\ inv.out
  /\ inv' = [inv EXCEPT !.out = FALSE, !.ack = TRUE]
  /\ join' = [j \in Attempts |->
               IF join[j].up THEN [join[j] EXCEPT !.coming = TRUE] ELSE join[j]]
  /\ UNCHANGED <<nearbyOnly, talk, clicks, faults>>

\* A request, sent every few seconds until answered.
Ask(j) ==
  /\ join[j].up /\ join[j].found = "none" /\ ~join[j].over
  /\ inv.up /\ j \notin inv.heard
  /\ inv' = [inv EXCEPT !.heard = @ \union {j}]
  /\ UNCHANGED <<nearbyOnly, join, talk, clicks, faults>>

-----------------------------------------------------------------------------
(* The invitation.                                                         *)

TakesOverRelay == ~nearbyOnly

Taken(j) ==
  IF /\ inv.answer = None
     /\ Len(inv.asking) < MaxRequests
     /\ \A i \in 1..Len(inv.asking) : inv.asking[i] # j
  THEN Append(inv.asking, j) ELSE inv.asking

OnRequest(j) ==
  /\ inv.at = "running" /\ j \in inv.heard
  /\ inv' = [inv EXCEPT !.heard = @ \ {j},
                        !.asking = IF TakesOverRelay THEN Taken(j) ELSE @]
  /\ UNCHANGED <<nearbyOnly, join, talk, clicks, faults>>

\* Sent: the relay has read the answer.
OnSent ==
  /\ inv.at = "running" /\ inv.ack
  /\ inv' = [inv EXCEPT !.ack = FALSE, !.confirmed = TRUE]
  /\ UNCHANGED <<nearbyOnly, join, talk, clicks, faults>>

\* The rows of the window, or the lines of the terminal.
Shown(j) == ~Ended /\ \E i \in 1..Len(inv.asking) : inv.asking[i] = j

\* Approve or decline on a row.
Click(d) ==
  /\ Len(clicks) < MaxClicks /\ ~inv.over
  /\ Shown(d.to)
  /\ clicks' = Append(clicks, d)
  /\ inv' = [inv EXCEPT !.commands = Append(@, d)]
  /\ UNCHANGED <<nearbyOnly, join, talk, faults>>

\* Only the first decision counts: the code is single use.
Decided(d) == IF inv.answer = None THEN d ELSE inv.answer

Pumping == inv.at = "running" /\ ~inv.confirmed /\ ~inv.over

Decide ==
  /\ Pumping /\ inv.commands # <<>>
  /\ LET d == Decided(Head(inv.commands)) IN
       inv' = [inv EXCEPT !.commands = Tail(@), !.answer = d,
                          !.out = @ \/ d # inv.answer]
  /\ UNCHANGED <<nearbyOnly, join, talk, clicks, faults>>

Settled ==
  IF inv.confirmed
  THEN (IF inv.answer.kind = "grant" THEN "approved" ELSE "declined")
  ELSE "none"

Off(end) == [end EXCEPT !.up = FALSE]

Done(outcome) == IF outcome = "none" THEN "waiting" ELSE "done"

\* The connection and the pump were running together; one of them ended, and
\* takes with it what was queued or on its way.
Left(outcome) ==
  inv' = [Off(inv) EXCEPT !.heard = {}, !.out = FALSE, !.ack = FALSE,
                          !.outcome = outcome, !.at = Done(outcome)]

\* The answer cannot be made: there is no randomness to seal it with.
CannotDecide ==
  /\ Pumping /\ inv.commands # <<>> /\ inv.answer = None
  /\ Left("failed")
  /\ UNCHANGED <<nearbyOnly, join, talk, clicks, faults>>

(* A mistake: the end of the invitation is not looked at.                  *)
InviteOverNever == FALSE

InviteOver == inv.over

PumpEnds ==
  /\ inv.at = "running"
  /\ inv.confirmed \/ InviteOver
  /\ Left(IF Settled = "none" THEN "expired" ELSE Settled)
  /\ UNCHANGED <<nearbyOnly, join, talk, clicks, faults>>

InviteBreaks ==
  /\ inv.at = "running" /\ faults < MaxFaults
  /\ faults' = faults + 1
  /\ Left(Settled)
  /\ UNCHANGED <<nearbyOnly, join, talk, clicks>>

\* Round the loop: an answer the relay never confirmed is queued again.
InviteAgain ==
  /\ inv.at = "waiting"
  /\ inv' = IF inv.over
            THEN [inv EXCEPT !.at = "done", !.outcome = "expired"]
            ELSE [inv EXCEPT !.at = "running", !.out = inv.answer # None]
  /\ UNCHANGED <<nearbyOnly, join, talk, clicks, faults>>

\* The window has shown the outcome, and drops the invitation.
ShowOutcome ==
  /\ inv.at = "done" /\ ~inv.over
  /\ inv' = [inv EXCEPT !.over = TRUE]
  /\ UNCHANGED <<nearbyOnly, join, talk, clicks, faults>>

\* Closed by the person, or ten minutes old.
InviteCloses ==
  /\ inv.at # "done" /\ ~inv.over
  /\ inv' = [inv EXCEPT !.over = TRUE]
  /\ UNCHANGED <<nearbyOnly, join, talk, clicks, faults>>

-----------------------------------------------------------------------------
(* The attempts.                                                           *)

(* A mistake: the answer is not compared with the request.                 *)
JudgeAny(d, j) == IF d.kind = "grant" THEN "granted" ELSE "declined"

\* A grant opens for the request it was made for, a decline names its request.
Judge(d, j) ==
  IF d.to # j THEN "none"
  ELSE IF d.kind = "grant" THEN "granted" ELSE "declined"

Found(j) ==
  IF join[j].found = "none" THEN Judge(inv.answer, j) ELSE join[j].found

OnAnswer(j) ==
  /\ join[j].at = "running" /\ join[j].coming
  /\ join' = [join EXCEPT ![j].coming = FALSE, ![j].found = Found(j)]
  /\ UNCHANGED <<nearbyOnly, inv, talk, clicks, faults>>

TakeNearbyAnswer(j) ==
  /\ join[j].at = "running" /\ join[j].nearby
  /\ join' = [join EXCEPT ![j].nearby = FALSE, ![j].found = Found(j)]
  /\ UNCHANGED <<nearbyOnly, inv, talk, clicks, faults>>

JoinLeft(j, outcome) ==
  join' = [join EXCEPT ![j] = [Off(@) EXCEPT !.coming = FALSE,
                                 !.outcome = outcome, !.at = Done(outcome)]]

JoinOver(j) == join[j].over

AskerEnds(j) ==
  /\ join[j].at = "running"
  /\ join[j].found # "none" \/ JoinOver(j)
  /\ JoinLeft(j, IF join[j].found = "none" THEN "expired" ELSE join[j].found)
  /\ UNCHANGED <<nearbyOnly, inv, talk, clicks, faults>>

JoinBreaks(j) ==
  /\ join[j].at = "running" /\ faults < MaxFaults
  /\ faults' = faults + 1
  /\ JoinLeft(j, join[j].found)
  /\ UNCHANGED <<nearbyOnly, inv, talk, clicks>>

JoinAgain(j) ==
  /\ join[j].at = "waiting"
  /\ join' = [join EXCEPT ![j] =
       IF join[j].over THEN [@ EXCEPT !.at = "done", !.outcome = "expired"]
                       ELSE [@ EXCEPT !.at = "running"]]
  /\ UNCHANGED <<nearbyOnly, inv, talk, clicks, faults>>

\* The person gives up, or ten minutes passed on this device's clock.
JoinGivesUp(j) ==
  /\ ~join[j].over /\ join[j].at \in {"running", "waiting", "done"}
  /\ join' = [join EXCEPT ![j].over = TRUE]
  /\ UNCHANGED <<nearbyOnly, inv, talk, clicks, faults>>

\* refresh_join: the outcome is taken, and with a grant the key is stored;
\* giving up drops an outcome that nobody took.
FinishJoin(j) ==
  /\ join[j].at = "done" /\ ~join[j].over
  /\ join' = [join EXCEPT ![j].at = IF join[j].outcome = "granted" THEN "joined" ELSE "over"]
  /\ UNCHANGED <<nearbyOnly, inv, talk, clicks, faults>>

-----------------------------------------------------------------------------
(* The local network.  The invitation says in the room where it listens; a *)
(* device that hears it connects, sends its request and waits for the      *)
(* answer, each end on a thread of its own that outlives the meeting       *)
(* connection.                                                             *)

Reach(j) ==
  /\ nearbyOnly /\ j \in Near \ talk
  /\ inv.up /\ ~inv.over /\ join[j].up
  /\ talk' = talk \union {j}
  /\ inv' = [inv EXCEPT !.asking = Taken(j)]
  /\ UNCHANGED <<nearbyOnly, join, clicks, faults>>

\* An invitation that is over is not answered any more.
TalkAnswers(j) ==
  /\ j \in talk /\ inv.answer # None /\ ~inv.over
  /\ talk' = talk \ {j}
  /\ join' = [join EXCEPT ![j].nearby = TRUE]
  /\ UNCHANGED <<nearbyOnly, inv, clicks, faults>>

TalkEnds(j) ==
  /\ j \in talk /\ inv.over
  /\ talk' = talk \ {j}
  /\ UNCHANGED <<nearbyOnly, inv, join, clicks, faults>>

TalkBreaks(j) ==
  /\ j \in talk /\ faults < MaxFaults
  /\ faults' = faults + 1
  /\ talk' = talk \ {j}
  /\ UNCHANGED <<nearbyOnly, inv, join, clicks>>

-----------------------------------------------------------------------------
InviteThread == InviteUp \/ OnSent \/ Decide \/ CannotDecide \/ PumpEnds
                \/ InviteAgain \/ \E j \in Attempts : OnRequest(j)
JoinThread(j) == OnAnswer(j) \/ TakeNearbyAnswer(j) \/ AskerEnds(j)
                 \/ JoinAgain(j) \/ FinishJoin(j)

Next ==
  \/ InviteThread \/ RelayAnswer \/ InviteBreaks \/ InviteCloses \/ ShowOutcome
  \/ \E d \in Decision : Click(d)
  \/ \E j \in Attempts :
       \/ JoinThread(j) \/ JoinUp(j) \/ Ask(j) \/ JoinBreaks(j)
       \/ JoinGivesUp(j)
       \/ Reach(j) \/ TalkAnswers(j) \/ TalkEnds(j) \/ TalkBreaks(j)

\* Both threads run on, and ten minutes pass on both clocks.  Nothing is
\* assumed of the relay, of the local network or of the person.
Fairness ==
  /\ WF_vars(InviteCloses)
  /\ WF_vars(PumpEnds \/ InviteAgain)
  /\ \A j \in Attempts : WF_vars(JoinGivesUp(j))
                         /\ WF_vars(AskerEnds(j) \/ JoinAgain(j))

Spec == Init /\ [][Next]_vars /\ Fairness

-----------------------------------------------------------------------------
Granted == {j \in Attempts : join[j].found = "granted"}

\* The code is single use, whatever the person clicks and however often the
\* answer is sent again or arrives by both ways: the account key reaches one
\* device at most, the one the person approved first, and nobody once the
\* first decision was to turn a device down.  With Same Network Only it is a
\* device on this network, even if one elsewhere has the code.
OnlyTheApproved ==
  /\ \A j \in Attempts :
      join[j].found # "none" =>
        clicks[1] = [kind |-> IF join[j].found = "granted" THEN "grant"
                              ELSE "decline", to |-> j]
  /\ nearbyOnly => Granted \subseteq Near

\* Neither end waits for ever, whatever the relay and the other end do.
NobodyWaits == inv.at = "done" /\ \A j \in Attempts : join[j].at \in {"done", "joined", "over"}
EveryoneEnds == <>NobodyWaits

-----------------------------------------------------------------------------
(* What is said of the code and not kept by it: TLC refutes each of these  *)
(* (README, "Where the words and the code part").                          *)

\* "The new device therefore asks again every few seconds until it is
\* answered": an approval the relay confirmed is on its way to the device, or
\* has reached it, unless that device gave up first.
AskedUntilAnswered ==
  inv.outcome = "approved" =>
    LET j == inv.answer.to IN
      \/ join[j].over \/ join[j].found = "granted"
      \/ join[j].coming \/ join[j].nearby \/ j \in talk

\* "The code expired before anyone used it."
ExpiredUnused == inv.outcome = "expired" => Granted = {}
=============================================================================
