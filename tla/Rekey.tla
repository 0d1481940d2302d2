------------------------------- MODULE Rekey --------------------------------
(***************************************************************************)
(* Replacing the account key.  One device makes a key, seals it to the     *)
(* devices that stay and sends the bundle through the relay; whoever it    *)
(* reaches moves to the new key by restarting onto it, and whoever is left *)
(* out forgets the account (Outbox, on_account_event, move_to_new_key and  *)
(* leave_account in daemon.rs; rekey_frame and on_rekey in session.rs).    *)
(*                                                                         *)
(* A key is the number of the bundle that brought it, 0 the first one; a   *)
(* room is the key it is derived from.  Bundles and cards are fresh.  A    *)
(* process stops only to restart onto another key: one that is killed      *)
(* before that is outside this module.                                     *)
(***************************************************************************)
EXTENDS Naturals, Sequences, FiniteSets

CONSTANTS
    Devices,
    MaxKeys,        \* key changes in all
    MaxFaults,      \* dropped connections, refusals, full queues, failing stores and wipes
    MaxCards,       \* cards sent
    Concurrent,     \* whether two devices may change the key at once
    None

RekeyAssumption == None \notin Nat

VARIABLES
    made,       \* the bundles made, by key
    key,        \* the account key a device has stored
    using,      \* the key its running process started with
    restart,    \* restart_for was called
    pending,    \* OutboxState::rekey
    list,       \* devices on its list whose keys it holds
    known,      \* Session::known
    up,         \* whether it is connected
    queue,      \* its local channel
    out,        \* bundles and goodbyes the relay has not read
    inbox,      \* events it has not handled
    announced,  \* cards sent so far
    deferred,   \* devices whose key change this connection's queue had no room for
    missed,     \* bundles the relay passed on to nobody, though others were in the room
    unsaved,    \* <<d, n>>: d could not save the key n, and the person was told
    relisted,   \* <<d, n, e>>: e's card reached d after it moved to n, before it restarted
    faults

wire == <<up, queue, out, inbox>>

record == <<missed, unsaved, relisted>>

vars == <<made, key, using, restart, pending, list, known, wire, announced, deferred, record, faults>>

Keys == 1 .. Len(made)

Init ==
    /\ made = << >>
    /\ key = [d \in Devices |-> 0]
    /\ using = [d \in Devices |-> 0]
    /\ restart = [d \in Devices |-> FALSE]
    /\ pending = [d \in Devices |-> None]
    /\ list = [d \in Devices |-> Devices \ {d}]
    /\ known = list
    /\ up = [d \in Devices |-> TRUE]
    /\ queue = [d \in Devices |-> << >>]
    /\ out = [d \in Devices |-> << >>]
    /\ inbox = [d \in Devices |-> << >>]
    /\ announced = 0
    /\ deferred = {}
    /\ unsaved = {}
    /\ relisted = {}
    /\ missed = {}
    /\ faults = 0

Running(d) == using[d] # None

Fault == faults < MaxFaults /\ faults' = faults + 1

Settled ==
    \A d \in Devices : /\ ~restart[d] /\ pending[d] = None
                       /\ queue[d] = << >> /\ out[d] = << >> /\ inbox[d] = << >>

-----------------------------------------------------------------------------
(* The device that changes the key.                                        *)

(* keyed_except: who the new key is sealed to.                             *)
Keepers(d, removing) == list[d] \ removing

(* Outbox::replace_key.                                                    *)
ReplaceKey(d, removing) ==
    LET n == Len(made) + 1 IN
    /\ Running(d) /\ pending[d] = None
    /\ n <= MaxKeys
    /\ Concurrent \/ Settled
    /\ made' = Append(made, [by |-> d, base |-> using[d], keep |-> Keepers(d, removing),
                             removing |-> removing])
    /\ pending' = [pending EXCEPT ![d] = n]
    /\ queue' = [queue EXCEPT ![d] = Append(@, n)]
    /\ UNCHANGED <<key, using, restart, list, known, up, out, inbox, announced, deferred, record, faults>>

(* The window's buttons: any of the devices listed goes, or none does and  *)
(* only the key changes.                                                   *)
RemoveDevices(d) == \E removing \in SUBSET list[d] : ReplaceKey(d, removing)

FailRekey(d, n) == pending' = [pending EXCEPT ![d] = IF @ = n THEN None ELSE @]

(* rekey_frame names only devices the session has seen; anything else is   *)
(* NotSent, and fail_rekey.                                                *)
SendLocal(d) ==
    /\ up[d] /\ queue[d] # << >>
    /\ queue' = [queue EXCEPT ![d] = Tail(@)]
    /\ LET n == Head(queue[d]) IN
       IF made[n].keep \subseteq known[d]
       THEN /\ out' = [out EXCEPT ![d] = Append(@, [type |-> "bundle", key |-> n])]
            /\ UNCHANGED pending
       ELSE FailRekey(d, n) /\ UNCHANGED out
    /\ UNCHANGED <<made, key, using, restart, list, known, up, inbox, announced, deferred, record, faults>>

(* A mistake: a new connection starts with what is in the queue.           *)
ConnectOnly(d) ==
    /\ Running(d) /\ ~up[d]
    /\ up' = [up EXCEPT ![d] = TRUE]
    /\ deferred' = deferred \ {d}
    /\ UNCHANGED <<made, key, using, restart, pending, list, known, queue, out, inbox, announced, record, faults>>

(* Outbox::resend_pending.  A change the queue has no room for goes on the *)
(* next connection.                                                        *)
Connect(d) ==
    /\ Running(d) /\ ~up[d]
    /\ up' = [up EXCEPT ![d] = TRUE]
    /\ \/ /\ pending[d] = None
          /\ deferred' = deferred \ {d}
          /\ UNCHANGED <<queue, faults>>
       \/ /\ pending[d] # None
          /\ queue' = [queue EXCEPT ![d] = Append(@, pending[d])]
          /\ deferred' = deferred \ {d}
          /\ UNCHANGED faults
       \/ /\ pending[d] # None
          /\ deferred' = deferred \cup {d}
          /\ Fault
          /\ UNCHANGED queue
    /\ UNCHANGED <<made, key, using, restart, pending, list, known, out, inbox, announced, record>>

Drop(d) ==
    /\ up[d] /\ Fault
    /\ up' = [up EXCEPT ![d] = FALSE]
    /\ out' = [out EXCEPT ![d] = << >>]
    /\ inbox' = [inbox EXCEPT ![d] = << >>]
    /\ UNCHANGED <<made, key, using, restart, pending, list, known, queue, announced, deferred, record>>

(* push_card: on connecting, and whenever somebody joins the room.         *)
SendCard(d) ==
    /\ up[d] /\ announced < MaxCards
    /\ announced' = announced + 1
    /\ out' = [out EXCEPT ![d] = Append(@, [type |-> "card", from |-> d])]
    /\ UNCHANGED <<made, key, using, restart, pending, list, known, up, queue, inbox, deferred, record, faults>>

-----------------------------------------------------------------------------
(* The relay reads a message, passes it on to the room or refuses it for   *)
(* its rate, and either way answers the ping that follows it.              *)

Roommates(d) == {e \in Devices \ {d} : up[e] /\ using[e] = using[d]}

Read(d, to) ==
    LET f == Head(out[d]) IN
    /\ up[d] /\ out[d] # << >>
    /\ out' = [out EXCEPT ![d] = Tail(@)]
    /\ inbox' = [e \in Devices |->
          IF e \in to THEN Append(inbox[e], f)
          ELSE IF e = d /\ f.type = "bundle"
               THEN Append(inbox[e], [type |-> "sent", key |-> f.key])
          ELSE inbox[e]]
    /\ missed' = IF f.type # "bundle" \/ Roommates(d) = {} THEN missed
                 ELSE IF to = {} THEN missed \cup {f.key} ELSE missed \ {f.key}
    /\ UNCHANGED <<made, key, using, restart, pending, list, known, up, queue, announced, deferred, unsaved,
                   relisted>>

Forward(d) == Read(d, Roommates(d)) /\ UNCHANGED faults

Refuse(d) == Read(d, {}) /\ Fault

-----------------------------------------------------------------------------
(* on_account_event.  Until the process has restarted it goes on handling  *)
(* what arrives.                                                           *)

(* move_to_new_key.  A key that cannot be stored changes nothing, and the  *)
(* person is told.                                                         *)
MoveTo(d, n, forget) ==
    \/ /\ key' = [key EXCEPT ![d] = n]
       /\ list' = [list EXCEPT ![d] = @ \ forget]
       /\ restart' = [restart EXCEPT ![d] = TRUE]
       /\ UNCHANGED <<unsaved, faults>>
    \/ /\ unsaved' = unsaved \cup {<<d, n>>}
       /\ Fault
       /\ UNCHANGED <<key, list, restart>>

(* secrets::wipe, which may fail, and clear.                               *)
ForgetAccount(d) ==
    /\ \/ key' = [key EXCEPT ![d] = None] /\ UNCHANGED faults
       \/ UNCHANGED key /\ Fault
    /\ list' = [list EXCEPT ![d] = {}]
    /\ restart' = [restart EXCEPT ![d] = TRUE]
    /\ UNCHANGED unsaved

Ignore == UNCHANGED <<key, list, restart, unsaved, faults>>

(* take_rekey: only the change this confirmation is about.                 *)
TakeRekey(d, f) == pending[d] = f.key

OnSent(d, f) ==
    /\ f.type = "sent"
    /\ IF TakeRekey(d, f)
       THEN /\ MoveTo(d, f.key, made[f.key].removing)
            /\ pending' = [pending EXCEPT ![d] = None]
       ELSE Ignore /\ UNCHANGED pending
    /\ UNCHANGED <<known, relisted>>

(* A mistake: a device that is told of a new key forgets nobody.           *)
LeftOutNobody(d, n) == {}

LeftOut(d, n) == list[d] \ (made[n].keep \cup {made[n].by})

(* on_rekey takes a bundle only from a device whose key it holds.          *)
OnRekey(d, n) == made[n].by \in known[d]

OnBundle(d, f) ==
    /\ f.type = "bundle"
    /\ IF ~OnRekey(d, f.key) THEN Ignore
       ELSE IF d \in made[f.key].keep THEN MoveTo(d, f.key, LeftOut(d, f.key))
       ELSE ForgetAccount(d)
    /\ UNCHANGED <<pending, known, relisted>>

OnLeave(d, f) ==
    /\ f.type = "leave"
    /\ list' = [list EXCEPT ![d] = @ \ {f.from}]
    /\ UNCHANGED <<key, restart, pending, known, unsaved, relisted, faults>>

(* on_card and heard_card: whoever shows its card is on the list.          *)
OnCard(d, f) ==
    /\ f.type = "card"
    /\ known' = [known EXCEPT ![d] = @ \cup {f.from}]
    /\ list' = [list EXCEPT ![d] = @ \cup {f.from}]
    /\ relisted' = IF restart[d] THEN relisted \cup {<<d, key[d], f.from>>} ELSE relisted
    /\ UNCHANGED <<key, restart, pending, unsaved, faults>>

Handle(d) ==
    /\ inbox[d] # << >>
    /\ inbox' = [inbox EXCEPT ![d] = Tail(@)]
    /\ LET f == Head(inbox[d]) IN OnSent(d, f) \/ OnBundle(d, f) \/ OnLeave(d, f) \/ OnCard(d, f)
    /\ UNCHANGED <<made, using, up, queue, out, announced, deferred, missed>>

(* leave_account: a goodbye the relay may or may not read in time.  If the *)
(* account key cannot be wiped, nothing else is done.                      *)
LeaveAccount(d) ==
    /\ Running(d) /\ ~restart[d]
    /\ Concurrent \/ Settled
    /\ out' = [out EXCEPT ![d] = IF up[d] THEN Append(@, [type |-> "leave", from |-> d]) ELSE @]
    /\ \/ /\ key' = [key EXCEPT ![d] = None]
          /\ list' = [list EXCEPT ![d] = {}]
          /\ restart' = [restart EXCEPT ![d] = TRUE]
          /\ UNCHANGED faults
       \/ Fault /\ UNCHANGED <<key, list, restart>>
    /\ UNCHANGED <<made, using, pending, known, up, queue, inbox, announced, deferred, record>>

(* restart_for, once the event loop comes to it: the new process reads the *)
(* stored key and the list; what the old one had in memory is gone.        *)
Restart(d) ==
    /\ restart[d]
    /\ restart' = [restart EXCEPT ![d] = FALSE]
    /\ using' = [using EXCEPT ![d] = key[d]]
    /\ known' = [known EXCEPT ![d] = list[d]]
    /\ pending' = [pending EXCEPT ![d] = None]
    /\ up' = [up EXCEPT ![d] = FALSE]
    /\ queue' = [queue EXCEPT ![d] = << >>]
    /\ out' = [out EXCEPT ![d] = << >>]
    /\ inbox' = [inbox EXCEPT ![d] = << >>]
    /\ UNCHANGED <<made, key, list, announced, deferred, record, faults>>

Next ==
    \E d \in Devices :
        \/ RemoveDevices(d)
        \/ SendLocal(d) \/ Connect(d) \/ Drop(d) \/ SendCard(d)
        \/ Forward(d) \/ Refuse(d)
        \/ Handle(d) \/ LeaveAccount(d) \/ Restart(d)

Spec == Init /\ [][Next]_vars

-----------------------------------------------------------------------------
(* The bundle, or its confirmation, is on its way or goes out again with   *)
(* the next connection.                                                    *)
Underway(d, n) ==
    /\ pending[d] = n
    /\ \/ ~up[d] \/ d \in deferred
       \/ \E i \in DOMAIN queue[d] : queue[d][i] = n
       \/ \E i \in DOMAIN out[d] : out[d][i] = [type |-> "bundle", key |-> n]
       \/ \E i \in DOMAIN inbox[d] : inbox[d][i] = [type |-> "sent", key |-> n]

(* Where some device has gone, the device that made the key has gone too   *)
(* or is about to: a confirmation lost with the connection does not leave  *)
(* it behind, unless the person was told that it could not save the key    *)
(* (resend_pending, take_rekey, move_to_new_key).                          *)
MakerFollows ==
    \A n \in Keys : LET d == made[n].by IN
        (\E e \in Devices \ {d} : key[e] = n) =>
            key[d] = None \/ key[d] >= n \/ Underway(d, n) \/ <<d, n>> \in unsaved

(* A device left out of a key never holds a key made on that one, whoever  *)
(* made it.  It is not even sealed to it, unless its card came to the      *)
(* maker after the maker moved to the key and before it restarted          *)
(* (move_to_new_key on both sides, heard_card, keyed_except, on_rekey).    *)
RemovedStaysOut ==
    \A m, n \in Keys : made[m].base = n =>
        \A d \in made[n].removing :
            /\ key[d] # m
            /\ d \in made[m].keep => <<made[m].by, n, d>> \in relisted

-----------------------------------------------------------------------------
(* What is said of the code and not kept by it: TLC refutes each of these  *)
(* (README, "Where the words and the code part").                          *)

(* A device "never moves to a key nobody received": not while others were  *)
(* in the room when the relay read the bundle.                             *)
NeverMovesAlone == \A n \in missed : key[made[n].by] # n

(* "The devices left out, which are forgotten once the move is done."      *)
ForgottenOnceMoved ==
    \A n \in Keys, d \in Devices : using[d] = n => list[d] \cap made[n].removing = {}
=============================================================================
