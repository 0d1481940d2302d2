----------------------------- MODULE Supervisor -----------------------------
(***************************************************************************)
(* run_connection_loop in daemon.rs: read the relay's address, connect,    *)
(* judge how the connection ended, wait, and again; with the pacing of     *)
(* backoff.rs, the settings screen changing the address and asking to      *)
(* retry, and the connection state machine of state.rs fed with the same   *)
(* events.                                                                 *)
(*                                                                         *)
(* Time is counted in steps of Tick.  The local channel never closes (the  *)
(* loop itself and the outbox keep senders of it), and nothing calls       *)
(* on_retry_after or on_network_change, so neither is an event here.       *)
(***************************************************************************)
EXTENDS Naturals

CONSTANTS
    Urls,           \* relay addresses
    Base,           \* BASE_MS
    Cap,            \* CAP_MS
    RateCap,        \* RATE_LIMITED_CAP_MS
    QuotaCap,       \* QUOTA_CAP_MS
    Stable,         \* STABLE_MS
    MaxShift        \* attempts past which the interval is at every cap

SupervisorAssumption ==
    /\ Base \in Nat /\ Cap \in Nat /\ RateCap \in Nat /\ QuotaCap \in Nat
    /\ Stable \in Nat
    /\ MaxShift \in Nat \ {0}

VARIABLES
    phase,      \* where the loop is
    configured, \* the address in the configuration file
    url,        \* the address read for this attempt
    saving,     \* the settings screen saved a new address, and has not raised the flag yet
    reconnect,  \* LiveSettings.reconnect
    pacing,     \* Backoff: attempt, cap and floor
    upFor,      \* how long this connection has been authenticated, 0 before that
    left,       \* what is left of the wait between attempts
    state,      \* the state machine's state
    away,       \* what is left of the time the relay's last close asked for
    fails       \* connections that ended since the last stable one

vars == <<phase, configured, url, saving, reconnect, pacing, upFor, left, state, away, fails>>

settings == <<configured, saving>>

Least(a, b) == IF a < b THEN a ELSE b

Fresh == [attempt |-> 0, cap |-> Cap, floor |-> 0]

(* How a connection ends: close codes 4007, 4008, 4002 to 4004 and any     *)
(* other, a refused authentication, or no close at all.                    *)
Ends == {"rate close", "quota close", "fatal close", "close", "auth fatal", "auth refused", "eof"}

Permanent(end) == end \in {"fatal close", "auth fatal"}

-----------------------------------------------------------------------------
(* Backoff.                                                                *)

OnClose(end, p) ==
    CASE end = "rate close"  -> [p EXCEPT !.cap = RateCap, !.floor = RateCap]
      [] end = "quota close" -> [p EXCEPT !.cap = QuotaCap, !.floor = QuotaCap]
      [] OTHER -> p

NoteStable(up, p) == IF up > Stable THEN Fresh ELSE p

(* A mistake: the reset comes after what the close asked for.              *)
PacingAfterReset(end) == NoteStable(upFor, OnClose(end, pacing))

(* The loop resets the pacing before it judges how the connection ended.   *)
PacingAfter(end) == OnClose(end, NoteStable(upFor, pacing))

Interval(p) == Least(Base * 2 ^ p.attempt, p.cap)

Delays(p) == {p.floor + jitter : jitter \in 0 .. Interval(p)}

-----------------------------------------------------------------------------
(* next of state.rs, for the inputs the loop produces.                     *)

IsFatal(s) == s = "Fatal"

WantsConnection(s) == s \in {"Disconnected", "RateLimited"}

NextState(s, input) ==
    IF IsFatal(s) THEN s
    ELSE CASE input \in {"fatal close", "auth fatal"} -> "Fatal"
           [] input \in {"rate close", "quota close"} -> "RateLimited"
           [] input \in {"close", "eof", "auth refused"} -> "Disconnected"
           [] input = "dial" /\ WantsConnection(s) -> "Connecting"
           [] input = "socket open" /\ s = "Connecting" -> "Authenticating"
           [] input = "auth ok" /\ s \in {"Authenticating", "RateLimited"} -> "Synced"
           [] input = "relay error" /\ s = "Synced" -> "RateLimited"
           [] OTHER -> s

-----------------------------------------------------------------------------
Init ==
    /\ phase = "start"
    /\ configured \in Urls
    /\ url = configured
    /\ saving = FALSE
    /\ reconnect = FALSE
    /\ pacing = Fresh
    /\ upFor = 0
    /\ left = 0
    /\ state = "Disconnected"
    /\ away = 0
    /\ fails = 0

(* The address is read afresh on every attempt; a little later the flag    *)
(* that asks for a reconnection is cleared.                                *)
ReadAddress ==
    /\ phase = "start"
    /\ phase' = "address read"
    /\ url' = configured
    /\ UNCHANGED <<settings, reconnect, pacing, upFor, left, state, away, fails>>

Dial ==
    /\ phase = "address read"
    /\ phase' = "dialing"
    /\ reconnect' = FALSE
    /\ upFor' = 0
    /\ state' = NextState(state, "dial")
    /\ UNCHANGED <<settings, url, pacing, left, away, fails>>

SocketOpen ==
    /\ phase = "dialing"
    /\ phase' = "handshake"
    /\ state' = NextState(state, "socket open")
    /\ UNCHANGED <<settings, url, reconnect, pacing, upFor, left, away, fails>>

Authenticated ==
    /\ phase = "handshake"
    /\ phase' = "up"
    /\ upFor' = 1
    /\ state' = NextState(state, "auth ok")
    /\ away' = 0
    /\ UNCHANGED <<settings, url, reconnect, pacing, left, fails>>

(* An error that says the room is over its rate or quota, on a connection  *)
(* that goes on.                                                           *)
RelayError ==
    /\ phase = "up"
    /\ state' = NextState(state, "relay error")
    /\ UNCHANGED <<phase, settings, url, reconnect, pacing, upFor, left, away, fails>>

(* What judge_outcome makes of the end, then next_delay.  A relay address  *)
(* that changed ends the connection as if the socket had.                  *)
Ended(end) ==
    /\ phase \in {"dialing", "handshake", "up"}
    /\ end \in {"auth fatal", "auth refused"} => phase = "handshake"
    /\ LET p == PacingAfter(end) IN
        /\ phase' = IF Permanent(end) THEN "stopped" ELSE "ended"
        /\ \E d \in Delays(p) : left' = IF Permanent(end) THEN 0 ELSE d
        /\ pacing' = IF Permanent(end) THEN p
                     ELSE [p EXCEPT !.attempt = Least(@ + 1, MaxShift)]
    /\ state' = NextState(state, end)
    /\ away' = CASE end = "rate close"  -> RateCap
                 [] end = "quota close" -> QuotaCap
                 [] OTHER -> away
    /\ fails' = IF upFor > Stable THEN 1 ELSE Least(fails + 1, MaxShift)
    /\ UNCHANGED <<settings, url, reconnect, upFor>>

AddressChanged == reconnect /\ Ended("eof")

(* wait_to_retry: at once when a reconnection was asked for meanwhile.     *)
StartWait ==
    /\ phase = "ended"
    /\ phase' = IF reconnect THEN "start" ELSE "waiting"
    /\ reconnect' = FALSE
    /\ UNCHANGED <<settings, url, pacing, upFor, left, state, away, fails>>

Wake ==
    /\ phase = "waiting"
    /\ left = 0 \/ reconnect
    /\ phase' = "start"
    /\ reconnect' = FALSE
    /\ UNCHANGED <<settings, url, pacing, upFor, left, state, away, fails>>

(* The settings screen: the new address is saved, then the flag raised.    *)
SaveAddress ==
    /\ ~saving
    /\ configured' \in Urls \ {configured}
    /\ saving' = TRUE
    /\ UNCHANGED <<phase, url, reconnect, pacing, upFor, left, state, away, fails>>

RaiseReconnect ==
    /\ saving
    /\ saving' = FALSE
    /\ reconnect' = TRUE
    /\ UNCHANGED <<phase, configured, url, pacing, upFor, left, state, away, fails>>

(* Retry Now in the window; not offered once syncing has stopped.          *)
RetryNow ==
    /\ phase # "stopped"
    /\ reconnect' = TRUE
    /\ UNCHANGED <<phase, settings, url, pacing, upFor, left, state, away, fails>>

Tick ==
    /\ left' = IF phase = "waiting" /\ left > 0 THEN left - 1 ELSE left
    /\ away' = IF away > 0 THEN away - 1 ELSE 0
    /\ upFor' = IF phase = "up" THEN Least(upFor + 1, Stable + 1) ELSE upFor
    /\ <<left, away, upFor>>' # <<left, away, upFor>>
    /\ UNCHANGED <<phase, settings, url, reconnect, pacing, state, fails>>

Loop == ReadAddress \/ Dial \/ AddressChanged \/ StartWait \/ Wake

Next ==
    \/ Loop \/ SocketOpen \/ Authenticated \/ RelayError
    \/ \E end \in Ends : Ended(end)
    \/ SaveAddress \/ RaiseReconnect \/ RetryNow
    \/ Tick

Spec == Init /\ [][Next]_vars

-----------------------------------------------------------------------------
(* No attempt comes too soon: one nobody asked for begins only when the    *)
(* time a rate limit or quota close asked for is over, whatever timeouts   *)
(* and stable connections came before it, and every connection since the   *)
(* last stable one has doubled its interval, so that a relay which accepts *)
(* connections and ends them at once is approached ever more slowly        *)
(* (on_close, on_authenticated, note_stable, and their order in the loop). *)
InTime ==
    phase # "start" /\ phase' = "start" /\ ~reconnect
        => away = 0 /\ pacing.attempt >= fails
NeverTooSoon == [][InTime]_vars

-----------------------------------------------------------------------------
(* What is said of the code and not kept by it: TLC refutes each of these  *)
(* (README, "Where the words and the code part").                          *)

(* "A relay changed in Settings ends this connection now rather than       *)
(* whenever it next drops": a connection to another address than the one   *)
(* saved is about to be ended.                                             *)
NewAddressTaken ==
    phase \in {"dialing", "handshake", "up"} /\ url # configured => saving \/ reconnect
=============================================================================
