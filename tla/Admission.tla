----------------------------- MODULE Admission ------------------------------
(***************************************************************************)
(* Which connections the relay takes (server/src/server.ts, the connection *)
(* and close handlers and the sweeper; server/src/limits.ts, TokenBucket   *)
(* and IpLimiter).  A socket over one of the caps is closed, but stays one *)
(* of the server's clients until its close is complete.                    *)
(*                                                                         *)
(* Tokens are counted in the milliseconds they take to refill, so that the *)
(* bucket's fractions are whole numbers: Refill of them make one token.    *)
(***************************************************************************)
EXTENDS Naturals, FiniteSets, Functions, FiniteSetsExt

CONSTANTS
    MaxSockets,     \* bound: sockets the server may have at a time
    Keys,           \* addresses as rateLimitKey groups them
    MaxConnsGlobal, MaxConnsPerIp,
    NewConnBurst,   \* capacity of an address's bucket, in tokens
    Refill,         \* newConnRefillMs: time to earn one token
    IdleMs,         \* how long an unused entry is kept
    MaxNow,         \* bound: ticks of the clock
    MaxJumps        \* bound: times the wall clock is set back

AdmissionAssumption ==
    /\ {MaxConnsGlobal, MaxConnsPerIp, NewConnBurst, Refill} \subseteq Nat \ {0}
    /\ {IdleMs, MaxSockets, MaxNow, MaxJumps} \subseteq Nat

VARIABLES
    now,      \* Date.now()
    open,     \* sessions of each address
    closing,  \* refused sockets whose close is not complete
    entries,  \* IpLimiter.entries
    ideal,    \* history: the bucket of every address, were none ever forgotten
    jumps     \* times the clock was set back

vars == <<now, open, closing, entries, ideal, jumps>>

(***************************************************************************)
(* TokenBucket                                                             *)
(***************************************************************************)
Capacity == NewConnBurst * Refill

NewBucket == [tokens |-> Capacity, lastRefill |-> now]

(* refill: a clock set back neither mints tokens nor freezes the bucket *)
Refilled(b) ==
    [tokens |-> IF now < b.lastRefill THEN b.tokens
                ELSE Min({Capacity, b.tokens + (now - b.lastRefill)}),
     lastRefill |-> now]

(* take(1): the bucket after it, and whether there was a token *)
HasToken(b) == Refilled(b).tokens >= Refill
Take(b) == [Refilled(b) EXCEPT !.tokens = IF HasToken(b) THEN @ - Refill ELSE @]

BucketIdle(b) == Refilled(b).tokens >= Capacity

(***************************************************************************)
(* IpLimiter                                                               *)
(***************************************************************************)
NewEntry == [connections |-> 0, newConns |-> NewBucket, lastSeen |-> now]

EntryOf(k) == IF k \in DOMAIN entries THEN entries[k] ELSE NewEntry

SetEntry(k, e) == [j \in DOMAIN entries \cup {k} |-> IF j = k THEN e ELSE entries[j]]

(* admit: the entry it leaves, and whether the connection is taken *)
Admit(k) ==
    LET e == [EntryOf(k) EXCEPT !.lastSeen = now]
        roomLeft == e.connections < MaxConnsPerIp
        ok == roomLeft /\ HasToken(e.newConns)
    IN  [ok |-> ok,
         entry |-> IF ~roomLeft THEN e
                   ELSE [e EXCEPT !.newConns = Take(@), !.connections = IF ok THEN @ + 1 ELSE @]]

(***************************************************************************)
(* The relay                                                               *)
(***************************************************************************)
Sessions == MapThenSumSet(LAMBDA k : open[k], Keys)
Clients == Sessions + closing

Init ==
    /\ now = 0
    /\ open = [k \in Keys |-> 0]
    /\ closing = 0
    /\ entries = <<>>
    /\ ideal = [k \in Keys |-> NewBucket]
    /\ jumps = 0

(* The connection handler, for a socket over the global cap: it does not   *)
(* reach the limiter.                                                      *)
RefuseGlobal ==
    /\ Clients < MaxSockets
    /\ Clients + 1 > MaxConnsGlobal
    /\ closing' = closing + 1
    /\ UNCHANGED <<now, open, entries, ideal, jumps>>

(* and otherwise.  (The bucket never forgotten is asked when the limiter's *)
(* would be.)                                                              *)
Connection(k) ==
    /\ Clients < MaxSockets
    /\ Clients + 1 <= MaxConnsGlobal
    /\ entries' = SetEntry(k, Admit(k).entry)
    /\ IF Admit(k).ok
       THEN open' = [open EXCEPT ![k] = @ + 1] /\ UNCHANGED closing
       ELSE closing' = closing + 1 /\ UNCHANGED open
    /\ ideal' = [ideal EXCEPT ![k] = IF EntryOf(k).connections < MaxConnsPerIp THEN Take(@) ELSE @]
    /\ UNCHANGED <<now, jumps>>

(* The close of a socket that was refused: nothing to release. *)
RefusedCloses ==
    /\ closing > 0
    /\ closing' = closing - 1
    /\ UNCHANGED <<now, open, entries, ideal, jumps>>

(* The close handler and IpLimiter.release *)
SessionCloses(k) ==
    /\ open[k] > 0
    /\ open' = [open EXCEPT ![k] = @ - 1]
    /\ entries' = IF k \notin DOMAIN entries THEN entries
                  ELSE [entries EXCEPT ![k].connections = IF @ > 0 THEN @ - 1 ELSE 0,
                                       ![k].lastSeen = now]
    /\ UNCHANGED <<now, closing, ideal, jumps>>

(* A mistake: an entry is forgotten although its bucket has not refilled. *)
ForgettableUnfilled(k) ==
    LET e == entries[k]
    IN  e.connections = 0 /\ now > e.lastSeen + IdleMs

(* sweep: which entries are forgotten *)
Forgettable(k) ==
    LET e == entries[k]
    IN  e.connections = 0 /\ now > e.lastSeen + IdleMs /\ BucketIdle(e.newConns)

(* isIdle refills the bucket of every entry it is asked about. *)
Sweep ==
    /\ entries' = LET asked(k) == entries[k].connections = 0 /\ now > entries[k].lastSeen + IdleMs
                  IN  [k \in {j \in DOMAIN entries : ~Forgettable(j)} |->
                         IF asked(k) THEN [entries[k] EXCEPT !.newConns = Refilled(@)]
                         ELSE entries[k]]
    /\ UNCHANGED <<now, open, closing, ideal, jumps>>

Tick ==
    /\ now < MaxNow
    /\ now' = now + 1
    /\ UNCHANGED <<open, closing, entries, ideal, jumps>>

(* The wall clock is set back. *)
ClockJumps ==
    /\ jumps < MaxJumps
    /\ jumps' = jumps + 1
    /\ now' \in 0..(now - 1)
    /\ UNCHANGED <<open, closing, entries, ideal>>

Next ==
    \/ RefuseGlobal \/ RefusedCloses
    \/ \E k \in Keys : Connection(k) \/ SessionCloses(k)
    \/ Sweep \/ Tick \/ ClockJumps

Spec == Init /\ [][Next]_vars

-----------------------------------------------------------------------------
(* "Drops entries that hold no connections and have refilled" (sweep): a   *)
(* forgotten address gets no more new connections than one remembered for  *)
(* ever, as long as the clock does not go back.                            *)
ForgettingMintsNothing ==
    jumps = 0 =>
        \A k \in Keys : Refilled(EntryOf(k).newConns).tokens = Refilled(ideal[k]).tokens

=============================================================================
