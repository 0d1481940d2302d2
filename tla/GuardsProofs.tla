---------------------------- MODULE GuardsProofs ----------------------------
(***************************************************************************)
(* Proofs about what is let through and what is refused: the numbers on a  *)
(* device's copies, the relay's connection limits and its daily quotas,    *)
(* and the messages of devices as they are read.  The theorems are about   *)
(* the components' own specifications and then about the model the runs    *)
(* check, MCGuards; the components' names for its slots are given once,    *)
(* here.                                                                   *)
(***************************************************************************)
EXTENDS MCGuards, Sequences, FiniteSets, FiniteSetTheorems, TLAPS

now == s1
jumps == s2
open == s3
closing == s4
entries == s5
ideal == s6
roomQuotas == s3
roomTransferQuotas == s4
globalTransferQuota == s5
occupied == s6
day == s7
clips == s8
bulk == s9
kind == s1
stage == s2
left == s3
said == s4
heard == s5
body == s6
at == s7
sig == s8
envelope == s9
damage == s10

USE DEF now, jumps, open, closing, entries, ideal, roomQuotas, roomTransferQuotas,
        globalTransferQuota, occupied, day, clips, bulk, kind, stage, left, said, heard, body,
        at, sig, envelope, damage

(***************************************************************************)
(* What MCGuards does with them.  A behaviour of it is one of Sequence,    *)
(* and one of the component that its part says.                            *)
(***************************************************************************)
LEMMA PartStarts ==
    ASSUME MCInit
    PROVE  /\ Init
           /\ part = "admission" => Door!Init
           /\ part = "quotas" => Day!Init
           /\ part = "messages" => Message!Init
BY DEF MCInit

LEMMA PartGoesOn ==
    ASSUME [MCNext]_<<part, vars, slots>>
    PROVE  /\ part' = part
           /\ [Next]_vars
           /\ part = "admission" => [Door!Next]_(Door!vars)
           /\ part = "quotas" => [Day!Next]_(Day!vars)
           /\ part = "messages" => [Message!Next]_(Message!vars)
<1>1. CASE UNCHANGED <<part, vars, slots>>
    <2>1. UNCHANGED part /\ UNCHANGED vars
          /\ UNCHANGED <<s1, s2, s3, s4, s5, s6, s7, s8, s9, s10>>
        BY <1>1 DEF slots
    <2>2. UNCHANGED Door!vars
        BY <2>1 DEF Door!vars
    <2>3. UNCHANGED Day!vars
        BY <2>1 DEF Day!vars
    <2>4. UNCHANGED Message!vars
        BY <2>1 DEF Message!vars
    <2> QED
        BY <2>1, <2>2, <2>3, <2>4
<1>2. CASE MCNext
    BY <1>2 DEF MCNext
<1> QED
    BY <1>1, <1>2

(***************************************************************************)
(* The numbers a device puts on its copies: the reservation in the state   *)
(* file covers every number used, for every size of the block and number   *)
(* of copies, resends and crashes.                                         *)
(***************************************************************************)
(* The watch's margin is a part of the block that leaves room in it. *)
LEMMA MarginIsSmall ==
    ASSUME SequenceAssumption PROVE Margin \in Nat /\ Margin < Reservation
BY DEF Margin, SequenceAssumption

(* Before the first start nothing is used. *)
LEMMA NumbersInit ==
    ASSUME SequenceAssumption PROVE Init => IInv
BY MarginIsSmall DEF Init, Waits, Causes, IInv,
                     NothingHeldWhenOff, TypeOK, Counted, Ahead,
                     WithinMargin, NumbersCovered, SequenceAssumption

(* A write either leaves the file sound, and raises it, or is recorded.    *)
LEMMA SaveStateSound ==
    ASSUME NEW n \in Nat, TypeOK, SaveState(n)
    PROVE  \/ spoiled' = {} /\ spoiled = {} /\ disk' >= disk /\ disk' = n
           \/ spoiled' # {} /\ spoiled' \subseteq Causes /\ disk' \in Nat
BY DEF TypeOK, SaveState, Causes

(* Every step of the bridge, of the connection loop and every crash keeps  *)
(* the parts together.                                                     *)
LEMMA NumbersStep ==
    ASSUME SequenceAssumption
    PROVE  IInv /\ [Next]_(vars) => IInv'
<1> SUFFICES ASSUME IInv, [Next]_(vars) PROVE IInv'
    OBVIOUS
<1> USE MarginIsSmall
<1> USE DEF IInv, TypeOK, Counted, Ahead, WithinMargin,
            NumbersCovered, Pending, Margin, NothingHeldWhenOff,
            Waits, Causes, watch, numbers, file,
            counts, SequenceAssumption
<1>1. CASE Start
    BY <1>1 DEF Start
<1>2. CASE Observe
    BY <1>2 DEF Observe, WatchDue
<1>3. CASE BridgeLoad
    BY <1>3 DEF BridgeLoad
<1>4. CASE BridgeSave
    <2>1. \/ spoiled' = {} /\ spoiled = {} /\ disk' >= disk /\ disk' = ceiling
          \/ spoiled' # {} /\ spoiled' \subseteq Causes /\ disk' \in Nat
        BY <1>4, SaveStateSound DEF BridgeSave
    <2>2. QED
        BY <1>4, <2>1 DEF BridgeSave
<1>5. CASE \E kept \in BOOLEAN : HandOn(kept)
    BY <1>5 DEF HandOn
<1>6. CASE Connect
    BY <1>6 DEF Connect
<1>7. CASE Send
    BY <1>7 DEF Send, TakeNumber
<1>8. CASE Resend
    BY <1>8 DEF Resend, TakeNumber
<1>9. CASE Confirmed
    BY <1>9 DEF Confirmed
<1>10. CASE Disconnect
    BY <1>10 DEF Disconnect
<1>11. CASE LoopLoad
    BY <1>11 DEF LoopLoad
<1>12. CASE LoopSave
    <2>1. \/ spoiled' = {} /\ spoiled = {} /\ disk' >= disk /\ disk' = seq + Reservation
          \/ spoiled' # {} /\ spoiled' \subseteq Causes /\ disk' \in Nat
        <3>1. seq + Reservation \in Nat
            OBVIOUS
        <3>2. QED
            BY <1>12, <3>1, SaveStateSound DEF LoopSave
    <2>2. QED
        BY <1>12, <2>1 DEF LoopSave
<1>13. CASE Crash
    BY <1>13 DEF Crash
<1>14. CASE UNCHANGED vars
    BY <1>14 DEF vars
<1>15. QED
    BY <1>1, <1>2, <1>3, <1>4, <1>5, <1>6, <1>7, <1>8, <1>9, <1>10, <1>11, <1>12, <1>13,
       <1>14 DEF Next

(* After any crash the next process starts above every number used before  *)
(* (reserve_sequence, raise_reservation, SequenceWatch), except after a    *)
(* write that failed or lowered the file, or more resends than the margin. *)
THEOREM NumbersAlwaysCovered ==
    /\ Spec => []NumbersCovered
    /\ MCSpec => []NumbersCovered
<1>1. IInv => NumbersCovered
    BY DEF IInv
<1>2. Init => IInv
    BY NumbersInit, SequenceAssumption
<1>3. IInv /\ [Next]_vars => IInv'
    BY NumbersStep, SequenceAssumption
<1>4. Spec => []NumbersCovered
    BY <1>1, <1>2, <1>3, PTL DEF Spec
<1>5. MCSpec => []NumbersCovered
    <2>1. MCInit => IInv
        BY <1>2, PartStarts
    <2>2. IInv /\ [MCNext]_<<part, vars, slots>> => IInv'
        BY <1>3, PartGoesOn
    <2> QED
        BY <1>1, <2>1, <2>2, PTL DEF MCSpec
<1> QED
    BY <1>4, <1>5

(***************************************************************************)
(* The relay's connection limits: forgetting an address gives it nothing.  *)
(* NotAhead is what the property needs to be inductive: no bucket is       *)
(* ahead of the clock, so that every tick refills the bucket of the entry  *)
(* and the one never forgotten by the same amount.                         *)
(***************************************************************************)
Bucket == [tokens : 0 .. Door!Capacity, lastRefill : Nat]
Entry == [connections : Nat, newConns : Bucket, lastSeen : Nat]

DoorTypes ==
    /\ now \in Nat /\ jumps \in Nat
    /\ entries \in UNION {[S -> Entry] : S \in SUBSET Keys}
    /\ ideal \in [Keys -> Bucket]

NotAhead ==
    jumps = 0 => /\ \A k \in Keys : ideal[k].lastRefill <= now
                 /\ \A k \in DOMAIN entries : entries[k].newConns.lastRefill <= now

(* What a bucket holds at a time t: the tokens of the last time and those  *)
(* earned since, but no more than fit.                                     *)
Holds(b, t) ==
    IF t < b.lastRefill THEN b.tokens
    ELSE IF b.tokens + (t - b.lastRefill) < Door!Capacity THEN b.tokens + (t - b.lastRefill)
    ELSE Door!Capacity

(* What the limiter holds for an address, and that it is what it would     *)
(* hold, had it never forgotten it.                                        *)
Level(k) == IF k \in DOMAIN entries THEN Holds(entries[k].newConns, now) ELSE Door!Capacity
Even == jumps = 0 => \A k \in Keys : Level(k) = Holds(ideal[k], now)

DoorInv == DoorTypes /\ NotAhead /\ Even

LEMMA CapacityIsNat ==
    ASSUME Door!AdmissionAssumption
    PROVE  Door!Capacity \in Nat /\ Refill \in Nat
<1>1. NewConnBurst \in Nat /\ Refill \in Nat
    BY DEF Door!AdmissionAssumption
<1>2. NewConnBurst * Refill \in Nat
    BY <1>1
<1> QED
    BY <1>1, <1>2 DEF Door!Capacity

LEMMA LeastOfTwo ==
    ASSUME NEW m \in Nat, NEW n \in Nat
    PROVE  Door!Min({m, n}) = IF n < m THEN n ELSE m
<1>1. PICK x \in {m, n} : \A y \in {m, n} : x =< y
    <2>1. CASE n < m
        BY <2>1
    <2>2. CASE ~(n < m)
        BY <2>2
    <2> QED
        BY <2>1, <2>2
<1>2. Door!Min({m, n}) \in {m, n} /\ \A y \in {m, n} : Door!Min({m, n}) =< y
    BY <1>1 DEF Door!Min
<1> QED
    BY <1>2

(* refill *)
LEMMA RefilledHolds ==
    ASSUME Door!AdmissionAssumption, now \in Nat, NEW b \in Bucket
    PROVE  /\ Door!Refilled(b) = [tokens |-> Holds(b, now), lastRefill |-> now]
           /\ Holds(b, now) \in 0 .. Door!Capacity
           /\ Door!Refilled(b) \in Bucket
           /\ b.lastRefill = now => Door!Refilled(b).tokens = b.tokens
<1>1. b.tokens \in 0 .. Door!Capacity /\ b.tokens \in Nat /\ b.lastRefill \in Nat
    BY CapacityIsNat DEF Bucket
<1>2. Holds(b, now) \in 0 .. Door!Capacity
    BY <1>1, CapacityIsNat DEF Holds
<1>3. CASE now < b.lastRefill
    BY <1>1, <1>2, <1>3 DEF Door!Refilled, Holds, Bucket
<1>4. CASE ~(now < b.lastRefill)
    <2>1. b.tokens + (now - b.lastRefill) \in Nat
        BY <1>1, <1>4
    <2>2. Door!Min({Door!Capacity, b.tokens + (now - b.lastRefill)}) = Holds(b, now)
        BY <1>4, <2>1, LeastOfTwo, CapacityIsNat DEF Holds
    <2>3. Door!Refilled(b) = [tokens |-> Holds(b, now), lastRefill |-> now]
        BY <1>4, <2>2 DEF Door!Refilled
    <2>4. b.lastRefill = now => Holds(b, now) = b.tokens
        BY <1>1, CapacityIsNat DEF Holds
    <2> QED
        BY <1>2, <2>3, <2>4 DEF Bucket
<1> QED
    BY <1>3, <1>4
(* take *)
LEMMA TakeHolds ==
    ASSUME Door!AdmissionAssumption, now \in Nat, NEW b \in Bucket
    PROVE  /\ Door!Take(b) \in Bucket
           /\ Door!Take(b).lastRefill = now
           /\ Holds(Door!Take(b), now) = IF Holds(b, now) >= Refill THEN Holds(b, now) - Refill
                                         ELSE Holds(b, now)
<1> DEFINE h == Holds(b, now)
           c == Door!Take(b)
           n == IF h >= Refill THEN h - Refill ELSE h
<1>1. Door!Refilled(b) = [tokens |-> h, lastRefill |-> now] /\ h \in 0 .. Door!Capacity
    BY RefilledHolds
<1>2. c = [tokens |-> n, lastRefill |-> now]
    BY <1>1 DEF Door!Take, Door!HasToken
<1> HIDE DEF h
<1>3. n \in 0 .. Door!Capacity
    BY <1>1, CapacityIsNat
<1> HIDE DEF c, n
<1>4. c \in Bucket /\ c.tokens = n /\ c.lastRefill = now
    BY <1>2, <1>3 DEF Bucket
<1>5. Holds(c, now) = n
    BY <1>3, <1>4, CapacityIsNat DEF Holds
<1> QED
    BY <1>4, <1>5 DEF c, n, h

(* What the limiter has of an address, remembered or not. *)
LEMMA EntryHolds ==
    ASSUME Door!AdmissionAssumption, DoorTypes, NEW k \in Keys
    PROVE  /\ Door!EntryOf(k) \in Entry
           /\ Holds(Door!EntryOf(k).newConns, now) = Level(k)
           /\ NotAhead /\ jumps = 0 => Door!EntryOf(k).newConns.lastRefill <= now
           /\ k \in DOMAIN entries => Door!EntryOf(k) = entries[k] /\ entries[k] \in Entry
<1>1. CASE k \in DOMAIN entries
    BY <1>1 DEF DoorTypes, Door!EntryOf, Level, NotAhead
<1>2. CASE k \notin DOMAIN entries
    <2> DEFINE b == Door!NewBucket
    <2>1. b \in Bucket /\ b.tokens = Door!Capacity /\ b.lastRefill = now
        BY CapacityIsNat DEF Door!NewBucket, Bucket, DoorTypes
    <2>2. Door!EntryOf(k) = [connections |-> 0, newConns |-> b, lastSeen |-> now]
        BY <1>2 DEF Door!EntryOf, Door!NewEntry
    <2> HIDE DEF b
    <2>3. Holds(b, now) = Door!Capacity
        BY <2>1, CapacityIsNat DEF Holds, DoorTypes
    <2> QED
        BY <1>2, <2>1, <2>2, <2>3 DEF Level, Entry, DoorTypes
<1> QED
    BY <1>1, <1>2

LEMMA EvenMintsNothing ==
    ASSUME Door!AdmissionAssumption, DoorInv
    PROVE  Door!ForgettingMintsNothing
<1> SUFFICES ASSUME jumps = 0, NEW k \in Keys
             PROVE  Door!Refilled(Door!EntryOf(k).newConns).tokens = Door!Refilled(ideal[k]).tokens
    BY DEF Door!ForgettingMintsNothing
<1>1. Door!EntryOf(k).newConns \in Bucket /\ Holds(Door!EntryOf(k).newConns, now) = Level(k)
    BY EntryHolds DEF DoorInv, Entry
<1>2. ideal[k] \in Bucket /\ Level(k) = Holds(ideal[k], now)
    BY DEF DoorInv, DoorTypes, Even
<1>3. Door!Refilled(Door!EntryOf(k).newConns).tokens = Level(k)
    BY <1>1, RefilledHolds DEF DoorInv, DoorTypes
<1>4. Door!Refilled(ideal[k]).tokens = Holds(ideal[k], now)
    BY <1>2, RefilledHolds DEF DoorInv, DoorTypes
<1> QED
    BY <1>2, <1>3, <1>4

LEMMA DoorInit ==
    ASSUME Door!AdmissionAssumption, Door!Init
    PROVE  DoorInv
<1> DEFINE b == Door!NewBucket
<1>1. now = 0 /\ jumps = 0 /\ entries = <<>> /\ ideal = [k \in Keys |-> b]
    BY DEF Door!Init
<1>2. b \in Bucket /\ b.tokens = Door!Capacity /\ b.lastRefill = 0
    BY <1>1, CapacityIsNat DEF Door!NewBucket, Bucket
<1> HIDE DEF b
<1>3. Holds(b, 0) = Door!Capacity
    BY <1>2, CapacityIsNat DEF Holds
<1>4. entries \in [{} -> Entry] /\ DOMAIN entries = {}
    BY <1>1
<1>5. DoorTypes
    BY <1>1, <1>2, <1>4 DEF DoorTypes
<1> QED
    BY <1>1, <1>2, <1>3, <1>4, <1>5 DEF DoorInv, NotAhead, Even, Level

LEMMA DoorConnection ==
    ASSUME Door!AdmissionAssumption, DoorInv, NEW k \in Keys, Door!Connection(k)
    PROVE  DoorInv'
<1> DEFINE e == Door!EntryOf(k)
           f == Door!Admit(k).entry
<1>1. now \in Nat /\ jumps \in Nat /\ now' = now /\ jumps' = jumps /\ ideal \in [Keys -> Bucket]
    BY DEF DoorInv, DoorTypes, Door!Connection
<1>2. e \in Entry /\ Holds(e.newConns, now) = Level(k)
      /\ (jumps = 0 => e.newConns.lastRefill <= now)
    BY EntryHolds DEF DoorInv
<1>3. PICK S \in SUBSET Keys : entries \in [S -> Entry]
    BY DEF DoorInv, DoorTypes
<1>4. entries' = [j \in S \cup {k} |-> IF j = k THEN f ELSE entries[j]]
    BY <1>3 DEF Door!Connection, Door!SetEntry
<1>5. CASE ~(e.connections < MaxConnsPerIp)
    <2>1. f = [e EXCEPT !.lastSeen = now]
        BY <1>5 DEF Door!Admit
    <2>2. f \in Entry /\ f.newConns = e.newConns
        BY <1>1, <1>2, <2>1 DEF Entry
    <2>3. ideal' = ideal
        BY <1>1, <1>5 DEF Door!Connection
    <2> HIDE DEF e, f
    <2>4. DoorTypes'
        BY <1>1, <1>3, <1>4, <2>2, <2>3 DEF DoorTypes
    <2>5. NotAhead'
        BY <1>1, <1>2, <1>3, <1>4, <2>2, <2>3 DEF NotAhead, DoorInv
    <2>6. \A j \in Keys : Level(j)' = Level(j)
        BY <1>1, <1>2, <1>3, <1>4, <2>2 DEF Level
    <2> QED
        BY <1>1, <2>3, <2>4, <2>5, <2>6 DEF DoorInv, Even
<1>6. CASE e.connections < MaxConnsPerIp
    <2>1. PICK n \in Nat : f = [connections |-> n, newConns |-> Door!Take(e.newConns),
                                lastSeen |-> now]
        <3>1. e.connections \in Nat /\ e.connections + 1 \in Nat
            BY <1>2 DEF Entry
        <3>2. \E m \in {e.connections, e.connections + 1} :
                  f = [[[e EXCEPT !.lastSeen = now] EXCEPT !.newConns = Door!Take(@)]
                           EXCEPT !.connections = m]
            BY <1>2, <1>6 DEF Door!Admit, Entry
        <3> QED
            BY <1>2, <3>1, <3>2 DEF Entry
    <2>2. e.newConns \in Bucket /\ ideal[k] \in Bucket
        BY <1>1, <1>2 DEF Entry
    <2>3. Door!Take(e.newConns) \in Bucket /\ Door!Take(e.newConns).lastRefill = now
          /\ Door!Take(ideal[k]) \in Bucket /\ Door!Take(ideal[k]).lastRefill = now
        BY <1>1, <2>2, TakeHolds
    <2>4. jumps = 0 => Holds(Door!Take(e.newConns), now) = Holds(Door!Take(ideal[k]), now)
        <3>1. jumps = 0 => Holds(e.newConns, now) = Holds(ideal[k], now)
            BY <1>2 DEF DoorInv, Even
        <3> QED
            BY <1>1, <2>2, <3>1, TakeHolds
    <2>5. f \in Entry /\ f.newConns = Door!Take(e.newConns)
        BY <1>1, <2>1, <2>3 DEF Entry
    <2>6. ideal' = [ideal EXCEPT ![k] = Door!Take(ideal[k])]
        BY <1>1, <1>6 DEF Door!Connection
    <2> DEFINE t == Door!Take(e.newConns)
               u == Door!Take(ideal[k])
    <2> HIDE DEF e, f, t, u
    <2>7. DoorTypes'
        BY <1>1, <1>3, <1>4, <2>3, <2>5, <2>6 DEF DoorTypes
    <2>8. NotAhead'
        BY <1>1, <1>3, <1>4, <2>3, <2>5, <2>6 DEF NotAhead, DoorInv
    <2>9. ASSUME jumps = 0, NEW j \in Keys PROVE Level(j)' = Holds(ideal'[j], now)
        <3>1. Level(j) = Holds(ideal[j], now)
            BY <2>9 DEF DoorInv, Even
        <3>2. CASE j = k
            BY <1>1, <1>3, <1>4, <2>4, <2>5, <2>6, <2>9, <3>2 DEF Level
        <3>3. CASE j # k
            BY <1>1, <1>3, <1>4, <2>6, <3>1, <3>3 DEF Level
        <3> QED
            BY <3>2, <3>3
    <2> QED
        BY <1>1, <2>7, <2>8, <2>9 DEF DoorInv, Even
<1> QED
    BY <1>5, <1>6

LEMMA DoorSessionCloses ==
    ASSUME Door!AdmissionAssumption, DoorInv, NEW k \in Keys, Door!SessionCloses(k)
    PROVE  DoorInv'
<1>1. UNCHANGED <<now, jumps, ideal>> /\ now \in Nat
    BY DEF Door!SessionCloses, DoorInv, DoorTypes
<1>2. PICK S \in SUBSET Keys : entries \in [S -> Entry]
    BY DEF DoorInv, DoorTypes
<1>3. entries' \in [S -> Entry] /\ \A j \in S : entries'[j].newConns = entries[j].newConns
    <2>1. CASE k \notin S
        BY <1>2, <2>1 DEF Door!SessionCloses
    <2>2. CASE k \in S
        <3> DEFINE m == entries[k].connections
                   n == IF m > 0 THEN m - 1 ELSE 0
                   e == [entries[k] EXCEPT !.connections = n, !.lastSeen = now]
        <3>1. entries[k] \in Entry /\ m \in Nat /\ n \in Nat
            BY <1>2, <2>2 DEF Entry
        <3>2. e \in Entry /\ e.newConns = entries[k].newConns
            BY <1>1, <3>1 DEF Entry
        <3>3. entries' = [entries EXCEPT ![k] = e]
            BY <1>2, <2>2, <3>1 DEF Door!SessionCloses, Entry
        <3> HIDE DEF e
        <3> QED
            BY <1>2, <2>2, <3>2, <3>3
    <2> QED
        BY <2>1, <2>2
<1> QED
    BY <1>1, <1>2, <1>3 DEF DoorInv, DoorTypes, NotAhead, Even, Level

(* sweep forgets an address only when its bucket is full. *)
LEMMA DoorSweep ==
    ASSUME Door!AdmissionAssumption, DoorInv, Door!Sweep
    PROVE  DoorInv'
<1>1. UNCHANGED <<now, jumps, ideal>> /\ now \in Nat
    BY DEF Door!Sweep, DoorInv, DoorTypes
<1>2. PICK S \in SUBSET Keys : entries \in [S -> Entry]
    BY DEF DoorInv, DoorTypes
<1>3. PICK T \in SUBSET S : T = {j \in S : ~Door!Forgettable(j)}
    OBVIOUS
<1>4. /\ DOMAIN entries' = T
      /\ \A k \in T : entries'[k] \in {entries[k],
                                       [entries[k] EXCEPT !.newConns = Door!Refilled(@)]}
      /\ entries' = [k \in T |-> entries'[k]]
    BY <1>2, <1>3 DEF Door!Sweep
<1>5. ASSUME NEW k \in T
      PROVE  /\ entries'[k] \in Entry
             /\ Holds(entries'[k].newConns, now) = Holds(entries[k].newConns, now)
             /\ entries'[k].newConns.lastRefill \in {entries[k].newConns.lastRefill, now}
    <2>1. entries[k] \in Entry /\ entries[k].newConns \in Bucket
        BY <1>2, <1>3, <1>5 DEF Entry
    <2> DEFINE b == entries[k].newConns
               c == Door!Refilled(b)
    <2>2. c \in Bucket /\ c.tokens = Holds(b, now) /\ c.lastRefill = now
        BY <1>1, <2>1, RefilledHolds
    <2> HIDE DEF c
    <2>3. Holds(c, now) = c.tokens
        BY <1>1, <2>2, CapacityIsNat DEF Holds, Bucket
    <2>4. CASE entries'[k] = entries[k]
        BY <2>1, <2>4
    <2>5. CASE entries'[k] = [entries[k] EXCEPT !.newConns = c]
        BY <2>1, <2>2, <2>3, <2>5 DEF Entry
    <2> QED
        BY <1>4, <1>5, <2>1, <2>4, <2>5 DEF c, Entry
<1>6. DoorTypes'
    <2>1. entries' \in [T -> Entry] /\ T \in SUBSET Keys
        BY <1>2, <1>3, <1>4, <1>5
    <2> QED
        BY <1>1, <2>1 DEF DoorTypes, DoorInv
<1>7. NotAhead'
    BY <1>1, <1>2, <1>3, <1>4, <1>5 DEF NotAhead, DoorInv
<1>8. ASSUME NEW k \in Keys PROVE Level(k)' = Level(k)
    <2>1. CASE k \in T
        BY <1>1, <1>2, <1>3, <1>4, <1>5, <2>1 DEF Level
    <2>2. CASE k \in S \ T
        <3>1. entries[k].newConns \in Bucket
            BY <1>2, <2>2 DEF Entry
        <3>2. Door!Refilled(entries[k].newConns).tokens >= Door!Capacity
            BY <1>3, <2>2 DEF Door!Forgettable, Door!BucketIdle
        <3>3. Holds(entries[k].newConns, now) = Door!Capacity
            BY <1>1, <3>1, <3>2, RefilledHolds, CapacityIsNat
        <3> QED
            BY <1>2, <1>4, <2>2, <3>3 DEF Level
    <2>3. CASE k \notin S
        BY <1>2, <1>3, <1>4, <2>3 DEF Level
    <2> QED
        BY <2>1, <2>2, <2>3
<1> QED
    BY <1>1, <1>6, <1>7, <1>8 DEF DoorInv, Even

(* A tick earns every bucket as much, up to what fits. *)
LEMMA DoorTick ==
    ASSUME Door!AdmissionAssumption, DoorInv, Door!Tick
    PROVE  DoorInv'
<1>1. now' = now + 1 /\ UNCHANGED <<entries, ideal, jumps>> /\ now \in Nat /\ jumps \in Nat
    BY DEF Door!Tick, DoorInv, DoorTypes
<1>2. DoorTypes'
    BY <1>1 DEF DoorInv, DoorTypes
<1>3. ASSUME NEW b \in Bucket, b.lastRefill <= now
      PROVE  Holds(b, now + 1) = IF Holds(b, now) < Door!Capacity THEN Holds(b, now) + 1
                                 ELSE Door!Capacity
    <2>1. b.tokens \in Nat /\ b.tokens <= Door!Capacity /\ b.lastRefill \in Nat
        BY CapacityIsNat DEF Bucket
    <2> QED
        BY <1>1, <1>3, <2>1, CapacityIsNat DEF Holds
<1>4. ASSUME jumps = 0, NEW k \in Keys PROVE Level(k)' = Holds(ideal'[k], now')
    <2>1. ideal[k] \in Bucket /\ ideal[k].lastRefill <= now /\ Level(k) = Holds(ideal[k], now)
        BY <1>4 DEF DoorInv, DoorTypes, NotAhead, Even
    <2>2. CASE k \in DOMAIN entries
        <3>1. entries[k].newConns \in Bucket /\ entries[k].newConns.lastRefill <= now
            BY <1>4, <2>2 DEF DoorInv, DoorTypes, NotAhead, Entry
        <3>2. Holds(entries[k].newConns, now) = Holds(ideal[k], now)
            BY <2>1, <2>2 DEF Level
        <3> QED
            BY <1>1, <1>3, <2>1, <2>2, <3>1, <3>2 DEF Level
    <2>3. CASE k \notin DOMAIN entries
        BY <1>1, <1>3, <2>1, <2>3, CapacityIsNat DEF Level
    <2> QED
        BY <2>2, <2>3
<1>5. NotAhead'
    <2>1. ASSUME jumps = 0, NEW b \in Bucket, b.lastRefill <= now PROVE b.lastRefill <= now'
        BY <1>1, <2>1 DEF Bucket
    <2>2. \A k \in Keys : ideal[k] \in Bucket
        BY DEF DoorInv, DoorTypes
    <2>3. \A k \in DOMAIN entries : entries[k].newConns \in Bucket
        BY DEF DoorInv, DoorTypes, Entry
    <2> QED
        BY <1>1, <2>1, <2>2, <2>3 DEF DoorInv, NotAhead
<1> QED
    BY <1>1, <1>2, <1>4, <1>5 DEF DoorInv, Even

LEMMA DoorStep ==
    ASSUME Door!AdmissionAssumption, DoorInv, [Door!Next]_(Door!vars)
    PROVE  DoorInv'
<1>1. ASSUME UNCHANGED <<now, entries, ideal, jumps>> PROVE DoorInv'
    BY <1>1 DEF DoorInv, DoorTypes, NotAhead, Even, Level
<1>2. CASE Door!RefuseGlobal \/ Door!RefusedCloses \/ UNCHANGED Door!vars
    BY <1>1, <1>2 DEF Door!RefuseGlobal, Door!RefusedCloses, Door!vars
<1>3. CASE \E k \in Keys : Door!Connection(k) \/ Door!SessionCloses(k)
    BY <1>3, DoorConnection, DoorSessionCloses
<1>4. CASE Door!Sweep
    BY <1>4, DoorSweep
<1>5. CASE Door!Tick
    BY <1>5, DoorTick
<1>6. CASE Door!ClockJumps
    <2>1. now' \in Nat /\ jumps' \in Nat /\ jumps' # 0 /\ UNCHANGED <<entries, ideal>>
        BY <1>6 DEF Door!ClockJumps, DoorInv, DoorTypes
    <2> QED
        BY <2>1 DEF DoorInv, DoorTypes, NotAhead, Even
<1> QED
    BY <1>2, <1>3, <1>4, <1>5, <1>6 DEF Door!Next

(* IpLimiter.sweep drops entries "that hold no connections and have        *)
(* refilled": whatever the caps, the burst, the refill time and the number *)
(* of addresses, a forgotten address gets no more new connections than one *)
(* remembered for ever, as long as the clock is not set back.              *)
THEOREM ForgettingIsFree ==
    /\ Door!Spec => []Door!ForgettingMintsNothing
    /\ MCSpec => []ForgettingMintsNothing
<1>1. Door!Init => DoorInv
    BY DoorInit, GuardsAssumption
<1>2. DoorInv /\ [Door!Next]_(Door!vars) => DoorInv'
    BY DoorStep, GuardsAssumption
<1>3. DoorInv => Door!ForgettingMintsNothing
    BY EvenMintsNothing, GuardsAssumption
<1>4. Door!Spec => []Door!ForgettingMintsNothing
    BY <1>1, <1>2, <1>3, PTL DEF Door!Spec
<1>5. MCSpec => []ForgettingMintsNothing
    <2>1. MCInit => (part = "admission" => DoorInv)
        BY <1>1, PartStarts
    <2>2. (part = "admission" => DoorInv) /\ [MCNext]_<<part, vars, slots>> => (part = "admission" => DoorInv)'
        BY <1>2, PartGoesOn
    <2>3. (part = "admission" => DoorInv) => ForgettingMintsNothing
        BY <1>3 DEF ForgettingMintsNothing
    <2> QED
        BY <2>1, <2>2, <2>3, PTL DEF MCSpec
<1> QED
    BY <1>4, <1>5
(***************************************************************************)
(* The daily quotas.  What a room was charged in the stretch looked at is  *)
(* bounded by what its quota still tells (Owed): before the stretch        *)
(* nothing, in it the window that is open and, if that one began in the    *)
(* stretch, a full one before it, and two full ones afterwards; and two    *)
(* full ones for every time the clock was set back.                        *)
(***************************************************************************)
RoomQuota(limit) == [used : 0 .. limit, start : Nat]
QuotaMaps(limit) == UNION {[S -> RoomQuota(limit)] : S \in SUBSET RoomIds}

(* RollingQuota at a time t, rolled if needed *)
Open(q, t) ==
    IF t < q.start \/ t - q.start >= Window THEN [used |-> 0, start |-> t] ELSE q

Owed(q, t, d, limit) ==
    IF t < d THEN 0
    ELSE IF t >= d + Window THEN 2 * limit
    ELSE IF Open(q, t).start >= d THEN limit + Open(q, t).used ELSE Open(q, t).used

QuotaAt(map, r, t) == IF r \in DOMAIN map THEN map[r] ELSE [used |-> 0, start |-> t]

Covered(usage, map, limit, t, d, j) ==
    /\ usage \in [RoomIds -> Nat]
    /\ map \in QuotaMaps(limit)
    /\ \A r \in RoomIds : usage[r] <= 2 * j * limit + Owed(QuotaAt(map, r, t), t, d, limit)

DayInv ==
    /\ now \in Nat /\ day \in Nat /\ jumps \in Nat
    /\ Covered(clips, roomQuotas, RoomBytes, now, day, jumps)
    /\ Covered(bulk, roomTransferQuotas, TransferBytes, now, day, jumps)

LEMMA WindowIsNat ==
    ASSUME Day!QuotasAssumption
    PROVE  /\ Window \in Nat \ {0} /\ RoomBytes \in Nat \ {0} /\ TransferBytes \in Nat \ {0}
           /\ ClipSizes \subseteq Nat /\ BulkSizes \subseteq Nat
BY DEF Day!QuotasAssumption

LEMMA QuotaAtType ==
    ASSUME NEW limit \in Nat, NEW map \in QuotaMaps(limit), NEW r, NEW t \in Nat
    PROVE  QuotaAt(map, r, t) \in RoomQuota(limit)
<1>1. [used |-> 0, start |-> t] \in RoomQuota(limit)
    BY DEF RoomQuota
<1> QED
    BY <1>1 DEF QuotaAt, QuotaMaps

LEMMA OpenType ==
    ASSUME NEW limit \in Nat, NEW q \in RoomQuota(limit), NEW t \in Nat
    PROVE  Open(q, t) \in RoomQuota(limit) /\ Open(q, t).used \in Nat /\ Open(q, t).start \in Nat
           /\ Open(q, t).used <= limit
BY DEF Open, RoomQuota

(* No more than two allowances are ever owed. *)
LEMMA OwedAtMost ==
    ASSUME NEW limit \in Nat, NEW q \in RoomQuota(limit), NEW t \in Nat, NEW d \in Nat,
           Window \in Nat \ {0}
    PROVE  Owed(q, t, d, limit) \in Nat /\ Owed(q, t, d, limit) <= 2 * limit
<1>1. Open(q, t).used \in Nat /\ Open(q, t).start \in Nat /\ Open(q, t).used <= limit
    BY OpenType
<1> QED
    BY <1>1 DEF Owed

(* Time passing settles nothing. *)
LEMMA OwedLater ==
    ASSUME NEW limit \in Nat, NEW q \in RoomQuota(limit), NEW t \in Nat, NEW d \in Nat,
           Window \in Nat \ {0}
    PROVE  Owed(q, t + 1, d, limit) >= Owed(q, t, d, limit)
<1>1. q.used \in Nat /\ q.used <= limit /\ q.start \in Nat
    BY DEF RoomQuota
<1>2. CASE t < d
    <2>1. Owed(q, t, d, limit) = 0 /\ Owed(q, t + 1, d, limit) \in Nat
        BY <1>2, OwedAtMost DEF Owed
    <2> QED
        BY <2>1
<1>3. CASE t + 1 >= d + Window
    <2>1. Owed(q, t + 1, d, limit) = 2 * limit /\ Owed(q, t, d, limit) <= 2 * limit
          /\ Owed(q, t, d, limit) \in Nat
        BY <1>3, OwedAtMost DEF Owed
    <2> QED
        BY <2>1
<1>4. CASE ~(t < d) /\ ~(t + 1 >= d + Window)
    <2>1. CASE ~(t + 1 < q.start \/ t + 1 - q.start >= Window)
        <3>1. Open(q, t + 1) = q
            BY <1>1, <2>1 DEF Open
        <3>2. CASE t < q.start
            <4>1. Open(q, t).start = t /\ Open(q, t).used = 0
                BY <3>2 DEF Open
            <4> QED
                BY <1>1, <1>4, <2>1, <3>1, <3>2, <4>1 DEF Owed
        <3>3. CASE ~(t < q.start)
            <4>1. Open(q, t) = q
                BY <1>1, <2>1, <3>3 DEF Open
            <4> QED
                BY <1>1, <1>4, <3>1, <4>1 DEF Owed
        <3> QED
            BY <3>2, <3>3
    <2>2. CASE t + 1 < q.start \/ t + 1 - q.start >= Window
        <3>1. Open(q, t + 1).start = t + 1 /\ Open(q, t + 1).used = 0
            BY <1>1, <2>2 DEF Open
        <3>2. Owed(q, t + 1, d, limit) = limit
            BY <1>4, <3>1 DEF Owed
        <3>3. CASE t < q.start \/ t - q.start >= Window
            <4>1. Open(q, t).start = t /\ Open(q, t).used = 0
                BY <3>3 DEF Open
            <4> QED
                BY <1>4, <3>2, <4>1 DEF Owed
        <3>4. CASE ~(t < q.start \/ t - q.start >= Window)
            <4>1. Open(q, t) = q /\ q.start < d
                BY <1>1, <1>4, <2>2, <3>4 DEF Open
            <4> QED
                BY <1>1, <1>4, <3>2, <4>1 DEF Owed
        <3> QED
            BY <3>3, <3>4
    <2> QED
        BY <2>1, <2>2
<1> QED
    BY <1>2, <1>3, <1>4
(* rollIfNeeded and the quota a room is given are those of the model. *)
LEMMA RolledIsOpen ==
    ASSUME NEW q, NEW map, NEW r
    PROVE  /\ Day!Rolled(q) = Open(q, now)
           /\ Day!QuotaOf(map, r) = QuotaAt(map, r, now)
BY DEF Day!Rolled, Day!Over, Day!NewQuota, Open, Day!QuotaOf, QuotaAt

(* charge: what is owed in the stretch grows by what fits, and a refusal   *)
(* leaves it as it is.                                                     *)
LEMMA OwedCharged ==
    ASSUME NEW limit \in Nat, NEW q \in RoomQuota(limit), NEW bytes \in Nat, now \in Nat,
           NEW d \in Nat, Window \in Nat \ {0}
    PROVE  LET c == Day!Charged(q, bytes, limit)
               grows == d <= now /\ now < d + Window /\ Day!Fits(q, bytes, limit)
           IN  /\ c \in RoomQuota(limit)
               /\ Owed(c, now, d, limit) = Owed(q, now, d, limit) + (IF grows THEN bytes ELSE 0)
<1> DEFINE p == Open(q, now)
           fits == Day!Fits(q, bytes, limit)
           n == IF fits THEN p.used + bytes ELSE p.used
           c == Day!Charged(q, bytes, limit)
<1>1. p \in RoomQuota(limit) /\ p.used \in Nat /\ p.start \in Nat /\ p.used <= limit
    BY OpenType
<1>2. ~(now < p.start \/ now - p.start >= Window)
    BY DEF Open, RoomQuota
<1>3. fits <=> p.used + bytes <= limit
    BY RolledIsOpen DEF Day!Fits
<1>4. c = [p EXCEPT !.used = n]
    BY RolledIsOpen DEF Day!Charged
<1> HIDE DEF p, fits, c
<1>5. n \in 0 .. limit
    BY <1>1, <1>3
<1>6. c \in RoomQuota(limit) /\ c.used = n /\ c.start = p.start
    BY <1>1, <1>4, <1>5 DEF RoomQuota
<1>7. Open(c, now) = c
    BY <1>2, <1>6 DEF Open
<1>8. Owed(c, now, d, limit) = Owed(q, now, d, limit)
                                   + (IF d <= now /\ now < d + Window /\ fits THEN bytes ELSE 0)
    <2>1. CASE now < d \/ now >= d + Window
        <3>1. Owed(c, now, d, limit) = Owed(q, now, d, limit)
            BY <2>1 DEF Owed
        <3>2. Owed(q, now, d, limit) \in Nat
            BY OwedAtMost
        <3> QED
            BY <2>1, <3>1, <3>2
    <2>2. CASE ~(now < d \/ now >= d + Window)
        <3>1. Owed(c, now, d, limit) = IF p.start >= d THEN limit + n ELSE n
            BY <1>6, <1>7, <2>2 DEF Owed
        <3>2. Owed(q, now, d, limit) = IF p.start >= d THEN limit + p.used ELSE p.used
            BY <2>2 DEF Owed, p
        <3> QED
            BY <1>1, <2>2, <3>1, <3>2
    <2> QED
        BY <2>1, <2>2
<1> QED
    BY <1>6, <1>8 DEF c, fits

(* handleClip, handleAnnounce and chargeBulk, for one of the quotas *)
LEMMA CoveredCharged ==
    ASSUME NEW limit \in Nat, NEW usage, NEW map, NEW bytes \in Nat, NEW room \in RoomIds,
           now \in Nat, day \in Nat, jumps \in Nat, Window \in Nat \ {0},
           Covered(usage, map, limit, now, day, jumps),
           NEW v, v \in {usage} \cup (IF Day!Fits(Day!QuotaOf(map, room), bytes, limit)
                                      THEN {Day!Noted(usage, room, bytes)} ELSE {})
    PROVE  Covered(v, Day!Set(map, room, Day!Charged(Day!QuotaOf(map, room), bytes, limit)),
                   limit, now, day, jumps)
<1> DEFINE q == Day!QuotaOf(map, room)
           c == Day!Charged(q, bytes, limit)
           m == Day!Set(map, room, c)
           grows == day <= now /\ now < day + Window /\ Day!Fits(q, bytes, limit)
           more == IF grows THEN bytes ELSE 0
           A == 2 * jumps * limit
<1>1. usage \in [RoomIds -> Nat] /\ map \in QuotaMaps(limit) /\ A \in Nat
    BY DEF Covered
<1>2. PICK S \in SUBSET RoomIds : map \in [S -> RoomQuota(limit)]
    BY <1>1 DEF QuotaMaps
<1>3. q \in RoomQuota(limit) /\ q = QuotaAt(map, room, now)
    BY <1>1, QuotaAtType, RolledIsOpen
<1>4. c \in RoomQuota(limit) /\ Owed(c, now, day, limit) = Owed(q, now, day, limit) + more
    BY <1>3, OwedCharged
<1>5. m = [r \in S \cup {room} |-> IF r = room THEN c ELSE map[r]]
    BY <1>2 DEF Day!Set
<1> HIDE DEF c, m
<1>6. /\ m \in QuotaMaps(limit)
      /\ \A r \in RoomIds : QuotaAt(m, r, now) = IF r = room THEN c ELSE QuotaAt(map, r, now)
    <2>1. m \in [S \cup {room} -> RoomQuota(limit)]
        BY <1>2, <1>4, <1>5
    <2> QED
        BY <1>2, <1>5, <2>1 DEF QuotaMaps, QuotaAt
<1>7. /\ v \in [RoomIds -> Nat]
      /\ \A r \in RoomIds : r # room => v[r] = usage[r]
      /\ v[room] <= usage[room] + more
    <2>1. CASE v = usage
        BY <1>1, <2>1
    <2>2. CASE Day!Fits(q, bytes, limit) /\ v = Day!Noted(usage, room, bytes)
        BY <1>1, <2>2 DEF Day!Noted
    <2> QED
        BY <2>1, <2>2
<1>8. ASSUME NEW r \in RoomIds
      PROVE  v[r] <= A + Owed(QuotaAt(m, r, now), now, day, limit)
    <2>1. usage[r] <= A + Owed(QuotaAt(map, r, now), now, day, limit) /\ usage[r] \in Nat
          /\ v[r] \in Nat
        BY <1>1, <1>7 DEF Covered
    <2>2. CASE r # room
        BY <1>6, <1>7, <2>1, <2>2
    <2>3. CASE r = room
        <3>1. Owed(q, now, day, limit) \in Nat /\ more \in Nat
            BY <1>3, OwedAtMost
        <3> HIDE DEF more, A, q
        <3> QED
            BY <1>1, <1>3, <1>4, <1>6, <1>7, <2>1, <2>3, <3>1
    <2> QED
        BY <2>2, <2>3
<1>9. Covered(v, m, limit, now, day, jumps)
    BY <1>6, <1>7, <1>8 DEF Covered
<1> QED
    BY <1>9 DEF m, c

(* The sweeper: a quota that is forgotten owed no more than the one that   *)
(* will be made in its place.                                              *)
LEMMA CoveredKept ==
    ASSUME NEW limit \in Nat, NEW usage, NEW map, now \in Nat, day \in Nat, jumps \in Nat,
           Window \in Nat \ {0}, Covered(usage, map, limit, now, day, jumps)
    PROVE  Covered(usage, Day!Kept(map), limit, now, day, jumps)
<1> DEFINE m == Day!Kept(map)
           A == 2 * jumps * limit
           fresh == [used |-> 0, start |-> now]
<1>1. usage \in [RoomIds -> Nat] /\ map \in QuotaMaps(limit) /\ A \in Nat
    BY DEF Covered
<1>2. PICK S \in SUBSET RoomIds : map \in [S -> RoomQuota(limit)]
    BY <1>1 DEF QuotaMaps
<1>3. PICK T \in SUBSET S : T = {r \in S : ~(Day!IsIdle(map[r]) /\ r \notin occupied)}
    OBVIOUS
<1>4. m = [r \in T |-> map[r]]
    BY <1>2, <1>3 DEF Day!Kept, Day!Restrict
<1> HIDE DEF m
<1>5. m \in QuotaMaps(limit)
    <2>1. m \in [T -> RoomQuota(limit)] /\ T \in SUBSET RoomIds
        BY <1>2, <1>3, <1>4
    <2> QED
        BY <2>1 DEF QuotaMaps
<1>6. ASSUME NEW r \in RoomIds
      PROVE  Owed(QuotaAt(map, r, now), now, day, limit)
                 <= Owed(QuotaAt(m, r, now), now, day, limit)
    <2>1. Owed(QuotaAt(map, r, now), now, day, limit) \in Nat
        BY <1>1, OwedAtMost, QuotaAtType
    <2>2. CASE r \in T \/ r \notin S
        <3>1. QuotaAt(m, r, now) = QuotaAt(map, r, now)
            BY <1>2, <1>3, <1>4, <2>2 DEF QuotaAt
        <3> QED
            BY <2>1, <3>1
    <2>3. CASE r \in S \ T
        <3> DEFINE q == map[r]
        <3>1. q \in RoomQuota(limit) /\ Day!IsIdle(q)
            BY <1>2, <1>3, <2>3
        <3>2. QuotaAt(m, r, now) = fresh /\ QuotaAt(map, r, now) = q
            BY <1>2, <1>4, <2>3 DEF QuotaAt
        <3>3. Open(fresh, now) = fresh
            BY DEF Open
        <3>4. Open(q, now).used = 0 /\ Open(q, now).start \in Nat
            BY <3>1, OpenType DEF Day!IsIdle, Day!Over, Open
        <3>5. Owed(fresh, now, day, limit) >= Owed(q, now, day, limit)
            <4>1. CASE now < day \/ now >= day + Window
                BY <4>1 DEF Owed
            <4>2. CASE ~(now < day \/ now >= day + Window)
                <5>1. Owed(fresh, now, day, limit) = limit
                    BY <3>3, <4>2 DEF Owed
                <5>2. Owed(q, now, day, limit) \in {0, limit}
                    BY <3>4, <4>2 DEF Owed
                <5> QED
                    BY <5>1, <5>2
            <4> QED
                BY <4>1, <4>2
        <3> QED
            BY <3>2, <3>5
    <2> QED
        BY <2>2, <2>3
<1>7. ASSUME NEW r \in RoomIds
      PROVE  usage[r] <= A + Owed(QuotaAt(m, r, now), now, day, limit)
    <2>1. usage[r] <= A + Owed(QuotaAt(map, r, now), now, day, limit) /\ usage[r] \in Nat
        BY <1>1 DEF Covered
    <2>2. Owed(QuotaAt(map, r, now), now, day, limit) \in Nat
          /\ Owed(QuotaAt(m, r, now), now, day, limit) \in Nat
        BY <1>1, <1>5, OwedAtMost, QuotaAtType
    <2> HIDE DEF A
    <2> QED
        BY <1>1, <1>6, <2>1, <2>2
<1>8. Covered(usage, m, limit, now, day, jumps)
    BY <1>1, <1>5, <1>7 DEF Covered
<1> QED
    BY <1>8 DEF m

(* A tick *)
LEMMA CoveredLater ==
    ASSUME NEW limit \in Nat, NEW usage, NEW map, NEW t \in Nat, NEW d \in Nat, NEW j \in Nat,
           Window \in Nat \ {0}, Covered(usage, map, limit, t, d, j)
    PROVE  Covered(usage, map, limit, t + 1, d, j)
<1> DEFINE A == 2 * j * limit
<1>1. usage \in [RoomIds -> Nat] /\ map \in QuotaMaps(limit) /\ A \in Nat
    BY DEF Covered
<1>2. ASSUME NEW r \in RoomIds
      PROVE  usage[r] <= A + Owed(QuotaAt(map, r, t + 1), t + 1, d, limit)
    <2> DEFINE q == QuotaAt(map, r, t)
               p == QuotaAt(map, r, t + 1)
    <2>1. usage[r] <= A + Owed(q, t, d, limit) /\ usage[r] \in Nat
        BY <1>1 DEF Covered
    <2>2. q \in RoomQuota(limit) /\ p \in RoomQuota(limit) /\ t + 1 \in Nat
        BY <1>1, QuotaAtType
    <2>3. Owed(p, t + 1, d, limit) >= Owed(q, t, d, limit)
        <3>1. CASE r \in DOMAIN map
            <4>1. p = q
                BY <3>1 DEF QuotaAt
            <4> QED
                BY <2>2, <4>1, OwedLater
        <3>2. CASE r \notin DOMAIN map
            <4>1. p = [used |-> 0, start |-> t + 1] /\ q = [used |-> 0, start |-> t]
                BY <3>2 DEF QuotaAt
            <4>2. Open(p, t + 1) = p /\ Open(q, t) = q
                BY <4>1 DEF Open
            <4> HIDE DEF p, q
            <4>3. Owed(q, t, d, limit) = IF t < d THEN 0 ELSE IF t >= d + Window THEN 2 * limit
                                         ELSE limit
                BY <4>1, <4>2 DEF Owed
            <4>4. Owed(p, t + 1, d, limit) = IF t + 1 < d THEN 0
                                             ELSE IF t + 1 >= d + Window THEN 2 * limit
                                             ELSE limit
                BY <4>1, <4>2 DEF Owed
            <4> QED
                BY <4>3, <4>4
        <3> QED
            BY <3>1, <3>2
    <2>4. Owed(p, t + 1, d, limit) \in Nat /\ Owed(q, t, d, limit) \in Nat
        BY <2>2, OwedAtMost
    <2> HIDE DEF A, p, q
    <2>5. usage[r] <= A + Owed(p, t + 1, d, limit)
        BY <1>1, <2>1, <2>3, <2>4
    <2> QED
        BY <2>5 DEF p
<1> QED
    BY <1>1, <1>2 DEF Covered

(* What holds at any time, and after the clock was set back *)
LEMMA CoveredAtMost ==
    ASSUME NEW limit \in Nat, NEW usage, NEW map, NEW t \in Nat, NEW d \in Nat, NEW j \in Nat,
           Window \in Nat \ {0}, Covered(usage, map, limit, t, d, j), NEW u \in Nat
    PROVE  /\ \A r \in RoomIds : usage[r] <= 2 * (1 + j) * limit
           /\ Covered(usage, map, limit, u, d, j + 1)
<1> DEFINE A == 2 * j * limit
<1>1. usage \in [RoomIds -> Nat] /\ map \in QuotaMaps(limit) /\ A \in Nat
    BY DEF Covered
<1>2. 2 * (1 + j) * limit = A + 2 * limit /\ 2 * (j + 1) * limit = A + 2 * limit
    OBVIOUS
<1>3. ASSUME NEW r \in RoomIds
      PROVE  /\ usage[r] <= A + 2 * limit
             /\ usage[r] <= A + 2 * limit + Owed(QuotaAt(map, r, u), u, d, limit)
    <2>1. usage[r] <= A + Owed(QuotaAt(map, r, t), t, d, limit) /\ usage[r] \in Nat
        BY <1>1 DEF Covered
    <2>2. Owed(QuotaAt(map, r, t), t, d, limit) \in Nat
          /\ Owed(QuotaAt(map, r, t), t, d, limit) <= 2 * limit
          /\ Owed(QuotaAt(map, r, u), u, d, limit) \in Nat
        BY <1>1, OwedAtMost, QuotaAtType
    <2> HIDE DEF A
    <2> QED
        BY <1>1, <2>1, <2>2
<1> QED
    BY <1>1, <1>2, <1>3 DEF Covered

LEMMA DayInit ==
    ASSUME Day!QuotasAssumption, Day!Init
    PROVE  DayInv
<1>1. now = 0 /\ jumps = 0 /\ day \in Nat /\ roomQuotas = <<>> /\ roomTransferQuotas = <<>>
      /\ clips = [r \in RoomIds |-> 0] /\ bulk = [r \in RoomIds |-> 0]
    BY DEF Day!Init, Day!Times, Day!QuotasAssumption
<1>2. ASSUME NEW limit \in Nat PROVE Covered(clips, <<>>, limit, 0, day, 0)
    <2>1. <<>> \in [{} -> RoomQuota(limit)]
        OBVIOUS
    <2>2. <<>> \in QuotaMaps(limit)
        BY <2>1 DEF QuotaMaps
    <2>3. \A r \in RoomIds : Owed(QuotaAt(<<>>, r, 0), 0, day, limit) \in Nat
        BY <1>1, <2>2, OwedAtMost, QuotaAtType, WindowIsNat
    <2>4. 2 * 0 * limit = 0
        OBVIOUS
    <2> QED
        BY <1>1, <2>2, <2>3, <2>4 DEF Covered
<1>3. clips = bulk
    BY <1>1
<1> QED
    BY <1>1, <1>2, <1>3, WindowIsNat DEF DayInv

LEMMA DayStep ==
    ASSUME Day!QuotasAssumption, DayInv, [Day!Next]_(Day!vars)
    PROVE  DayInv'
<1>0. now \in Nat /\ day \in Nat /\ jumps \in Nat /\ Window \in Nat \ {0}
      /\ RoomBytes \in Nat /\ TransferBytes \in Nat
    BY WindowIsNat DEF DayInv
<1>1. CASE \E room \in RoomIds, bytes \in ClipSizes : Day!ChargeClip(room, bytes)
    <2>1. PICK room \in RoomIds, bytes \in ClipSizes : Day!ChargeClip(room, bytes)
        BY <1>1
    <2> DEFINE q == Day!QuotaOf(roomQuotas, room)
    <2>2. /\ roomQuotas' = Day!Set(roomQuotas, room, Day!Charged(q, bytes, RoomBytes))
          /\ clips' \in {clips} \cup (IF Day!Fits(q, bytes, RoomBytes)
                                      THEN {Day!Noted(clips, room, bytes)} ELSE {})
          /\ UNCHANGED <<now, day, jumps, roomTransferQuotas, bulk>>
        BY <2>1 DEF Day!ChargeClip
    <2>3. Covered(clips', roomQuotas', RoomBytes, now, day, jumps)
        BY <1>0, <2>2, CoveredCharged, WindowIsNat DEF DayInv
    <2> QED
        BY <2>2, <2>3 DEF DayInv
<1>2. CASE \E room \in RoomIds, bytes \in BulkSizes : Day!ChargeBulk(room, bytes)
    <2>1. PICK room \in RoomIds, bytes \in BulkSizes : Day!ChargeBulk(room, bytes)
        BY <1>2
    <2> DEFINE q == Day!QuotaOf(roomTransferQuotas, room)
    <2>2. /\ roomTransferQuotas' = Day!Set(roomTransferQuotas, room,
                                           Day!Charged(q, bytes, TransferBytes))
          /\ bulk' \in {bulk} \cup (IF Day!Fits(q, bytes, TransferBytes)
                                    THEN {Day!Noted(bulk, room, bytes)} ELSE {})
          /\ UNCHANGED <<now, day, jumps, roomQuotas, clips>>
        BY <2>1 DEF Day!ChargeBulk
    <2>3. Covered(bulk', roomTransferQuotas', TransferBytes, now, day, jumps)
        BY <1>0, <2>2, CoveredCharged, WindowIsNat DEF DayInv
    <2> QED
        BY <2>2, <2>3 DEF DayInv
<1>3. CASE (\E room \in RoomIds : Day!Occupy(room)) \/ UNCHANGED Day!vars
    BY <1>3 DEF Day!Occupy, Day!vars, Day!quotas, DayInv
<1>4. CASE Day!Sweep
    <2>1. /\ roomQuotas' = Day!Kept(roomQuotas)
          /\ roomTransferQuotas' = Day!Kept(roomTransferQuotas)
          /\ UNCHANGED <<now, day, jumps, clips, bulk>>
        BY <1>4 DEF Day!Sweep
    <2> QED
        BY <1>0, <2>1, CoveredKept DEF DayInv
<1>5. CASE Day!Tick
    <2>1. now' = now + 1 /\ UNCHANGED <<day, jumps, clips, bulk, roomQuotas, roomTransferQuotas>>
        BY <1>5 DEF Day!Tick, Day!quotas
    <2> QED
        BY <1>0, <2>1, CoveredLater DEF DayInv
<1>6. CASE Day!ClockJumps
    <2>1. /\ now' \in Nat /\ jumps' = jumps + 1
          /\ UNCHANGED <<day, clips, bulk, roomQuotas, roomTransferQuotas>>
        BY <1>0, <1>6 DEF Day!ClockJumps, Day!quotas
    <2>2. Covered(clips, roomQuotas, RoomBytes, now, day, jumps)'
        BY <1>0, <2>1, CoveredAtMost DEF DayInv
    <2>3. Covered(bulk, roomTransferQuotas, TransferBytes, now, day, jumps)'
        BY <1>0, <2>1, CoveredAtMost DEF DayInv
    <2> QED
        BY <1>0, <2>1, <2>2, <2>3 DEF DayInv
<1> QED
    BY <1>1, <1>2, <1>3, <1>4, <1>5, <1>6 DEF Day!Next

(* RollingQuota and the sweeper: whatever the quotas, the window and the   *)
(* sizes of frames, and whatever the sweeper forgets in between, no day    *)
(* carries more than two allowances of a room, and as many again each time *)
(* the wall clock is set back.                                             *)
THEOREM TwoAllowancesAtMost ==
    /\ Day!Spec => []Day!RoomQuotasKept
    /\ MCSpec => []RoomQuotasKept
<1>1. Day!Init => DayInv
    BY DayInit, GuardsAssumption
<1>2. DayInv /\ [Day!Next]_(Day!vars) => DayInv'
    BY DayStep, GuardsAssumption
<1>3. DayInv => Day!RoomQuotasKept
    <2> SUFFICES ASSUME DayInv, NEW r \in RoomIds
                 PROVE  /\ clips[r] <= 2 * (1 + jumps) * RoomBytes
                        /\ bulk[r] <= 2 * (1 + jumps) * TransferBytes
        BY DEF Day!RoomQuotasKept
    <2> QED
        BY CoveredAtMost, WindowIsNat, GuardsAssumption DEF DayInv
<1>4. Day!Spec => []Day!RoomQuotasKept
    BY <1>1, <1>2, <1>3, PTL DEF Day!Spec
<1>5. MCSpec => []RoomQuotasKept
    <2>1. MCInit => (part = "quotas" => DayInv)
        BY <1>1, PartStarts
    <2>2. (part = "quotas" => DayInv) /\ [MCNext]_<<part, vars, slots>> => (part = "quotas" => DayInv)'
        BY <1>2, PartGoesOn
    <2>3. (part = "quotas" => DayInv) => RoomQuotasKept
        BY <1>3 DEF RoomQuotasKept
    <2> QED
        BY <2>1, <2>2, <2>3, PTL DEF MCSpec
<1> QED
    BY <1>4, <1>5

(***************************************************************************)
(* What devices say.  What was written so far has a script: before every   *)
(* field the fields still to come and the bytes there are, which the       *)
(* values written determine (Script).  What is read follows it, up to      *)
(* where the bytes are not those written (Under, Progress).                *)
(***************************************************************************)
Forms ==
    {"version", "flag", "state", "content", "length", "addrs", "direct", "boxes", "u32",
     "pieces", "u64", "id", "key", "meeting", "print", "text", "label", "name", "blob", "piece"}

Names ==
    {"accepted", "addr", "addrs", "approver", "ask", "box_pub", "build", "chunk_bytes",
     "conn_id", "content", "content_type", "data", "device_id", "device_id_len", "direct",
     "fingerprint", "from_device_id", "index", "meeting_secret", "name", "offer_id", "os",
     "received", "recipients", "reply_to", "request_id", "sealed", "sealed_key", "secret",
     "seq", "sha256", "sign_pub", "size", "state", "to_device_id", "ts_ms", "version"}

Fields  == [name : Names, as : Forms]
Sayable == [name : Names, value : Seq(Nat)]

Put(f, v) == [name |-> f.name, value |-> v]

(* The value v of the field f is in the bytes w from a to b.               *)
FieldAt(f, v, a, b, w) ==
    /\ v \in Message!Values(f) /\ b <= Len(w)
    /\ b = a + Len(Message!Bytes(f, v))
    /\ \A k \in 1 .. Len(Message!Bytes(f, v)) : w[a + k] = Message!Bytes(f, v)[k]

ScriptTypes(s, rests, ends, w) ==
    /\ s \in Seq(Sayable) /\ rests \in Seq(Seq(Fields)) /\ ends \in Seq(Nat) /\ w \in Seq(Nat)
    /\ Len(rests) = Len(s) + 1 /\ Len(ends) = Len(s) + 1

ScriptStep(i, s, rests, ends, w) ==
    /\ rests[i] # <<>>
    /\ s[i] = Put(Head(rests[i]), s[i].value)
    /\ rests[i + 1] = Message!Follows(Head(rests[i]), s[i].value) \o Tail(rests[i])
    /\ FieldAt(Head(rests[i]), s[i].value, ends[i], ends[i + 1], w)

Script(k, s, rests, ends, w) ==
    /\ ScriptTypes(s, rests, ends, w)
    /\ rests[1] = Message!Written[k] /\ ends[1] = 0 /\ ends[Len(s) + 1] = Len(w)
    /\ \A i \in 1 .. Len(s) : ScriptStep(i, s, rests, ends, w)

(* With the bytes w the fields s were written, and g are still to come.    *)
Writing(k, s, g, w) == \E rests, ends : Script(k, s, rests, ends, w) /\ g = rests[Len(s) + 1]

(* The bytes x are what has become of w.                                   *)
Kept(w, x) == \A j \in 1 .. Len(x) : j <= Len(w) => x[j] = w[j]

BecameOf(how, w, x) ==
    /\ x \in Seq(Nat) /\ how \in {"none", "short", "long", "version", "padding"}
    /\ how = "version" => x # <<>> /\ x[1] = 2
    /\ how = "short" => Len(x) + 1 = Len(w)
    /\ how \in {"none", "long", "padding"} => Len(w) <= Len(x)
    /\ how \in {"none", "long"} => \A j \in 1 .. Len(x) : j > Len(w) => x[j] = 0
    /\ how # "version" => Kept(w, x)

Exactly(how, w, x) ==
    /\ how \in {"none", "padding"} => Len(x) = Len(w)
    /\ how = "long" => Len(x) = Len(w) + 1

IsMsg == Message!TypeCode(kind) = "Msg"

Under(rests, ends, w) ==
    /\ Script(kind, said, rests, ends, w) /\ rests[Len(said) + 1] = <<>>
    /\ BecameOf(damage, w, body)
    /\ IsMsg => Exactly(damage, w, body)
    /\ damage = "short" => IsMsg

(* Padding that is not zeros shows where it is looked at.                  *)
PaddingShows(w) ==
    damage = "padding" => ~IsMsg /\ Len(w) < Len(body) /\ body[Len(body)] # 0

Progress(rests, ends) ==
    /\ heard \in Seq(Sayable) /\ Len(heard) <= Len(said)
    /\ \A i \in 1 .. Len(heard) : heard[i] = said[i]
    /\ at = ends[Len(heard) + 1] /\ left = rests[Len(heard) + 1]
    /\ damage = "version" => heard = <<>>
    /\ damage = "short" => Len(heard) < Len(said)

Headers   == [room : {"ours", "other"}, id : {1, 2}, type : {"Clip", "Announce", "Msg"}]
Envelopes == [header : Headers, aad : Headers, frame : Seq(Nat)]
Header    == [room |-> "ours", id |-> 1, type |-> Message!TypeCode(kind)]
UnderItsHeader == envelope.aad = Message!Aad(envelope.header)

Begun == heard = <<>> /\ at = 0

Padded(x) == Message!Padding(Len(Message!FrameHeader(x)) + Len(x))

WriteInv ==
    /\ damage = "none" /\ envelope = None /\ Begun
    /\ Writing(kind, said, left, body)

SealedInv ==
    /\ Begun /\ \E rests, ends, w : Under(rests, ends, w) /\ Exactly(damage, w, body)
    /\ damage = "padding" => Padded(body) > 0
    /\ envelope.frame = Message!Filled(damage, Message!Frame(body))
    /\ sig = Message!Sign(body)

ReadingInv ==
    /\ \E rests, ends, w : Under(rests, ends, w) /\ Progress(rests, ends) /\ PaddingShows(w)
    /\ sig # None => sig = Message!Sign(body)
    /\ kind \in Message!Codes \/ UnderItsHeader

SaidInv ==
    /\ kind \in Message!Kinds
    /\ stage \in {"write", "sealed", "read", "accepted", "refused"}
    /\ stage # "write" =>
        /\ envelope \in Envelopes /\ envelope.aad = Header
        /\ kind \in Message!Codes => UnderItsHeader
    /\ stage = "write" => WriteInv
    /\ stage = "sealed" => SealedInv
    /\ stage = "read" => ReadingInv
    /\ stage = "refused" /\ damage = "none" => ~UnderItsHeader
    /\ stage = "accepted" =>
        /\ kind \in Message!Codes \/ UnderItsHeader
        /\ damage = "none" => heard = said
        /\ damage # "none" =>
               heard = said /\ (kind = "Clip" \/ (kind = "Announce" /\ damage = "long"))

(* A function on 1 .. m is a sequence of that length.                      *)
LEMMA SeqOfLength ==
    ASSUME NEW S, NEW m \in Nat, NEW f \in [1 .. m -> S]
    PROVE  f \in Seq(S) /\ Len(f) = m /\ DOMAIN f = 1 .. m
OBVIOUS

(* The encoders and the decoders of each kind name the same fields in the  *)
(* same order.                                                             *)
LEMMA TablesAgree ==
    ASSUME NEW k \in Message!Kinds
    PROVE  Message!Expected[k] = Message!Written[k]
<1>1. /\ k \in {"Card", "JoinRequest", "JoinGrant", "JoinDecline", "JoinWhere", "Rekey", "About",
                "Leave", "FileOffer", "FileAnswer", "FileChunk", "FileAck", "FileCancel", "Clip",
                "Announce", "JoinCode", "Token"}
    BY DEF Message!Kinds, Message!Written
<1>2. /\ Message!ReadCard = Message!Card /\ Message!ReadJoinRequest = Message!JoinRequest
      /\ Message!OpenGrant = Message!JoinGrant /\ Message!IsDeclineFor = Message!JoinDecline
      /\ Message!ReadWhere = Message!JoinWhere /\ Message!OpenRekey = Message!Rekey
    BY DEF Message!ReadCard, Message!Card, Message!ReadJoinRequest, Message!JoinRequest,
           Message!OpenGrant, Message!JoinGrant, Message!IsDeclineFor, Message!JoinDecline,
           Message!ReadWhere, Message!JoinWhere, Message!OpenRekey, Message!Rekey
<1>3. /\ Message!ReadAbout = Message!About /\ Message!ReadLeave = Message!Leave
      /\ Message!ReadOffer = Message!FileOffer /\ Message!ReadAnswer = Message!FileAnswer
      /\ Message!ReadChunk = Message!FileChunk /\ Message!ReadAck = Message!FileAck
    BY DEF Message!ReadAbout, Message!About, Message!ReadLeave, Message!Leave,
           Message!ReadOffer, Message!FileOffer, Message!ReadAnswer, Message!FileAnswer,
           Message!ReadChunk, Message!FileChunk, Message!ReadAck, Message!FileAck
<1>4. /\ Message!ReadCancel = Message!FileCancel /\ Message!DecodeInner = Message!Clip
      /\ Message!ReadAnnounce = Message!Announce /\ Message!ParseCode = Message!JoinCode
      /\ Message!ParseToken = Message!Token
    BY DEF Message!ReadCancel, Message!FileCancel, Message!DecodeInner, Message!Clip,
           Message!ReadAnnounce, Message!Announce, Message!ParseCode, Message!JoinCode,
           Message!ParseToken, Message!Token
<1> QED
    BY <1>1, <1>2, <1>3, <1>4 DEF Message!Expected, Message!Written

(* What is written is of known fields, and a version comes first.          *)
LEMMA FieldsAre ==
    /\ Message!Version \in Fields
    /\ \A x \in Names, y \in Forms : Message!Field(x, y) \in Fields
    /\ \A x \in Names :
        /\ Message!Id(x) \in Fields /\ Message!Key(x) \in Fields /\ Message!Flag(x) \in Fields
        /\ Message!U32(x) \in Fields /\ Message!U64(x) \in Fields /\ Message!Text(x) \in Fields
        /\ Message!Blob(x) \in Fields /\ Message!Label(x) \in Fields
<1>1. \A x \in Names, y \in Forms : Message!Field(x, y) \in Fields
    BY DEF Fields, Message!Field
<1>2. Message!Version \in Fields
    BY <1>1 DEF Message!Version, Forms, Names
<1> QED
    BY <1>1, <1>2
       DEF Message!Id, Message!Key, Message!Flag, Message!U32, Message!U64, Message!Text,
           Message!Blob, Message!Label, Forms

LEMMA WrittenIs ==
    ASSUME NEW k \in Message!Kinds
    PROVE  /\ Message!Written[k] \in Seq(Fields) /\ Message!Written[k] # <<>>
           /\ Head(Message!Written[k]) = Message!Version
<1> DEFINE Fine(g) == g \in Fields
           Good(s) == s \in Seq(Fields) /\ s # <<>> /\ Head(s) = Message!Version
<1>1. Fine(Message!Version)
    BY FieldsAre
<1>2. /\ Fine(Message!Id("device_id")) /\ Fine(Message!Id("from_device_id"))
      /\ Fine(Message!Id("offer_id")) /\ Fine(Message!Id("request_id"))
      /\ Fine(Message!Id("to_device_id")) /\ Fine(Message!Key("approver"))
      /\ Fine(Message!Key("box_pub")) /\ Fine(Message!Key("secret"))
      /\ Fine(Message!Key("sha256")) /\ Fine(Message!Key("sign_pub"))
    BY FieldsAre DEF Names
<1>3. /\ Fine(Message!U64("seq")) /\ Fine(Message!U64("size")) /\ Fine(Message!U64("ts_ms"))
      /\ Fine(Message!Text("conn_id")) /\ Fine(Message!Text("name"))
      /\ Fine(Message!Text("os")) /\ Fine(Message!Text("reply_to"))
      /\ Fine(Message!Text("version"))
    BY FieldsAre DEF Names
<1>4. /\ Fine(Message!Flag("accepted")) /\ Fine(Message!Flag("ask"))
      /\ Fine(Message!U32("build")) /\ Fine(Message!U32("index"))
      /\ Fine(Message!U32("received")) /\ Fine(Message!Blob("content"))
      /\ Fine(Message!Blob("sealed")) /\ Fine(Message!Label("name"))
      /\ Fine(Message!Label("os"))
    BY FieldsAre DEF Names
<1>5. /\ Fine(Message!Field("addrs", "addrs")) /\ Fine(Message!Field("chunk_bytes", "pieces"))
      /\ Fine(Message!Field("content_type", "content")) /\ Fine(Message!Field("data", "piece"))
      /\ Fine(Message!Field("device_id_len", "length"))
      /\ Fine(Message!Field("direct", "direct")) /\ Fine(Message!Field("fingerprint", "print"))
      /\ Fine(Message!Field("meeting_secret", "meeting"))
      /\ Fine(Message!Field("name", "name")) /\ Fine(Message!Field("recipients", "boxes"))
      /\ Fine(Message!Field("state", "state"))
    BY FieldsAre DEF Names, Forms
<1> HIDE DEF Fine
<1>6. Good(Message!Card)
    BY <1>1, <1>2, <1>3 DEF Fine, Message!Card
<1>7. Good(Message!JoinRequest)
    BY <1>1, <1>2, <1>3 DEF Fine, Message!JoinRequest
<1>8. Good(Message!JoinGrant)
    BY <1>1, <1>2, <1>4 DEF Fine, Message!JoinGrant
<1>9. Good(Message!JoinDecline)
    BY <1>1, <1>2 DEF Fine, Message!JoinDecline
<1>10. Good(Message!JoinWhere)
    BY <1>1, <1>5 DEF Fine, Message!JoinWhere
<1>11. Good(Message!Rekey)
    BY <1>1, <1>2, <1>3, <1>5 DEF Fine, Message!Rekey
<1>12. Good(Message!About)
    BY <1>1, <1>2, <1>3, <1>4 DEF Fine, Message!About
<1>13. Good(Message!Leave)
    BY <1>1, <1>2, <1>3 DEF Fine, Message!Leave
<1>14. Good(Message!FileOffer)
    BY <1>1, <1>2, <1>3, <1>5 DEF Fine, Message!FileOffer
<1>15. Good(Message!FileAnswer)
    BY <1>1, <1>2, <1>3, <1>4 DEF Fine, Message!FileAnswer
<1>16. Good(Message!FileChunk)
    BY <1>1, <1>2, <1>4, <1>5 DEF Fine, Message!FileChunk
<1>17. Good(Message!FileAck)
    BY <1>1, <1>2, <1>4, <1>5 DEF Fine, Message!FileAck
<1>18. Good(Message!FileCancel)
    BY <1>1, <1>2 DEF Fine, Message!FileCancel
<1>19. Good(Message!Clip)
    BY <1>1, <1>2, <1>3, <1>4, <1>5 DEF Fine, Message!Clip
<1>20. Good(Message!Announce)
    BY <1>1, <1>2, <1>3, <1>4, <1>5 DEF Fine, Message!Announce
<1>21. Good(Message!JoinCode)
    BY <1>1, <1>5 DEF Fine, Message!JoinCode
<1>22. Good(Message!Token)
    BY <1>1, <1>2 DEF Fine, Message!Token
<1> HIDE DEF Good
<1>23. /\ k \in {"Card", "JoinRequest", "JoinGrant", "JoinDecline", "JoinWhere", "Rekey", "About",
                "Leave", "FileOffer", "FileAnswer", "FileChunk", "FileAck", "FileCancel", "Clip",
                "Announce", "JoinCode", "Token"}
    BY DEF Message!Kinds, Message!Written
<1>24. Good(Message!Written[k])
    BY <1>6, <1>7, <1>8, <1>9, <1>10, <1>11, <1>12, <1>13, <1>14, <1>15,
       <1>16, <1>17, <1>18, <1>19, <1>20, <1>21, <1>22, <1>23 DEF Message!Written
<1> QED
    BY <1>24 DEF Good

LEMMA BigIs ==
    ASSUME NEW w \in Nat, NEW n \in Nat
    PROVE  /\ Message!Big(w, n) \in Seq(Nat) /\ Len(Message!Big(w, n)) = w
           /\ w > 0 => Message!Big(w, n)[w] = n
BY DEF Message!Big

LEMMA TimesIs ==
    ASSUME NEW n \in Nat
    PROVE  /\ \A g \in Fields : Message!Times(<<g>>, n) \in Seq(Fields)
           /\ \A g, h \in Fields : Message!Times(<<g, h>>, n) \in Seq(Fields)
           /\ n = 0 => \A g : Message!Times(<<g>>, n) = <<>>
<1>1. ASSUME NEW g \in Fields PROVE Message!Times(<<g>>, n) \in Seq(Fields)
    <2>1. \A i \in 1 .. n * 1 : 1 + ((i - 1) % 1) = 1
        OBVIOUS
    <2>2. [i \in 1 .. n * 1 |-> <<g>>[1 + ((i - 1) % 1)]] \in Seq(Fields)
        BY <2>1
    <2> QED
        BY <2>2 DEF Message!Times
<1>2. ASSUME NEW g \in Fields, NEW h \in Fields PROVE Message!Times(<<g, h>>, n) \in Seq(Fields)
    <2>1. \A i \in 1 .. n * 2 : 1 + ((i - 1) % 2) \in 1 .. 2
        OBVIOUS
    <2>2. [i \in 1 .. n * 2 |-> <<g, h>>[1 + ((i - 1) % 2)]] \in Seq(Fields)
        BY <2>1
    <2> QED
        BY <2>2 DEF Message!Times
<1>3. ASSUME n = 0, NEW g PROVE Message!Times(<<g>>, n) = <<>>
    BY <1>3 DEF Message!Times
<1> QED
    BY <1>1, <1>2, <1>3

(* What follows a count is of known fields, and the decoder reads on as    *)
(* the encoder went on.                                                    *)
LEMMA FollowsIs ==
    ASSUME Message!MessagesAssumption, NEW f \in Fields, NEW v \in Message!Values(f)
    PROVE  /\ Message!Follows(f, v) \in Seq(Fields)
           /\ Message!Continues(f, v) = Message!Follows(f, v)
<1>1. /\ Message!Text("addr") \in Fields /\ Message!Blob("sealed_key") \in Fields
      /\ Message!Id("device_id") \in Fields /\ Message!Blob("sealed") \in Fields
    BY FieldsAre DEF Names
<1>2. CASE f.as \in {"addrs", "boxes"}
    <2>1. PICK n \in Nat : v = <<n>>
        BY <1>2 DEF Message!Values, Message!MessagesAssumption
    <2> QED
        BY <1>1, <1>2, <2>1, TimesIs DEF Message!Follows, Message!Continues
<1>3. CASE f.as = "direct"
    <2>1. PICK n \in Nat : v = <<n>>
        BY <1>3 DEF Message!Values, Message!MessagesAssumption
    <2> DEFINE a == Message!Times(<<Message!Text("addr")>>, n)
               sk == Message!Blob("sealed_key")
    <2>2. a \in Seq(Fields) /\ (n = 0 => a = <<>>) /\ sk \in Fields
        BY <1>1, <2>1, TimesIs
    <2>3. Message!Follows(f, v) = IF <<n>> = <<0>> THEN <<>> ELSE Append(a, sk)
        BY <1>3, <2>1 DEF Message!Follows
    <2>4. Message!Continues(f, v) = a \o (IF n = 0 THEN <<>> ELSE <<sk>>)
        BY <1>3, <2>1 DEF Message!Continues
    <2> HIDE DEF a, sk
    <2>5. CASE n = 0
        BY <2>2, <2>3, <2>4, <2>5
    <2>6. CASE n # 0
        <3>1. <<n>> # <<0>>
            BY <2>6
        <3>2. Append(a, sk) = a \o <<sk>> /\ Append(a, sk) \in Seq(Fields)
            BY <2>2
        <3> QED
            BY <2>3, <2>4, <2>6, <3>1, <3>2
    <2> QED
        BY <2>5, <2>6
<1>4. CASE f.as \notin {"addrs", "direct", "boxes"}
    BY <1>4 DEF Message!Follows, Message!Continues
<1> QED
    BY <1>2, <1>3, <1>4

(* Whether a length comes first, and in how many bytes.                    *)
Long(f) == f.as \in {"text", "label", "name", "blob", "piece"}
Pre(f)  == IF Long(f) THEN Message!Prefix[f.as] ELSE 0

LEMMA PrefixIs ==
    ASSUME NEW f \in Fields
    PROVE  /\ (f.as \in DOMAIN Message!Prefix) = Long(f)
           /\ (f.as \in DOMAIN Message!ReadPrefix) = Long(f)
           /\ Pre(f) \in Nat
           /\ Long(f) => Message!Prefix[f.as] = Pre(f) /\ Message!ReadPrefix[f.as] = Pre(f) /\ Pre(f) > 0
           /\ ~Long(f) => Pre(f) = 0
BY DEF Fields, Forms, Long, Pre, Message!Prefix, Message!ReadPrefix

LEMMA WidthIs ==
    ASSUME NEW f \in Fields, ~Long(f)
    PROVE  Message!Width[f.as] \in Nat /\ Message!Width[f.as] > 0
BY DEF Fields, Forms, Long, Message!Width

LEMMA StringIs ==
    ASSUME Message!MessagesAssumption, NEW n \in Nat, NEW v \in Message!Strings(n)
    PROVE  v \in Seq(Nat) /\ Len(v) \in Nat /\ Len(v) <= n
<1>1. PICK m \in 0 .. n : v \in [1 .. m -> Letters]
    BY DEF Message!Strings
<1>2. m \in Nat /\ m <= n
    BY <1>1
<1>3. v \in Seq(Letters) /\ Len(v) = m
    BY <1>1, <1>2, SeqOfLength
<1>4. v \in Seq(Nat)
    <2>1. Letters \subseteq Nat
        BY DEF Message!MessagesAssumption
    <2>2. \A i \in 1 .. m : v[i] \in Nat
        BY <1>1, <2>1
    <2>3. v \in [1 .. m -> Nat]
        BY <1>1, <2>2
    <2> QED
        BY <1>2, <2>3, SeqOfLength
<1> QED
    BY <1>2, <1>3, <1>4

(* What an encoder lets through a decoder accepts.                         *)
LEMMA ValueIs ==
    ASSUME Message!MessagesAssumption, NEW f \in Fields, NEW v \in Message!Values(f)
    PROVE  /\ v \in Seq(Nat) /\ Len(v) \in Nat
           /\ ~Long(f) => Len(v) = Message!Width[f.as]
           /\ Message!Readable(f, v)
<1>1. CASE Long(f)
    <2>1. /\ f.as = "text" => v \in Message!Strings(MaxText)
          /\ f.as = "label" => v \in Message!Strings(MaxField)
          /\ f.as = "name" => v \in Message!Strings(MaxName)
          /\ f.as = "piece" => v \in Message!Strings(MaxPiece)
          /\ f.as = "blob" => v \in Message!Strings(MaxBlob)
        BY DEF Message!Values
    <2>2. {MaxText, MaxField, MaxName, MaxPiece, MaxBlob} \subseteq Nat
        BY DEF Message!MessagesAssumption
    <2>3. /\ v \in Seq(Nat) /\ Len(v) \in Nat
          /\ f.as = "text" => Len(v) <= MaxText
          /\ f.as = "label" => Len(v) <= MaxField
          /\ f.as = "name" => Len(v) <= MaxName
          /\ f.as = "piece" => Len(v) <= MaxPiece
        BY <1>1, <2>1, <2>2, StringIs DEF Long
    <2> QED
        BY <1>1, <2>3 DEF Message!Readable, Long
<1>2. CASE f.as \in {"u32", "u64", "id", "key", "meeting", "print"}
    <2>1. PICK n \in Nat : v = Message!Big(Message!Width[f.as], n)
        BY <1>2 DEF Message!Values, Message!MessagesAssumption
    <2>2. ~Long(f)
        BY <1>2 DEF Long
    <2>3. v \in Seq(Nat) /\ Len(v) = Message!Width[f.as] /\ Len(v) \in Nat
        BY <2>1, <2>2, WidthIs, BigIs
    <2> QED
        BY <1>2, <2>2, <2>3 DEF Message!Readable
<1>3. CASE f.as = "pieces"
    <2>1. v = Message!Big(3, MaxPiece) /\ MaxPiece \in 1 .. MaxPiece /\ MaxPiece \in Nat
        BY <1>3 DEF Message!Values, Message!Width, Message!MessagesAssumption
    <2>2. v \in Seq(Nat) /\ Len(v) = 3
        BY <2>1, BigIs
    <2>3. Message!Width.pieces = 3 /\ Message!Width["pieces"] = 3
        BY DEF Message!Width
    <2>4. v \in {Message!Big(Message!Width.pieces, n) : n \in 1 .. MaxPiece}
        BY <2>1, <2>3
    <2> QED
        BY <1>3, <2>2, <2>3, <2>4 DEF Message!Readable, Long
<1>4. CASE f.as \in {"version", "flag", "state", "content", "length"}
    <2>1. v \in {<<0>>, <<1>>, <<2>>, <<5>>} /\ Message!Width[f.as] = 1
        BY <1>4 DEF Message!Values, Message!Width
    <2>2. /\ f.as = "version" => v = <<1>>
          /\ f.as = "flag" => v[1] \in {0, 1}
          /\ f.as = "state" => v[1] \in {0, 1, 2}
          /\ f.as = "content" => v[1] \in {1, 2}
          /\ f.as = "length" => v[1] = Message!Width.id
        BY <1>4 DEF Message!Values
    <2> QED
        BY <1>4, <2>1, <2>2 DEF Message!Readable, Long
<1>5. CASE f.as \in {"addrs", "direct", "boxes"}
    <2>1. PICK n \in Nat : v = <<n>> /\ (f.as = "addrs" => n # 0 /\ n <= MaxAddrs)
                           /\ (f.as = "direct" => n <= MaxAddrs)
        BY <1>5 DEF Message!Values, Message!MessagesAssumption
    <2>2. Message!Width[f.as] = 1
        BY <1>5 DEF Message!Width
    <2> QED
        BY <1>5, <2>1, <2>2 DEF Message!Readable, Long
<1> QED
    BY <1>1, <1>2, <1>3, <1>4, <1>5 DEF Fields, Forms, Long

(* Bytes behind bytes.                                                     *)
LEMMA ConcatIs ==
    ASSUME NEW w \in Seq(Nat), NEW u \in Seq(Nat)
    PROVE  /\ w \o u \in Seq(Nat) /\ Len(w \o u) = Len(w) + Len(u)
           /\ Len(w) \in Nat /\ Len(u) \in Nat
           /\ \A j \in 1 .. Len(w) : (w \o u)[j] = w[j]
           /\ \A j \in 1 .. Len(u) : (w \o u)[Len(w) + j] = u[j]
OBVIOUS

(* The bytes of a field: its length in Pre(f) bytes, then the value.       *)
LEMMA BytesIs ==
    ASSUME Message!MessagesAssumption, NEW f \in Fields, NEW v \in Message!Values(f)
    PROVE  LET u == Message!Bytes(f, v)
               p == Pre(f)
           IN  /\ u \in Seq(Nat) /\ Len(u) = p + Len(v) /\ Len(u) \in Nat /\ Len(u) > 0
               /\ \A k \in 1 .. p : u[k] = Message!Big(p, Len(v))[k]
               /\ \A k \in 1 .. Len(v) : u[p + k] = v[k]
<1> DEFINE u == Message!Bytes(f, v)
           p == Pre(f)
           h == Message!Big(p, Len(v))
<1>1. v \in Seq(Nat) /\ Len(v) \in Nat /\ p \in Nat /\ (~Long(f) => Len(v) = Message!Width[f.as])
    BY ValueIs, PrefixIs
<1>2. CASE Long(f)
    <2>1. u = h \o v /\ p > 0
        BY <1>2, PrefixIs DEF Message!Bytes
    <2>2. h \in Seq(Nat) /\ Len(h) = p
        BY <1>1, BigIs
    <2> HIDE DEF h, p, u
    <2>3. /\ u \in Seq(Nat) /\ Len(u) = Len(h) + Len(v)
          /\ \A j \in 1 .. Len(h) : u[j] = h[j]
          /\ \A j \in 1 .. Len(v) : u[Len(h) + j] = v[j]
        BY <1>1, <2>1, <2>2, ConcatIs
    <2>4. Len(u) = p + Len(v) /\ Len(u) \in Nat /\ Len(u) > 0
        BY <1>1, <2>1, <2>2, <2>3
    <2>5. (\A k \in 1 .. p : u[k] = h[k]) /\ \A k \in 1 .. Len(v) : u[p + k] = v[k]
        BY <2>2, <2>3
    <2> QED
        BY <2>3, <2>4, <2>5 DEF h, p, u
<1>3. CASE ~Long(f)
    <2>1. u = v /\ p = 0
        BY <1>3, PrefixIs DEF Message!Bytes
    <2>2. Len(v) > 0
        BY <1>1, <1>3, WidthIs
    <2> HIDE DEF u, p
    <2>3. Len(u) = p + Len(v) /\ \A k \in 1 .. Len(v) : u[p + k] = v[k]
        BY <1>1, <2>1
    <2> QED
        BY <1>1, <2>1, <2>2, <2>3 DEF u, p
<1> QED
    BY <1>2, <1>3

(* A field in the bytes, and one laid out behind them.                     *)
LEMMA FieldStays ==
    ASSUME NEW f, NEW v, NEW a \in Nat, NEW b \in Nat, NEW w, NEW x,
           FieldAt(f, v, a, b, w), b <= Len(x), Len(Message!Bytes(f, v)) \in Nat,
           \A j \in 1 .. b : x[j] = w[j]
    PROVE  FieldAt(f, v, a, b, x)
<1> DEFINE u == Message!Bytes(f, v)
<1> HIDE DEF u
<1>1. v \in Message!Values(f) /\ b = a + Len(u) /\ \A k \in 1 .. Len(u) : w[a + k] = u[k]
    BY DEF FieldAt, u
<1>2. \A k \in 1 .. Len(u) : a + k \in 1 .. b
    BY <1>1 DEF u
<1>3. \A k \in 1 .. Len(u) : x[a + k] = u[k]
    BY <1>1, <1>2
<1> QED
    BY <1>1, <1>3 DEF FieldAt, u

LEMMA FieldAdded ==
    ASSUME Message!MessagesAssumption, NEW f \in Fields, NEW v \in Message!Values(f),
           NEW w \in Seq(Nat)
    PROVE  FieldAt(f, v, Len(w), Len(w \o Message!Bytes(f, v)), w \o Message!Bytes(f, v))
<1> DEFINE u == Message!Bytes(f, v)
           x == w \o u
<1>1. u \in Seq(Nat)
    BY BytesIs
<1> HIDE DEF u
<1>2. Len(x) = Len(w) + Len(u) /\ \A j \in 1 .. Len(u) : x[Len(w) + j] = u[j]
    BY <1>1, ConcatIs
<1>3. Len(x) <= Len(x)
    BY <1>1
<1> HIDE DEF x
<1>4. FieldAt(f, v, Len(w), Len(x), x)
    BY <1>2, <1>3 DEF FieldAt, u
<1> QED
    BY <1>4 DEF x, u

(* A part of the bytes.                                                    *)
LEMMA PartIs ==
    ASSUME NEW x \in Seq(Nat), NEW a \in Nat, NEW c \in Nat, a + c <= Len(x)
    PROVE  /\ SubSeq(x, a + 1, a + c) = [i \in 1 .. c |-> x[a + i]]
           /\ SubSeq(x, a + 1, a + c) \in Seq(Nat) /\ Len(SubSeq(x, a + 1, a + c)) = c
           /\ \A i \in 1 .. c : SubSeq(x, a + 1, a + c)[i] = x[a + i]
           /\ \A u \in Seq(Nat) :
                  Len(u) = c /\ (\A i \in 1 .. c : x[a + i] = u[i]) => SubSeq(x, a + 1, a + c) = u
<1>1. SubSeq(x, a + 1, a + c) = [i \in 1 .. a + c - (a + 1) + 1 |-> x[i + (a + 1) - 1]]
    OBVIOUS
<1>2. a + c - (a + 1) + 1 = c /\ \A i \in 1 .. c : i + (a + 1) - 1 = a + i
    OBVIOUS
<1>3. SubSeq(x, a + 1, a + c) = [i \in 1 .. c |-> x[a + i]]
    BY <1>1, <1>2
<1>4. \A i \in 1 .. c : a + i \in 1 .. Len(x) /\ x[a + i] \in Nat
    OBVIOUS
<1>5. [i \in 1 .. c |-> x[a + i]] \in [1 .. c -> Nat]
    BY <1>4
<1>6. SubSeq(x, a + 1, a + c) \in Seq(Nat) /\ Len(SubSeq(x, a + 1, a + c)) = c
    BY <1>3, <1>5, SeqOfLength
<1>7. ASSUME NEW u \in Seq(Nat), Len(u) = c, \A i \in 1 .. c : x[a + i] = u[i]
      PROVE  SubSeq(x, a + 1, a + c) = u
    <2>1. u = [i \in 1 .. c |-> u[i]]
        BY <1>7
    <2>2. [i \in 1 .. c |-> x[a + i]] = [i \in 1 .. c |-> u[i]]
        BY <1>7
    <2> QED
        BY <1>3, <2>1, <2>2
<1> QED
    BY <1>3, <1>6, <1>7

LEMMA StartIs ==
    ASSUME NEW f \in Fields, at \in Nat
    PROVE  Message!Start(f) = at + Pre(f) /\ Message!Start(f) \in Nat /\ Pre(f) \in Nat
<1>1. Pre(f) \in Nat
    BY PrefixIs
<1>2. Message!Start(f) = at + Pre(f)
    BY PrefixIs DEF Message!Start
<1> QED
    BY <1>1, <1>2

(* Where a decoder finds the end of a field, if its bytes are there.       *)
LEMMA EndsIs ==
    ASSUME Message!MessagesAssumption, NEW f \in Fields, NEW v, NEW b \in Nat, at \in Nat,
           body \in Seq(Nat), NEW w, FieldAt(f, v, at, b, w),
           NEW end \in Message!Ends(f), Kept(w, body), Len(w) \in Nat
    PROVE  end = b /\ end <= Len(body)
<1> DEFINE p == Pre(f)
           s == Message!Start(f)
           u == Message!Bytes(f, v)
<1>1. s = at + p /\ p \in Nat /\ s \in Nat /\ Len(body) \in Nat
    BY StartIs
<1>2. /\ end \in s .. Len(body)
      /\ IF Long(f) THEN SubSeq(body, at + 1, s) = Message!Big(p, end - s)
         ELSE end - at = Message!Width[f.as]
    BY PrefixIs DEF Message!Ends
<1>3. /\ v \in Message!Values(f) /\ b = at + Len(u) /\ b <= Len(w)
      /\ \A k \in 1 .. Len(u) : w[at + k] = u[k]
    BY DEF FieldAt
<1>4. /\ Len(u) = p + Len(v) /\ Len(v) \in Nat
      /\ \A k \in 1 .. p : u[k] = Message!Big(p, Len(v))[k]
      /\ ~Long(f) => Len(v) = Message!Width[f.as] /\ p = 0
      /\ Long(f) => p > 0
    BY <1>3, BytesIs, ValueIs, PrefixIs
<1> HIDE DEF p, s, u
<1>5. CASE ~Long(f)
    BY <1>1, <1>2, <1>3, <1>4, <1>5
<1>6. CASE Long(f)
    <2>1. SubSeq(body, at + 1, s) = Message!Big(p, end - s) /\ end - s \in Nat
        BY <1>1, <1>2, <1>6
    <2>2. Message!Big(p, end - s)[p] = end - s /\ Message!Big(p, Len(v))[p] = Len(v)
        BY <1>1, <1>4, <1>6, <2>1, BigIs
    <2>3. SubSeq(body, at + 1, s)[p] = body[at + p]
        <3>1. s <= Len(body) /\ p > 0
            BY <1>1, <1>2, <1>4, <1>6
        <3>2. at + p <= Len(body) /\ p \in 1 .. p
            BY ONLY <1>1, <3>1, at \in Nat
        <3>3. \A i \in 1 .. p : SubSeq(body, at + 1, at + p)[i] = body[at + i]
            BY ONLY <1>1, <3>2, PartIs, at \in Nat, body \in Seq(Nat)
        <3> QED
            BY ONLY <1>1, <3>2, <3>3
    <2>4. body[at + p] = w[at + p]
        <3>1. at + p \in 1 .. Len(body) /\ at + p <= Len(w)
            BY <1>1, <1>2, <1>3, <1>4, <1>6
        <3> QED
            BY <3>1 DEF Kept
    <2>5. w[at + p] = u[p] /\ u[p] = Message!Big(p, Len(v))[p]
        <3>1. p \in 1 .. p /\ p \in 1 .. Len(u)
            BY <1>1, <1>4, <1>6
        <3> QED
            BY <1>3, <1>4, <3>1
    <2>6. end - s = Len(v)
        BY <2>1, <2>2, <2>3, <2>4, <2>5
    <2> QED
        BY <1>1, <1>2, <1>3, <1>4, <2>6
<1> QED
    BY <1>5, <1>6

(* A field that is all there is read as it was written,                    *)
LEMMA FieldRead ==
    ASSUME Message!MessagesAssumption, NEW f \in Fields, NEW v, NEW b \in Nat, at \in Nat,
           body \in Seq(Nat), FieldAt(f, v, at, b, body)
    PROVE  Message!Ends(f) = {b} /\ SubSeq(body, Message!Start(f) + 1, b) = v
<1> DEFINE p == Pre(f)
           s == Message!Start(f)
           u == Message!Bytes(f, v)
           m == Len(v)
<1>1. s = at + p /\ p \in Nat /\ s \in Nat /\ Len(body) \in Nat
    BY StartIs
<1>2. /\ v \in Message!Values(f) /\ b = at + Len(u) /\ b <= Len(body)
      /\ \A k \in 1 .. Len(u) : body[at + k] = u[k]
    BY DEF FieldAt
<1>3. /\ Len(u) = p + m /\ m \in Nat /\ v \in Seq(Nat)
      /\ \A k \in 1 .. p : u[k] = Message!Big(p, m)[k]
      /\ \A k \in 1 .. m : u[p + k] = v[k]
      /\ ~Long(f) => m = Message!Width[f.as] /\ p = 0
      /\ Message!Readable(f, v)
    BY <1>2, BytesIs, ValueIs, PrefixIs
<1> HIDE DEF p, s, u, m
<1>5. b = s + m /\ s <= b
    BY <1>1, <1>2, <1>3
<1>6. SubSeq(body, s + 1, b) = v
    <2>1. s + m <= Len(body) /\ \A i \in 1 .. m : s + i = at + (p + i) /\ p + i \in 1 .. Len(u)
        <3>1. b <= Len(body) /\ Len(u) = p + m /\ m \in Nat
            BY <1>2, <1>3
        <3> QED
            BY ONLY <1>1, <1>5, <3>1, at \in Nat
    <2>2. \A i \in 1 .. m : body[s + i] = v[i]
        BY <1>2, <1>3, <2>1
    <2>3. Len(v) = m
        BY DEF m
    <2>4. \A y \in Seq(Nat) :
              Len(y) = m /\ (\A i \in 1 .. m : body[s + i] = y[i]) => SubSeq(body, s + 1, s + m) = y
        <3>1. s \in Nat /\ m \in Nat /\ s + m <= Len(body)
            BY <1>1, <1>3, <2>1
        <3> QED
            BY <3>1, PartIs
    <2>5. SubSeq(body, s + 1, s + m) = v
        BY <1>3, <2>2, <2>3, <2>4
    <2> QED
        BY <1>5, <2>5
<1>7. SubSeq(body, at + 1, s) = Message!Big(p, m)
    <2> DEFINE h == Message!Big(p, m)
    <2>1. h \in Seq(Nat) /\ Len(h) = p
        BY <1>1, <1>3, BigIs
    <2> HIDE DEF h
    <2>2. at + p <= Len(body) /\ \A i \in 1 .. p : i \in 1 .. Len(u)
        BY <1>1, <1>2, <1>3, <1>5
    <2>3. \A i \in 1 .. p : body[at + i] = h[i]
        BY <1>2, <1>3, <2>2 DEF h
    <2>4. \A y \in Seq(Nat) :
              Len(y) = p /\ (\A i \in 1 .. p : body[at + i] = y[i]) => SubSeq(body, at + 1, at + p) = y
        BY ONLY <1>1, <2>2, PartIs, at \in Nat, body \in Seq(Nat)
    <2> QED
        BY ONLY <1>1, <2>1, <2>3, <2>4 DEF h
<1>8. b \in Message!Ends(f)
    <2>1. b \in s .. Len(body) /\ b - s = m /\ b - at = p + m
        BY <1>1, <1>2, <1>3, <1>5
    <2>2. IF Long(f) THEN SubSeq(body, at + 1, s) = Message!Big(p, b - s)
          ELSE b - at = Message!Width[f.as]
        <3>1. CASE Long(f)
            BY <1>7, <2>1, <3>1
        <3>2. CASE ~Long(f)
            BY <1>3, <2>1, <3>2
        <3> QED
            BY <3>1, <3>2
    <2>3. Message!Readable(f, SubSeq(body, s + 1, b))
        BY <1>3, <1>6
    <2> QED
        BY <2>1, <2>2, <2>3, PrefixIs DEF Message!Ends, s, p
<1>9. \A end \in Message!Ends(f) : end = b
    <2>1. Kept(body, body)
        BY DEF Kept
    <2> QED
        BY <1>1, <2>1, EndsIs
<1> QED
    BY <1>6, <1>8, <1>9 DEF s

(* and so another version is not read.                                     *)
LEMMA VersionRead ==
    ASSUME body \in Seq(Nat), body[1] = 2, at = 0
    PROVE  Message!Ends(Message!Version) = {}
<1> SUFFICES ASSUME NEW end \in Message!Ends(Message!Version) PROVE FALSE
    OBVIOUS
<1>1. Message!Version.as = "version" /\ ~("version" \in DOMAIN Message!ReadPrefix)
    BY DEF Message!Version, Message!Field, Message!ReadPrefix
<1>2. Message!Start(Message!Version) = 0 /\ Message!Width["version"] = 1
    BY <1>1 DEF Message!Start, Message!Width
<1>3. /\ end \in 0 .. Len(body) /\ end - 0 = 1
      /\ Message!Readable(Message!Version, SubSeq(body, 0 + 1, end))
    BY <1>1, <1>2 DEF Message!Ends
<1>4. SubSeq(body, 0 + 1, end) = <<1>> /\ end = 1 /\ 1 <= Len(body)
    BY <1>1, <1>3 DEF Message!Readable
<1>5. SubSeq(body, 1, 1) = [i \in 1 .. 1 |-> body[i]]
    BY <1>4
<1>6. SubSeq(body, 1, 1)[1] = 2
    BY <1>5
<1>7. SubSeq(body, 1, 1)[1] = 1
    <2>1. SubSeq(body, 1, 1) = <<1>>
        BY <1>4
    <2>2. <<1>>[1] = 1
        OBVIOUS
    <2> QED
        BY ONLY <2>1, <2>2
<1> QED
    BY <1>6, <1>7

(* One more field.                                                         *)
LEMMA ScriptGrows ==
    ASSUME Message!MessagesAssumption, NEW k, NEW s, NEW g, NEW w, Writing(k, s, g, w), g # <<>>,
           NEW f, f = Head(g), NEW v \in Message!Values(f)
    PROVE  Writing(k, Append(s, Put(f, v)), Message!Follows(f, v) \o Tail(g),
                   w \o Message!Bytes(f, v))
<1>0. PICK rests, ends : Script(k, s, rests, ends, w) /\ g = rests[Len(s) + 1]
    BY DEF Writing
<1> DEFINE n == Len(s)
           u == Message!Bytes(f, v)
           r == Put(f, v)
           x == w \o u
           h == Message!Follows(f, v) \o Tail(g)
           t == Append(s, r)
           rs == Append(rests, h)
           es == Append(ends, Len(x))
<1>1. /\ s \in Seq(Sayable) /\ rests \in Seq(Seq(Fields)) /\ ends \in Seq(Nat) /\ w \in Seq(Nat)
      /\ n \in Nat /\ Len(rests) = n + 1 /\ Len(ends) = n + 1
    BY <1>0 DEF Script, ScriptTypes
<1>2. g \in Seq(Fields) /\ g # <<>>
    BY <1>0, <1>1
<1>3. f \in Fields /\ Tail(g) \in Seq(Fields)
    BY <1>2
<1>4. /\ v \in Message!Values(f) /\ r = Put(f, v)
      /\ t = Append(s, r) /\ x = w \o u /\ h = Message!Follows(f, v) \o Tail(g)
    OBVIOUS
<1> HIDE DEF r, h
<1>5. u \in Seq(Nat) /\ Message!Follows(f, v) \in Seq(Fields) /\ v \in Seq(Nat)
    BY <1>3, <1>4, BytesIs, FollowsIs, ValueIs
<1>6. h \in Seq(Fields) /\ r \in Sayable /\ r.value = v
    <2>1. h \in Seq(Fields)
        <3>1. Message!Follows(f, v) \o Tail(g) \in Seq(Fields)
            BY <1>3, <1>5
        <3> QED
            BY <3>1 DEF h
    <2>2. r \in Sayable /\ r.value = v
        BY <1>3, <1>4, <1>5 DEF Put, Fields, Sayable
    <2> QED
        BY <2>1, <2>2
<1>7. x \in Seq(Nat) /\ Len(x) \in Nat /\ Len(w) <= Len(x) /\ \A j \in 1 .. Len(w) : x[j] = w[j]
    <2>1. w \o u \in Seq(Nat) /\ Len(w \o u) = Len(w) + Len(u) /\ Len(u) \in Nat /\ Len(w) \in Nat
          /\ \A j \in 1 .. Len(w) : (w \o u)[j] = w[j]
        BY <1>1, <1>5, ConcatIs
    <2>2. x = w \o u
        OBVIOUS
    <2>3. Len(w) <= Len(w \o u) /\ Len(w \o u) \in Nat
        BY <2>1
    <2> QED
        BY ONLY <2>1, <2>2, <2>3
<1>8. FieldAt(f, v, Len(w), Len(x), x)
    BY <1>1, <1>3, <1>4, FieldAdded
<1> HIDE DEF u, x
<1>9. /\ t \in Seq(Sayable) /\ Len(t) = n + 1 /\ t[n + 1] = r
      /\ \A i \in 1 .. n : t[i] = s[i]
    BY <1>1, <1>4, <1>6
<1>10. /\ rs \in Seq(Seq(Fields)) /\ Len(rs) = n + 2 /\ rs[n + 2] = h
       /\ \A i \in 1 .. n + 1 : rs[i] = rests[i]
    BY ONLY <1>1, <1>6 DEF rs
<1>11. /\ es \in Seq(Nat) /\ Len(es) = n + 2 /\ es[n + 2] = Len(x)
       /\ \A i \in 1 .. n + 1 : es[i] = ends[i]
    BY <1>1, <1>7
<1> HIDE DEF rs, es, t, n
<1>12. ScriptTypes(t, rs, es, x)
    BY <1>1, <1>7, <1>9, <1>10, <1>11 DEF ScriptTypes
<1>13. ASSUME NEW i \in 1 .. n PROVE ScriptStep(i, t, rs, es, x)
    <2>1. ScriptStep(i, s, rests, ends, w)
        BY <1>0 DEF Script, n
    <2>2. i \in 1 .. n + 1 /\ i + 1 \in 1 .. n + 1
        BY <1>1
    <2>3. t[i] = s[i] /\ rs[i] = rests[i] /\ rs[i + 1] = rests[i + 1] /\ es[i] = ends[i] /\ es[i + 1] = ends[i + 1]
        BY <1>9, <1>10, <1>11, <2>2
    <2>4. ends[i] \in Nat /\ ends[i + 1] \in Nat /\ rests[i] \in Seq(Fields)
        <3>1. ends \in Seq(Nat) /\ Len(ends) = n + 1
            BY <1>1
        <3>2. rests \in Seq(Seq(Fields)) /\ Len(rests) = n + 1
            BY <1>1
        <3>3. ends[i] \in Nat /\ ends[i + 1] \in Nat
            BY <2>2, <3>1
        <3>4. rests[i] \in Seq(Fields)
            BY <2>2, <3>2
        <3> QED
            BY <3>3, <3>4
    <2>5. Head(rests[i]) \in Fields /\ s[i].value \in Message!Values(Head(rests[i]))
        <3>1. rests[i] # <<>> /\ s[i].value \in Message!Values(Head(rests[i]))
            BY <2>1 DEF ScriptStep, FieldAt
        <3> QED
            BY <2>4, <3>1
    <2>6. Len(Message!Bytes(Head(rests[i]), s[i].value)) \in Nat
        BY <2>5, BytesIs
    <2>7. FieldAt(Head(rests[i]), s[i].value, ends[i], ends[i + 1], x)
        <3>1. FieldAt(Head(rests[i]), s[i].value, ends[i], ends[i + 1], w)
            BY <2>1 DEF ScriptStep
        <3>2. ends[i + 1] <= Len(w) /\ Len(w) \in Nat
            BY <1>1, <3>1 DEF FieldAt
        <3>3. ends[i + 1] <= Len(x) /\ \A j \in 1 .. ends[i + 1] : x[j] = w[j]
            BY <1>7, <2>4, <3>2
        <3> QED
            BY <2>4, <2>6, <3>1, <3>3, FieldStays
    <2> QED
        BY <2>1, <2>3, <2>7 DEF ScriptStep
<1>14. ScriptStep(n + 1, t, rs, es, x)
    <2>1. rs[n + 1] = g /\ es[n + 1] = Len(w)
        <3>1. n + 1 \in 1 .. n + 1
            BY <1>1
        <3>2. ends[n + 1] = Len(w)
            BY <1>0 DEF Script, n
        <3> QED
            BY <1>0, <1>10, <1>11, <3>1, <3>2 DEF n
    <2>2. n + 1 + 1 = n + 2
        BY <1>1
    <2> QED
        BY <1>2, <1>4, <1>6, <1>8, <1>9, <1>10, <1>11, <2>1, <2>2 DEF ScriptStep
<1>15. \A i \in 1 .. n + 1 : ScriptStep(i, t, rs, es, x)
    <2> SUFFICES ASSUME NEW i \in 1 .. n + 1 PROVE ScriptStep(i, t, rs, es, x)
        OBVIOUS
    <2>1. i \in 1 .. n \/ i = n + 1
        BY <1>1
    <2> QED
        BY <1>13, <1>14, <2>1
<1>16. rs[1] = Message!Written[k] /\ es[1] = 0 /\ es[Len(t) + 1] = Len(x)
    <2>1. 1 \in 1 .. n + 1 /\ n + 1 + 1 = n + 2
        BY <1>1
    <2> QED
        BY <1>0, <1>9, <1>10, <1>11, <2>1 DEF Script
<1>17. Script(k, t, rs, es, x)
    BY <1>9, <1>12, <1>15, <1>16 DEF Script
<1>18. rs[Len(t) + 1] = h
    <2>1. n + 1 + 1 = n + 2
        BY <1>1
    <2> QED
        BY <1>9, <1>10, <2>1
<1> QED
    <2>1. Writing(k, t, h, x)
        BY <1>17, <1>18 DEF Writing
    <2> QED
        BY <2>1 DEF t, h, x, u, r

(* A message has a field, and bytes.                                       *)
LEMMA ScriptEnds ==
    ASSUME Message!MessagesAssumption, NEW k \in Message!Kinds, NEW s, NEW rests, NEW ends, NEW w,
           Script(k, s, rests, ends, w)
    PROVE  /\ Len(s) \in Nat /\ w \in Seq(Nat) /\ Len(w) \in Nat
           /\ rests[Len(s) + 1] = <<>> => Len(s) > 0 /\ Len(w) > 0 /\ w # <<>>
<1>1. /\ Len(s) \in Nat /\ w \in Seq(Nat) /\ Len(w) \in Nat
      /\ rests \in Seq(Seq(Fields)) /\ ends \in Seq(Nat)
      /\ Len(rests) = Len(s) + 1 /\ Len(ends) = Len(s) + 1
    BY DEF Script, ScriptTypes
<1>2. ASSUME rests[Len(s) + 1] = <<>> PROVE Len(s) > 0 /\ Len(w) > 0
    <2>1. rests[1] # <<>>
        BY WrittenIs DEF Script
    <2>2. Len(s) > 0
        BY <1>1, <1>2, <2>1
    <2>3. 1 \in 1 .. Len(s) /\ 1 \in 1 .. Len(s) + 1 /\ 2 \in 1 .. Len(s) + 1
        BY <1>1, <2>2
    <2>4. FieldAt(Head(rests[1]), s[1].value, ends[1], ends[1 + 1], w)
        BY <2>3 DEF Script, ScriptStep
    <2>5. ends[1] = 0 /\ ends[2] \in Nat /\ rests[1] \in Seq(Fields)
        BY <1>1, <2>3 DEF Script
    <2>6. Head(rests[1]) \in Fields
        BY WrittenIs, FieldsAre DEF Script
    <2>7. Len(Message!Bytes(Head(rests[1]), s[1].value)) \in Nat /\ Len(Message!Bytes(Head(rests[1]), s[1].value)) > 0
        BY <2>4, <2>6, BytesIs DEF FieldAt
    <2>8. ends[2] > 0 /\ ends[2] <= Len(w)
        BY <2>4, <2>5, <2>7 DEF FieldAt
    <2> QED
        BY <1>1, <2>2, <2>5, <2>8
<1>3. Len(w) > 0 => w # <<>>
    BY <1>1
<1> QED
    BY <1>1, <1>2, <1>3

LEMMA SaidInit ==
    ASSUME Message!MessagesAssumption, Message!Init
    PROVE  SaidInv
<1>1. /\ kind \in Message!Kinds /\ stage = "write" /\ left = Message!Written[kind] /\ said = <<>>
      /\ body = <<>> /\ damage = "none" /\ envelope = None /\ heard = <<>> /\ at = 0
    BY DEF Message!Init
<1> DEFINE rests == <<Message!Written[kind]>>
           ends == <<0>>
<1>2. Message!Written[kind] \in Seq(Fields)
    BY <1>1, WrittenIs
<1>3. rests \in Seq(Seq(Fields)) /\ Len(rests) = 1 /\ rests[1] = Message!Written[kind]
    BY <1>2
<1>4. ends \in Seq(Nat) /\ Len(ends) = 1 /\ ends[1] = 0
    OBVIOUS
<1>5. <<>> \in Seq(Sayable) /\ <<>> \in Seq(Nat) /\ Len(<<>>) = 0
    OBVIOUS
<1> HIDE DEF rests, ends
<1>6. Script(kind, said, rests, ends, body) /\ left = rests[Len(said) + 1]
    BY <1>1, <1>3, <1>4, <1>5 DEF Script, ScriptTypes
<1>7. WriteInv
    BY <1>1, <1>6 DEF WriteInv, Begun, Writing
<1> QED
    BY <1>1, <1>7 DEF SaidInv

LEMMA SaidWrite ==
    ASSUME Message!MessagesAssumption, SaidInv, Message!Write
    PROVE  SaidInv'
<1>1. /\ stage = "write" /\ left # <<>>
      /\ UNCHANGED <<kind, stage, heard, at, sig, envelope, damage>>
    BY DEF Message!Write
<1>2. PICK v \in Message!Values(Head(left)) :
          /\ body' = body \o Message!Bytes(Head(left), v)
          /\ said' = Append(said, Put(Head(left), v))
          /\ left' = Message!Follows(Head(left), v) \o Tail(left)
    BY DEF Message!Write, Message!With, Put
<1>3. Writing(kind, said, left, body)
    BY <1>1 DEF SaidInv, WriteInv
<1>4. Writing(kind, said', left', body')
    <2> DEFINE f == Head(left)
    <2>1. v \in Message!Values(f) /\ left # <<>> /\ f = Head(left)
        BY <1>1
    <2>2. /\ said' = Append(said, Put(f, v)) /\ body' = body \o Message!Bytes(f, v)
          /\ left' = Message!Follows(f, v) \o Tail(left)
        BY <1>2
    <2> HIDE DEF f
    <2>3. Writing(kind, Append(said, Put(f, v)), Message!Follows(f, v) \o Tail(left),
                  body \o Message!Bytes(f, v))
        BY <1>3, <2>1, ScriptGrows
    <2> QED
        BY <2>2, <2>3
<1>5. WriteInv'
    BY <1>1, <1>4 DEF SaidInv, WriteInv, Begun
<1> QED
    BY <1>1, <1>5 DEF SaidInv

(* The frame of a message: a header, the message, zeros.                   *)
LEMMA FrameHeaderIs ==
    ASSUME Message!MessagesAssumption, NEW x \in Seq(Nat)
    PROVE  LET h == Message!FrameHeader(x)
           IN  /\ h \in Seq(Nat) /\ Len(h) \in Nat
               /\ kind \in DOMAIN Message!Code =>
                    /\ Len(h) = 5 /\ h[1] = 1 /\ h[2] = Message!Code[kind]
                    /\ \A i \in 1 .. 3 : h[2 + i] = Message!Big(3, Len(x))[i]
               /\ kind \notin DOMAIN Message!Code => h = <<>> /\ Len(h) = 0
<1> DEFINE g == Message!Big(3, Len(x))
           c == Message!Code[kind]
<1>1. g \in Seq(Nat) /\ Len(g) = 3
    <2>1. Len(x) \in Nat
        OBVIOUS
    <2> QED
        BY <2>1, BigIs
<1>2. CASE kind \in DOMAIN Message!Code
    <2>1. c \in Nat
        BY <1>2 DEF Message!Code
    <2>2. Message!FrameHeader(x) = <<1, c>> \o g
        BY <1>2 DEF Message!FrameHeader, Message!Width
    <2> HIDE DEF c, g
    <2> DEFINE e == <<1, c>>
               d == e \o g
    <2>3. e \in Seq(Nat) /\ Len(e) = 2 /\ e[1] = 1 /\ e[2] = c
        BY <2>1
    <2> HIDE DEF e
    <2>4. /\ d \in Seq(Nat) /\ Len(d) = Len(e) + Len(g)
          /\ \A j \in 1 .. Len(e) : d[j] = e[j]
          /\ \A j \in 1 .. Len(g) : d[Len(e) + j] = g[j]
        BY <1>1, <2>3, ConcatIs
    <2> HIDE DEF d
    <2>5. Len(d) = 5 /\ d[1] = 1 /\ d[2] = c /\ \A i \in 1 .. 3 : d[2 + i] = g[i]
        BY <1>1, <2>3, <2>4
    <2> QED
        BY <1>2, <2>2, <2>4, <2>5 DEF c, g, d, e
<1>3. CASE kind \notin DOMAIN Message!Code
    BY <1>3 DEF Message!FrameHeader
<1> QED
    BY <1>2, <1>3

LEMMA PaddingIs ==
    ASSUME Message!MessagesAssumption, NEW n \in Nat
    PROVE  /\ Message!Padding(n) \in Nat
           /\ kind \in DOMAIN Message!Code => (n + Message!Padding(n)) % PadTo = 0
           /\ kind \in Message!Codes => Message!Padding(n) = 0
           /\ kind = "Announce" /\ n <= AnnounceLen => n + Message!Padding(n) = AnnounceLen
<1> DEFINE r == n % PadTo
           q == n \div PadTo
           p == (PadTo - r) % PadTo
<1>1. PadTo \in Nat /\ PadTo > 0 /\ AnnounceLen \in Nat
    BY DEF Message!MessagesAssumption
<1>2. r \in 0 .. PadTo - 1 /\ q \in Nat /\ n = PadTo * q + r
    BY <1>1
<1> HIDE DEF r, q
<1>3. p \in Nat /\ p = IF r = 0 THEN 0 ELSE PadTo - r
    <2>1. CASE r = 0
        <3>1. PadTo % PadTo = 0
            BY <1>1
        <3> QED
            BY <1>1, <2>1, <3>1
    <2>2. CASE r # 0
        <3>1. PadTo - r \in 0 .. PadTo - 1
            BY <1>1, <1>2, <2>2
        <3>2. (PadTo - r) % PadTo = PadTo - r
            BY <1>1, <3>1
        <3> QED
            BY <1>1, <2>2, <3>1, <3>2
    <2> QED
        BY <2>1, <2>2
<1>4. (n + p) % PadTo = 0
    <2>1. \A k \in Nat : (PadTo * k) % PadTo = 0
        BY <1>1
    <2>2. CASE r = 0
        <3>1. n + p = PadTo * q
            BY <1>1, <1>2, <1>3, <2>2
        <3> QED
            BY <1>2, <2>1, <3>1
    <2>3. CASE r # 0
        <3>1. n + p = PadTo * (q + 1) /\ q + 1 \in Nat
            BY <1>1, <1>2, <1>3, <2>3
        <3> QED
            BY <2>1, <3>1
    <2> QED
        BY <2>2, <2>3
<1>5. CASE kind \in Message!Codes
    BY <1>5 DEF Message!Padding, Message!Codes, Message!Code
<1>6. CASE kind = "Announce"
    BY <1>1, <1>6 DEF Message!Padding, Message!Codes, Message!Code
<1>7. CASE kind \notin Message!Codes /\ kind # "Announce"
    BY <1>3, <1>4, <1>7 DEF Message!Padding, r
<1> QED
    BY <1>5, <1>6, <1>7

LEMMA FrameIs ==
    ASSUME Message!MessagesAssumption, NEW x \in Seq(Nat)
    PROVE  LET h == Message!FrameHeader(x)
               m == Len(h) + Len(x)
               y == Message!Frame(x)
           IN  /\ y \in Seq(Nat) /\ Len(x) \in Nat /\ Message!Padding(m) \in Nat
               /\ Len(y) = m + Message!Padding(m)
               /\ \A j \in 1 .. Len(h) : y[j] = h[j]
               /\ \A j \in 1 .. Len(x) : y[Len(h) + j] = x[j]
               /\ \A j \in m + 1 .. Len(y) : y[j] = 0
<1> DEFINE h == Message!FrameHeader(x)
           m == Len(h) + Len(x)
           p == Message!Padding(m)
           z == Message!Zeros(p)
           i == h \o x
           y == i \o z
<1>1. h \in Seq(Nat) /\ Len(h) \in Nat /\ Len(x) \in Nat
    BY FrameHeaderIs
<1> HIDE DEF h
<1>2. /\ i \in Seq(Nat) /\ Len(i) = m
      /\ \A j \in 1 .. Len(h) : i[j] = h[j]
      /\ \A j \in 1 .. Len(x) : i[Len(h) + j] = x[j]
    BY <1>1, ConcatIs
<1> HIDE DEF i
<1>3. m \in Nat /\ p \in Nat
    BY <1>1, PaddingIs
<1>4. Message!Frame(x) = y
    BY <1>2 DEF Message!Frame, i, h
<1> HIDE DEF p
<1>5. z \in Seq(Nat) /\ Len(z) = p /\ \A j \in 1 .. p : z[j] = 0
    BY <1>3 DEF Message!Zeros
<1> HIDE DEF z, m
<1>6. /\ y \in Seq(Nat) /\ Len(y) = m + p
      /\ \A j \in 1 .. m : y[j] = i[j]
      /\ \A j \in 1 .. p : y[m + j] = z[j]
    <2>1. /\ y \in Seq(Nat) /\ Len(y) = Len(i) + Len(z)
          /\ \A j \in 1 .. Len(i) : y[j] = i[j]
          /\ \A j \in 1 .. Len(z) : y[Len(i) + j] = z[j]
        BY <1>2, <1>5, ConcatIs
    <2> HIDE DEF y
    <2> QED
        BY <1>2, <1>5, <2>1
<1> HIDE DEF y
<1>7. /\ \A j \in 1 .. Len(h) : y[j] = h[j]
      /\ \A j \in 1 .. Len(x) : y[Len(h) + j] = x[j]
    <2>1. \A j \in 1 .. Len(h) : j \in 1 .. m
        BY <1>1 DEF m
    <2>2. \A j \in 1 .. Len(x) : Len(h) + j \in 1 .. m
        BY <1>1 DEF m
    <2> QED
        BY <1>2, <1>6, <2>1, <2>2
<1>8. ASSUME NEW j \in m + 1 .. Len(y) PROVE y[j] = 0
    <2>1. j - m \in 1 .. p /\ m + (j - m) = j
        BY <1>3, <1>6
    <2> QED
        BY <1>5, <1>6, <2>1
<1> QED
    BY <1>1, <1>3, <1>4, <1>6, <1>7, <1>8 DEF h, m, p, y

(* What a damaged padding does to it.                                      *)
LEMMA FilledIs ==
    ASSUME NEW how, NEW y \in Seq(Nat), how = "padding" => Len(y) > 0
    PROVE  LET g == Message!Filled(how, y)
           IN  /\ g \in Seq(Nat) /\ Len(g) = Len(y)
               /\ how # "padding" => g = y
               /\ how = "padding" => g[Len(y)] = 1
               /\ \A j \in 1 .. Len(y) : j < Len(y) => g[j] = y[j]
<1>1. CASE how = "padding"
    <2>1. Message!Filled(how, y) = [y EXCEPT ![Len(y)] = 1]
        BY <1>1 DEF Message!Filled
    <2>2. Len(y) \in 1 .. Len(y) /\ \A j \in 1 .. Len(y) : j < Len(y) => j # Len(y)
        BY <1>1
    <2> QED
        BY <1>1, <2>1, <2>2
<1>2. CASE how # "padding"
    BY <1>2 DEF Message!Filled
<1> QED
    BY <1>1, <1>2

LEMMA CodesDiffer ==
    ASSUME kind \in DOMAIN Message!Code
    PROVE  Message!KindOf(Message!Code[kind]) = kind
BY DEF Message!KindOf, Message!Code
(* The announcement is never longer than what it is padded to.             *)
Most(f) == IF f.as = "label" THEN 1 + MaxField ELSE Message!Width[f.as]

Whole(k, s, rests, ends, w) == Script(k, s, rests, ends, w) /\ rests[Len(s) + 1] = <<>>

(* Before the i-th field g is to come, and there are at most n bytes.      *)
Upto(i, g, n, s, rests, ends) ==
    i \in 1 .. Len(s) + 1 /\ rests[i] = g /\ ends[i] \in Nat /\ ends[i] <= n

LEMMA StepOn ==
    ASSUME Message!MessagesAssumption, NEW k, NEW s, NEW rests, NEW ends, NEW w,
           Whole(k, s, rests, ends, w), NEW i \in Nat, NEW g, NEW n \in Nat,
           Upto(i, g, n, s, rests, ends), g # <<>>, NEW f \in Fields, Head(g) = f,
           f.as \in {"length", "version", "id", "u64", "label"}, NEW m \in Nat, Most(f) = m
    PROVE  Upto(i + 1, Tail(g), n + m, s, rests, ends)
<1>0. /\ Script(k, s, rests, ends, w) /\ rests[Len(s) + 1] = <<>>
      /\ i \in 1 .. Len(s) + 1 /\ rests[i] = g /\ ends[i] <= n
    BY DEF Whole, Upto
<1>1. Len(s) \in Nat /\ ends \in Seq(Nat) /\ Len(ends) = Len(s) + 1
    BY <1>0 DEF Script, ScriptTypes
<1>2. i \in 1 .. Len(s) /\ i + 1 \in 1 .. Len(s) + 1
    BY <1>0, <1>1
<1>3. ends[i] \in Nat /\ ends[i + 1] \in Nat
    BY <1>1, <1>2
<1> DEFINE v == s[i].value
<1>4. /\ rests[i + 1] = Message!Follows(f, v) \o Tail(g)
      /\ v \in Message!Values(f) /\ ends[i + 1] = ends[i] + Len(Message!Bytes(f, v))
    BY <1>0, <1>2 DEF Script, ScriptStep, FieldAt
<1> HIDE DEF v
<1>5. Message!Follows(f, v) = <<>>
    BY DEF Message!Follows
<1>6. rests[i + 1] = Tail(g)
    <2>1. g \in Seq(Fields)
        BY <1>0, <1>1, <1>2 DEF Script, ScriptTypes
    <2>2. Tail(g) \in Seq(Fields)
        BY <2>1
    <2> QED
        BY <1>4, <1>5, <2>2
<1>7. Len(Message!Bytes(f, v)) = Pre(f) + Len(v) /\ Len(v) \in Nat
    BY <1>4, BytesIs, ValueIs
<1>8. CASE f.as = "label"
    <2>1. MaxField \in Nat /\ v \in Message!Strings(MaxField) /\ Pre(f) = 1
        BY <1>4, <1>8 DEF Message!MessagesAssumption, Message!Values, Pre, Long, Message!Prefix
    <2>2. Len(v) <= MaxField
        BY <2>1, StringIs
    <2>3. Most(f) = 1 + MaxField
        BY <1>8 DEF Most
    <2>4. ends[i + 1] <= n + m
        BY <1>0, <1>3, <1>4, <1>7, <2>1, <2>2, <2>3
    <2> QED
        BY <1>2, <1>3, <1>6, <2>4 DEF Upto
<1>9. CASE f.as # "label"
    <2>1. ~Long(f) /\ Pre(f) = 0
        BY <1>9 DEF Pre, Long
    <2>2. Len(v) = Message!Width[f.as]
        BY <1>4, <2>1, ValueIs
    <2>3. Most(f) = Len(v)
        BY <1>9, <2>2 DEF Most
    <2>4. ends[i + 1] <= n + m
        BY <1>0, <1>3, <1>4, <1>7, <2>1, <2>3
    <2> QED
        BY <1>2, <1>3, <1>6, <2>4 DEF Upto
<1> QED
    BY <1>8, <1>9

LEMMA AnnounceFits ==
    ASSUME Message!MessagesAssumption, NEW s, NEW rests, NEW ends, NEW w,
           Whole("Announce", s, rests, ends, w)
    PROVE  Len(w) <= AnnounceLen
<1> DEFINE f1 == Message!Version
           f2 == Message!Field("device_id_len", "length")
           f3 == Message!Id("device_id")
           f4 == Message!U64("ts_ms")
           f5 == Message!Label("name")
           f6 == Message!Label("os")
<1>1. /\ f1 \in Fields /\ f2 \in Fields /\ f3 \in Fields /\ f4 \in Fields /\ f5 \in Fields
      /\ f6 \in Fields
    BY FieldsAre DEF Names, Forms
<1>2. /\ f1.as = "version" /\ f2.as = "length" /\ f3.as = "id" /\ f4.as = "u64"
      /\ f5.as = "label" /\ f6.as = "label"
    BY DEF Message!Version, Message!Field, Message!Id, Message!U64, Message!Label
<1>3. Most(f1) = 1 /\ Most(f2) = 1 /\ Most(f3) = 5 /\ Most(f4) = 4
    BY <1>2 DEF Most, Message!Width
<1>4. Most(f5) = 1 + MaxField /\ Most(f6) = 1 + MaxField
    BY <1>2 DEF Most
<1> DEFINE g1 == <<f1, f2, f3, f4, f5, f6>>
           g2 == <<f2, f3, f4, f5, f6>>
           g3 == <<f3, f4, f5, f6>>
           g4 == <<f4, f5, f6>>
           g5 == <<f5, f6>>
           g6 == <<f6>>
<1>5. rests[1] = g1 /\ ends[1] = 0
    BY DEF Whole, Script, Message!Written, Message!Announce
<1> HIDE DEF f1, f2, f3, f4, f5, f6
<1>6. /\ g1 # <<>> /\ g2 # <<>> /\ g3 # <<>> /\ g4 # <<>> /\ g5 # <<>> /\ g6 # <<>>
      /\ Head(g1) = f1 /\ Head(g2) = f2 /\ Head(g3) = f3
      /\ Head(g4) = f4 /\ Head(g5) = f5 /\ Head(g6) = f6
    OBVIOUS
<1>7. /\ Tail(g1) = g2 /\ Tail(g2) = g3 /\ Tail(g3) = g4
      /\ Tail(g4) = g5 /\ Tail(g5) = g6 /\ Tail(g6) = <<>>
    OBVIOUS
<1> HIDE DEF g1, g2, g3, g4, g5, g6
<1>8. /\ Len(s) \in Nat /\ ends[Len(s) + 1] = Len(w) /\ MaxField \in Nat /\ AnnounceLen \in Nat
      /\ 2 + 5 + 4 + 2 * (1 + MaxField) <= AnnounceLen
    BY DEF Whole, Script, ScriptTypes, Message!MessagesAssumption, Message!Width
<1> DEFINE At(i, g, n) == Upto(i, g, n, s, rests, ends)
<1>10. At(1, g1, 0)
    BY <1>5, <1>8 DEF Upto
<1>9. /\ 1 + 1 = 2 /\ 2 + 1 = 3 /\ 3 + 1 = 4 /\ 4 + 1 = 5 /\ 5 + 1 = 6 /\ 6 + 1 = 7
      /\ 0 + 1 = 1 /\ 2 + 5 = 7 /\ 7 + 4 = 11
    OBVIOUS
<1>11. At(2, g2, 1)
    <2>1. At(1 + 1, Tail(g1), 0 + 1)
        BY <1>1, <1>2, <1>3, <1>6, <1>10, StepOn
    <2> QED
        BY ONLY <1>7, <1>9, <2>1, Zenon
<1>12. At(3, g3, 2)
    <2>1. At(2 + 1, Tail(g2), 1 + 1)
        BY <1>1, <1>2, <1>3, <1>6, <1>11, StepOn
    <2> QED
        BY ONLY <1>7, <1>9, <2>1, Zenon
<1>13. At(4, g4, 7)
    <2>1. At(3 + 1, Tail(g3), 2 + 5)
        BY <1>1, <1>2, <1>3, <1>6, <1>12, StepOn
    <2> QED
        BY ONLY <1>7, <1>9, <2>1, Zenon
<1>14. At(5, g5, 11)
    <2>1. At(4 + 1, Tail(g4), 7 + 4)
        BY <1>1, <1>2, <1>3, <1>6, <1>13, StepOn
    <2> QED
        BY ONLY <1>7, <1>9, <2>1, Zenon
<1> DEFINE c == 1 + MaxField
           d == 11 + c
           e == d + c
<1>15. c \in Nat /\ d \in Nat /\ d = 11 + c /\ e \in Nat /\ e = d + c /\ e = 13 + 2 * MaxField
    BY <1>8
<1>16. Most(f5) = c /\ Most(f6) = c
    BY <1>4
<1> HIDE DEF c, d, e
<1>17. At(6, g6, d)
    <2>1. At(5 + 1, Tail(g5), 11 + c)
        BY <1>1, <1>2, <1>6, <1>14, <1>15, <1>16, StepOn
    <2> QED
        BY ONLY <1>7, <1>9, <1>15, <2>1, Zenon
<1>18. At(7, <<>>, e)
    <2>1. At(6 + 1, Tail(g6), d + c)
        BY <1>1, <1>2, <1>6, <1>15, <1>16, <1>17, StepOn
    <2> QED
        BY ONLY <1>7, <1>9, <1>15, <2>1, Zenon
<1>19. 7 \in 1 .. Len(s) + 1 /\ rests[7] = <<>> /\ ends[7] \in Nat /\ ends[7] <= 13 + 2 * MaxField
    BY <1>15, <1>18 DEF Upto
<1>20. Len(s) = 6
    <2>1. 7 \in 1 .. Len(s) => rests[7] # <<>>
        BY DEF Whole, Script, ScriptStep
    <2> DEFINE n == Len(s)
    <2>2. n \in Nat /\ 7 \in 1 .. n + 1 /\ ~(7 \in 1 .. n)
        BY <1>8, <1>19, <2>1
    <2> HIDE DEF n
    <2>3. n = 6
        BY <2>2
    <2> QED
        BY <2>3 DEF n
<1> QED
    BY <1>8, <1>19, <1>20

(* The body of a frame, where its length says.                             *)
Framed(g, b, n, m) ==
    /\ g \in Seq(Nat) /\ b \in Seq(Nat) /\ n \in Nat /\ m \in Nat
    /\ Len(b) = n /\ Len(g) = m /\ 5 + n <= m /\ m % PadTo = 0
    /\ g[1] = 1 /\ g[2] = Message!Code[kind]
    /\ \A i \in 1 .. 3 : g[2 + i] = Message!Big(3, n)[i]
    /\ \A i \in 1 .. n : g[5 + i] = b[i]

NothingBehind(g, n, m) == \A i \in 1 .. m : i > 5 + n => g[i] = 0

LEMMA BodyFound ==
    ASSUME Message!MessagesAssumption, kind \in DOMAIN Message!Code, NEW g, NEW b, NEW n, NEW m,
           Framed(g, b, n, m)
    PROVE  Message!Opened(g) = IF NothingBehind(g, n, m) THEN {b} ELSE {}
<1>0. /\ g \in Seq(Nat) /\ b \in Seq(Nat) /\ n \in Nat /\ m \in Nat
      /\ Len(b) = n /\ Len(g) = m /\ 5 + n <= m /\ m % PadTo = 0
      /\ g[1] = 1 /\ g[2] = Message!Code[kind]
      /\ \A i \in 1 .. 3 : g[2 + i] = Message!Big(3, n)[i]
      /\ \A i \in 1 .. n : g[5 + i] = b[i]
    BY DEF Framed
<1>1. SubSeq(g, 6, 5 + n) = b
    <2>1. SubSeq(g, 5 + 1, 5 + n) = b
        BY <1>0, PartIs
    <2> QED
        BY <2>1
<1>2. SubSeq(g, 3, 5) = Message!Big(3, n)
    <2>1. Message!Big(3, n) \in Seq(Nat) /\ Len(Message!Big(3, n)) = 3
        BY <1>0, BigIs
    <2>2. SubSeq(g, 2 + 1, 2 + 3) = Message!Big(3, n)
        BY <1>0, <2>1, PartIs
    <2> QED
        BY <2>2
<1>3. ASSUME NEW end \in Message!BodyEnds(g)
      PROVE  end = 5 + n /\ NothingBehind(g, n, m)
    <2>1. /\ end \in 2 + 3 .. m /\ SubSeq(g, 3, 2 + 3) = Message!Big(3, end - (2 + 3))
          /\ \A i \in end + 1 .. m : g[i] = 0
        BY <1>0 DEF Message!BodyEnds, Message!Width
    <2> DEFINE e == end - (2 + 3)
    <2>2. e \in Nat /\ end = 5 + e /\ 3 \in Nat /\ 3 > 0
        BY <2>1
    <2> HIDE DEF e
    <2>3. Message!Big(3, e)[3] = e /\ Message!Big(3, n)[3] = n
        BY <1>0, <2>2, BigIs
    <2>4. Message!Big(3, e) = Message!Big(3, n)
        BY <1>2, <2>1 DEF e
    <2>5. end = 5 + n
        BY <2>2, <2>3, <2>4
    <2>6. \A i \in 1 .. m : i > end => i \in end + 1 .. m
        BY <2>1
    <2> QED
        BY <2>1, <2>5, <2>6 DEF NothingBehind
<1>4. Message!Opened(g) = {SubSeq(g, 6, end) : end \in Message!BodyEnds(g)}
    BY DEF Message!Opened, Message!Width
<1>5. ASSUME NothingBehind(g, n, m) PROVE Message!Opened(g) = {b}
    <2> DEFINE end == 5 + n
    <2>1. end \in 2 + 3 .. m /\ end - (2 + 3) = n /\ end \in Nat
        BY <1>0
    <2>2. \A i \in end + 1 .. m : g[i] = 0
        <3>1. \A i \in end + 1 .. m : i \in 1 .. m /\ i > 5 + n
            BY <1>0
        <3> QED
            BY <1>5, <3>1 DEF NothingBehind
    <2>3. Message!KindOf(g[2]) = kind
        BY <1>0, CodesDiffer
    <2> HIDE DEF end
    <2>4. SubSeq(g, 3, 2 + 3) = Message!Big(3, end - (2 + 3))
        BY <1>2, <2>1
    <2>5. end \in Message!BodyEnds(g)
        BY <1>0, <2>1, <2>2, <2>3, <2>4 DEF Message!BodyEnds, Message!Width
    <2>6. Message!BodyEnds(g) = {end}
        BY <1>3, <2>5 DEF end
    <2>7. Message!Opened(g) = {SubSeq(g, 6, end)}
        BY <1>4, <2>6
    <2> QED
        BY <1>1, <2>7 DEF end
<1>6. ~NothingBehind(g, n, m) => Message!BodyEnds(g) = {}
    BY <1>3
<1> QED
    BY <1>4, <1>5, <1>6

(* What a decoder is given of the frame.                                   *)
LEMMA OpenedIs ==
    ASSUME Message!MessagesAssumption, kind \in Message!Kinds, body \in Seq(Nat), NEW how,
           how = "padding" => Padded(body) > 0
    PROVE  LET g == Message!Filled(how, Message!Frame(body))
           IN  /\ IsMsg => Message!Opened(g) = IF how = "padding" THEN {} ELSE {body}
               /\ ~IsMsg => Message!Opened(g) \subseteq {g}
               /\ ~IsMsg /\ how = "none" /\ (kind = "Announce" => Len(body) <= AnnounceLen) =>
                      Message!Opened(g) = {g}
<1> DEFINE y == Message!Frame(body)
           g == Message!Filled(how, y)
           h == Message!FrameHeader(body)
           n == Len(body)
           p == Padded(body)
<1>1. /\ h \in Seq(Nat) /\ Len(h) \in Nat
      /\ kind \in DOMAIN Message!Code =>
           /\ Len(h) = 5 /\ h[1] = 1 /\ h[2] = Message!Code[kind]
           /\ \A i \in 1 .. 3 : h[2 + i] = Message!Big(3, n)[i]
      /\ kind \notin DOMAIN Message!Code => Len(h) = 0
    BY FrameHeaderIs
<1>2. /\ y \in Seq(Nat) /\ n \in Nat /\ p \in Nat /\ Len(y) = Len(h) + n + p
      /\ \A j \in 1 .. Len(h) : y[j] = h[j]
      /\ \A j \in 1 .. n : y[Len(h) + j] = body[j]
      /\ \A j \in Len(h) + n + 1 .. Len(y) : y[j] = 0
    BY FrameIs DEF Padded
<1>3. /\ g \in Seq(Nat) /\ Len(g) = Len(y) /\ Len(y) \in Nat
      /\ how # "padding" => g = y
      /\ how = "padding" => g[Len(y)] = 1 /\ p > 0
      /\ \A j \in 1 .. Len(y) : j < Len(y) => g[j] = y[j]
    BY <1>2, FilledIs
<1>4. /\ kind \in DOMAIN Message!Code => (Len(h) + n + p) % PadTo = 0 /\ IsMsg
      /\ kind \in Message!Codes => p = 0 /\ IsMsg
      /\ kind = "Announce" /\ Len(h) + n <= AnnounceLen => Len(h) + n + p = AnnounceLen
    <2>1. Len(h) + n \in Nat
        BY <1>1, <1>2
    <2> QED
        BY <2>1, PaddingIs DEF Padded, IsMsg, Message!TypeCode, Message!Code, Message!Codes
<1>5. kind \in DOMAIN Message!Code \/ kind \in Message!Codes \/ kind \in {"Clip", "Announce"}
    BY DEF Message!Kinds, Message!Written, Message!Code, Message!Codes
<1>6. kind \in {"Clip", "Announce"} => ~IsMsg /\ kind \notin DOMAIN Message!Code
    BY DEF IsMsg, Message!TypeCode, Message!Code
<1>7. kind \in Message!Codes => kind \notin DOMAIN Message!Code /\ kind # "Announce"
    BY DEF Message!Codes, Message!Code
<1> HIDE DEF h, y, g, n, p
<1>8. CASE kind \in DOMAIN Message!Code
    <2> DEFINE m == Len(g)
    <2>1. Len(h) = 5 /\ m = 5 + n + p /\ m \in Nat /\ 5 + n <= m /\ m % PadTo = 0
        <3>1. Len(h) = 5 /\ m = Len(h) + n + p /\ (Len(h) + n + p) % PadTo = 0
            BY <1>1, <1>2, <1>3, <1>4, <1>8
        <3>2. m % PadTo = 0
            BY <3>1
        <3> HIDE DEF m
        <3>3. m = 5 + n + p
            BY <3>1
        <3> QED
            BY <1>2, <3>1, <3>2, <3>3
    <2>2. how = "padding" => g[m] = 1 /\ m \in 1 .. m /\ m > 5 + n
        BY <1>2, <1>3, <2>1
    <2>3. \A j \in 1 .. m : j <= 5 + n => g[j] = y[j]
        <3>1. CASE how = "padding"
            <4>1. \A j \in 1 .. m : j <= 5 + n => j < m
                BY <1>2, <2>1, <2>2, <3>1
            <4> QED
                BY <1>3, <4>1
        <3>2. CASE how # "padding"
            BY <1>3, <3>2
        <3> QED
            BY <3>1, <3>2
    <2> HIDE DEF m
    <2>4. /\ g[1] = 1 /\ g[2] = Message!Code[kind]
          /\ \A i \in 1 .. 3 : g[2 + i] = Message!Big(3, n)[i]
        <3>1. \A j \in 1 .. 5 : j \in 1 .. m /\ j <= 5 + n /\ j \in 1 .. Len(h)
            BY <1>2, <2>1
        <3>2. \A j \in 1 .. 5 : g[j] = h[j]
            BY <1>2, <2>3, <3>1
        <3>3. 1 \in 1 .. 5 /\ 2 \in 1 .. 5 /\ \A i \in 1 .. 3 : 2 + i \in 1 .. 5
            OBVIOUS
        <3> QED
            BY <1>1, <1>8, <3>2, <3>3
    <2>5. \A i \in 1 .. n : g[5 + i] = body[i]
        <3>1. \A i \in 1 .. n : 5 + i \in 1 .. m /\ 5 + i <= 5 + n
            BY <1>2, <2>1
        <3>2. \A i \in 1 .. n : y[5 + i] = body[i]
            BY <1>2, <2>1
        <3> QED
            BY <2>3, <3>1, <3>2
    <2>6. m = Len(g) /\ n = Len(body)
        BY DEF m, n
    <2>7. Framed(g, body, n, m)
        BY <1>2, <1>3, <2>1, <2>4, <2>5, <2>6 DEF Framed
    <2>8. Message!Opened(g) = IF NothingBehind(g, n, m) THEN {body} ELSE {}
        BY <1>8, <2>7, BodyFound
    <2>9. how = "padding" => ~NothingBehind(g, n, m)
        BY <2>2 DEF NothingBehind
    <2>10. how # "padding" => NothingBehind(g, n, m)
        <3> SUFFICES ASSUME how # "padding", NEW i \in 1 .. m, i > 5 + n PROVE g[i] = 0
            BY DEF NothingBehind
        <3>1. i \in Len(h) + n + 1 .. Len(y)
            BY <1>2, <1>3, <2>1, <2>6
        <3> QED
            BY <1>2, <1>3, <3>1
    <2> QED
        BY <1>4, <1>8, <2>8, <2>9, <2>10 DEF g, y
<1>9. CASE kind \in Message!Codes
    <2>1. Message!Opened(g) = {g} /\ how # "padding" /\ g = y
        BY <1>3, <1>4, <1>7, <1>9 DEF Message!Opened
    <2>2. y = body
        <3>1. Len(y) = n /\ \A j \in 1 .. n : y[j] = body[j]
            BY <1>1, <1>2, <1>4, <1>7, <1>9
        <3>2. body \in Seq(Nat) /\ Len(body) = n
            BY DEF n
        <3> QED
            BY ONLY <1>2, <3>1, <3>2
    <2> QED
        BY <1>4, <1>9, <2>1, <2>2 DEF g, y
<1>10. CASE kind \in {"Clip", "Announce"}
    <2>1. Message!Opened(g) = IF kind = "Announce" /\ Len(g) # AnnounceLen THEN {} ELSE {g}
        BY <1>6, <1>10 DEF Message!Opened
    <2>2. kind = "Announce" /\ n <= AnnounceLen => Len(g) = AnnounceLen
        BY <1>1, <1>2, <1>3, <1>4, <1>6
    <2> QED
        BY <1>6, <1>10, <2>1, <2>2 DEF g, y, n
<1> QED
    BY <1>5, <1>8, <1>9, <1>10
LEMMA DamagedIs ==
    ASSUME NEW how \in Message!Damages, body \in Seq(Nat), body # <<>>
    PROVE  /\ BecameOf(how, body, Message!Damaged(how)) /\ Exactly(how, body, Message!Damaged(how))
           /\ how = "short" => IsMsg
<1>1. Len(body) \in Nat /\ Len(body) > 0
    <2>1. Len(body) \in Nat /\ Len(body) # 0
        OBVIOUS
    <2> QED
        BY <2>1
<1>2. how \in {"none", "short", "long", "version", "padding"} /\ (how = "short" => IsMsg)
    BY DEF Message!Damages, IsMsg
<1>3. CASE how \in {"none", "padding"}
    <2>1. Message!Damaged(how) = body
        BY <1>3 DEF Message!Damaged
    <2>2. (\A j \in 1 .. Len(body) : ~(j > Len(body))) /\ Kept(body, body)
        BY <1>1 DEF Kept
    <2> QED
        BY <1>1, <1>2, <1>3, <2>1, <2>2 DEF BecameOf, Exactly
<1>4. CASE how = "short"
    <2> DEFINE m == Len(body) - 1
               x == SubSeq(body, 1, m)
    <2>1. Message!Damaged(how) = x
        BY <1>4 DEF Message!Damaged
    <2>2. m \in Nat /\ 0 + m <= Len(body) /\ m + 1 = Len(body)
        BY <1>1
    <2>3. /\ SubSeq(body, 0 + 1, 0 + m) \in Seq(Nat) /\ Len(SubSeq(body, 0 + 1, 0 + m)) = m
          /\ \A j \in 1 .. m : SubSeq(body, 0 + 1, 0 + m)[j] = body[0 + j]
        <3> HIDE DEF m
        <3> QED
            BY <2>2, PartIs
    <2> HIDE DEF m
    <2>4. x \in Seq(Nat) /\ Len(x) = m /\ \A j \in 1 .. m : x[j] = body[j]
        BY <2>2, <2>3
    <2> HIDE DEF x
    <2>5. BecameOf(how, body, x) /\ Exactly(how, body, x)
        BY <1>2, <1>4, <2>2, <2>4 DEF BecameOf, Exactly, Kept
    <2> QED
        BY <1>2, <2>1, <2>5
<1>5. CASE how = "long"
    <2> DEFINE x == Append(body, 0)
    <2>1. Message!Damaged(how) = x
        BY <1>5 DEF Message!Damaged
    <2>2. /\ x \in Seq(Nat) /\ Len(x) = Len(body) + 1 /\ x[Len(body) + 1] = 0
          /\ \A j \in 1 .. Len(body) : x[j] = body[j]
        OBVIOUS
    <2> HIDE DEF x
    <2>3. Len(body) <= Len(x)
        BY <1>1, <2>2
    <2>4. \A j \in 1 .. Len(x) : j > Len(body) => j = Len(body) + 1
        BY <1>1, <2>2
    <2>5. \A j \in 1 .. Len(x) : j <= Len(body) => j \in 1 .. Len(body)
        BY <1>1, <2>2
    <2>6. BecameOf(how, body, x) /\ Exactly(how, body, x)
        BY <1>2, <1>5, <2>2, <2>3, <2>4, <2>5 DEF BecameOf, Exactly, Kept
    <2> QED
        BY <1>2, <2>1, <2>6
<1>6. CASE how = "version"
    <2> DEFINE x == [body EXCEPT ![1] = 2]
    <2>1. Message!Damaged(how) = x
        BY <1>6 DEF Message!Damaged
    <2>2. 1 \in 1 .. Len(body)
        BY <1>1
    <2>3. x \in Seq(Nat) /\ Len(x) = Len(body) /\ x[1] = 2
        BY <2>2
    <2> HIDE DEF x
    <2>4. x # <<>>
        BY <1>1, <2>3
    <2>5. BecameOf(how, body, x) /\ Exactly(how, body, x)
        BY <1>2, <1>6, <2>3, <2>4 DEF BecameOf, Exactly
    <2> QED
        BY <1>2, <2>1, <2>5
<1> QED
    BY <1>2, <1>3, <1>4, <1>5, <1>6

LEMMA HeaderIs ==
    /\ Message!TypeCode(kind) \in {"Clip", "Announce", "Msg"}
    /\ Header \in Headers /\ Message!Aad(Header) = Header
<1>1. Message!TypeCode(kind) \in {"Clip", "Announce", "Msg"}
    BY DEF Message!TypeCode
<1> QED
    BY <1>1 DEF Header, Headers, Message!Aad

(* What depends on the kind alone does not change with it.                 *)
LEMMA KindStays ==
    ASSUME UNCHANGED kind
    PROVE  /\ Header' = Header /\ IsMsg' = IsMsg /\ Message!TypeCode(kind)' = Message!TypeCode(kind)
           /\ Message!Sign(body)' = Message!Sign(body') /\ Message!Frame(body)' = Message!Frame(body')
           /\ Padded(body)' = Padded(body') /\ Message!Aad(envelope.header)' = Message!Aad(envelope'.header)
BY DEF Header, IsMsg, Padded, Message!Aad, Message!TypeCode, Message!Sign, Message!Frame,
       Message!FrameHeader, Message!Padding
LEMMA SaidSeal ==
    ASSUME Message!MessagesAssumption, SaidInv, Message!Seal
    PROVE  SaidInv'
<1>1. /\ stage = "write" /\ left = <<>> /\ stage' = "sealed"
      /\ sig' = Message!Sign(body')
      /\ UNCHANGED <<kind, left, said, heard, at>>
      /\ envelope' = [header |-> Header, aad |-> Message!Aad(Header),
                      frame |-> Message!Filled(damage', Message!Frame(body'))]
    BY DEF Message!Seal, Header
<1>2. PICK how \in Message!Damages :
          /\ how = "padding" => Padded(body) > 0
          /\ body' = Message!Damaged(how) /\ damage' = how
    BY DEF Message!Seal, Padded
<1>3. PICK rests, ends : Script(kind, said, rests, ends, body) /\ left = rests[Len(said) + 1]
    BY <1>1 DEF SaidInv, WriteInv, Writing
<1>4. kind \in Message!Kinds
    BY DEF SaidInv
<1>5. body \in Seq(Nat) /\ body # <<>>
    BY <1>1, <1>3, <1>4, ScriptEnds
<1>6. BecameOf(how, body, body') /\ Exactly(how, body, body') /\ (how = "short" => IsMsg)
    BY <1>2, <1>5, DamagedIs
<1>7. body' \in Seq(Nat)
    BY <1>6 DEF BecameOf
<1>8. /\ IsMsg' = IsMsg /\ Header' = Header
      /\ Message!Sign(body)' = Message!Sign(body') /\ Message!Frame(body)' = Message!Frame(body')
      /\ Padded(body)' = Padded(body')
    BY <1>1, KindStays
<1>9. damage' = "padding" => Padded(body') > 0 /\ Len(Message!Frame(body')) > 0
    <2> SUFFICES ASSUME damage' = "padding" PROVE Padded(body') > 0 /\ Len(Message!Frame(body')) > 0
        OBVIOUS
    <2>1. body' = body /\ Padded(body) > 0
        BY <1>2 DEF Message!Damaged
    <2>2. /\ Len(Message!Frame(body)) = Len(Message!FrameHeader(body)) + Len(body) + Padded(body)
          /\ Len(body) \in Nat /\ Padded(body) \in Nat
        BY <1>5, FrameIs DEF Padded
    <2>3. Len(Message!FrameHeader(body)) \in Nat
        BY <1>5, FrameHeaderIs
    <2> QED
        BY <2>1, <2>2, <2>3
<1>10. envelope' \in Envelopes /\ envelope'.aad = Header
    <2>1. Header \in Headers /\ Message!Aad(Header) = Header
        BY HeaderIs
    <2>2. Message!Frame(body') \in Seq(Nat)
        BY <1>7, FrameIs
    <2>3. Message!Filled(damage', Message!Frame(body')) \in Seq(Nat)
        BY <1>9, <2>2, FilledIs
    <2> HIDE DEF Header
    <2> QED
        BY <1>1, <2>1, <2>3 DEF Envelopes
<1>11. UnderItsHeader'
    BY <1>1, HeaderIs DEF UnderItsHeader, Message!Aad
<1>12. \E rs, es, w : (Under(rs, es, w) /\ Exactly(damage, w, body))'
    <2>1. \E rs, es, w : /\ Script(kind', said', rs, es, w) /\ rs[Len(said') + 1] = <<>>
                         /\ BecameOf(damage', w, body') /\ Exactly(damage', w, body')
                         /\ damage' = "short" => IsMsg'
        BY <1>1, <1>2, <1>3, <1>6, <1>8
    <2> QED
        BY <2>1 DEF Under
<1>13. SealedInv'
    <2>1. Begun'
        BY <1>1 DEF SaidInv, WriteInv, Begun
    <2>2. (damage = "padding" => Padded(body) > 0)'
        BY <1>8, <1>9
    <2>3. (envelope.frame = Message!Filled(damage, Message!Frame(body)))'
        <3>1. envelope'.frame = Message!Filled(damage', Message!Frame(body'))
            BY <1>1
        <3> QED
            BY <1>8, <3>1 DEF Message!Filled
    <2>4. (sig = Message!Sign(body))'
        BY <1>1, <1>8
    <2> QED
        BY <1>12, <2>1, <2>2, <2>3, <2>4 DEF SealedInv
<1> QED
    BY <1>1, <1>4, <1>8, <1>10, <1>11, <1>13 DEF SaidInv

LEMMA SaidRelabel ==
    ASSUME SaidInv, Message!Relabel
    PROVE  SaidInv'
<1>1. /\ stage = "sealed" /\ kind \notin Message!Codes
      /\ UNCHANGED <<kind, stage, left, said, heard, body, at, sig, damage>>
    BY DEF Message!Relabel
<1>2. envelope \in Envelopes /\ envelope.aad = Header /\ SealedInv
    BY <1>1 DEF SaidInv
<1>3. envelope' \in Envelopes /\ envelope'.aad = envelope.aad /\ envelope'.frame = envelope.frame
    <2>1. CASE envelope' = [envelope EXCEPT !.header.room = "other"]
        BY <1>2, <2>1 DEF Envelopes, Headers
    <2>2. CASE envelope' = [envelope EXCEPT !.header.id = 2]
        BY <1>2, <2>2 DEF Envelopes, Headers
    <2>3. CASE \E t \in {"Clip", "Announce", "Msg"} \ {envelope.header.type} :
                   envelope' = [envelope EXCEPT !.header.type = t]
        <3>1. PICK t \in {"Clip", "Announce", "Msg"} : envelope' = [envelope EXCEPT !.header.type = t]
            BY <2>3
        <3> QED
            BY <1>2, <3>1 DEF Envelopes, Headers
    <2> QED
        BY <2>1, <2>2, <2>3 DEF Message!Relabel
<1>4. /\ Header' = Header /\ IsMsg' = IsMsg
      /\ Message!Sign(body)' = Message!Sign(body') /\ Message!Frame(body)' = Message!Frame(body')
      /\ Padded(body)' = Padded(body')
    BY <1>1, KindStays
<1>5. SealedInv'
    <2>1. PICK rests, ends, w : Under(rests, ends, w) /\ Exactly(damage, w, body)
        BY <1>2 DEF SealedInv
    <2>2. \E rs, es, w1 : /\ Script(kind', said', rs, es, w1) /\ rs[Len(said') + 1] = <<>>
                          /\ BecameOf(damage', w1, body') /\ Exactly(damage', w1, body')
                          /\ damage' = "short" => IsMsg'
        BY <1>1, <1>4, <2>1 DEF Under
    <2>3. \E rs, es, w1 : (Under(rs, es, w1) /\ Exactly(damage, w1, body))'
        BY <2>2 DEF Under
    <2>4. (envelope.frame = Message!Filled(damage, Message!Frame(body)))'
        BY <1>1, <1>2, <1>3, <1>4 DEF SealedInv, Message!Filled
    <2> QED
        BY <1>1, <1>2, <1>4, <2>3, <2>4 DEF SealedInv, Begun
<1> QED
    BY <1>1, <1>2, <1>3, <1>4, <1>5 DEF SaidInv

(* What a clip or an announcement is read from is still what was written.  *)
LEMMA PaddedIs ==
    ASSUME Message!MessagesAssumption, kind \in Message!Kinds, ~IsMsg, NEW how,
           NEW w \in Seq(Nat), BecameOf(how, w, body), Exactly(how, w, body), how # "short",
           how = "padding" => Padded(body) > 0
    PROVE  LET g == Message!Filled(how, Message!Frame(body))
           IN  /\ BecameOf(how, w, g)
               /\ how = "padding" => Len(w) < Len(g) /\ g[Len(g)] # 0
<1> DEFINE y == Message!Frame(body)
           g == Message!Filled(how, y)
           n == Len(body)
           m == Len(w)
           p == Padded(body)
<1>1. body \in Seq(Nat) /\ n \in Nat /\ m \in Nat
    BY DEF BecameOf
<1>2. /\ y \in Seq(Nat) /\ p \in Nat /\ Len(y) = n + p
      /\ \A j \in 1 .. n : y[j] = body[j]
      /\ \A j \in n + 1 .. Len(y) : y[j] = 0
    <2>1. kind \notin DOMAIN Message!Code
        BY DEF IsMsg, Message!TypeCode, Message!Code
    <2>2. Len(Message!FrameHeader(body)) = 0
        BY <1>1, <2>1, FrameHeaderIs
    <2>3. /\ y \in Seq(Nat) /\ p \in Nat /\ Len(y) = 0 + n + p
          /\ \A j \in 1 .. n : y[0 + j] = body[j]
          /\ \A j \in 0 + n + 1 .. Len(y) : y[j] = 0
        BY <1>1, <2>2, FrameIs DEF Padded
    <2> HIDE DEF y, n, p
    <2> QED
        BY <1>1, <2>3
<1>3. /\ g \in Seq(Nat) /\ Len(g) = n + p
      /\ how # "padding" => g = y
      /\ how = "padding" => g[n + p] = 1 /\ p > 0
      /\ \A j \in 1 .. n + p : j < n + p => g[j] = y[j]
    <2>1. how = "padding" => Len(y) > 0
        BY <1>1, <1>2
    <2> HIDE DEF y, n, p
    <2>2. /\ g \in Seq(Nat) /\ Len(g) = Len(y)
          /\ how # "padding" => g = y
          /\ how = "padding" => g[Len(y)] = 1
          /\ \A j \in 1 .. Len(y) : j < Len(y) => g[j] = y[j]
        BY <1>2, <2>1, FilledIs
    <2>3. how = "padding" => p > 0
        BY DEF p
    <2> HIDE DEF g
    <2> QED
        BY <1>2, <2>2, <2>3
<1> HIDE DEF y, g, n, m, p
<1>4. CASE how = "version"
    <2>1. body # <<>> /\ body[1] = 2
        BY <1>4 DEF BecameOf
    <2>2. n > 0
        BY <1>1, <2>1 DEF n
    <2>3. g[1] = 2 /\ g # <<>>
        BY <1>1, <1>2, <1>3, <1>4, <2>1, <2>2
    <2> QED
        BY <1>3, <1>4, <2>3 DEF BecameOf, g, y
<1>5. CASE how \in {"none", "long", "padding"}
    <2>1. /\ m <= n
          /\ how \in {"none", "long"} => \A j \in 1 .. n : j > m => body[j] = 0
          /\ \A j \in 1 .. n : j <= m => body[j] = w[j]
          /\ how = "padding" => n = m
        BY <1>5 DEF BecameOf, Exactly, Kept, n, m
    <2>2. ASSUME NEW j \in 1 .. n + p, j <= m PROVE g[j] = w[j]
        <3>1. j \in 1 .. n
            BY <1>1, <1>2, <2>1, <2>2
        <3>2. g[j] = y[j]
            <4>1. CASE how = "padding"
                BY <1>1, <1>2, <1>3, <2>1, <2>2, <4>1
            <4>2. CASE how # "padding"
                BY <1>3, <4>2
            <4> QED
                BY <4>1, <4>2
        <3> QED
            BY <1>2, <2>1, <2>2, <3>1, <3>2
    <2>3. ASSUME how # "padding", NEW j \in 1 .. n + p, j > m PROVE g[j] = 0
        <3>1. CASE j <= n
            <4>1. j \in 1 .. n
                BY <1>1, <3>1
            <4> QED
                BY <1>2, <1>3, <1>5, <2>1, <2>3, <4>1
        <3>2. CASE j > n
            <4>1. j \in n + 1 .. Len(y)
                BY <1>1, <1>2, <3>2
            <4> QED
                BY <1>2, <1>3, <2>3, <4>1
        <3> QED
            BY <1>1, <3>1, <3>2
    <2>4. m <= Len(g) /\ (how = "padding" => m < Len(g) /\ g[Len(g)] # 0)
        BY <1>1, <1>2, <1>3, <2>1
    <2>5. BecameOf(how, w, g)
        BY <1>3, <1>5, <2>2, <2>3, <2>4 DEF BecameOf, Kept, m
    <2> QED
        BY <2>4, <2>5 DEF g, y, m
<1> QED
    BY <1>4, <1>5 DEF BecameOf
LEMMA CodesAreMsgs ==
    /\ kind \in Message!Codes => IsMsg
    /\ ~IsMsg => kind \notin Message!Signed
BY DEF Message!Codes, Message!Signed, IsMsg, Message!TypeCode

LEMMA SaidOpen ==
    ASSUME Message!MessagesAssumption, SaidInv, Message!Open
    PROVE  SaidInv'
<1> DEFINE g == envelope.frame
           bytes == IF kind \in Message!Codes \/ UnderItsHeader THEN Message!Opened(g) ELSE {}
<1>1. stage = "sealed" /\ UNCHANGED <<kind, said, heard, at, sig, envelope, damage>>
    BY DEF Message!Open, Message!Refuse
<1>2. \/ body' \in bytes /\ stage' = "read" /\ left' = Message!Expected[kind]
      \/ bytes = {} /\ stage' = "refused"
    BY DEF Message!Open, Message!Refuse, UnderItsHeader
<1>3. /\ kind \in Message!Kinds /\ envelope \in Envelopes /\ envelope.aad = Header
      /\ kind \in Message!Codes => UnderItsHeader
      /\ SealedInv
    BY <1>1 DEF SaidInv
<1>4. PICK rests, ends, w : Under(rests, ends, w) /\ Exactly(damage, w, body)
    BY <1>3 DEF SealedInv
<1>5. Header' = Header /\ UnderItsHeader' = UnderItsHeader /\ IsMsg' = IsMsg
    BY <1>1, KindStays DEF UnderItsHeader, Message!Aad
<1>6. /\ Script(kind, said, rests, ends, w) /\ rests[Len(said) + 1] = <<>>
      /\ BecameOf(damage, w, body) /\ Exactly(damage, w, body)
      /\ damage = "short" => IsMsg
    BY <1>4 DEF Under
<1>7. body \in Seq(Nat) /\ w \in Seq(Nat) /\ Len(said) \in Nat /\ Len(said) > 0
    BY <1>3, <1>6, ScriptEnds DEF BecameOf
<1>8. g = Message!Filled(damage, Message!Frame(body)) /\ (damage = "padding" => Padded(body) > 0)
    BY <1>3 DEF SealedInv
<1>9. /\ IsMsg => Message!Opened(g) = IF damage = "padding" THEN {} ELSE {body}
      /\ ~IsMsg => Message!Opened(g) \subseteq {g}
      /\ ~IsMsg /\ damage = "none" /\ (kind = "Announce" => Len(body) <= AnnounceLen) =>
             Message!Opened(g) = {g}
    BY <1>3, <1>7, <1>8, OpenedIs
<1>10. CASE stage' = "refused"
    <2>1. damage = "none" => Message!Opened(g) # {}
        <3> SUFFICES ASSUME damage = "none" PROVE Message!Opened(g) # {}
            OBVIOUS
        <3>1. kind = "Announce" => Len(w) <= AnnounceLen
            BY <1>6, AnnounceFits DEF Whole
        <3>2. Len(body) = Len(w)
            BY <1>6 DEF Exactly
        <3> QED
            BY <1>9, <3>1, <3>2
    <2>2. damage = "none" => ~UnderItsHeader
        BY <1>2, <1>10, <2>1
    <2> QED
        BY <1>1, <1>3, <1>5, <1>10, <2>2 DEF SaidInv
<1>11. CASE body' \in bytes /\ stage' = "read" /\ left' = Message!Expected[kind]
    <2>1. body' \in Message!Opened(g) /\ (kind \in Message!Codes \/ UnderItsHeader)
        BY <1>11
    <2>2. /\ BecameOf(damage, w, body') /\ (IsMsg => Exactly(damage, w, body'))
          /\ damage = "padding" => ~IsMsg /\ Len(w) < Len(body') /\ body'[Len(body')] # 0
          /\ sig # None => sig = Message!Sign(body')
        <3>1. CASE IsMsg
            <4>1. body' = body /\ damage # "padding"
                BY <1>9, <2>1, <3>1
            <4>2. sig = Message!Sign(body)
                BY <1>3 DEF SealedInv
            <4> QED
                BY <1>6, <3>1, <4>1, <4>2
        <3>2. CASE ~IsMsg
            <4>1. body' = g
                BY <1>9, <2>1, <3>2
            <4>2. BecameOf(damage, w, g) /\ (damage = "padding" => Len(w) < Len(g) /\ g[Len(g)] # 0)
                <5>1. damage # "short"
                    BY <1>6, <3>2
                <5> QED
                    BY <1>3, <1>6, <1>7, <1>8, <3>2, <5>1, PaddedIs
            <4>3. sig = None
                BY <1>3, <3>2, CodesAreMsgs DEF SealedInv, Message!Sign
            <4> QED
                BY <3>2, <4>1, <4>2, <4>3
        <3> QED
            BY <3>1, <3>2
    <2>3. heard' = <<>> /\ at' = 0
        BY <1>1, <1>3 DEF SealedInv, Begun
    <2>4. left' = rests[1] /\ ends[1] = 0
        BY <1>3, <1>6, <1>11, TablesAgree DEF Script
    <2>5. \E rs, es, w1 : (Under(rs, es, w1) /\ Progress(rs, es) /\ PaddingShows(w1))'
        <3>1. /\ Script(kind', said', rests, ends, w) /\ rests[Len(said') + 1] = <<>>
              /\ BecameOf(damage', w, body') /\ (IsMsg' => Exactly(damage', w, body'))
              /\ damage' = "short" => IsMsg'
              /\ damage' = "padding" => ~IsMsg' /\ Len(w) < Len(body') /\ body'[Len(body')] # 0
            BY <1>1, <1>5, <1>6, <2>2
        <3>2. /\ heard' \in Seq(Sayable) /\ Len(heard') = 0 /\ Len(heard') <= Len(said')
              /\ \A i \in 1 .. Len(heard') : heard'[i] = said'[i]
            BY <1>1, <1>7, <2>3
        <3>3. at' = ends[Len(heard') + 1] /\ left' = rests[Len(heard') + 1]
            BY <2>3, <2>4, <3>2
        <3>4. Len(heard') < Len(said')
            BY <1>1, <1>7, <3>2
        <3>5. \E rs, es, w1 :
                  /\ Script(kind', said', rs, es, w1) /\ rs[Len(said') + 1] = <<>>
                  /\ BecameOf(damage', w1, body') /\ (IsMsg' => Exactly(damage', w1, body'))
                  /\ damage' = "short" => IsMsg'
                  /\ damage' = "padding" => ~IsMsg' /\ Len(w1) < Len(body') /\ body'[Len(body')] # 0
                  /\ at' = es[Len(heard') + 1] /\ left' = rs[Len(heard') + 1]
            BY <3>1, <3>3
        <3> QED
            BY <2>3, <3>2, <3>4, <3>5 DEF Under, Progress, PaddingShows
    <2>6. ReadingInv'
        <3>1. (sig # None => sig = Message!Sign(body))'
            BY <1>1, <2>2, KindStays
        <3>2. kind' \in Message!Codes \/ UnderItsHeader'
            BY <1>1, <1>5, <2>1
        <3> QED
            BY <2>5, <3>1, <3>2 DEF ReadingInv
    <2> QED
        BY <1>1, <1>3, <1>5, <1>11, <2>6 DEF SaidInv
<1> QED
    BY <1>2, <1>10, <1>11

LEMMA ReadIs ==
    ASSUME Message!Read
    PROVE  /\ stage = "read" /\ left # <<>>
           /\ UNCHANGED <<kind, said, body, sig, envelope, damage>>
           /\ \/ stage' = "refused" /\ Message!Ends(Head(left)) = {}
              \/ \E end \in Message!Ends(Head(left)) :
                    LET v == SubSeq(body, Message!Start(Head(left)) + 1, end)
                    IN  /\ stage' = stage /\ heard' = Append(heard, Put(Head(left), v))
                        /\ left' = Message!Continues(Head(left), v) \o Tail(left)
                        /\ at' = end
BY DEF Message!Read, Message!Refuse, Message!With, Put

(* Where the reader is in the script.                                      *)
LEMMA NextInScript ==
    ASSUME Message!MessagesAssumption, NEW rests, NEW ends, NEW w, kind \in Message!Kinds,
           Under(rests, ends, w), Progress(rests, ends)
    PROVE  /\ Len(heard) \in Nat /\ Len(said) \in Nat /\ Len(heard) <= Len(said)
           /\ left # <<>> => Len(heard) < Len(said)
           /\ Len(heard) < Len(said) =>
                LET v == said[Len(heard) + 1].value
                IN  /\ left # <<>> /\ Head(left) \in Fields
                    /\ at \in Nat /\ ends[Len(heard) + 2] \in Nat
                    /\ v \in Message!Values(Head(left))
                    /\ said[Len(heard) + 1] = Put(Head(left), v)
                    /\ FieldAt(Head(left), v, at, ends[Len(heard) + 2], w)
                    /\ rests[Len(heard) + 2] = Message!Follows(Head(left), v) \o Tail(left)
<1> DEFINE m == Len(heard)
           n == Len(said)
           v == said[m + 1].value
<1>1. /\ Script(kind, said, rests, ends, w) /\ rests[n + 1] = <<>>
      /\ at = ends[m + 1] /\ left = rests[m + 1] /\ m \in Nat /\ m <= n
    BY DEF Under, Progress
<1>2. /\ said \in Seq(Sayable) /\ rests \in Seq(Seq(Fields)) /\ ends \in Seq(Nat) /\ n \in Nat
      /\ Len(rests) = n + 1 /\ Len(ends) = n + 1
    BY <1>1 DEF Script, ScriptTypes
<1> HIDE DEF m, n, v
<1>3. left # <<>> => m < n
    BY <1>1, <1>2
<1>4. ASSUME m < n
      PROVE  /\ left # <<>> /\ Head(left) \in Fields
             /\ at \in Nat /\ ends[m + 2] \in Nat
             /\ v \in Message!Values(Head(left))
             /\ said[m + 1] = Put(Head(left), v)
             /\ FieldAt(Head(left), v, at, ends[m + 2], w)
             /\ rests[m + 2] = Message!Follows(Head(left), v) \o Tail(left)
    <2>1. m + 1 \in 1 .. n /\ m + 1 \in 1 .. n + 1 /\ m + 2 \in 1 .. n + 1 /\ m + 1 + 1 = m + 2
        <3>1. m \in Nat /\ n \in Nat /\ m < n
            BY <1>1, <1>2, <1>4
        <3> QED
            BY ONLY <3>1
    <2>2. ScriptStep(m + 1, said, rests, ends, w)
        BY <1>1, <2>1 DEF Script, n
    <2>3. ends[m + 1] \in Nat /\ ends[m + 2] \in Nat /\ rests[m + 1] \in Seq(Fields)
        BY <1>2, <2>1
    <2>4. /\ left # <<>> /\ said[m + 1] = Put(Head(left), v)
          /\ FieldAt(Head(left), v, at, ends[m + 2], w)
          /\ rests[m + 2] = Message!Follows(Head(left), v) \o Tail(left)
        BY <1>1, <2>1, <2>2 DEF ScriptStep, v
    <2>5. Head(left) \in Fields
        BY <1>1, <2>3, <2>4
    <2> QED
        BY <1>1, <2>3, <2>4, <2>5 DEF FieldAt
<1> QED
    BY <1>1, <1>2, <1>3, <1>4 DEF m, n, v

(* One more value was read as it was written.                              *)
LEMMA HeardMore ==
    ASSUME NEW h, NEW s, NEW v, h \in Seq(Sayable), s \in Seq(Sayable), Len(h) < Len(s),
           \A i \in 1 .. Len(h) : h[i] = s[i], v = s[Len(h) + 1]
    PROVE  /\ Append(h, v) \in Seq(Sayable) /\ Len(Append(h, v)) = Len(h) + 1
           /\ Len(Append(h, v)) <= Len(s)
           /\ \A i \in 1 .. Len(Append(h, v)) : Append(h, v)[i] = s[i]
<1> DEFINE m == Len(h)
           n == Len(s)
<1>1. m \in Nat /\ n \in Nat /\ m < n
    OBVIOUS
<1> HIDE DEF m, n
<1>2. m + 1 \in 1 .. n /\ m + 1 <= n /\ \A i \in 1 .. m + 1 : i \in 1 .. m \/ i = m + 1
    BY <1>1
<1>3. v \in Sayable
    BY <1>2 DEF m, n
<1>4. /\ Append(h, v) \in Seq(Sayable) /\ Len(Append(h, v)) = m + 1 /\ Append(h, v)[m + 1] = v
      /\ \A i \in 1 .. m : Append(h, v)[i] = h[i]
    BY <1>3 DEF m
<1>5. \A i \in 1 .. m + 1 : Append(h, v)[i] = s[i]
    BY <1>2, <1>4 DEF m
<1> QED
    BY <1>2, <1>4, <1>5 DEF m, n
LEMMA SaidRead ==
    ASSUME Message!MessagesAssumption, SaidInv, Message!Read
    PROVE  SaidInv'
<1> DEFINE f == Head(left)
           v == said[Len(heard) + 1].value
<1>1. /\ stage = "read" /\ left # <<>>
      /\ UNCHANGED <<kind, said, body, sig, envelope, damage>>
    BY ReadIs
<1>2. /\ kind \in Message!Kinds /\ envelope \in Envelopes /\ envelope.aad = Header
      /\ kind \in Message!Codes => UnderItsHeader
      /\ ReadingInv
    BY <1>1 DEF SaidInv
<1>3. PICK rests, ends, w : Under(rests, ends, w) /\ Progress(rests, ends) /\ PaddingShows(w)
    BY <1>2 DEF ReadingInv
<1>4. Header' = Header /\ UnderItsHeader' = UnderItsHeader /\ IsMsg' = IsMsg
    BY <1>1, KindStays DEF UnderItsHeader, Message!Aad
<1> DEFINE b == ends[Len(heard) + 2]
<1>5. /\ Len(heard) \in Nat /\ Len(said) \in Nat /\ Len(heard) < Len(said)
      /\ f \in Fields /\ at \in Nat /\ b \in Nat
      /\ v \in Message!Values(f) /\ said[Len(heard) + 1] = Put(f, v) /\ FieldAt(f, v, at, b, w)
      /\ rests[Len(heard) + 2] = Message!Follows(f, v) \o Tail(left)
    BY <1>1, <1>2, <1>3, NextInScript
<1>6. /\ Script(kind, said, rests, ends, w) /\ rests[Len(said) + 1] = <<>>
      /\ BecameOf(damage, w, body) /\ (IsMsg => Exactly(damage, w, body))
      /\ damage = "short" => IsMsg
    BY <1>3 DEF Under
<1>7. /\ body \in Seq(Nat) /\ w \in Seq(Nat) /\ Len(body) \in Nat /\ Len(w) \in Nat
      /\ said \in Seq(Sayable)
    BY <1>2, <1>6, ScriptEnds DEF BecameOf, Script, ScriptTypes
<1>8. b <= Len(w)
    BY <1>5 DEF FieldAt
<1>9. Message!Ends(f) = {} /\ damage # "none" => SaidInv'
    BY <1>1, <1>2, <1>4, ReadIs DEF SaidInv
<1>10. CASE damage = "version"
    <2>1. heard = <<>> /\ body # <<>> /\ body[1] = 2
        BY <1>3, <1>6, <1>10 DEF Progress, BecameOf
    <2>2. at = 0 /\ f = Message!Version
        <3>1. Len(heard) = 0
            BY <2>1
        <3>2. at = ends[1] /\ left = rests[1]
            BY <1>3, <3>1 DEF Progress
        <3> QED
            BY <1>2, <1>6, <3>2, WrittenIs DEF Script
    <2>3. Message!Ends(f) = {}
        BY <1>7, <2>1, <2>2, VersionRead
    <2> QED
        BY <1>9, <1>10, <2>3
<1>11. CASE damage # "version" /\ b > Len(body)
    <2>1. damage = "short"
        <3>1. ~(Len(w) <= Len(body))
            BY <1>5, <1>7, <1>8, <1>11
        <3> QED
            BY <1>6, <1>11, <3>1 DEF BecameOf
    <2>2. Kept(w, body)
        BY <1>6, <1>11 DEF BecameOf
    <2> HIDE DEF f, v, b
    <2>3. \A end \in Message!Ends(f) : end = b /\ end <= Len(body)
        BY <1>5, <1>7, <2>2, EndsIs
    <2>4. Message!Ends(f) = {}
        BY <1>5, <1>7, <1>11, <2>3
    <2> QED
        BY <1>9, <2>1, <2>4
<1>12. CASE damage # "version" /\ ~(b > Len(body))
    <2> HIDE DEF f, v, b
    <2>1. b <= Len(body) /\ \A j \in 1 .. b : j \in 1 .. Len(body) /\ j <= Len(w)
        BY <1>5, <1>7, <1>8, <1>12
    <2>2. \A j \in 1 .. b : body[j] = w[j]
        BY <1>6, <1>12, <2>1 DEF BecameOf, Kept
    <2>3. Len(Message!Bytes(f, v)) \in Nat
        BY <1>5, BytesIs
    <2>4. FieldAt(f, v, at, b, body)
        BY <1>5, <1>7, <2>1, <2>2, <2>3, FieldStays
    <2>5. Message!Ends(f) = {b} /\ SubSeq(body, Message!Start(f) + 1, b) = v
        BY <1>5, <1>7, <2>4, FieldRead
    <2>6. Message!Continues(f, v) = Message!Follows(f, v)
        BY <1>5, FollowsIs
    <2>7. /\ stage' = stage /\ heard' = Append(heard, Put(f, v)) /\ at' = b
          /\ left' = Message!Follows(f, v) \o Tail(left)
        BY <2>5, <2>6, ReadIs DEF f
    <2>8. /\ heard \in Seq(Sayable) /\ \A i \in 1 .. Len(heard) : heard[i] = said[i]
        BY <1>3 DEF Progress
    <2>9. /\ heard' \in Seq(Sayable) /\ Len(heard') = Len(heard) + 1 /\ Len(heard') <= Len(said)
          /\ \A i \in 1 .. Len(heard') : heard'[i] = said[i]
        <3> DEFINE r == Put(f, v)
        <3>1. r = said[Len(heard) + 1] /\ heard' = Append(heard, r)
            BY <1>5, <2>7
        <3> HIDE DEF r
        <3> QED
            BY <1>5, <1>7, <2>8, <3>1, HeardMore
    <2>10. at' = ends[Len(heard') + 1] /\ left' = rests[Len(heard') + 1]
        <3>1. Len(heard') + 1 = Len(heard) + 2
            BY <1>5, <2>9
        <3> QED
            BY <1>5, <2>7, <3>1 DEF b
    <2>11. damage = "short" => Len(heard') < Len(said)
        <3> SUFFICES ASSUME damage = "short", ~(Len(heard') < Len(said)) PROVE FALSE
            OBVIOUS
        <3>1. Len(heard) + 2 = Len(said) + 1
            BY <1>5, <2>9
        <3>2. b = Len(w)
            BY <1>6, <3>1 DEF Script, b
        <3>3. Len(body) + 1 = Len(w)
            BY <1>6 DEF BecameOf
        <3> QED
            BY <1>7, <2>1, <3>2, <3>3
    <2>12. ReadingInv'
        <3>1. \E rs, es, w1 :
                  /\ Script(kind', said', rs, es, w1) /\ rs[Len(said') + 1] = <<>>
                  /\ BecameOf(damage', w1, body') /\ (IsMsg' => Exactly(damage', w1, body'))
                  /\ damage' = "short" => IsMsg'
                  /\ damage' = "padding" => ~IsMsg' /\ Len(w1) < Len(body') /\ body'[Len(body')] # 0
                  /\ at' = es[Len(heard') + 1] /\ left' = rs[Len(heard') + 1]
            BY <1>1, <1>3, <1>4, <1>6, <2>10 DEF PaddingShows
        <3>2. \E rs, es, w1 : (Under(rs, es, w1) /\ Progress(rs, es) /\ PaddingShows(w1))'
            BY <1>1, <1>12, <2>9, <2>11, <3>1 DEF Under, Progress, PaddingShows
        <3>3. (sig # None => sig = Message!Sign(body))'
            BY <1>1, <1>2, KindStays DEF ReadingInv
        <3>4. kind' \in Message!Codes \/ UnderItsHeader'
            BY <1>1, <1>2, <1>4 DEF ReadingInv
        <3> QED
            BY <3>2, <3>3, <3>4 DEF ReadingInv
    <2> QED
        BY <1>1, <1>2, <1>4, <2>7, <2>12 DEF SaidInv
<1> QED
    BY <1>10, <1>11, <1>12

(* At the end of the script everything was heard, and what is left of the  *)
(* bytes was not written.                                                  *)
LEMMA AllHeard ==
    ASSUME Message!MessagesAssumption, NEW rests, NEW ends, NEW w, kind \in Message!Kinds,
           Under(rests, ends, w), Progress(rests, ends), left = <<>>
    PROVE  heard = said /\ at = Len(w) /\ damage \in {"none", "long", "padding"}
<1> DEFINE m == Len(heard)
           n == Len(said)
<1>1. m \in Nat /\ n \in Nat /\ m <= n /\ ~(m < n)
    BY NextInScript
<1>2. m = n
    <2> HIDE DEF m, n
    <2> QED
        BY <1>1
<1>3. /\ Script(kind, said, rests, ends, w) /\ rests[n + 1] = <<>>
      /\ at = ends[m + 1]
      /\ heard \in Seq(Sayable) /\ \A i \in 1 .. m : heard[i] = said[i]
      /\ damage = "version" => heard = <<>>
      /\ damage = "short" => m < n
      /\ damage \in {"none", "short", "long", "version", "padding"}
    BY DEF Under, Progress, BecameOf
<1>4. n > 0
    BY <1>3, ScriptEnds
<1>5. said \in Seq(Sayable) /\ at = Len(w)
    BY <1>2, <1>3 DEF Script, ScriptTypes
<1>6. heard = said
    <2>1. heard = [i \in 1 .. m |-> heard[i]] /\ said = [i \in 1 .. n |-> said[i]]
        BY <1>3, <1>5
    <2> HIDE DEF m, n
    <2>2. [i \in 1 .. m |-> heard[i]] = [i \in 1 .. m |-> said[i]]
        BY <1>3
    <2> QED
        BY <1>2, <2>1, <2>2
<1>7. damage # "version"
    <2> SUFFICES ASSUME damage = "version" PROVE FALSE
        OBVIOUS
    <2>1. Len(heard) = 0
        BY <1>3
    <2> HIDE DEF n
    <2>2. m = 0
        BY <2>1
    <2> QED
        BY <1>2, <1>4, <2>2
<1> QED
    BY <1>1, <1>3, <1>5, <1>6, <1>7

LEMMA SaidDone ==
    ASSUME Message!MessagesAssumption, SaidInv, Message!Done
    PROVE  SaidInv'
<1> DEFINE Fit == /\ kind = "Announce" => \A i \in at + 1 .. Len(body) : body[i] = 0
                  /\ IsMsg => at = Len(body)
                  /\ sig # None => sig = Message!Sign(body)
<1>1. /\ stage = "read" /\ left = <<>> /\ heard' = heard
      /\ UNCHANGED <<kind, said, body, sig, envelope, damage>>
      /\ Fit => stage' = "accepted"
      /\ ~Fit => stage' = "refused"
    <2>1. /\ stage = "read" /\ left = <<>>
          /\ UNCHANGED <<kind, said, body, sig, envelope, damage>>
          /\ IF Fit THEN stage' = "accepted" /\ UNCHANGED <<left, heard, at>>
             ELSE Message!Refuse
        BY DEF Message!Done, IsMsg
    <2> HIDE DEF Fit
    <2> QED
        BY <2>1 DEF Message!Refuse
<1>2. /\ kind \in Message!Kinds /\ envelope \in Envelopes /\ envelope.aad = Header
      /\ kind \in Message!Codes => UnderItsHeader
      /\ ReadingInv
    BY <1>1 DEF SaidInv
<1>3. PICK rests, ends, w : Under(rests, ends, w) /\ Progress(rests, ends) /\ PaddingShows(w)
    BY <1>2 DEF ReadingInv
<1>4. Header' = Header /\ UnderItsHeader' = UnderItsHeader
    BY <1>1, KindStays DEF UnderItsHeader, Message!Aad
<1>5. heard = said /\ at = Len(w) /\ damage \in {"none", "long", "padding"}
    BY <1>1, <1>2, <1>3, AllHeard
<1>6. /\ BecameOf(damage, w, body) /\ w \in Seq(Nat) /\ Len(w) \in Nat
      /\ body \in Seq(Nat) /\ Len(body) \in Nat
      /\ IsMsg => Exactly(damage, w, body)
    BY <1>3 DEF Under, Script, ScriptTypes, BecameOf
<1>7. sig # None => sig = Message!Sign(body)
    BY <1>2 DEF ReadingInv
<1>8. damage = "none" => Fit
    <2> SUFFICES ASSUME damage = "none" PROVE Fit
        OBVIOUS
    <2>1. IsMsg => at = Len(body)
        BY <1>5, <1>6 DEF Exactly
    <2>2. ASSUME NEW i \in at + 1 .. Len(body) PROVE body[i] = 0
        <3>1. i \in 1 .. Len(body) /\ i > Len(w)
            BY <1>5, <1>6
        <3> QED
            BY <1>6, <3>1 DEF BecameOf
    <2> QED
        BY <1>7, <2>1, <2>2
<1>9. Fit /\ damage # "none" => kind = "Clip" \/ (kind = "Announce" /\ damage = "long")
    <2> SUFFICES ASSUME Fit, damage # "none" PROVE kind = "Clip" \/ (kind = "Announce" /\ damage = "long")
        OBVIOUS
    <2>1. CASE damage = "long"
        <3>1. ~IsMsg
            BY <1>5, <1>6, <2>1 DEF Exactly
        <3> QED
            BY <2>1, <3>1 DEF IsMsg, Message!TypeCode
    <2>2. CASE damage = "padding"
        <3>1. ~IsMsg /\ Len(w) < Len(body) /\ body[Len(body)] # 0
            BY <1>3, <2>2 DEF PaddingShows
        <3>2. Len(body) \in at + 1 .. Len(body)
            BY <1>5, <1>6, <3>1
        <3>3. kind # "Announce"
            BY <3>1, <3>2
        <3> QED
            BY <3>1, <3>3 DEF IsMsg, Message!TypeCode
    <2> QED
        BY <1>5, <2>1, <2>2
<1> HIDE DEF Fit
<1>10. CASE Fit
    <2>1. stage' = "accepted"
        BY <1>1, <1>10
    <2>2. kind \in Message!Codes \/ UnderItsHeader
        BY <1>2 DEF ReadingInv
    <2>3. heard' = said'
        BY <1>1, <1>5
    <2> QED
        BY <1>1, <1>2, <1>4, <1>9, <1>10, <2>1, <2>2, <2>3 DEF SaidInv
<1>11. CASE ~Fit
    <2>1. stage' = "refused" /\ damage' # "none"
        BY <1>1, <1>8, <1>11
    <2> QED
        BY <1>1, <1>2, <1>4, <2>1 DEF SaidInv
<1> QED
    BY <1>10, <1>11

LEMMA SaidStays ==
    ASSUME SaidInv, UNCHANGED Message!vars
    PROVE  SaidInv'
<1>1. UNCHANGED <<kind, stage, left, said, heard, body, at, sig, envelope, damage>>
    BY DEF Message!vars
<1>2. /\ Header' = Header /\ UnderItsHeader' = UnderItsHeader /\ IsMsg' = IsMsg /\ Begun' = Begun
      /\ Message!Sign(body)' = Message!Sign(body) /\ Message!Frame(body)' = Message!Frame(body)
      /\ Padded(body)' = Padded(body)
    BY <1>1, KindStays DEF UnderItsHeader, Begun, Message!Aad
<1>3. WriteInv => WriteInv'
    BY <1>1, <1>2 DEF WriteInv
<1>4. ASSUME NEW rests, NEW ends, NEW w, Under(rests, ends, w)
      PROVE  Under(rests, ends, w)'
    BY <1>1, <1>2, <1>4 DEF Under
<1>5. SealedInv => SealedInv'
    <2> SUFFICES ASSUME SealedInv PROVE SealedInv'
        OBVIOUS
    <2>1. PICK rests, ends, w : Under(rests, ends, w) /\ Exactly(damage, w, body)
        BY DEF SealedInv
    <2>2. \E rs, es, w1 : (Under(rs, es, w1) /\ Exactly(damage, w1, body))'
        BY <1>1, <1>4, <2>1
    <2>3. (envelope.frame = Message!Filled(damage, Message!Frame(body)))'
        BY <1>1, <1>2 DEF SealedInv, Message!Filled
    <2> QED
        BY <1>1, <1>2, <2>2, <2>3 DEF SealedInv
<1>6. ReadingInv => ReadingInv'
    <2> SUFFICES ASSUME ReadingInv PROVE ReadingInv'
        OBVIOUS
    <2>1. PICK rests, ends, w : Under(rests, ends, w) /\ Progress(rests, ends) /\ PaddingShows(w)
        BY DEF ReadingInv
    <2>2. Progress(rests, ends)' /\ PaddingShows(w)'
        BY <1>1, <1>2, <2>1 DEF Progress, PaddingShows
    <2>3. \E rs, es, w1 : (Under(rs, es, w1) /\ Progress(rs, es) /\ PaddingShows(w1))'
        BY <1>4, <2>1, <2>2
    <2> QED
        BY <1>1, <1>2, <2>3 DEF ReadingInv
<1> QED
    BY <1>1, <1>2, <1>3, <1>5, <1>6 DEF SaidInv

LEMMA SaidStep ==
    ASSUME Message!MessagesAssumption, SaidInv, [Message!Next]_(Message!vars)
    PROVE  SaidInv'
BY SaidWrite, SaidSeal, SaidRelabel, SaidOpen, SaidRead, SaidDone, SaidStays DEF Message!Next

LEMMA SaidHeard ==
    ASSUME SaidInv
    PROVE  Message!HeardIsSaid
<1> DEFINE h == envelope.header
<1>1. stage # "write" => envelope \in Envelopes /\ envelope.aad = Header
    BY DEF SaidInv
<1>2. ASSUME stage = "accepted", UnderItsHeader PROVE h = Header
    <2>1. h \in Headers /\ Message!Aad(h) = Header
        BY <1>1, <1>2 DEF Envelopes, UnderItsHeader
    <2> HIDE DEF h
    <2>2. h = [room |-> h.room, id |-> h.id, type |-> h.type]
        BY <2>1 DEF Headers
    <2> QED
        BY <2>1, <2>2 DEF Message!Aad
<1>3. damage = "none" /\ (stage # "write" => envelope.aad = Message!Aad(h)) =>
        /\ stage # "refused"
        /\ stage = "accepted" => heard = said
    BY DEF SaidInv, UnderItsHeader
<1>4. stage = "accepted" =>
        /\ \/ damage = "none"
           \/ heard = said /\ (kind = "Clip" \/ (kind = "Announce" /\ damage = "long"))
        /\ kind \in Message!Codes \/ UnderItsHeader
    BY DEF SaidInv
<1>5. stage = "accepted" => kind \in Message!Codes \/ h = [room |-> "ours", id |-> 1, type |-> Message!TypeCode(kind)]
    BY <1>2, <1>4 DEF Header
<1> QED
    BY <1>3, <1>4, <1>5 DEF Message!HeardIsSaid

(* A message this build wrote and sealed is read back as it was said, with *)
(* the fields, lengths, lists and limits its decoder has of its own, and   *)
(* is not refused; a frame with a byte missing or left over, of another    *)
(* version, padded with anything but zeros, or under a header that is not  *)
(* its own is never accepted, but for what is behind the content of a clip *)
(* and a zero more in an announcement.  It is so of texts, lists and       *)
(* blobs of any length (encode and decode of each kind, msg::open,         *)
(* build_aad).                                                             *)
THEOREM WhatIsSaidIsHeard ==
    /\ Message!Spec => []Message!HeardIsSaid
    /\ MCSpec => []HeardIsSaid
<1> DEFINE Inv == part = "messages" => SaidInv
<1>0. Message!MessagesAssumption
    BY GuardsAssumption
<1>1. Message!Init => SaidInv
    BY <1>0, SaidInit
<1>2. SaidInv /\ [Message!Next]_(Message!vars) => SaidInv'
    BY <1>0, SaidStep
<1>3. SaidInv => Message!HeardIsSaid
    BY SaidHeard
<1>4. Message!Spec => []Message!HeardIsSaid
    BY <1>1, <1>2, <1>3, PTL DEF Message!Spec
<1>5. MCSpec => []HeardIsSaid
    <2>1. MCInit => Inv
        BY <1>1, PartStarts
    <2>2. Inv /\ [MCNext]_<<part, vars, slots>> => Inv'
        BY <1>2, PartGoesOn
    <2>3. Inv => HeardIsSaid
        BY <1>3 DEF HeardIsSaid
    <2> HIDE DEF Inv
    <2> QED
        BY <2>1, <2>2, <2>3, PTL DEF MCSpec
<1> QED
    BY <1>4, <1>5

=============================================================================
