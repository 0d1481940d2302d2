---------------------------- MODULE DeviceProofs ----------------------------
(***************************************************************************)
(* Proofs about components of a device that stand for themselves: the      *)
(* images in chunks, the stored secrets, the handshake, the change of the  *)
(* account key, the list of devices, the replay guard, the history, what   *)
(* is read of marked contents, and the pacing of connection attempts.  A   *)
(* theorem is first about the component's own specification and then about *)
(* the model of all of them that the runs check, MCDevice; the components' *)
(* names for its slots are given once, below.                              *)
(***************************************************************************)
EXTENDS MCDevice, Sequences, FiniteSets, FiniteSetTheorems, TLAPS

(* The components' own names for the slots of MCDevice.                    *)
file == s1
relay == s1
out == s1
seen == s1
from == s1
left == s1
entry == s2
conn == s2
faults == s2
sealed == s2
board == s2
configured == s2
tmp == s3
phase == s3
made == s3
access == s3
heard == s3
job == s4
down == s4
pending == s4
highest == s4
registered == s4
saving == s4
at == s4
drawn == s5
up == s5
order == s5
stage == s5
shown == s5
reconnect == s5
used == s6
peers == s6
inbox == s6
sink == s6
running == s6
to == s6
last == s6
pacing == s6
current == s7
probe == s7
key == s7
saved == s7
event == s7
assembly == s7
upFor == s7
owner == s7
doubt == s8
connId == s8
known == s8
disk == s8
revision == s8
concealed == s8
begun == s8
url == s8
stray == s9
limits == s9
queue == s9
now == s9
keep == s9
offer == s9
clean == s9
state == s9
cards == s9
keychain == s10
sends == s10
using == s10
hand == s10
account == s10
back == s10
held == s10
away == s10
room == s10
pinned == s11
news == s11
restart == s11
asked == s11
moving == s11
fails == s11
stored == s11
missed == s12
written == s12
mem == s12
timer == s12
announced == s13
lost == s13
drawing == s13
lately == s13
list == s14
failures == s14
thumbs == s14
opened == s14
crashes == s15
deferred == s15
lists == s15
closed == s15
unsaved == s16
gone == s16
relisted == s17
changes == s17
enabled == s18

USE DEF file, relay, out, seen, from, left, entry, conn, faults, sealed,
    board, configured, tmp, phase, made, access, heard, job, down, pending,
    highest, registered, saving, at, drawn, up, order, stage, shown,
    reconnect, used, peers, inbox, sink, running, to, last, pacing, current,
    probe, key, saved, event, assembly, upFor, owner, doubt, connId, known,
    disk, revision, concealed, begun, url, stray, limits, queue, now, keep,
    offer, clean, state, cards, keychain, sends, using, hand, account, back,
    held, away, room, pinned, news, restart, asked, moving, fails, stored,
    missed, written, mem, timer, announced, lost, drawing, lately, list,
    thumbs, opened, lists, closed, failures, gone, crashes, changes,
    enabled, deferred, unsaved, relisted

(***************************************************************************)
(* What MCDevice does with them.  A behaviour of it is one of the          *)
(* component that its part says.                                           *)
(***************************************************************************)
LEMMA PartStarts ==
    ASSUME MCInit
    PROVE  /\ part = "images" => Image!Init
           /\ part = "history" => Past!Init
           /\ part = "offers" => Copied!Init
           /\ part = "roster" => List!Init
           /\ part = "rekey" => Change!Init
           /\ part = "secrets" => Secret!Init
           /\ part = "supervisor" => Pace!Init
           /\ part = "replay" => Guard!Init
           /\ part = "handshake" => Greet!Init
BY DEF MCInit

LEMMA PartGoesOn ==
    ASSUME [MCNext]_<<part, slots>>
    PROVE  /\ part' = part
           /\ part = "images" => [Image!Next]_(Image!vars)
           /\ part = "history" => [Past!Next]_(Past!vars)
           /\ part = "offers" => [Copied!Next]_(Copied!vars)
           /\ part = "roster" => [List!Next]_(List!vars)
           /\ part = "rekey" => [Change!Next]_(Change!vars)
           /\ part = "secrets" => [Secret!Next]_(Secret!vars)
           /\ part = "supervisor" => [Pace!Next]_(Pace!vars)
           /\ part = "replay" => [Guard!Next]_(Guard!vars)
           /\ part = "handshake" => [Greet!Next]_(Greet!vars)
<1>1. CASE UNCHANGED <<part, slots>>
    <2>1. /\ UNCHANGED part
          /\ UNCHANGED <<s1, s2, s3, s4, s5, s6, s7, s8, s9, s10, s11, s12, s13, s14, s15, s16,
                         s17, s18>>
        BY <1>1 DEF slots
    <2>2. UNCHANGED Image!vars
        BY <2>1 DEF Image!vars
    <2>3. UNCHANGED Past!vars
        BY <2>1 DEF Past!vars, Past!store, Past!screen, Past!bounds
    <2>4. UNCHANGED Copied!vars
        BY <2>1 DEF Copied!vars
    <2>5. UNCHANGED Change!vars
        BY <2>1 DEF Change!vars, Change!wire, Change!record
    <2>6. UNCHANGED Secret!vars
        BY <2>1 DEF Secret!vars
    <2>7. UNCHANGED Pace!vars
        BY <2>1 DEF Pace!vars
    <2>8. UNCHANGED Guard!vars
        BY <2>1 DEF Guard!vars
    <2>9. UNCHANGED Greet!vars
        BY <2>1 DEF Greet!vars
    <2>10. UNCHANGED List!vars
        BY <2>1 DEF List!vars, List!relay, List!list
    <2> QED
        BY <2>1, <2>2, <2>3, <2>4, <2>5, <2>6, <2>7, <2>8, <2>9, <2>10
<1>2. CASE MCNext
    BY <1>2 DEF MCNext
<1> QED
    BY <1>1, <1>2

(***************************************************************************)
(* The stored secrets.  Where the keychain, once there, is not gone again, *)
(* its entry and the file are each the value last stored or one that an    *)
(* operation cut short was storing, or the person was told of a file that  *)
(* is left.                                                                *)
(***************************************************************************)
Stored == {None} \cup [account : 1 .. used, device : Nat \cup {None}]

Steps == {"idle", "keychain", "shred", "unlink", "write", "rename", "delete", "forget"}
Dropping == {"shred", "unlink"}

StoreTypes ==
    /\ keychain \in {"open", "locked", "absent"}
    /\ used \in 0 .. MaxAccounts /\ drawn \in Nat
    /\ entry \in Stored /\ file \in Stored \cup {Zeroed} /\ tmp \in Stored
    /\ job \in [step : Steps, value : Stored]
    /\ pinned \in [1 .. MaxAccounts -> Nat \cup {None}]
    /\ job.step \in {"idle", "delete", "forget"} => job.value = None
    /\ stray \in {"no", "crash", "told"}

(* What an operation under way has done so far. *)
StoreSteps ==
    /\ keychain = "absent" => entry = None
    /\ job.step \in {"write", "rename", "forget"} => entry = None
    /\ job.step \in Dropping => entry = job.value
    /\ job.step = "rename" => tmp = job.value
    /\ file = Zeroed => job.step = "unlink" \/ stray # "no"

(* What can be found is what was stored last, or what was being stored. *)
StoreLatest ==
    stray # "told" =>
        /\ file \in {None, Zeroed, current} \cup doubt
        /\ job.step \notin Dropping => entry \in {None, current} \cup doubt
        /\ entry = None /\ file = None /\ job.step \notin Dropping \cup {"forget"} =>
               None \in {current} \cup doubt

(* What can be found carries the device key that is pinned for its account, and one of the two   *)
(* places is empty. *)
Carries(v, pins) == v \notin {None, Zeroed} => pins[v.account] \in {None, v.device}
PinsAgree ==
    /\ \A a \in 1 .. MaxAccounts : pinned[a] # None => a <= used
    /\ stray = "no" =>
        /\ Carries(entry, pinned) /\ Carries(file, pinned) /\ Carries(job.value, pinned)
        /\ job.step \notin Dropping => entry = None \/ file = None

StoreInv == StoreTypes /\ StoreSteps /\ StoreLatest /\ PinsAgree

(* A value stays well formed as accounts are added. *)
LEMMA StoredGrows ==
    ASSUME used \in Nat, used' \in Nat, used <= used'
    PROVE  \A v \in Stored : v \in Stored'
    BY DEF Stored

(* What load finds, when it finds a key, is one of the two places. *)
LEMMA LoadedFrom ==
    ASSUME Secret!HasKeys
    PROVE  Secret!Loaded \in {entry, file} \ {None, Zeroed}
    BY DEF Secret!HasKeys, Secret!Loaded

(* What was stored is not taken for a file of zeros. *)
LEMMA StoredIsReadable ==
    ASSUME Secret!SecretsAssumption, used \in Nat
    PROVE  Zeroed \notin Stored /\ None # Zeroed
<1>1. Stored \subseteq Secret!Values \cup {None}
    BY DEF Stored, Secret!Values
<1> QED
    BY <1>1 DEF Secret!SecretsAssumption

LEMMA NoneIsReadable == None # Zeroed
    BY DeviceAssumption DEF Secret!SecretsAssumption

LEMMA CarriesNothing == \A pins : Carries(None, pins) /\ Carries(Zeroed, pins)
    BY DEF Carries

LEMMA StoreInit ==
    ASSUME Secret!SecretsAssumption, Secret!Init
    PROVE  StoreInv
<1> USE DEF Secret!SecretsAssumption
<1>1. PICK value \in {None, [account |-> 1, device |-> None]} :
        /\ entry = IF keychain = "open" THEN value ELSE None
        /\ file = IF keychain = "open" THEN None ELSE value
        /\ current = value
        /\ used = IF value = None THEN 0 ELSE 1
    BY DEF Secret!Init
<1>2. job = [step |-> "idle", value |-> None] /\ doubt = {} /\ tmp = None /\ drawn = 0
      /\ stray = "no" /\ keychain \in {"open", "absent"}
      /\ pinned = [a \in 1 .. MaxAccounts |-> None]
    BY DEF Secret!Init, Secret!Idle
<1>3. value \in Stored /\ None \in Stored
    BY <1>1 DEF Stored
<1>4. StoreTypes
    <2>1. job \in [step : Steps, value : Stored]
        BY <1>2, <1>3 DEF Steps
    <2>2. used \in 0 .. MaxAccounts /\ entry \in Stored /\ file \in Stored
        BY <1>1, <1>2, <1>3
    <2>3. pinned \in [1 .. MaxAccounts -> Nat \cup {None}]
        BY <1>2
    <2> QED
        BY <1>2, <1>3, <2>1, <2>2, <2>3 DEF StoreTypes
<1>5. StoreSteps
    BY <1>1, <1>2, StoredIsReadable, <1>3 DEF StoreSteps, Dropping
<1>6. StoreLatest
    BY <1>1, <1>2 DEF StoreLatest, Dropping
<1>7. PinsAgree
    <2>1. value # None => value.account \in 1 .. MaxAccounts
        BY <1>1
    <2> QED
        BY <1>1, <1>2, <2>1 DEF PinsAgree, Carries
<1> QED
    BY <1>4, <1>5, <1>6, <1>7 DEF StoreInv

(* An operation begins, with a value that is well formed and agrees with the pins.               *)
LEMMA StoreBegins ==
    ASSUME Secret!SecretsAssumption, StoreInv, NEW v \in Stored', NEW step \in {"keychain", "delete"},
           job = Secret!Idle, job' = [step |-> step, value |-> v], step = "delete" => v = None,
           used' \in {used, used + 1}, used' <= MaxAccounts, drawn' \in Nat,
           pinned' = pinned \/ (used' = used + 1 /\ \E k \in Nat : pinned' = [pinned EXCEPT ![used'] = k]),
           stray = "no" => Carries(v, pinned'),
           UNCHANGED <<keychain, entry, file, tmp, current, doubt, stray>>
    PROVE  StoreInv'
<1> USE DEF Secret!SecretsAssumption
<1>1. used \in Nat /\ used' \in Nat /\ used <= used' /\ used' \in 0 .. MaxAccounts
    BY DEF StoreInv, StoreTypes
<1>2. \A w \in Stored : w \in Stored'
    BY <1>1, StoredGrows
<1>3. job'.step = step /\ job'.value = v /\ job.step = "idle"
    BY DEF Secret!Idle
<1>4. pinned' \in [1 .. MaxAccounts -> Nat \cup {None}]
    BY <1>1 DEF StoreInv, StoreTypes
<1>5. StoreTypes'
    <2>1. job' \in [step : Steps, value : Stored']
        BY DEF Steps
    <2> QED
        BY <1>1, <1>2, <1>3, <1>4, <2>1 DEF StoreInv, StoreTypes
<1>6. StoreSteps'
    BY <1>3 DEF StoreInv, StoreSteps, Dropping
<1>7. StoreLatest'
    BY <1>3 DEF StoreInv, StoreLatest, Dropping
<1>8. \A w \in Stored : Carries(w, pinned) => Carries(w, pinned')
    <2> SUFFICES ASSUME NEW w \in Stored, w \notin {None, Zeroed}, Carries(w, pinned)
                 PROVE  pinned'[w.account] \in {None, w.device}
        BY DEF Carries
    <2>1. w.account \in 1 .. used
        BY DEF Stored
    <2>2. pinned'[w.account] = pinned[w.account]
        BY <1>1, <2>1 DEF StoreInv, StoreTypes
    <2> QED
        BY <2>2 DEF Carries
<1>9. PinsAgree'
    <2>1. \A a \in 1 .. MaxAccounts : pinned'[a] # None => a <= used'
        BY <1>1 DEF StoreInv, StoreTypes, PinsAgree
    <2> QED
        BY <1>3, <1>8, <2>1, CarriesNothing DEF StoreInv, StoreTypes, PinsAgree, Dropping
<1> QED
    BY <1>5, <1>6, <1>7, <1>9 DEF StoreInv

LEMMA StoreJoin ==
    ASSUME Secret!SecretsAssumption, StoreInv, Secret!Join
    PROVE  StoreInv'
<1> USE DEF Secret!SecretsAssumption
<1>1. /\ used' = used + 1 /\ used < MaxAccounts /\ drawn' = drawn + 1 /\ job = Secret!Idle
      /\ job' = [step |-> "keychain", value |-> [account |-> used', device |-> drawn']]
      /\ UNCHANGED <<keychain, entry, file, tmp, current, doubt, stray, pinned>>
    BY DEF Secret!Join, Secret!Draw, Secret!Start, Secret!disk
<1>2. used \in Nat /\ drawn \in Nat
    BY DEF StoreInv, StoreTypes
<1>3. used' <= MaxAccounts /\ drawn' \in Nat /\ used' \in 1 .. MaxAccounts /\ ~(used' <= used)
    BY <1>1, <1>2
<1>4. [account |-> used', device |-> drawn'] \in Stored'
    BY <1>1, <1>2 DEF Stored
<1>5. pinned[used'] = None
    BY <1>3 DEF StoreInv, PinsAgree
<1>6. Carries([account |-> used', device |-> drawn'], pinned')
    BY <1>1, <1>5 DEF Carries
<1> QED
    BY <1>1, <1>3, <1>4, <1>6, StoreBegins

LEMMA StoreReplaceKey ==
    ASSUME Secret!SecretsAssumption, StoreInv, Secret!ReplaceKey
    PROVE  StoreInv'
<1> USE DEF Secret!SecretsAssumption
<1> DEFINE a == Secret!Loaded.account
<1>1. /\ used' = used + 1 /\ used < MaxAccounts /\ job = Secret!Idle
      /\ job' = [step |-> "keychain", value |-> [account |-> used', device |-> pinned[a]]]
      /\ pinned' = [pinned EXCEPT ![used'] = pinned[a]]
      /\ UNCHANGED <<keychain, entry, file, tmp, current, doubt, stray, drawn>>
      /\ pinned[a] # None
    BY DEF Secret!ReplaceKey, Secret!Start, Secret!disk
<1>2. a \in 1 .. used
    BY LoadedFrom DEF Secret!ReplaceKey, StoreInv, StoreTypes, Stored
<1> HIDE DEF a
<1>3. used \in Nat /\ drawn \in Nat
    BY DEF StoreInv, StoreTypes
<1>4. used' <= MaxAccounts /\ drawn' \in Nat /\ used' \in 1 .. MaxAccounts
    BY <1>1, <1>3
<1>5. pinned[a] \in Nat
    BY <1>1, <1>2, <1>3 DEF StoreInv, StoreTypes
<1>6. [account |-> used', device |-> pinned[a]] \in Stored'
    BY <1>1, <1>3, <1>5 DEF Stored
<1>7. pinned'[used'] = pinned[a]
    BY <1>1, <1>4 DEF StoreInv, StoreTypes
<1>8. Carries([account |-> used', device |-> pinned[a]], pinned')
    <2>1. PICK v : v = [account |-> used', device |-> pinned[a]]
        OBVIOUS
    <2>2. v.account = used' /\ v.device = pinned[a]
        BY <2>1
    <2>3. pinned'[v.account] \in {None, v.device}
        BY <1>7, <2>2
    <2> QED
        BY <2>1, <2>3 DEF Carries
<1> QED
    BY <1>1, <1>4, <1>5, <1>6, <1>8, StoreBegins

LEMMA StoreLoadAccount ==
    ASSUME Secret!SecretsAssumption, StoreInv, Secret!LoadAccount
    PROVE  StoreInv'
<1> USE DEF Secret!SecretsAssumption
<1> DEFINE l == Secret!Loaded
<1>1. l \in {entry, file} \ {None, Zeroed} /\ job = Secret!Idle
    BY LoadedFrom DEF Secret!LoadAccount
<1>2. UNCHANGED <<keychain, entry, file, tmp, used, current, stray>>
    BY DEF Secret!LoadAccount, Secret!disk
<1>3. l \in Stored /\ l # None
    BY <1>1 DEF StoreInv, StoreTypes
<1>4. l \in [account : 1 .. used, device : Nat \cup {None}]
    BY <1>3 DEF Stored
<1>5. CASE l.device # None
    <2>1. pinned' = [pinned EXCEPT ![l.account] = l.device] /\ UNCHANGED <<job, doubt, drawn>>
        BY <1>5 DEF Secret!LoadAccount
    <2> HIDE DEF l
    <2>2. l.account \in 1 .. used /\ l.device \in Nat /\ l.account \in 1 .. MaxAccounts
        BY <1>4, <1>5 DEF StoreInv, StoreTypes
    <2>3. StoreTypes'
        BY <1>2, <2>1, <2>2 DEF StoreInv, StoreTypes, Stored
    <2>4. StoreSteps' /\ StoreLatest'
        BY <1>2, <2>1 DEF StoreInv, StoreSteps, StoreLatest
    <2>5. \A b \in 1 .. MaxAccounts : pinned'[b] # None => b <= used'
        BY <1>2, <2>1, <2>2 DEF StoreInv, StoreTypes, PinsAgree
    <2>6. Carries(l, pinned')
        BY <2>1, <2>2 DEF Carries, StoreInv, StoreTypes
    <2>7. job.step = "idle" /\ job.value = None
        BY <1>1 DEF Secret!Idle
    <2>8. stray = "no" => entry = None \/ file = None
        BY <2>7 DEF StoreInv, PinsAgree, Dropping
    <2>9. PinsAgree'
        BY <1>1, <1>2, <2>1, <2>5, <2>6, <2>7, <2>8 DEF PinsAgree, Carries
    <2> QED
        BY <2>3, <2>4, <2>9 DEF StoreInv
<1>6. CASE l.device = None
    <2>1. /\ drawn' = drawn + 1 /\ UNCHANGED <<pinned, doubt>>
          /\ job' = [step |-> "keychain", value |-> [l EXCEPT !.device = drawn']]
        BY <1>6 DEF Secret!LoadAccount, Secret!Draw, Secret!Start
    <2> HIDE DEF l
    <2>2. drawn' \in Nat /\ used' <= MaxAccounts
        BY <1>2, <2>1 DEF StoreInv, StoreTypes
    <2>3. PICK v : v = [l EXCEPT !.device = drawn']
        OBVIOUS
    <2>4. v.account = l.account /\ v \in Stored'
        BY <1>2, <1>4, <2>2, <2>3 DEF Stored
    <2>5. stray = "no" => Carries(v, pinned')
        BY <1>1, <1>3, <1>6, <2>1, <2>4 DEF StoreInv, PinsAgree, Carries
    <2> QED
        BY <1>1, <1>2, <2>1, <2>2, <2>3, <2>4, <2>5, StoreBegins
<1> QED
    BY <1>5, <1>6
LEMMA StoreWipe ==
    ASSUME Secret!SecretsAssumption, StoreInv, Secret!Wipe
    PROVE  StoreInv'
<1>1. /\ job = Secret!Idle /\ job' = [step |-> "delete", value |-> None]
      /\ UNCHANGED <<keychain, entry, file, tmp, used, current, doubt, stray, drawn, pinned>>
    BY DEF Secret!Wipe, Secret!Start, Secret!disk
<1>2. None \in Stored' /\ Carries(None, pinned')
    BY DEF Stored, Carries
<1>3. used' <= MaxAccounts /\ drawn' \in Nat
    BY <1>1 DEF Secret!SecretsAssumption, StoreInv, StoreTypes
<1> QED
    BY <1>1, <1>2, <1>3, StoreBegins

LEMMA StoreSetPassword ==
    ASSUME StoreInv, Secret!SetPassword
    PROVE  StoreInv'
<1>1. UNCHANGED <<keychain, file, tmp, used, current, doubt, stray, drawn, pinned>>
    BY DEF Secret!SetPassword, Secret!Refused
<1>2. job.step = "keychain" /\ job.value \in Stored /\ Stored' = Stored /\ None \in Stored
    BY <1>1 DEF StoreInv, StoreTypes, Secret!SetPassword, Stored
<1>3. \/ entry' = job.value /\ job'.step = "shred" /\ job'.value = job.value /\ keychain = "open"
      \/ entry' = entry /\ job'.step = "idle" /\ job'.value = None
      \/ entry' = entry /\ job'.step = "write" /\ job'.value = job.value /\ keychain = "absent"
    BY DEF Secret!SetPassword, Secret!Refused, Secret!Idle, StoreInv, StoreTypes
<1>4. job' \in [step : Steps, value : Stored]
    BY <1>2 DEF Secret!SetPassword, Secret!Refused, Secret!Idle, StoreInv, StoreTypes, Steps
<1>5. StoreTypes'
    BY <1>1, <1>2, <1>3, <1>4 DEF StoreInv, StoreTypes
<1>6. StoreSteps'
    BY <1>1, <1>2, <1>3 DEF StoreInv, StoreSteps, Dropping
<1>7. StoreLatest'
    BY <1>1, <1>2, <1>3 DEF StoreInv, StoreLatest, Dropping
<1>8. PinsAgree'
    BY <1>1, <1>2, <1>3 DEF StoreInv, PinsAgree, Carries, Dropping
<1> QED
    BY <1>5, <1>6, <1>7, <1>8 DEF StoreInv

LEMMA StoreDelete ==
    ASSUME StoreInv, Secret!DeleteCredential
    PROVE  StoreInv'
<1>1. UNCHANGED <<keychain, file, tmp, used, current, doubt, stray, drawn, pinned>>
    BY DEF Secret!DeleteCredential, Secret!Refused
<1>2. job.step = "delete" /\ job.value = None /\ Stored' = Stored /\ None \in Stored
    BY <1>1 DEF StoreInv, StoreTypes, Secret!DeleteCredential, Stored
<1>3. \/ entry' = entry /\ job'.step = "idle" /\ job'.value = None
      \/ entry' = None /\ job'.step = "forget" /\ job'.value = None
    BY <1>2 DEF Secret!DeleteCredential, Secret!Refused, Secret!Idle, StoreInv, StoreTypes, StoreSteps
<1>4. job' \in [step : Steps, value : Stored]
    BY <1>2 DEF Secret!DeleteCredential, Secret!Refused, Secret!Idle, StoreInv, StoreTypes, Steps
<1>5. StoreTypes'
    BY <1>1, <1>2, <1>3, <1>4 DEF StoreInv, StoreTypes
<1>6. StoreSteps'
    BY <1>1, <1>2, <1>3 DEF StoreInv, StoreSteps, Dropping
<1>7. StoreLatest'
    BY <1>1, <1>2, <1>3 DEF StoreInv, StoreLatest, Dropping
<1>8. PinsAgree'
    BY <1>1, <1>2, <1>3 DEF StoreInv, PinsAgree, Carries, Dropping
<1> QED
    BY <1>5, <1>6, <1>7, <1>8 DEF StoreInv

LEMMA StoreShred ==
    ASSUME StoreInv, Secret!Shred
    PROVE  StoreInv'
<1>1. UNCHANGED <<keychain, entry, tmp, used, stray, drawn, pinned>> /\ job.step \in {"shred", "forget"}
    BY DEF Secret!Shred
<1>2. Stored' = Stored /\ None \in Stored
    BY <1>1 DEF Stored
<1>3. entry = job.value
    BY <1>1 DEF StoreInv, StoreSteps, StoreTypes, Dropping
<1>4. CASE file = None /\ Secret!Done(job.value) /\ UNCHANGED file
    <2>1. /\ job' = Secret!Idle /\ job'.step = "idle" /\ job'.value = None
          /\ current' = job.value /\ doubt' = {} /\ file' = None
        BY <1>4 DEF Secret!Done, Secret!Idle
    <2>2. StoreTypes'
        BY <1>1, <1>2, <1>4, <2>1 DEF StoreInv, StoreTypes, Secret!Idle, Steps
    <2>3. StoreSteps'
        BY <1>1, <1>4, <2>1 DEF StoreInv, StoreSteps, Dropping
    <2>4. StoreLatest'
        BY <1>1, <1>3, <1>4, <2>1 DEF StoreLatest
    <2>5. PinsAgree'
        BY <1>1, <1>4, <2>1 DEF StoreInv, PinsAgree, Carries
    <2> QED
        BY <2>2, <2>3, <2>4, <2>5 DEF StoreInv
<1>5. CASE /\ file # None /\ file' \in {file, Zeroed}
           /\ job' = [job EXCEPT !.step = "unlink"] /\ UNCHANGED <<current, doubt>>
    <2>1. job'.step = "unlink" /\ job'.value = job.value /\ job' \in [step : Steps, value : Stored]
        BY <1>5 DEF StoreInv, StoreTypes, Steps
    <2>2. StoreTypes'
        BY <1>1, <1>2, <1>5, <2>1 DEF StoreInv, StoreTypes
    <2>3. StoreSteps'
        BY <1>1, <1>3, <1>5, <2>1 DEF StoreInv, StoreSteps, Dropping
    <2>4. StoreLatest'
        BY <1>1, <1>5, <2>1 DEF StoreInv, StoreLatest, Dropping
    <2>5. PinsAgree'
        BY <1>1, <1>5, <2>1 DEF StoreInv, PinsAgree, Carries, Dropping
    <2> QED
        BY <2>2, <2>3, <2>4, <2>5 DEF StoreInv
<1> QED
    BY <1>4, <1>5 DEF Secret!Shred

LEMMA StoreUnlink ==
    ASSUME StoreInv, Secret!Unlink
    PROVE  StoreInv'
<1>1. UNCHANGED <<keychain, entry, tmp, used, drawn, pinned>> /\ job.step = "unlink"
    BY DEF Secret!Unlink
<1>2. /\ job' = Secret!Idle /\ job'.step = "idle" /\ job'.value = None
      /\ current' = job.value /\ doubt' = {}
    BY DEF Secret!Unlink, Secret!Done, Secret!Idle
<1>3. (file' = None /\ stray' = stray) \/ (file' = file /\ stray' = "told")
    BY DEF Secret!Unlink
<1>4. Stored' = Stored /\ None \in Stored
    BY <1>1 DEF Stored
<1>5. StoreTypes'
    BY <1>1, <1>2, <1>3, <1>4 DEF StoreInv, StoreTypes, Secret!Idle, Steps
<1>6. StoreSteps'
    BY <1>1, <1>2, <1>3, NoneIsReadable DEF StoreInv, StoreSteps, StoreTypes, Dropping
<1>7. entry = job.value
    BY <1>1 DEF StoreInv, StoreSteps, Dropping
<1>8. StoreLatest'
    BY <1>1, <1>2, <1>3, <1>7 DEF StoreInv, StoreLatest
<1>9. PinsAgree'
    BY <1>1, <1>2, <1>3 DEF StoreInv, PinsAgree, Carries
<1> QED
    BY <1>5, <1>6, <1>8, <1>9 DEF StoreInv

(* An operation that ends, having done what it had to or having failed, with what it was storing *)
(* in doubt.                                                                                     *)
LEMMA StoreFails ==
    ASSUME StoreInv, job' = Secret!Idle, current' = current, doubt' \in {doubt, doubt \cup {job.value}},
           UNCHANGED <<keychain, entry, file, used, drawn, pinned>>, tmp' \in Stored,
           \/ job.value \in doubt'
           \/ stray' = stray /\ job.step \notin Dropping \cup {"forget"},
           stray = "told" => stray' = "told", stray' \in {"no", "crash", "told"},
           stray' = "no" => stray = "no" /\ job.step \notin Dropping
    PROVE  StoreInv'
<1>1. job'.step = "idle" /\ job'.value = None
    BY DEF Secret!Idle
<1>2. Stored' = Stored /\ None \in Stored
    BY DEF Stored
<1>3. StoreTypes'
    BY <1>1, <1>2 DEF StoreInv, StoreTypes, Secret!Idle, Steps
<1>4. StoreSteps'
    BY <1>1 DEF StoreInv, StoreSteps, Dropping
<1>5. StoreLatest'
    <2> SUFFICES ASSUME stray # "told"
                 PROVE  /\ file \in {None, Zeroed, current} \cup doubt'
                        /\ entry \in {None, current} \cup doubt'
                        /\ entry = None /\ file = None => None \in {current} \cup doubt'
        BY <1>1 DEF StoreLatest
    <2>1. CASE job.step \in Dropping
        <3>1. job.value \in doubt' /\ entry = job.value
            BY <2>1 DEF StoreInv, StoreSteps
        <3> QED
            BY <3>1 DEF StoreInv, StoreLatest
    <2>2. CASE job.step = "forget"
        <3>1. None \in doubt'
            BY <2>2 DEF StoreInv, StoreTypes
        <3>2. job.step \notin Dropping
            BY <2>2 DEF Dropping
        <3> QED
            BY <3>1, <3>2 DEF StoreInv, StoreLatest
    <2>3. CASE job.step \notin Dropping \cup {"forget"}
        BY <2>3 DEF StoreInv, StoreLatest
    <2> QED
        BY <2>1, <2>2, <2>3
<1>6. PinsAgree'
    BY <1>1 DEF StoreInv, PinsAgree, Carries
<1> QED
    BY <1>3, <1>4, <1>5, <1>6 DEF StoreInv

LEMMA StoreWrite ==
    ASSUME StoreInv, Secret!WriteSecretFile
    PROVE  StoreInv'
<1>1. UNCHANGED <<keychain, entry, file, used, current, doubt, stray, drawn, pinned>>
      /\ job.step = "write"
    BY DEF Secret!WriteSecretFile, Secret!Refused
<1>2. CASE UNCHANGED tmp /\ Secret!Refused
    BY <1>1, <1>2, StoreFails DEF Secret!Refused, StoreInv, StoreTypes, Dropping
<1>3. CASE tmp' = job.value /\ job' = [job EXCEPT !.step = "rename"]
    <2>1. job'.step = "rename" /\ job'.value = job.value /\ job' \in [step : Steps, value : Stored]
        BY <1>3 DEF StoreInv, StoreTypes, Steps
    <2>2. Stored' = Stored /\ job.value \in Stored
        BY <1>1 DEF Stored, StoreInv, StoreTypes
    <2>3. StoreTypes'
        BY <1>1, <1>3, <2>1, <2>2 DEF StoreInv, StoreTypes
    <2>4. StoreSteps'
        BY <1>1, <1>3, <2>1 DEF StoreInv, StoreSteps, Dropping
    <2>5. StoreLatest'
        BY <1>1, <2>1 DEF StoreInv, StoreLatest, Dropping
    <2>6. PinsAgree'
        BY <1>1, <2>1 DEF StoreInv, PinsAgree, Carries, Dropping
    <2> QED
        BY <2>3, <2>4, <2>5, <2>6 DEF StoreInv
<1> QED
    BY <1>2, <1>3 DEF Secret!WriteSecretFile

LEMMA StoreRename ==
    ASSUME StoreInv, Secret!Rename
    PROVE  StoreInv'
<1>1. UNCHANGED <<keychain, entry, used, stray, drawn, pinned>> /\ job.step = "rename"
    BY DEF Secret!Rename
<1>2. CASE UNCHANGED <<file, tmp>> /\ Secret!Refused
    BY <1>1, <1>2, StoreFails DEF Secret!Refused, StoreInv, StoreTypes, Dropping
<1>3. CASE file' = tmp /\ tmp' = None /\ (Secret!Done(job.value) \/ Secret!Failed)
    <2>1. /\ job' = Secret!Idle /\ job'.step = "idle" /\ job'.value = None
          /\ \/ current' = job.value /\ doubt' = {}
             \/ current' = current /\ doubt' = doubt \cup {job.value}
        BY <1>3 DEF Secret!Done, Secret!Failed, Secret!Idle
    <2>2. file' = job.value /\ job.value \in Stored /\ entry = None
        BY <1>1, <1>3 DEF StoreInv, StoreSteps, StoreTypes
    <2>3. Stored' = Stored /\ None \in Stored
        BY <1>1 DEF Stored
    <2>4. StoreTypes'
        BY <1>1, <1>3, <2>1, <2>2, <2>3 DEF StoreInv, StoreTypes, Secret!Idle, Steps
    <2>5. job.value # Zeroed
        BY <2>2, DeviceAssumption, StoredIsReadable DEF StoreInv, StoreTypes
    <2>6. StoreSteps'
        BY <1>1, <2>1, <2>2, <2>5 DEF StoreInv, StoreSteps, Dropping
    <2>7. StoreLatest'
        BY <1>1, <2>1, <2>2 DEF StoreLatest
    <2>8. PinsAgree'
        BY <1>1, <2>1, <2>2 DEF StoreInv, PinsAgree, Carries
    <2> QED
        BY <2>4, <2>6, <2>7, <2>8 DEF StoreInv
<1> QED
    BY <1>2, <1>3 DEF Secret!Rename

(* A process killed between two steps leaves what it was storing in doubt. *)
LEMMA StoreCrash ==
    ASSUME StoreInv, Secret!Crash
    PROVE  StoreInv'
<1>1. /\ UNCHANGED <<keychain, entry, file, tmp, used, current, drawn, pinned>>
      /\ job' = Secret!Idle /\ doubt' = doubt \cup {job.value}
    BY DEF Secret!Crash, Secret!Failed, Secret!disk
<1>2. /\ stray = "told" => stray' = "told"
      /\ stray' \in {"no", "crash", "told"}
      /\ stray' = "no" => stray = "no" /\ job.step \notin Dropping \cup {"forget"}
      /\ job.step \notin Dropping \cup {"forget"} => stray' = stray
    BY DEF Secret!Crash, Dropping, StoreInv, StoreTypes
<1>3. tmp' \in Stored
    BY <1>1 DEF StoreInv, StoreTypes
<1>4. job.value \in doubt'
    BY <1>1
<1> QED
    BY <1>1, <1>2, <1>3, <1>4, StoreFails

LEMMA StoreKeychain ==
    ASSUME ~Vanishes, StoreInv, Secret!Keychain
    PROVE  StoreInv'
<1>1. /\ UNCHANGED <<entry, file, tmp, job, used, current, doubt, stray, drawn, pinned>>
      /\ keychain' \in {"open", "locked"}
    BY DEF Secret!Keychain, Secret!disk
<1> QED
    BY <1>1 DEF StoreInv, StoreTypes, StoreSteps, StoreLatest, PinsAgree, Carries, Stored, Steps

LEMMA StoreStep ==
    ASSUME Secret!SecretsAssumption, ~Vanishes, StoreInv, [Secret!Next]_(Secret!vars)
    PROVE  StoreInv'
<1>1. CASE UNCHANGED Secret!vars
    BY <1>1 DEF Secret!vars, StoreInv, StoreTypes, StoreSteps, StoreLatest, PinsAgree, Carries,
        Stored, Steps, Dropping
<1> QED
    BY <1>1, StoreJoin, StoreReplaceKey, StoreLoadAccount, StoreWipe, StoreSetPassword,
       StoreDelete, StoreShred, StoreUnlink, StoreWrite, StoreRename, StoreCrash, StoreKeychain
    DEF Secret!Next

(* Where a keychain that was there does not vanish, a start uses the keys last stored, none once *)
(* they were forgotten, or says that the keychain is locked; a crash or an error at any step of  *)
(* storing or forgetting leaves the old ones or the new ones, until the person was told of a     *)
(* file that is left.  A crash while a file is dropped may besides leave it overwritten, which   *)
(* is an error to the starts that read it (store, load, wipe).                                   *)
THEOREM StartsUseLatest ==
    ASSUME ~Vanishes
    PROVE  /\ Secret!Spec => []Secret!LoadsLatest
           /\ MCSpec => []LoadsLatest
<1>1. Secret!Init => StoreInv
    BY StoreInit, DeviceAssumption
<1>2. StoreInv /\ [Secret!Next]_(Secret!vars) => StoreInv'
    BY StoreStep, DeviceAssumption
<1>3. StoreInv => Secret!LoadsLatest
    <2> SUFFICES ASSUME StoreInv, job = Secret!Idle, stray # "told"
                 PROVE  Secret!Loaded \in {current, Locked} \cup doubt
                            \cup {e \in {Zeroed} : stray = "crash"}
        BY DEF Secret!LoadsLatest
    <2>1. job.step = "idle" /\ job.step \notin Dropping \cup {"forget"} /\ stray \in {"no", "crash"}
        BY DEF Secret!Idle, Dropping, StoreInv, StoreTypes
    <2>2. entry \in {None, current} \cup doubt
          /\ file \in {None, current} \cup doubt \cup {e \in {Zeroed} : stray = "crash"}
        BY <2>1 DEF StoreInv, StoreLatest, StoreSteps
    <2>3. entry = None /\ file = None => None \in {current} \cup doubt
        BY <2>1 DEF StoreInv, StoreLatest
    <2>4. keychain = "absent" => entry = None
        BY DEF StoreInv, StoreSteps
    <2> QED
        BY <2>2, <2>3, <2>4 DEF Secret!Loaded, StoreInv, StoreTypes
<1>4. Secret!Spec => []Secret!LoadsLatest
    BY <1>1, <1>2, <1>3, PTL DEF Secret!Spec
<1>5. MCSpec => []LoadsLatest
    <2>1. MCInit => (part = "secrets" => StoreInv)
        BY <1>1, PartStarts
    <2>2. (part = "secrets" => StoreInv) /\ [MCNext]_<<part, slots>> => (part = "secrets" => StoreInv)'
        BY <1>2, PartGoesOn
    <2>3. (part = "secrets" => StoreInv) => LoadsLatest
        BY <1>3 DEF LoadsLatest
    <2> QED
        BY <2>1, <2>2, <2>3, PTL DEF MCSpec
<1> QED
    BY <1>4, <1>5

(* As long as no crash and no error came between the storing of a key in the keychain, or its    *)
(* deletion from it, and the end of the old file, the device key the other devices have pinned   *)
(* for an account is the one every later start uses: it is stored before it is used, and a new   *)
(* key of the account keeps it (load_account, move_to_new_key).                                  *)
THEOREM DeviceKeyStays ==
    ASSUME ~Vanishes
    PROVE  /\ Secret!Spec => Secret!DeviceKeyKept
           /\ MCSpec => DeviceKeyKept
<1>1. Secret!Init => StoreInv
    BY StoreInit, DeviceAssumption
<1>2. StoreInv /\ [Secret!Next]_(Secret!vars) => StoreInv'
    BY StoreStep, DeviceAssumption
<1>3. StoreInv /\ Secret!Next => Secret!PinKept
    <2> SUFFICES ASSUME StoreInv, Secret!Next, stray = "no", NEW a \in 1 .. MaxAccounts
                 PROVE  pinned[a] \in {None, pinned'[a]}
        BY DEF Secret!PinKept
    <2>1. CASE Secret!LoadAccount
        <3>1. CASE pinned' = pinned
            BY <3>1
        <3>2. CASE Secret!Loaded.device # None
                   /\ pinned' = [pinned EXCEPT ![Secret!Loaded.account] = Secret!Loaded.device]
            <4>1. PICK l : l = Secret!Loaded
                OBVIOUS
            <4>2. l \in {entry, file} \ {None, Zeroed}
                BY <2>1, <4>1, LoadedFrom DEF Secret!LoadAccount
            <4>3. pinned[l.account] \in {None, l.device}
                BY <4>2 DEF StoreInv, PinsAgree, Carries
            <4> QED
                BY <3>2, <4>1, <4>3 DEF StoreInv, StoreTypes
        <3> QED
            BY <2>1, <3>1, <3>2 DEF Secret!LoadAccount
    <2>2. CASE Secret!ReplaceKey
        <3>1. PICK k : pinned' = [pinned EXCEPT ![used'] = k]
            BY <2>2 DEF Secret!ReplaceKey
        <3>2. used' = used + 1 /\ used \in Nat
            BY <2>2 DEF Secret!ReplaceKey, StoreInv, StoreTypes
        <3>3. a = used' => pinned[a] = None
            BY <3>2 DEF StoreInv, PinsAgree
        <3> QED
            BY <3>1, <3>3 DEF StoreInv, StoreTypes
    <2>3. CASE pinned' = pinned
        BY <2>3
    <2> QED
        BY <2>1, <2>2, <2>3
        DEF Secret!Next, Secret!Join, Secret!Wipe, Secret!SetPassword, Secret!DeleteCredential,
            Secret!Shred, Secret!Unlink, Secret!WriteSecretFile, Secret!Rename, Secret!Crash, Secret!Keychain
<1>4. StoreInv /\ [Secret!Next]_(Secret!vars) => [Secret!PinKept]_(Secret!vars)
    BY <1>3
<1>5. Secret!Spec => Secret!DeviceKeyKept
    BY <1>1, <1>2, <1>4, PTL DEF Secret!Spec, Secret!DeviceKeyKept
<1>6. MCSpec => DeviceKeyKept
    <2>1. MCInit => (part = "secrets" => StoreInv)
        BY <1>1, PartStarts
    <2>2. (part = "secrets" => StoreInv) /\ [MCNext]_<<part, slots>> => (part = "secrets" => StoreInv)'
        BY <1>2, PartGoesOn
    <2>3. (part = "secrets" => StoreInv) /\ [MCNext]_<<part, slots>>
              => (part = "secrets" => Secret!PinKept)
        BY <1>4, PartGoesOn DEF Secret!vars, Secret!PinKept
    <2> QED
        BY <2>1, <2>2, <2>3, PTL DEF MCSpec, DeviceKeyKept
<1> QED
    BY <1>5, <1>6
(***************************************************************************)
(* The handshake.  What is under way in either direction was said on this  *)
(* connection: a card names it, a copy is within what its relay allows, an *)
(* answer to auth or a refusal of a message comes from its relay.          *)
(***************************************************************************)
Greeted == phase \in {"Authenticating", "Ready"}

UpFrames ==
    [kind : {"hello", "announce"}] \cup [kind : {"msg"}, conn : Nat]
        \cup [kind : {"clip"}, size : 1 .. 2] \cup [kind : {"auth"}, nonce : Nat]
UpHere ==
    {f \in UpFrames : /\ f.kind = "msg" => f.conn = conn
                      /\ f.kind = "clip" /\ news = 0 => f.size <= relay.limit
                      /\ f.kind = "auth" => Greeted}

DownFrames ==
    [kind : {"auth_fail", "unknown_type", "clip", "hello", "newer type"}]
        \cup [kind : {"challenge"}, nonce : Nat, limit : 1 .. 2]
        \cup [kind : {"auth_ok"}, conn : Nat, peers : Nat] \cup [kind : {"presence"}, peers : Nat]
DownHere ==
    {f \in DownFrames : /\ f.kind = "auth_ok" => f.conn = conn /\ Greeted
                        /\ f.kind = "unknown_type" => "msg" \notin relay.knows
                        /\ f.kind = "challenge" /\ news = 0 => f.limit = relay.limit}

Probed == {"untried", "sent", "refused"}

GreetTypes ==
    /\ conn \in Nat /\ news \in Nat
    /\ relay \in [at : {"gone", "hello", "ready"}, knows : Greet!Relays, limit : 1 .. 2]
    /\ phase \in {"gone", "HelloSent", "Authenticating", "Ready"}
    /\ probe \in [announce : Probed, msg : Probed]

GreetInv ==
    /\ GreetTypes
    /\ up \in Seq(UpHere) /\ down \in Seq(DownHere)
    /\ phase = "Ready" => connId = conn
    /\ Greeted => limits \in 1 .. 2 /\ (news = 0 => limits = relay.limit)
    /\ probe.msg = "refused" /\ phase # "gone" => "msg" \notin relay.knows

(* The frames under way stay what they are when the connection does. *)
LEMMA FramesStay ==
    ASSUME UNCHANGED conn, relay'.knows = relay.knows, relay'.limit = relay.limit,
           Greeted => Greeted', news' = 0 => news = 0
    PROVE  /\ UpHere \subseteq UpHere' /\ DownHere \subseteq DownHere'
           /\ \A s \in Seq(UpHere) : s \in Seq(UpHere')
           /\ \A s \in Seq(DownHere) : s \in Seq(DownHere')
<1>1. UpHere \subseteq UpHere' /\ DownHere \subseteq DownHere'
    BY DEF UpHere, DownHere
<1> QED
    BY <1>1

(* What announce_frame and card_frame add. *)
LEMMA Introductions ==
    ASSUME GreetInv, Greet!Introduce(conn)
    PROVE  /\ up' \in Seq(UpHere)
           /\ probe' \in [announce : Probed, msg : Probed]
           /\ probe'.msg = "refused" => probe.msg = "refused"
<1> DEFINE a == Greet!AnnounceFrame(probe)
           c == Greet!CardFrame(a.probe, conn)
<1>1. [kind |-> "announce"] \in UpHere /\ [kind |-> "msg", conn |-> conn] \in UpHere
    BY DEF GreetInv, GreetTypes, UpHere, UpFrames
<1>2. /\ a.frames \in Seq(UpHere) /\ a.probe \in [announce : Probed, msg : Probed]
      /\ a.probe.msg = probe.msg
    BY <1>1 DEF Greet!AnnounceFrame, GreetInv, GreetTypes, Probed
<1> HIDE DEF a
<1>3. /\ c.frames \in Seq(UpHere) /\ c.probe \in [announce : Probed, msg : Probed]
      /\ c.probe.msg = "refused" => a.probe.msg = "refused"
    BY <1>1, <1>2 DEF Greet!CardFrame, Probed
<1>4. probe' = c.probe /\ up' = up \o a.frames \o c.frames
    BY DEF Greet!Introduce, a
<1> HIDE DEF c
<1>5. up' \in Seq(UpHere)
    BY <1>2, <1>3, <1>4 DEF GreetInv
<1> QED
    BY <1>2, <1>3, <1>4, <1>5

LEMMA MessageFrame ==
    ASSUME GreetInv, NEW m, m = Greet!CardFrame(probe, conn)
    PROVE  /\ m.frames \in Seq(UpHere)
           /\ m.probe \in [announce : Probed, msg : Probed]
           /\ m.probe.msg = "refused" => probe.msg = "refused"
<1>1. [kind |-> "msg", conn |-> conn] \in UpHere
    BY DEF GreetInv, GreetTypes, UpHere, UpFrames
<1>2. probe \in [announce : Probed, msg : Probed]
    BY DEF GreetInv, GreetTypes
<1>3. CASE probe.msg = "refused"
    <2>1. m = [probe |-> probe, frames |-> <<>>]
        BY <1>3 DEF Greet!CardFrame
    <2> QED
        BY <1>2, <1>3, <2>1
<1>4. CASE probe.msg # "refused"
    <2>1. m = [probe |-> [probe EXCEPT !.msg = "sent"],
               frames |-> <<[kind |-> "msg", conn |-> conn]>>]
        BY <1>4 DEF Greet!CardFrame
    <2>2. m.probe = [probe EXCEPT !.msg = "sent"] /\ m.frames \in Seq(UpHere)
        BY <1>1, <2>1
    <2> QED
        BY <1>2, <2>2 DEF Probed
<1> QED
    BY <1>3, <1>4

LEMMA GreetInit == Greet!Init => GreetInv
    BY DEF Greet!Init, GreetInv, GreetTypes, Greet!Untried, Greet!Relays, Probed, Greeted

LEMMA GreetDial ==
    ASSUME GreetInv, Greet!Dial
    PROVE  GreetInv'
<1>1. /\ phase' = "HelloSent" /\ probe' = [announce |-> "untried", msg |-> "untried"]
      /\ up' = <<[kind |-> "hello"]>> /\ down' = <<>> /\ conn' = conn + 1 /\ news' = news
    BY DEF Greet!Dial, Greet!HelloFrame, Greet!Untried
<1>2. relay' \in [at : {"gone", "hello", "ready"}, knows : Greet!Relays, limit : 1 .. 2]
    BY DEF Greet!Dial
<1>3. GreetTypes'
    BY <1>1, <1>2 DEF GreetInv, GreetTypes, Probed
<1>4. [kind |-> "hello"] \in UpHere'
    BY DEF UpHere, UpFrames
<1>5. up' \in Seq(UpHere') /\ down' \in Seq(DownHere')
    BY <1>1, <1>4
<1> QED
    BY <1>1, <1>3, <1>5 DEF GreetInv, Greeted

LEMMA GreetEnd ==
    ASSUME GreetInv, Greet!End, news' = news
    PROVE  GreetInv'
<1>1. /\ phase' = "gone" /\ relay' = [relay EXCEPT !.at = "gone"] /\ up' = <<>> /\ down' = <<>>
      /\ UNCHANGED <<conn, probe>>
    BY DEF Greet!End
<1>2. GreetTypes'
    BY <1>1 DEF GreetInv, GreetTypes
<1>3. up' \in Seq(UpHere') /\ down' \in Seq(DownHere')
    BY <1>1
<1> QED
    BY <1>1, <1>2, <1>3 DEF GreetInv, Greeted

(* A step on the connection as it is that adds well-formed frames, learns nothing new of it and  *)
(* takes no message for refused.                                                                 *)
LEMMA GreetGoesOn ==
    ASSUME GreetInv, UNCHANGED <<conn, relay, phase, connId, limits>>,
           news' \in Nat, news' = 0 => news = 0,
           up' \in Seq(UpHere) \/ up' \in Seq(UpHere'),
           down' \in Seq(DownHere) \/ down' \in Seq(DownHere'),
           probe' \in [announce : Probed, msg : Probed],
           probe'.msg = "refused" => probe.msg = "refused" \/ "msg" \notin relay.knows
    PROVE  GreetInv'
<1>1. Greeted <=> Greeted'
    BY DEF Greeted
<1>2. up' \in Seq(UpHere') /\ down' \in Seq(DownHere')
    BY <1>1, FramesStay
<1>3. GreetTypes'
    BY DEF GreetInv, GreetTypes
<1> QED
    BY <1>1, <1>2, <1>3 DEF GreetInv

LEMMA GreetSends ==
    ASSUME GreetInv, Greet!DeviceInfo \/ Greet!SendMessage \/ \E size \in 1 .. 2 : Greet!Copy(size)
    PROVE  GreetInv'
<1>1. /\ UNCHANGED <<conn, relay, phase, connId, limits, down, news>>
      /\ news' \in Nat /\ down' \in Seq(DownHere)
    BY DEF Greet!DeviceInfo, Greet!SendMessage, Greet!Copy, Greet!Sends, Greet!learned, GreetInv,
        GreetTypes
<1>2. up \in Seq(UpHere) /\ probe \in [announce : Probed, msg : Probed]
    BY DEF GreetInv, GreetTypes
<1>3. CASE UNCHANGED <<probe, up>>
    BY <1>1, <1>2, <1>3, GreetGoesOn
<1>4. CASE phase = "Ready" /\ Greet!Introduce(connId)
    BY <1>1, <1>4, Introductions, GreetGoesOn DEF GreetInv
<1>5. CASE phase = "Ready" /\ Greet!SendMessage
    <2>1. PICK m : m = Greet!CardFrame(probe, connId)
        OBVIOUS
    <2>2. probe' = m.probe /\ up' = up \o m.frames
        BY <1>5, <2>1 DEF Greet!SendMessage
    <2>3. m.frames \in Seq(UpHere) /\ m.probe \in [announce : Probed, msg : Probed]
          /\ (m.probe.msg = "refused" => probe.msg = "refused")
        BY <1>5, <2>1, MessageFrame DEF GreetInv
    <2>4. up' \in Seq(UpHere)
        BY <1>2, <2>2, <2>3
    <2> QED
        BY <1>1, <2>2, <2>3, <2>4, GreetGoesOn
<1>6. ASSUME NEW size \in 1 .. 2, phase = "Ready", size <= limits,
             up' = Append(up, [kind |-> "clip", size |-> size]), probe' = probe
      PROVE  GreetInv'
    <2>1. news = 0 => size <= relay.limit
        BY <1>6 DEF GreetInv, Greeted
    <2>2. [kind |-> "clip", size |-> size] \in UpHere
        BY <2>1 DEF UpHere, UpFrames
    <2>3. up' \in Seq(UpHere)
        BY <1>2, <1>6, <2>2
    <2> QED
        BY <1>1, <1>2, <1>6, <2>3, GreetGoesOn
<1> QED
    BY <1>3, <1>4, <1>5, <1>6 DEF Greet!DeviceInfo, Greet!SendMessage, Greet!Copy
(* What a relay that keeps to the protocol answers is about this connection. *)
LEMMA AnswersHere ==
    ASSUME GreetInv, NEW f \in UpHere, NEW answer \in Greet!Answers(f), answer # None
    PROVE  answer \in DownHere
<1>1. /\ conn \in Nat /\ relay.limit \in 1 .. 2
      /\ relay.knows \in Greet!Relays
    BY DEF GreetInv, GreetTypes
<1>2. CASE f.kind = "hello"
    <2>1. answer = [kind |-> "challenge", nonce |-> conn, limit |-> relay.limit]
        BY <1>2 DEF Greet!Answers
    <2> QED
        BY <1>1, <2>1 DEF DownHere, DownFrames
<1>3. CASE f.kind = "auth"
    <2>1. \/ answer = [kind |-> "auth_fail"]
          \/ answer = [kind |-> "auth_ok", conn |-> conn, peers |-> 1]
        BY <1>3 DEF Greet!Answers
    <2>2. Greeted
        BY <1>3 DEF UpHere
    <2>3. [kind |-> "auth_fail"] \in DownHere
        BY DEF DownHere, DownFrames
    <2>4. [kind |-> "auth_ok", conn |-> conn, peers |-> 1] \in DownHere
        BY <1>1, <2>2 DEF DownHere, DownFrames
    <2> QED
        BY <2>1, <2>3, <2>4
<1>4. CASE f.kind \in {"announce", "msg"} /\ f.kind \notin relay.knows
    <2>1. answer = [kind |-> "unknown_type"]
        BY <1>4 DEF Greet!Answers
    <2>2. "msg" \notin relay.knows
        BY <1>1, <1>4 DEF Greet!Relays
    <2>3. [kind |-> "unknown_type"] \in DownHere
        BY <2>2 DEF DownHere, DownFrames
    <2> QED
        BY <2>1, <2>3
<1>5. CASE f.kind \notin {"hello", "auth"} /\ ~(f.kind \in {"announce", "msg"} /\ f.kind \notin relay.knows)
    BY <1>5 DEF Greet!Answers
<1> QED
    BY <1>2, <1>3, <1>4, <1>5

LEMMA GreetRelayReads ==
    ASSUME GreetInv, Greet!RelayReads
    PROVE  GreetInv'
<1>1. /\ UNCHANGED <<conn, phase, connId, limits, probe, news>>
      /\ up # <<>> /\ up' = Tail(up)
    BY DEF Greet!RelayReads, Greet!learned
<1>2. Head(up) \in UpHere /\ up' \in Seq(UpHere)
    BY <1>1 DEF GreetInv
<1>3. PICK answer \in Greet!Answers(Head(up)) :
        /\ down' = IF answer = None THEN down ELSE Append(down, answer)
        /\ relay' = IF answer # None /\ answer.kind = "auth_ok" THEN [relay EXCEPT !.at = "ready"]
                    ELSE relay
    BY DEF Greet!RelayReads
<1>4. down' \in Seq(DownHere)
    BY <1>2, <1>3, AnswersHere DEF GreetInv
<1>5. /\ relay' \in [at : {"gone", "hello", "ready"}, knows : Greet!Relays, limit : 1 .. 2]
      /\ relay'.knows = relay.knows /\ relay'.limit = relay.limit
    BY <1>3 DEF GreetInv, GreetTypes
<1>6. Greeted <=> Greeted'
    BY <1>1 DEF Greeted
<1>7. up' \in Seq(UpHere') /\ down' \in Seq(DownHere')
    BY <1>1, <1>2, <1>4, <1>5, <1>6, FramesStay
<1>8. GreetTypes'
    BY <1>1, <1>5 DEF GreetInv, GreetTypes
<1> QED
    BY <1>1, <1>5, <1>6, <1>7, <1>8 DEF GreetInv

LEMMA GreetNews ==
    ASSUME GreetInv, Greet!Broadcast \/ Greet!Odd
    PROVE  GreetInv'
<1>1. UNCHANGED <<conn, relay, phase, connId, limits, probe, up>> /\ news' = news + 1
    BY DEF Greet!Broadcast, Greet!Odd, Greet!learned
<1>2. /\ news' \in Nat /\ news' # 0 /\ up' \in Seq(UpHere)
      /\ probe' \in [announce : Probed, msg : Probed]
    BY <1>1 DEF GreetInv, GreetTypes
<1>3. Greeted <=> Greeted'
    BY <1>1 DEF Greeted
<1>4. down \in Seq(DownHere')
    BY <1>1, <1>2, <1>3, FramesStay DEF GreetInv
<1>5. ASSUME NEW n \in Nat PROVE [kind |-> "presence", peers |-> n] \in DownHere'
    BY DEF DownHere, DownFrames
<1>6. ASSUME NEW k \in {"clip", "hello", "newer type"} PROVE [kind |-> k] \in DownHere'
    BY DEF DownHere, DownFrames
<1>7. [kind |-> "challenge", nonce |-> 0, limit |-> 2] \in DownHere'
    BY <1>2 DEF DownHere, DownFrames
<1>8. PICK f \in DownHere' : down' = Append(down, f)
    <2>1. CASE Greet!Broadcast
        BY <1>5, <2>1 DEF Greet!Broadcast
    <2>2. CASE Greet!Odd
        BY <1>6, <1>7, <2>2 DEF Greet!Odd
    <2> QED
        BY <2>1, <2>2
<1>9. down' \in Seq(DownHere')
    BY <1>4, <1>8
<1> QED
    BY <1>1, <1>2, <1>9, GreetGoesOn

LEMMA GreetHandleFrame ==
    ASSUME GreetInv, Greet!HandleFrame, ~Greet!OutOfOrder
    PROVE  GreetInv'
<1>1. /\ down # <<>> /\ down' = Tail(down) /\ UNCHANGED <<conn, relay, news>>
    BY DEF Greet!HandleFrame, Greet!OnChallenge, Greet!OnAuthOk, Greet!OnPresence,
        Greet!OnUnknownType, Greet!Ignore, Greet!Hears, Greet!Took
<1>2. PICK f \in DownHere : f = Head(down)
    BY <1>1 DEF GreetInv
<1>3. down' \in Seq(DownHere)
    BY <1>1 DEF GreetInv
<1>4. /\ up \in Seq(UpHere) /\ probe \in [announce : Probed, msg : Probed] /\ news' \in Nat
      /\ relay \in [at : {"gone", "hello", "ready"}, knows : Greet!Relays, limit : 1 .. 2]
    BY <1>1 DEF GreetInv, GreetTypes
<1>5. CASE Greet!OnChallenge
    <2>1. /\ f.kind = "challenge" /\ phase = "HelloSent" /\ phase' = "Authenticating"
          /\ limits' = f.limit /\ up' = Append(up, [kind |-> "auth", nonce |-> f.nonce])
          /\ probe' = probe
        BY <1>2, <1>5 DEF Greet!OnChallenge, Greet!Hears
    <2>2. f.limit \in 1 .. 2 /\ f.nonce \in Nat /\ (news = 0 => f.limit = relay.limit)
        BY <2>1 DEF DownHere, DownFrames
    <2>3. Greeted' /\ [kind |-> "auth", nonce |-> f.nonce] \in UpHere'
        BY <2>1, <2>2 DEF Greeted, UpHere, UpFrames
    <2>4. up \in Seq(UpHere') /\ down' \in Seq(DownHere')
        BY <1>1, <1>3, <1>4, <2>3, FramesStay
    <2>5. up' \in Seq(UpHere')
        BY <2>1, <2>3, <2>4
    <2>6. GreetTypes'
        BY <1>1, <2>1 DEF GreetInv, GreetTypes
    <2> QED
        BY <1>1, <2>1, <2>2, <2>4, <2>5, <2>6 DEF GreetInv
<1>6. CASE Greet!OnAuthOk
    <2>1. /\ f.kind = "auth_ok" /\ phase' = "Ready" /\ connId' = f.conn
          /\ Greet!Introduce(f.conn) /\ limits' = limits
        BY <1>2, <1>6 DEF Greet!OnAuthOk, Greet!Hears
    <2>2. f.conn = conn /\ Greeted
        BY <2>1 DEF DownHere
    <2>3. /\ up' \in Seq(UpHere) /\ probe' \in [announce : Probed, msg : Probed]
          /\ probe'.msg = "refused" => probe.msg = "refused"
        BY <2>1, <2>2, Introductions
    <2>4. Greeted'
        BY <2>1 DEF Greeted
    <2>5. up' \in Seq(UpHere') /\ down' \in Seq(DownHere')
        BY <1>1, <1>3, <2>3, <2>4, FramesStay
    <2>6. GreetTypes'
        BY <1>1, <2>1, <2>3 DEF GreetInv, GreetTypes
    <2>7. phase # "gone"
        BY <2>2 DEF Greeted
    <2> QED
        BY <1>1, <2>1, <2>2, <2>3, <2>5, <2>6, <2>7 DEF GreetInv
<1>7. CASE Greet!OnPresence
    <2>1. UNCHANGED <<phase, connId, limits>>
        BY <1>7 DEF Greet!OnPresence
    <2>2. CASE UNCHANGED <<probe, up>>
        BY <1>1, <1>3, <1>4, <2>1, <2>2, GreetGoesOn
    <2>3. CASE phase = "Ready" /\ Greet!Introduce(connId)
        BY <1>1, <1>3, <1>4, <2>1, <2>3, Introductions, GreetGoesOn DEF GreetInv
    <2> QED
        BY <1>7, <2>2, <2>3 DEF Greet!OnPresence
<1>8. CASE Greet!OnUnknownType
    <2>1. f.kind = "unknown_type" /\ UNCHANGED <<phase, connId, limits, up>>
        BY <1>2, <1>8 DEF Greet!OnUnknownType, Greet!Hears, Greet!learned
    <2>2. "msg" \notin relay.knows
        BY <2>1 DEF DownHere
    <2>3. \/ probe' = [probe EXCEPT !.msg = "refused"]
          \/ probe' = [probe EXCEPT !.announce = "refused"] \/ probe' = probe
        BY <1>8 DEF Greet!OnUnknownType
    <2>4. probe' \in [announce : Probed, msg : Probed]
        BY <1>4, <2>3 DEF Probed
    <2> QED
        BY <1>1, <1>3, <1>4, <2>1, <2>2, <2>4, GreetGoesOn
<1>9. CASE Greet!Ignore
    BY <1>1, <1>3, <1>4, <1>9, GreetGoesOn DEF Greet!Ignore, Greet!learned
<1> QED
    BY <1>5, <1>6, <1>7, <1>8, <1>9 DEF Greet!HandleFrame

LEMMA GreetStep == GreetInv /\ [Greet!Next]_(Greet!vars) => GreetInv'
<1> SUFFICES ASSUME GreetInv, [Greet!Next]_(Greet!vars) PROVE GreetInv'
    OBVIOUS
<1>1. CASE UNCHANGED Greet!vars
    <2>1. /\ UNCHANGED <<conn, relay, phase, connId, limits, probe, up, down, news>>
          /\ probe \in [announce : Probed, msg : Probed] /\ news' \in Nat
          /\ up' \in Seq(UpHere) /\ down' \in Seq(DownHere)
        BY <1>1 DEF Greet!vars, GreetInv, GreetTypes
    <2> QED
        BY <2>1, GreetGoesOn
<1>2. CASE Greet!Drop \/ Greet!OutOfOrder
    BY <1>2, GreetEnd DEF Greet!Drop, Greet!OutOfOrder
<1>3. CASE Greet!HandleFrame
    BY <1>2, <1>3, GreetHandleFrame
<1> QED
    BY <1>1, <1>2, <1>3, GreetDial, GreetSends, GreetRelayReads, GreetNews DEF Greet!Next

(* Whatever relay the last connection led to and wherever it ended: a relay that forwards        *)
(* messages is not taken for one that does not, every card sent names this connection, and       *)
(* every copy sent is within this relay's limit unless the relay itself said otherwise           *)
(* (hello_frame, card_frame, observe_local).                                                     *)
THEOREM HoldsOfThisConnection ==
    /\ Greet!Spec => []Greet!AboutThisConnection
    /\ MCSpec => []AboutThisConnection
<1>1. GreetInv => Greet!AboutThisConnection
    <2> SUFFICES ASSUME GreetInv, NEW i \in DOMAIN up
                 PROVE  /\ up[i].kind = "msg" => up[i].conn = conn
                        /\ up[i].kind = "clip" /\ news = 0 => up[i].size <= relay.limit
        BY DEF GreetInv, Greet!AboutThisConnection
    <2>1. up[i] \in UpHere
        BY DEF GreetInv
    <2> QED
        BY <2>1 DEF UpHere
<1>2. Greet!Spec => []Greet!AboutThisConnection
    BY GreetInit, GreetStep, <1>1, PTL DEF Greet!Spec
<1>3. MCSpec => []AboutThisConnection
    <2>1. MCInit => (part = "handshake" => GreetInv)
        BY GreetInit, PartStarts
    <2>2. (part = "handshake" => GreetInv) /\ [MCNext]_<<part, slots>> => (part = "handshake" => GreetInv)'
        BY GreetStep, PartGoesOn
    <2>3. (part = "handshake" => GreetInv) => AboutThisConnection
        BY <1>1 DEF AboutThisConnection
    <2> QED
        BY <2>1, <2>2, <2>3, PTL DEF MCSpec
<1> QED
    BY <1>2, <1>3
(***************************************************************************)
(* The change of the account key.  What is on its way to a device comes    *)
(* from its room; a device is in a room only if the room's key was sealed  *)
(* to it or made by it; and by the time it has moved to a key it lists     *)
(* nobody the key left out, but for those whose card came meanwhile.       *)
(***************************************************************************)
Bundles == [by : Devices, base : Nat \cup {None}, keep : SUBSET Devices, removing : SUBSET Devices]
AnyKey == Change!Keys \cup {0, None}

Holders(n) == made[n].keep \cup {made[n].by}
InRoom(d, n) == n \in Change!Keys => d \in Holders(n)

OwnKeys(d) == {n \in Change!Keys : made[n].by = d /\ made[n].base = using[d]}
SaidHere(d) == [type : {"bundle"}, key : OwnKeys(d)] \cup [type : {"leave", "card"}, from : {d}]
RoomMates(d) == {e \in Devices \ {d} : InRoom(e, using[d])}
RoomKeys(d) == {n \in Change!Keys : made[n].base = using[d]}
ComesTo(d) ==
    [type : {"sent"}, key : Change!Keys] \cup [type : {"bundle"}, key : RoomKeys(d)]
        \cup [type : {"leave"}, from : Devices] \cup [type : {"card"}, from : RoomMates(d)]

KeyTypes ==
    /\ made \in Seq(Bundles)
    /\ key \in [Devices -> AnyKey] /\ using \in [Devices -> AnyKey]
    /\ restart \in [Devices -> BOOLEAN]
    /\ list \in [Devices -> SUBSET Devices]
    /\ DOMAIN pending = Devices /\ DOMAIN queue = Devices
    /\ DOMAIN out = Devices /\ DOMAIN inbox = Devices

(* What one device is about. *)
OnItsWay(d) ==
    /\ pending[d] \in OwnKeys(d) \cup {None}
    /\ queue[d] \in Seq(OwnKeys(d))
    /\ out[d] \in Seq(SaidHere(d))
    /\ inbox[d] \in Seq(ComesTo(d))

InItsRoom(d) ==
    /\ ~restart[d] => using[d] = key[d]
    /\ InRoom(d, using[d]) /\ InRoom(d, key[d])
    /\ key[d] \in Change!Keys => InRoom(d, made[key[d]].base)

(* Nobody lists itself; a bundle is sealed to none it removes, is not made by one, and is made   *)
(* on a key before it.                                                                           *)
BundlesMakeSense ==
    /\ \A d \in Devices : d \notin list[d]
    /\ \A n \in Change!Keys :
        /\ made[n].by \notin made[n].removing
        /\ made[n].keep \cap made[n].removing = {}
        /\ made[n].base \in Nat => made[n].base < n

(* Who has a key has forgotten whom it left out, but for those whose card came. *)
ForgottenBy(d, n) == \A e \in list[d] \cap made[n].removing : <<d, n, e>> \in relisted
Forgotten ==
    \A d \in Devices, n \in Change!Keys : key[d] = n \/ using[d] = n => ForgottenBy(d, n)

SealedOut ==
    \A m, n \in Change!Keys : made[m].base = n =>
        \A e \in made[m].keep \cap made[n].removing : <<made[m].by, n, e>> \in relisted

KeyInv ==
    /\ KeyTypes /\ BundlesMakeSense /\ Forgotten /\ SealedOut
    /\ \A d \in Devices : OnItsWay(d) /\ InItsRoom(d)

LEMMA KeysAre ==
    ASSUME KeyTypes
    PROVE  Change!Keys = 1 .. Len(made) /\ Change!Keys = DOMAIN made /\ Len(made) \in Nat
    BY DEF KeyTypes, Change!Keys

LEMMA KeyInit ==
    ASSUME Change!RekeyAssumption, Change!Init
    PROVE  KeyInv
<1>1. made = <<>> /\ Change!Keys = {}
    BY DEF Change!Init, Change!Keys
<1>2. KeyTypes
    BY <1>1 DEF Change!Init, KeyTypes, AnyKey
<1>3. BundlesMakeSense
    BY <1>1 DEF Change!Init, BundlesMakeSense
<1>4. ASSUME NEW d \in Devices PROVE OnItsWay(d) /\ InItsRoom(d)
    <2>1. pending[d] = None /\ queue[d] = <<>> /\ out[d] = <<>> /\ inbox[d] = <<>>
          /\ key[d] = 0 /\ using[d] = 0
        BY DEF Change!Init
    <2> QED
        BY <1>1, <2>1 DEF OnItsWay, InItsRoom, InRoom
<1> QED
    BY <1>1, <1>2, <1>3, <1>4 DEF KeyInv, Forgotten, SealedOut

(* Who holds a key is not one of those a key under it left out.                                  *)
LEMMA KeyAnswers ==
    ASSUME KeyInv
    PROVE  Change!RemovedStaysOut
<1> SUFFICES ASSUME NEW m \in Change!Keys, NEW n \in Change!Keys, made[m].base = n,
                    NEW d \in made[n].removing
             PROVE  /\ key[d] # m
                    /\ d \in made[m].keep => <<made[m].by, n, d>> \in relisted
    BY DEF Change!RemovedStaysOut
<1>1. d \in made[m].keep => <<made[m].by, n, d>> \in relisted
    BY DEF KeyInv, SealedOut
<1>2. d \notin Holders(n)
    BY DEF KeyInv, BundlesMakeSense, Holders
<1>3. d \in Devices
    <2>1. made[n] \in Bundles
        BY KeysAre DEF KeyInv, KeyTypes
    <2> QED
        BY <2>1 DEF Bundles
<1>4. key[d] # m
    BY <1>2, <1>3 DEF KeyInv, InItsRoom, InRoom
<1> QED
    BY <1>1, <1>4

(* A step that makes no bundle, adds nobody to a list, and gives a device at most a key for      *)
(* which it has forgotten whom it left out.                                                      *)
LEMMA KeyGoesOn ==
    ASSUME KeyInv, made' = made, relisted' = relisted,
           KeyTypes', \A d \in Devices : OnItsWay(d)' /\ InItsRoom(d)',
           \A d \in Devices : list'[d] \subseteq list[d],
           \A d \in Devices, n \in Change!Keys :
               /\ key'[d] = n /\ key[d] # n => list'[d] \cap made[n].removing = {}
               /\ using'[d] = n => using[d] = n \/ key[d] = n
    PROVE  KeyInv'
<1>1. Change!Keys' = Change!Keys
    BY DEF Change!Keys
<1>2. BundlesMakeSense'
    BY <1>1 DEF KeyInv, BundlesMakeSense
<1>3. Forgotten'
    BY <1>1 DEF KeyInv, Forgotten, ForgottenBy
<1>4. SealedOut'
    BY <1>1 DEF KeyInv, SealedOut
<1> QED
    BY <1>2, <1>3, <1>4 DEF KeyInv

(* What a device's frames are about does not change while its process does not.                  *)
LEMMA RoomStays ==
    ASSUME made' = made, NEW d \in Devices, using'[d] = using[d]
    PROVE  /\ OwnKeys(d)' = OwnKeys(d) /\ SaidHere(d)' = SaidHere(d) /\ ComesTo(d)' = ComesTo(d)
           /\ Change!Keys' = Change!Keys /\ AnyKey' = AnyKey
           /\ \A e, n : InRoom(e, n)' <=> InRoom(e, n)
<1>1. Change!Keys' = Change!Keys /\ AnyKey' = AnyKey
    BY DEF Change!Keys, AnyKey
<1>2. \A n : Holders(n)' = Holders(n)
    BY DEF Holders
<1>3. OwnKeys(d)' = OwnKeys(d) /\ RoomKeys(d)' = RoomKeys(d) /\ RoomMates(d)' = RoomMates(d)
    BY <1>1, <1>2 DEF OwnKeys, RoomKeys, RoomMates, InRoom
<1>4. \A e, n : InRoom(e, n)' <=> InRoom(e, n)
    BY <1>1, <1>2 DEF InRoom
<1> QED
    BY <1>1, <1>3, <1>4 DEF SaidHere, ComesTo

(* A step that changes only what is on its way.                                                  *)
LEMMA KeyOnItsWay ==
    ASSUME KeyInv, UNCHANGED <<made, key, using, restart, list, relisted>>,
           DOMAIN pending' = Devices, DOMAIN queue' = Devices, DOMAIN out' = Devices, DOMAIN inbox' = Devices,
           \A d \in Devices : /\ pending'[d] \in OwnKeys(d) \cup {None}
                              /\ queue'[d] \in Seq(OwnKeys(d))
                              /\ out'[d] \in Seq(SaidHere(d))
                              /\ inbox'[d] \in Seq(ComesTo(d))
    PROVE  KeyInv'
<1>1. ASSUME NEW d \in Devices PROVE OnItsWay(d)' /\ InItsRoom(d)'
    <2>1. /\ OwnKeys(d)' = OwnKeys(d) /\ SaidHere(d)' = SaidHere(d) /\ ComesTo(d)' = ComesTo(d)
          /\ Change!Keys' = Change!Keys
          /\ \A e, n : InRoom(e, n)' <=> InRoom(e, n)
        BY RoomStays
    <2>2. OnItsWay(d)'
        BY <2>1 DEF OnItsWay
    <2>3. InItsRoom(d)'
        BY <2>1 DEF KeyInv, InItsRoom
    <2> QED
        BY <2>2, <2>3
<1>2. KeyTypes'
    BY DEF KeyInv, KeyTypes, AnyKey, Change!Keys
<1> QED
    BY <1>1, <1>2, KeyGoesOn


LEMMA KeyReplace ==
    ASSUME Change!RekeyAssumption, KeyInv, NEW d \in Devices, NEW removed \in SUBSET list[d],
           Change!ReplaceKey(d, removed)
    PROVE  KeyInv'
<1> DEFINE b == [by |-> d, base |-> using[d], keep |-> list[d] \ removed, removing |-> removed]
           m == Len(made) + 1
<1>1. /\ made' = Append(made, b)
      /\ pending' = [pending EXCEPT ![d] = m]
      /\ queue' = [queue EXCEPT ![d] = Append(@, m)]
      /\ UNCHANGED <<key, using, restart, list, out, inbox, relisted>>
    BY DEF Change!ReplaceKey, Change!Keepers, Change!record
<1>2. KeyTypes /\ using[d] \in AnyKey /\ list[d] \in SUBSET Devices /\ d \notin list[d]
    BY DEF KeyInv, KeyTypes, BundlesMakeSense
<1>3. Change!Keys = 1 .. Len(made) /\ Len(made) \in Nat /\ Change!Keys = DOMAIN made
    BY <1>2, KeysAre
<1>4. using[d] \in Nat \cup {None} /\ (using[d] \in Nat => using[d] < m)
    BY <1>2, <1>3 DEF AnyKey, Change!RekeyAssumption
<1>5. b \in Bundles
    BY <1>2, <1>4 DEF Bundles
<1>6. b.by = d /\ b.base = using[d] /\ b.keep = list[d] \ removed /\ b.removing = removed
    OBVIOUS
<1> HIDE DEF b
<1>7. /\ made' \in Seq(Bundles) /\ Len(made') = m /\ made'[m] = b
      /\ \A n \in Change!Keys : made'[n] = made[n]
    BY <1>1, <1>2, <1>3, <1>5 DEF KeyTypes
<1>8. /\ Change!Keys' = Change!Keys \cup {m} /\ m \notin Change!Keys /\ m \in Nat /\ m # 0
      /\ Change!Keys \subseteq Nat
    BY <1>3, <1>7 DEF Change!Keys
<1> HIDE DEF m
<1>9. AnyKey \subseteq AnyKey' /\ m \notin AnyKey
    BY <1>8 DEF AnyKey, Change!RekeyAssumption
<1>10. KeyTypes'
    BY <1>1, <1>2, <1>7, <1>9 DEF KeyTypes
<1>11. BundlesMakeSense'
    <2>1. ASSUME NEW n \in Change!Keys'
          PROVE  /\ made'[n].by \notin made'[n].removing
                 /\ made'[n].keep \cap made'[n].removing = {}
                 /\ made'[n].base \in Nat => made'[n].base < n
        <3>1. CASE n = m
            BY <1>2, <1>4, <1>6, <1>7, <3>1
        <3>2. CASE n \in Change!Keys
            BY <1>7, <3>2 DEF KeyInv, BundlesMakeSense
        <3> QED
            BY <1>8, <3>1, <3>2
    <2> QED
        BY <1>1, <2>1 DEF KeyInv, BundlesMakeSense
<1>12. ASSUME NEW e \in Devices PROVE key[e] # m /\ using[e] # m
    BY <1>2, <1>9 DEF KeyTypes
<1>13. Forgotten'
    BY <1>1, <1>7, <1>8, <1>12 DEF KeyInv, Forgotten, ForgottenBy
<1>14. \A k \in Change!Keys : made[k].base \in Nat => made[k].base # m
    <2> SUFFICES ASSUME NEW k \in Change!Keys, made[k].base \in Nat PROVE made[k].base # m
        OBVIOUS
    <2>1. made[k].base < k /\ k < m
        BY <1>3 DEF KeyInv, BundlesMakeSense, m
    <2> QED
        BY <2>1, <1>3, <1>8
<1>15. SealedOut'
    <2> SUFFICES ASSUME NEW k \in Change!Keys', NEW n \in Change!Keys', made'[k].base = n,
                        NEW e \in made'[k].keep \cap made'[n].removing
                 PROVE  <<made'[k].by, n, e>> \in relisted
        BY <1>1 DEF SealedOut
    <2>1. n \in Nat
        BY <1>8
    <2>2. CASE k = m
        <3>1. n = using[d] /\ n \in Change!Keys
            BY <1>6, <1>7, <1>8, <2>2, <1>12
        <3>2. ForgottenBy(d, n)
            BY <3>1 DEF KeyInv, Forgotten
        <3>3. e \in list[d] /\ e \in made[n].removing /\ made'[k].by = d
            BY <1>6, <1>7, <2>2, <3>1
        <3> QED
            BY <3>2, <3>3 DEF ForgottenBy
    <2>3. CASE k \in Change!Keys
        <3>1. made'[k] = made[k]
            BY <1>7, <2>3
        <3>2. n \in Change!Keys
            BY <1>8, <1>14, <2>1, <2>3, <3>1
        <3> QED
            BY <1>7, <2>3, <3>1, <3>2 DEF KeyInv, SealedOut
    <2> QED
        BY <1>8, <2>2, <2>3
<1>16. ASSUME NEW e \in Devices
       PROVE  /\ OwnKeys(e) \subseteq OwnKeys(e)' /\ SaidHere(e) \subseteq SaidHere(e)'
              /\ ComesTo(e) \subseteq ComesTo(e)'
    <2>1. OwnKeys(e) \subseteq OwnKeys(e)' /\ RoomKeys(e) \subseteq RoomKeys(e)'
        BY <1>1, <1>7, <1>8 DEF OwnKeys, RoomKeys
    <2>2. ASSUME NEW x \in Devices, InRoom(x, using[e]) PROVE InRoom(x, using[e])'
        <3>1. using[e] # m
            BY <1>12
        <3> QED
            BY <1>1, <1>7, <1>8, <2>2, <3>1 DEF InRoom, Holders
    <2>3. RoomMates(e) \subseteq RoomMates(e)'
        BY <2>2 DEF RoomMates
    <2> QED
        BY <1>8, <2>1, <2>3 DEF SaidHere, ComesTo
<1>17. m \in OwnKeys(d)'
    BY <1>1, <1>6, <1>7, <1>8 DEF OwnKeys
<1>18. ASSUME NEW e \in Devices PROVE OnItsWay(e)'
    <2>1. pending'[e] \in OwnKeys(e)' \cup {None}
        BY <1>1, <1>2, <1>16, <1>17 DEF KeyInv, OnItsWay, KeyTypes
    <2>2. queue'[e] \in Seq(OwnKeys(e)')
        <3>1. queue[e] \in Seq(OwnKeys(e)')
            BY <1>16 DEF KeyInv, OnItsWay
        <3>2. queue'[e] = IF e = d THEN Append(queue[e], m) ELSE queue[e]
            BY <1>1, <1>2 DEF KeyTypes
        <3> QED
            BY <1>17, <3>1, <3>2
    <2>3. out'[e] \in Seq(SaidHere(e)') /\ inbox'[e] \in Seq(ComesTo(e)')
        BY <1>1, <1>16 DEF KeyInv, OnItsWay
    <2> QED
        BY <2>1, <2>2, <2>3 DEF OnItsWay
<1>19. ASSUME NEW e \in Devices PROVE InItsRoom(e)'
    <2>1. ASSUME NEW n, n # m PROVE InRoom(e, n) => InRoom(e, n)'
        BY <1>7, <1>8, <2>1 DEF InRoom, Holders
    <2>2. InRoom(e, using[e])' /\ InRoom(e, key[e])' /\ (~restart'[e] => using'[e] = key'[e])
        BY <1>1, <1>12, <2>1 DEF KeyInv, InItsRoom
    <2>3. ASSUME key[e] \in Change!Keys' PROVE InRoom(e, made[key[e]].base)'
        <3>1. key[e] \in Change!Keys /\ made'[key[e]] = made[key[e]]
            BY <1>7, <1>8, <1>12, <2>3
        <3>2. made[key[e]].base # m
            BY <1>8, <1>14, <3>1
        <3> QED
            BY <1>1, <2>1, <3>1, <3>2 DEF KeyInv, InItsRoom
    <2> QED
        BY <1>1, <2>2, <2>3 DEF InItsRoom
<1> QED
    BY <1>10, <1>11, <1>13, <1>15, <1>18, <1>19 DEF KeyInv


(* A device handles a frame: it stays where it is, or it has moved to a key it holds and has     *)
(* forgotten whom that one left out.                                                             *)
LEMMA KeyHandled ==
    ASSUME KeyInv, NEW d \in Devices, UNCHANGED <<made, using, queue, out, relisted>>,
           inbox[d] # <<>>, inbox' = [inbox EXCEPT ![d] = Tail(@)],
           pending' = pending \/ pending' = [pending EXCEPT ![d] = None],
           NEW k \in AnyKey, key' = [key EXCEPT ![d] = k],
           NEW l \in SUBSET list[d], list' = [list EXCEPT ![d] = l],
           NEW r \in BOOLEAN, restart' = [restart EXCEPT ![d] = r],
           ~r => using[d] = k,
           k \in Change!Keys /\ k # key[d] =>
               InRoom(d, k) /\ InRoom(d, made[k].base) /\ l \cap made[k].removing = {}
    PROVE  KeyInv'
<1>1. KeyTypes
    BY DEF KeyInv
<1>2. KeyTypes'
    BY <1>1 DEF KeyTypes, AnyKey, Change!Keys
<1>3. ASSUME NEW e \in Devices PROVE OnItsWay(e)' /\ InItsRoom(e)'
    <2>1. /\ OwnKeys(e)' = OwnKeys(e) /\ SaidHere(e)' = SaidHere(e) /\ ComesTo(e)' = ComesTo(e)
          /\ Change!Keys' = Change!Keys /\ \A x, n : InRoom(x, n)' <=> InRoom(x, n)
        BY RoomStays
    <2>2. OnItsWay(e)
        BY DEF KeyInv
    <2>3. inbox'[e] \in Seq(ComesTo(e))
        BY <1>1, <2>2 DEF KeyTypes, OnItsWay
    <2>4. pending'[e] \in OwnKeys(e) \cup {None}
        BY <1>1, <2>2 DEF KeyTypes, OnItsWay
    <2>5. OnItsWay(e)'
        BY <2>1, <2>2, <2>3, <2>4 DEF OnItsWay
    <2>6. InItsRoom(e)
        BY DEF KeyInv
    <2>7. key'[e] = IF e = d THEN k ELSE key[e]
        BY <1>1 DEF KeyTypes
    <2>8. \/ key'[e] = key[e] /\ (~restart'[e] => using[e] = key[e])
          \/ e = d /\ key'[e] = k /\ (~restart'[e] => using[e] = k) /\ k # key[d]
        <3>1. CASE e # d
            <4>1. key'[e] = key[e]
                BY <2>7, <3>1
            <4>2. restart'[e] = restart[e]
                BY <1>1, <3>1 DEF KeyTypes
            <4>3. ~restart'[e] => using[e] = key[e]
                BY <2>6, <4>2 DEF InItsRoom
            <4> QED
                BY <4>1, <4>3
        <3>2. CASE e = d
            <4>1. key'[e] = k
                BY <2>7, <3>2
            <4>2. restart'[e] = r
                BY <1>1, <3>2 DEF KeyTypes
            <4>3. ~restart'[e] => using[e] = k
                BY <3>2, <4>2
            <4>4. CASE k = key[d]
                BY <3>2, <4>1, <4>3, <4>4
            <4>5. CASE k # key[d]
                BY <3>2, <4>1, <4>3, <4>5
            <4> QED
                BY <4>4, <4>5
        <3> QED
            BY <3>1, <3>2
    <2>9. InItsRoom(e)'
        <3>1. CASE key'[e] = key[e] /\ (~restart'[e] => using[e] = key[e])
            BY <2>1, <2>6, <3>1 DEF InItsRoom, InRoom, Holders
        <3>2. CASE e = d /\ key'[e] = k /\ (~restart'[e] => using[e] = k) /\ k # key[d]
            BY <2>1, <2>6, <3>2 DEF InItsRoom, InRoom, Holders
        <3> QED
            BY <2>8, <3>1, <3>2
    <2> QED
        BY <2>5, <2>9
<1>4. \A e \in Devices : list'[e] \subseteq list[e]
    BY <1>1 DEF KeyTypes
<1>5. ASSUME NEW e \in Devices, NEW n \in Change!Keys, key'[e] = n, key[e] # n
      PROVE  list'[e] \cap made[n].removing = {}
    BY <1>1, <1>5 DEF KeyTypes
<1> QED
    BY <1>2, <1>3, <1>4, <1>5, KeyGoesOn

(* A device hears a card.                                                                        *)
LEMMA KeyCard ==
    ASSUME KeyInv, NEW d \in Devices, NEW f \in ComesTo(d), f.type = "card",
           inbox[d] # <<>>, inbox' = [inbox EXCEPT ![d] = Tail(@)],
           UNCHANGED <<made, using, queue, out>>, Change!OnCard(d, f)
    PROVE  KeyInv'
<1>1. KeyTypes
    BY DEF KeyInv
<1>2. PICK e \in RoomMates(d) : e = f.from
    BY DEF ComesTo
<1>3. /\ list' = [list EXCEPT ![d] = @ \cup {e}]
      /\ relisted' = IF restart[d] THEN relisted \cup {<<d, key[d], e>>} ELSE relisted
      /\ UNCHANGED <<key, restart, pending>>
    BY <1>2 DEF Change!OnCard
<1>4. e \in Devices /\ e # d /\ InRoom(e, using[d])
    BY <1>2 DEF RoomMates
<1>5. KeyTypes'
    BY <1>1, <1>3, <1>4 DEF KeyTypes, AnyKey, Change!Keys
<1>6. Change!Keys' = Change!Keys
    BY DEF Change!Keys
<1>7. ASSUME NEW x \in Devices PROVE OnItsWay(x)' /\ InItsRoom(x)'
    <2>1. /\ OwnKeys(x)' = OwnKeys(x) /\ SaidHere(x)' = SaidHere(x) /\ ComesTo(x)' = ComesTo(x)
          /\ \A y, n : InRoom(y, n)' <=> InRoom(y, n)
        BY RoomStays
    <2>2. OnItsWay(x) /\ InItsRoom(x)
        BY DEF KeyInv
    <2>3. inbox'[x] \in Seq(ComesTo(x))
        BY <1>1, <2>2 DEF KeyTypes, OnItsWay
    <2>4. OnItsWay(x)'
        BY <1>3, <2>1, <2>2, <2>3 DEF OnItsWay
    <2>5. InItsRoom(x)'
        BY <1>3, <1>6, <2>1, <2>2 DEF InItsRoom
    <2> QED
        BY <2>4, <2>5
<1>8. BundlesMakeSense'
    BY <1>1, <1>3, <1>4, <1>6 DEF KeyInv, BundlesMakeSense, KeyTypes
<1>9. SealedOut'
    BY <1>3, <1>6 DEF KeyInv, SealedOut
<1>10. Forgotten'
    <2> SUFFICES ASSUME NEW x \in Devices, NEW n \in Change!Keys, key[x] = n \/ using[x] = n,
                        NEW y \in list'[x] \cap made[n].removing
                 PROVE  <<x, n, y>> \in relisted'
        BY <1>3, <1>6 DEF Forgotten, ForgottenBy
    <2>1. CASE y \in list[x]
        <3>1. <<x, n, y>> \in relisted
            BY <2>1 DEF KeyInv, Forgotten, ForgottenBy
        <3> QED
            BY <1>3, <3>1
    <2>2. CASE y \notin list[x]
        <3>1. x = d /\ y = e
            BY <1>1, <1>3, <2>2 DEF KeyTypes
        <3>2. using[d] # n
            <4>1. e \notin Holders(n)
                BY <3>1 DEF KeyInv, BundlesMakeSense, Holders
            <4> QED
                BY <1>4, <4>1 DEF InRoom
        <3>3. key[d] = n /\ restart[d]
            BY <3>1, <3>2 DEF KeyInv, InItsRoom
        <3> QED
            BY <1>3, <3>1, <3>3
    <2> QED
        BY <2>1, <2>2
<1> QED
    BY <1>5, <1>7, <1>8, <1>9, <1>10 DEF KeyInv

LEMMA KeyHandle ==
    ASSUME Change!RekeyAssumption, KeyInv, NEW d \in Devices, Change!Handle(d)
    PROVE  KeyInv'
<1>1. KeyTypes /\ UNCHANGED <<made, using, queue, out>> /\ inbox[d] # <<>>
      /\ inbox' = [inbox EXCEPT ![d] = Tail(@)]
    BY DEF KeyInv, Change!Handle
<1>2. PICK f : f = Head(inbox[d])
    OBVIOUS
<1>3. f \in ComesTo(d) /\ OnItsWay(d) /\ InItsRoom(d)
    BY <1>1, <1>2 DEF KeyInv, OnItsWay
<1>4. Change!OnSent(d, f) \/ Change!OnBundle(d, f) \/ Change!OnLeave(d, f) \/ Change!OnCard(d, f)
    BY <1>2 DEF Change!Handle
<1>5. CASE Change!OnCard(d, f)
    BY <1>1, <1>3, <1>5, KeyCard DEF Change!OnCard
<1>6. key[d] \in AnyKey /\ list[d] \in SUBSET list[d] /\ restart[d] \in BOOLEAN
      /\ key = [key EXCEPT ![d] = key[d]] /\ list = [list EXCEPT ![d] = list[d]]
      /\ restart = [restart EXCEPT ![d] = restart[d]]
    BY <1>1 DEF KeyTypes
<1>7. ~restart[d] => using[d] = key[d]
    BY <1>3 DEF InItsRoom
<1>8. CASE Change!OnLeave(d, f)
    <2>1. /\ list' = [list EXCEPT ![d] = list[d] \ {f.from}] /\ UNCHANGED <<key, restart, pending, relisted>>
        BY <1>8 DEF Change!OnLeave
    <2>2. list[d] \ {f.from} \in SUBSET list[d]
        OBVIOUS
    <2>3. key' = [key EXCEPT ![d] = key[d]] /\ restart' = [restart EXCEPT ![d] = restart[d]]
        BY <1>6, <2>1
    <2> QED
        BY <1>1, <1>6, <1>7, <2>1, <2>2, <2>3, KeyHandled
<1>9. ASSUME UNCHANGED <<key, list, restart, relisted>>,
             pending' = pending \/ pending' = [pending EXCEPT ![d] = None]
      PROVE  KeyInv'
    <2>1. key' = [key EXCEPT ![d] = key[d]] /\ restart' = [restart EXCEPT ![d] = restart[d]]
          /\ list' = [list EXCEPT ![d] = list[d]]
        BY <1>6, <1>9
    <2> QED
        BY <1>1, <1>6, <1>7, <1>9, <2>1, KeyHandled
<1>10. ASSUME NEW n \in Change!Keys, NEW lose, Change!MoveTo(d, n, lose), relisted' = relisted,
              InRoom(d, n), InRoom(d, made[n].base), (list[d] \ lose) \cap made[n].removing = {},
              pending' = pending \/ pending' = [pending EXCEPT ![d] = None]
       PROVE  KeyInv'
    <2>1. CASE UNCHANGED <<key, list, restart>>
        BY <1>9, <1>10, <2>1
    <2>2. CASE /\ key' = [key EXCEPT ![d] = n] /\ list' = [list EXCEPT ![d] = @ \ lose]
               /\ restart' = [restart EXCEPT ![d] = TRUE]
        <3>1. list' = [list EXCEPT ![d] = list[d] \ lose] /\ list[d] \ lose \in SUBSET list[d]
              /\ n \in AnyKey /\ TRUE \in BOOLEAN
            BY <2>2 DEF AnyKey
        <3> QED
            BY <1>1, <1>10, <2>2, <3>1, KeyHandled
    <2> QED
        BY <1>10, <2>1, <2>2 DEF Change!MoveTo
<1>11. CASE Change!OnSent(d, f)
    <2>1. f.key \in Change!Keys /\ relisted' = relisted
        BY <1>3, <1>11 DEF Change!OnSent, ComesTo
    <2>2. CASE pending[d] = f.key
        <3>1. /\ Change!MoveTo(d, f.key, made[f.key].removing)
              /\ pending' = [pending EXCEPT ![d] = None]
            BY <1>11, <2>2 DEF Change!OnSent, Change!TakeRekey
        <3>2. f.key \in OwnKeys(d)
            BY <1>3, <2>1, <2>2 DEF OnItsWay, Change!RekeyAssumption, Change!Keys
        <3>3. InRoom(d, f.key) /\ InRoom(d, made[f.key].base)
            BY <1>3, <3>2 DEF OwnKeys, InRoom, Holders, InItsRoom
        <3> QED
            BY <1>10, <2>1, <3>1, <3>3
    <2>3. CASE pending[d] # f.key
        BY <1>9, <1>11, <2>1, <2>3 DEF Change!OnSent, Change!TakeRekey, Change!Ignore
    <2> QED
        BY <2>2, <2>3
<1>12. CASE Change!OnBundle(d, f)
    <2>1. f.key \in RoomKeys(d) /\ relisted' = relisted /\ pending' = pending
        BY <1>3, <1>12 DEF Change!OnBundle, ComesTo
    <2>2. f.key \in Change!Keys /\ made[f.key].base = using[d]
        BY <2>1 DEF RoomKeys
    <2>3. CASE Change!Ignore
        BY <1>9, <2>1, <2>3 DEF Change!Ignore
    <2>4. CASE d \in made[f.key].keep /\ Change!MoveTo(d, f.key, Change!LeftOut(d, f.key))
        <3>1. (list[d] \ Change!LeftOut(d, f.key)) \subseteq Holders(f.key)
            BY DEF Change!LeftOut, Holders
        <3>2. Holders(f.key) \cap made[f.key].removing = {}
            BY <2>2 DEF KeyInv, BundlesMakeSense, Holders
        <3>3. InRoom(d, f.key) /\ InRoom(d, made[f.key].base)
            BY <1>3, <2>2, <2>4 DEF InRoom, Holders, InItsRoom
        <3> QED
            BY <1>10, <2>1, <2>2, <2>4, <3>1, <3>2, <3>3
    <2>5. CASE Change!ForgetAccount(d)
        <3>1. PICK k \in {None, key[d]} : key' = [key EXCEPT ![d] = k]
            BY <1>6, <2>5 DEF Change!ForgetAccount
        <3>2. list' = [list EXCEPT ![d] = {}] /\ restart' = [restart EXCEPT ![d] = TRUE]
            BY <2>5 DEF Change!ForgetAccount
        <3>3. k \in AnyKey /\ None \notin Change!Keys /\ {} \in SUBSET list[d] /\ TRUE \in BOOLEAN
            BY <1>6, <1>1, KeysAre DEF AnyKey, Change!RekeyAssumption
        <3> QED
            BY <1>1, <2>1, <3>1, <3>2, <3>3, KeyHandled
    <2> QED
        BY <1>12, <2>3, <2>4, <2>5 DEF Change!OnBundle
<1> QED
    BY <1>4, <1>5, <1>8, <1>11, <1>12


LEMMA KeyStep ==
    ASSUME Change!RekeyAssumption, KeyInv, [Change!Next]_(Change!vars)
    PROVE  KeyInv'
<1>1. KeyTypes /\ None \notin Change!Keys /\ 0 \notin Change!Keys
    BY KeysAre DEF KeyInv, Change!RekeyAssumption
<1>2. \A d \in Devices : OnItsWay(d) /\ InItsRoom(d)
    BY DEF KeyInv
<1>3. CASE UNCHANGED Change!vars
    BY <1>1, <1>2, <1>3, KeyOnItsWay DEF Change!vars, Change!wire, Change!record, KeyTypes, OnItsWay
<1> SUFFICES ASSUME NEW d \in Devices,
                    \/ Change!RemoveDevices(d)
                    \/ Change!SendLocal(d) \/ Change!Connect(d) \/ Change!Drop(d) \/ Change!SendCard(d)
                    \/ Change!Forward(d) \/ Change!Refuse(d)
                    \/ Change!Handle(d) \/ Change!LeaveAccount(d) \/ Change!Restart(d)
             PROVE  KeyInv'
    BY <1>3 DEF Change!Next
<1>4. CASE Change!RemoveDevices(d)
    BY <1>4, KeyReplace DEF Change!RemoveDevices
<1>5. CASE Change!SendLocal(d)
    <2>1. PICK n : n = Head(queue[d])
        OBVIOUS
    <2>2. n \in OwnKeys(d) /\ Tail(queue[d]) \in Seq(OwnKeys(d))
        BY <1>2, <1>5, <2>1 DEF Change!SendLocal, OnItsWay
    <2>3. [type |-> "bundle", key |-> n] \in SaidHere(d)
        BY <2>2 DEF SaidHere
    <2>4. /\ UNCHANGED <<made, key, using, restart, list, relisted, inbox>>
          /\ queue' = [queue EXCEPT ![d] = Tail(@)]
          /\ \/ /\ out' = [out EXCEPT ![d] = Append(@, [type |-> "bundle", key |-> n])]
                /\ pending' = pending
             \/ /\ pending' = [pending EXCEPT ![d] = IF @ = n THEN None ELSE @]
                /\ out' = out
        BY <1>5, <2>1 DEF Change!SendLocal, Change!FailRekey, Change!record
    <2>5. ASSUME NEW e \in Devices
          PROVE  /\ pending'[e] \in OwnKeys(e) \cup {None} /\ queue'[e] \in Seq(OwnKeys(e))
                 /\ out'[e] \in Seq(SaidHere(e)) /\ inbox'[e] \in Seq(ComesTo(e))
        <3>1. pending'[e] \in OwnKeys(e) \cup {None}
            BY <1>1, <1>2, <2>4 DEF KeyTypes, OnItsWay
        <3>2. queue'[e] \in Seq(OwnKeys(e))
            BY <1>1, <1>2, <2>2, <2>4 DEF KeyTypes, OnItsWay
        <3>3. out'[e] \in Seq(SaidHere(e))
            <4>1. out[e] \in Seq(SaidHere(e))
                BY <1>2 DEF OnItsWay
            <4>2. out'[e] = out[e] \/ (e = d /\ out'[e] = Append(out[e], [type |-> "bundle", key |-> n]))
                BY <1>1, <2>4 DEF KeyTypes
            <4> QED
                BY <2>3, <4>1, <4>2
        <3> QED
            BY <1>2, <2>4, <3>1, <3>2, <3>3 DEF OnItsWay
    <2> QED
        BY <1>1, <2>4, <2>5, KeyOnItsWay DEF KeyTypes
<1>6. CASE Change!Connect(d)
    <2>1. /\ UNCHANGED <<made, key, using, restart, list, relisted, pending, out, inbox>>
          /\ \/ queue' = queue
             \/ pending[d] # None /\ queue' = [queue EXCEPT ![d] = Append(@, pending[d])]
        BY <1>6 DEF Change!Connect, Change!record
    <2>2. ASSUME NEW e \in Devices PROVE queue'[e] \in Seq(OwnKeys(e))
        <3>1. queue[e] \in Seq(OwnKeys(e)) /\ pending[e] \in OwnKeys(e) \cup {None}
            BY <1>2 DEF OnItsWay
        <3>2. queue'[e] = queue[e] \/ (pending[e] # None /\ queue'[e] = Append(queue[e], pending[e]))
            BY <1>1, <2>1 DEF KeyTypes
        <3> QED
            BY <3>1, <3>2
    <2> QED
        BY <1>1, <1>2, <2>1, <2>2, KeyOnItsWay DEF KeyTypes, OnItsWay
<1>7. CASE Change!Drop(d)
    <2>1. /\ UNCHANGED <<made, key, using, restart, list, relisted, pending, queue>>
          /\ out' = [out EXCEPT ![d] = <<>>] /\ inbox' = [inbox EXCEPT ![d] = <<>>]
        BY <1>7 DEF Change!Drop, Change!record
    <2>2. ASSUME NEW e \in Devices
          PROVE  out'[e] \in Seq(SaidHere(e)) /\ inbox'[e] \in Seq(ComesTo(e))
        BY <1>1, <1>2, <2>1 DEF KeyTypes, OnItsWay
    <2> QED
        BY <1>1, <1>2, <2>1, <2>2, KeyOnItsWay DEF KeyTypes, OnItsWay
<1>8. CASE Change!SendCard(d)
    <2>1. /\ UNCHANGED <<made, key, using, restart, list, relisted, pending, queue, inbox>>
          /\ out' = [out EXCEPT ![d] = Append(@, [type |-> "card", from |-> d])]
        BY <1>8 DEF Change!SendCard, Change!record
    <2>2. [type |-> "card", from |-> d] \in SaidHere(d)
        BY DEF SaidHere
    <2>3. ASSUME NEW e \in Devices PROVE out'[e] \in Seq(SaidHere(e))
        <3>1. out[e] \in Seq(SaidHere(e))
            BY <1>2 DEF OnItsWay
        <3>2. out'[e] = out[e] \/ (e = d /\ out'[e] = Append(out[e], [type |-> "card", from |-> d]))
            BY <1>1, <2>1 DEF KeyTypes
        <3> QED
            BY <2>2, <3>1, <3>2
    <2> QED
        BY <1>1, <1>2, <2>1, <2>3, KeyOnItsWay DEF KeyTypes, OnItsWay
<1>9. ASSUME NEW others \in SUBSET Change!Roommates(d), Change!Read(d, others) PROVE KeyInv'
    <2>1. PICK f : f = Head(out[d])
        OBVIOUS
    <2>2. f \in SaidHere(d) /\ Tail(out[d]) \in Seq(SaidHere(d))
        BY <1>2, <1>9, <2>1 DEF Change!Read, OnItsWay
    <2>3. /\ UNCHANGED <<made, key, using, restart, list, relisted, pending, queue>>
          /\ out' = [out EXCEPT ![d] = Tail(@)]
          /\ inbox' = [e \in Devices |->
                 IF e \in others THEN Append(inbox[e], f)
                 ELSE IF e = d /\ f.type = "bundle"
                      THEN Append(inbox[e], [type |-> "sent", key |-> f.key])
                 ELSE inbox[e]]
        BY <1>9, <2>1 DEF Change!Read
    <2>4. ASSUME NEW e \in Devices PROVE inbox'[e] \in Seq(ComesTo(e))
        <3>1. inbox[e] \in Seq(ComesTo(e))
            BY <1>2 DEF OnItsWay
        <3>2. CASE e \in others
            <4>1. e # d /\ using[e] = using[d]
                BY <3>2 DEF Change!Roommates
            <4>2. d \in RoomMates(e)
                BY <1>2, <4>1 DEF RoomMates, InItsRoom
            <4>3. OwnKeys(d) \subseteq RoomKeys(e)
                BY <4>1 DEF OwnKeys, RoomKeys
            <4>4. f \in ComesTo(e)
                BY <2>2, <4>2, <4>3 DEF SaidHere, ComesTo
            <4> QED
                BY <2>3, <3>1, <3>2, <4>4
        <3>3. CASE e \notin others /\ e = d /\ f.type = "bundle"
            <4>1. [type |-> "sent", key |-> f.key] \in ComesTo(e)
                BY <2>2, <3>3 DEF SaidHere, OwnKeys, ComesTo
            <4> QED
                BY <2>3, <3>1, <3>3, <4>1
        <3>4. CASE e \notin others /\ ~(e = d /\ f.type = "bundle")
            BY <2>3, <3>1, <3>4
        <3> QED
            BY <3>2, <3>3, <3>4
    <2>5. ASSUME NEW e \in Devices PROVE out'[e] \in Seq(SaidHere(e))
        BY <1>1, <1>2, <2>2, <2>3 DEF KeyTypes, OnItsWay
    <2> QED
        BY <1>1, <1>2, <2>3, <2>4, <2>5, KeyOnItsWay DEF KeyTypes, OnItsWay
<1>10. CASE Change!LeaveAccount(d)
    <2>1. /\ UNCHANGED <<made, using, pending, queue, inbox, relisted>>
          /\ out' = [out EXCEPT ![d] = IF up[d] THEN Append(@, [type |-> "leave", from |-> d]) ELSE @]
          /\ \/ /\ key' = [key EXCEPT ![d] = None] /\ list' = [list EXCEPT ![d] = {}]
                /\ restart' = [restart EXCEPT ![d] = TRUE]
             \/ UNCHANGED <<key, list, restart>>
        BY <1>10 DEF Change!LeaveAccount, Change!record
    <2>2. [type |-> "leave", from |-> d] \in SaidHere(d)
        BY DEF SaidHere
    <2>3. ASSUME NEW e \in Devices PROVE out'[e] \in Seq(SaidHere(e))
        <3>1. out[e] \in Seq(SaidHere(e))
            BY <1>2 DEF OnItsWay
        <3>2. out'[e] = out[e] \/ (e = d /\ out'[e] = Append(out[e], [type |-> "leave", from |-> d]))
            BY <1>1, <2>1 DEF KeyTypes
        <3> QED
            BY <2>2, <3>1, <3>2
    <2>4. CASE UNCHANGED <<key, list, restart>>
        BY <1>1, <1>2, <2>1, <2>3, <2>4, KeyOnItsWay DEF KeyTypes, OnItsWay
    <2>5. CASE /\ key' = [key EXCEPT ![d] = None] /\ list' = [list EXCEPT ![d] = {}]
               /\ restart' = [restart EXCEPT ![d] = TRUE]
        <3>1. KeyTypes'
            BY <1>1, <2>1, <2>5 DEF KeyTypes, AnyKey, Change!Keys
        <3>2. ASSUME NEW e \in Devices PROVE OnItsWay(e)' /\ InItsRoom(e)'
            <4>1. /\ OwnKeys(e)' = OwnKeys(e) /\ SaidHere(e)' = SaidHere(e) /\ ComesTo(e)' = ComesTo(e)
                  /\ Change!Keys' = Change!Keys
                BY <2>1, RoomStays
            <4>2. OnItsWay(e)'
                BY <1>2, <2>1, <2>3, <4>1 DEF OnItsWay
            <4>3. e # d => key'[e] = key[e] /\ restart'[e] = restart[e]
                BY <1>1, <2>5 DEF KeyTypes
            <4>4. e = d => key'[e] = None /\ restart'[e] = TRUE
                BY <1>1, <2>5 DEF KeyTypes
            <4>5. InItsRoom(e)'
                BY <1>1, <1>2, <2>1, <4>1, <4>3, <4>4 DEF InItsRoom, InRoom, Holders
            <4> QED
                BY <4>2, <4>5
        <3>3. \A e \in Devices, n \in Change!Keys : key'[e] = n => key[e] = n
            BY <1>1, <2>5 DEF KeyTypes
        <3>4. \A e \in Devices : list'[e] \subseteq list[e]
            BY <1>1, <2>5 DEF KeyTypes
        <3> QED
            BY <2>1, <3>1, <3>2, <3>3, <3>4, KeyGoesOn
    <2> QED
        BY <2>1, <2>4, <2>5
<1>11. CASE Change!Restart(d)
    <2>1. /\ using' = [using EXCEPT ![d] = key[d]] /\ UNCHANGED <<made, key, list, relisted>>
          /\ pending' = [pending EXCEPT ![d] = None] /\ queue' = [queue EXCEPT ![d] = <<>>]
          /\ out' = [out EXCEPT ![d] = <<>>] /\ inbox' = [inbox EXCEPT ![d] = <<>>]
          /\ restart' = [restart EXCEPT ![d] = FALSE]
        BY <1>11 DEF Change!Restart, Change!record
    <2>2. KeyTypes'
        BY <1>1, <2>1 DEF KeyTypes, AnyKey, Change!Keys
    <2>3. ASSUME NEW e \in Devices PROVE OnItsWay(e)' /\ InItsRoom(e)'
        <3>1. CASE e = d
            <4>1. pending'[e] = None /\ queue'[e] = <<>> /\ out'[e] = <<>> /\ inbox'[e] = <<>>
                  /\ using'[e] = key[e] /\ key'[e] = key[e] /\ Change!Keys' = Change!Keys
                BY <1>1, <2>1, <3>1 DEF KeyTypes, Change!Keys
            <4>2. OnItsWay(e)'
                BY <4>1 DEF OnItsWay
            <4>3. InItsRoom(e)'
                BY <1>2, <2>1, <4>1 DEF InItsRoom, InRoom, Holders
            <4> QED
                BY <4>2, <4>3
        <3>2. CASE e # d
            <4>1. /\ pending'[e] = pending[e] /\ queue'[e] = queue[e] /\ out'[e] = out[e]
                  /\ inbox'[e] = inbox[e] /\ using'[e] = using[e] /\ restart'[e] = restart[e]
                BY <1>1, <2>1, <3>2 DEF KeyTypes
            <4>2. /\ OwnKeys(e)' = OwnKeys(e) /\ SaidHere(e)' = SaidHere(e) /\ ComesTo(e)' = ComesTo(e)
                  /\ Change!Keys' = Change!Keys
                BY <2>1, <4>1, RoomStays
            <4>3. OnItsWay(e)'
                BY <1>2, <4>1, <4>2 DEF OnItsWay
            <4>4. ~restart'[e] => using'[e] = key'[e]
                BY <1>2, <2>1, <4>1 DEF InItsRoom
            <4>5. InItsRoom(e)'
                BY <1>2, <2>1, <4>1, <4>2, <4>4 DEF InItsRoom, InRoom, Holders
            <4> QED
                BY <4>3, <4>5
        <3> QED
            BY <3>1, <3>2
    <2>4. \A e \in Devices, n \in Change!Keys : using'[e] = n => using[e] = n \/ key[e] = n
        BY <1>1, <2>1 DEF KeyTypes
    <2> QED
        BY <2>1, <2>2, <2>3, <2>4, KeyGoesOn
<1> QED
    BY <1>4, <1>5, <1>6, <1>7, <1>8, <1>9, <1>10, <1>11, KeyHandle DEF Change!Forward, Change!Refuse

(* Whichever devices change the key, at once or one after another, whatever is lost or refused   *)
(* on the way and whatever cannot be saved or wiped: no device comes to hold a key made on one   *)
(* that left it out, and none is even sealed to it unless the maker heard its card between       *)
(* moving and restarting (keyed_except, move_to_new_key, on_rekey, heard_card).                  *)
THEOREM RemovedAreOut ==
    /\ Change!Spec => []Change!RemovedStaysOut
    /\ MCSpec => []RemovedStaysOut
<1>1. Change!Init => KeyInv
    BY KeyInit, DeviceAssumption
<1>2. KeyInv /\ [Change!Next]_(Change!vars) => KeyInv'
    BY KeyStep, DeviceAssumption
<1>3. KeyInv => Change!RemovedStaysOut
    BY KeyAnswers
<1>4. Change!Spec => []Change!RemovedStaysOut
    BY <1>1, <1>2, <1>3, PTL DEF Change!Spec
<1>5. MCSpec => []RemovedStaysOut
    <2>1. MCInit => (part = "rekey" => KeyInv)
        BY <1>1, PartStarts
    <2>2. (part = "rekey" => KeyInv) /\ [MCNext]_<<part, slots>> => (part = "rekey" => KeyInv)'
        BY <1>2, PartGoesOn
    <2>3. (part = "rekey" => KeyInv) => RemovedStaysOut
        BY <1>3 DEF RemovedStaysOut
    <2> QED
        BY <2>1, <2>2, <2>3, PTL DEF MCSpec
<1> QED
    BY <1>4, <1>5

(***************************************************************************)
(* One change of the key at a time.  Then everything on its way is about   *)
(* the key made last (Alone), and where that may be anywhere but with its  *)
(* maker, the maker has it, could not save it, or goes on sending the      *)
(* bundle, which it can (Follows); the keys before it are settled          *)
(* (Earlier).                                                              *)
(***************************************************************************)
Has(s, x) == \E i \in DOMAIN s : s[i] = x

Mine(d) == {n \in Change!Keys : n = Len(made) /\ made[n].by = d}
Theirs(d) == {n \in Change!Keys : n = Len(made) /\ made[n].by # d}
Leaves == [type : {"leave", "card"}, from : Devices]
OutHere(d) == Leaves \cup [type : {"bundle"}, key : Mine(d)]
InHere(d) == Leaves \cup [type : {"sent"}, key : Mine(d)] \cup [type : {"bundle"}, key : Theirs(d)]

Alone(d) ==
    /\ pending[d] \in Mine(d) \cup {None}
    /\ queue[d] \in Seq(Mine(d))
    /\ out[d] \in Seq(OutHere(d))
    /\ inbox[d] \in Seq(InHere(d))
    /\ restart[d] => \A n \in Mine(d) : key[d] \in {n, None}

Bundle(n) == [type |-> "bundle", key |-> n]
Confirmed(n) == [type |-> "sent", key |-> n]

MovedOn(n) == key[made[n].by] \in {n, None} \/ <<made[n].by, n>> \in unsaved
CanSend(n) == made[n].keep \subseteq known[made[n].by]
Elsewhere(n) ==
    \/ Has(out[made[n].by], Bundle(n)) \/ Has(inbox[made[n].by], Confirmed(n))
    \/ \E e \in Devices \ {made[n].by} : key[e] = n \/ Has(inbox[e], Bundle(n))

Follows(n) ==
    /\ pending[made[n].by] = n => MovedOn(n) \/ CanSend(n)
    /\ queue[made[n].by] # <<>> => MovedOn(n) \/ pending[made[n].by] = n
    /\ Elsewhere(n) => MovedOn(n) \/ Change!Underway(made[n].by, n)

Earlier ==
    \A n \in Change!Keys :
        n # Len(made) /\ (\E e \in Devices \ {made[n].by} : key[e] = n) =>
            \/ key[made[n].by] = None \/ key[made[n].by] >= n
            \/ <<made[n].by, n>> \in unsaved

(* A session knows whom its device lists. *)
FollowTypes ==
    /\ known \in [Devices -> SUBSET Devices]
    /\ \A d \in Devices : list[d] \subseteq known[d]
    /\ up \in [Devices -> BOOLEAN]

Frames == [type : {"bundle", "sent"}, key : Change!Keys] \cup [type : {"leave", "card"}, from : Devices]

FollowInv ==
    /\ KeyInv /\ FollowTypes
    /\ \A d \in Devices : Alone(d)
    /\ \A n \in Change!Keys : n = Len(made) => Follows(n)
    /\ Earlier

(* What is in a sequence when something is taken from it or put to it.     *)
LEMMA HasTail ==
    ASSUME NEW S, NEW s \in Seq(S), s # <<>>, NEW x
    PROVE  Has(s, x) <=> Head(s) = x \/ Has(Tail(s), x)
<1>1. Len(s) \in Nat /\ Len(s) >= 1 /\ DOMAIN s = 1 .. Len(s) /\ Head(s) = s[1]
    OBVIOUS
<1>2. DOMAIN Tail(s) = 1 .. Len(s) - 1 /\ \A i \in 1 .. Len(s) - 1 : Tail(s)[i] = s[i + 1]
    BY <1>1
<1>3. ASSUME NEW i \in DOMAIN s, s[i] = x PROVE s[1] = x \/ Has(Tail(s), x)
    <2>1. CASE i = 1
        BY <1>3, <2>1
    <2>2. CASE i # 1
        <3>1. i - 1 \in 1 .. Len(s) - 1 /\ (i - 1) + 1 = i
            BY <1>1, <2>2
        <3>2. Tail(s)[i - 1] = x
            BY <1>2, <1>3, <3>1
        <3> QED
            BY <1>2, <3>1, <3>2 DEF Has
    <2> QED
        BY <2>1, <2>2
<1>4. ASSUME NEW i \in DOMAIN Tail(s), Tail(s)[i] = x PROVE Has(s, x)
    <2>1. i + 1 \in DOMAIN s /\ s[i + 1] = x
        BY <1>1, <1>2, <1>4
    <2> QED
        BY <2>1 DEF Has
<1> QED
    BY <1>1, <1>3, <1>4 DEF Has

LEMMA HasAppend ==
    ASSUME NEW S, NEW s \in Seq(S), NEW y \in S, NEW x
    PROVE  Has(Append(s, y), x) <=> Has(s, x) \/ y = x
<1>1. /\ Len(s) \in Nat /\ DOMAIN s = 1 .. Len(s) /\ DOMAIN Append(s, y) = 1 .. Len(s) + 1
      /\ Append(s, y)[Len(s) + 1] = y /\ \A i \in 1 .. Len(s) : Append(s, y)[i] = s[i]
    OBVIOUS
<1>2. Len(s) + 1 \in 1 .. Len(s) + 1 /\ \A i \in 1 .. Len(s) + 1 : i = Len(s) + 1 \/ i \in 1 .. Len(s)
    BY <1>1
<1> QED
    BY <1>1, <1>2 DEF Has

LEMMA HasNothing == \A x : ~Has(<<>>, x)
BY DEF Has

(* What is on its way, seen without its room.                              *)
LEMMA KeysTyped ==
    ASSUME KeyInv
    PROVE  /\ key \in [Devices -> AnyKey] /\ restart \in [Devices -> BOOLEAN]
           /\ list \in [Devices -> SUBSET Devices]
           /\ DOMAIN pending = Devices /\ DOMAIN queue = Devices
           /\ DOMAIN out = Devices /\ DOMAIN inbox = Devices
           /\ \A e \in Devices : inbox[e] \in Seq(Frames)
<1>1. ASSUME NEW e \in Devices PROVE inbox[e] \in Seq(Frames)
    <2>1. ComesTo(e) \subseteq Frames
        BY DEF ComesTo, RoomKeys, RoomMates, Frames
    <2> QED
        BY <2>1 DEF KeyInv, OnItsWay
<1> QED
    BY <1>1 DEF KeyInv, KeyTypes

(* The facts about the key made last that the steps share.                 *)
LEMMA LastKey ==
    ASSUME KeyInv, NEW n \in Change!Keys
    PROVE  /\ n \in Nat /\ made[n] \in Bundles /\ made[n].by \in Devices
           /\ (n = Len(made) => Mine(made[n].by) = {n} /\ \A e \in Devices \ {made[n].by} : Theirs(e) = {n})
<1>1. made[n] \in Bundles /\ n \in Nat
    BY KeysAre DEF KeyInv, KeyTypes
<1> QED
    BY <1>1 DEF Bundles, Mine, Theirs

(* A step that makes no key.                                               *)
LEMMA AloneKept ==
    ASSUME made' = made
    PROVE  /\ Change!Keys' = Change!Keys
           /\ \A d : Mine(d)' = Mine(d) /\ Theirs(d)' = Theirs(d)
           /\ \A d : OutHere(d)' = OutHere(d) /\ InHere(d)' = InHere(d)
BY DEF Change!Keys, Mine, Theirs, OutHere, InHere, Leaves

LEMMA UnderwayHas ==
    ASSUME NEW d, NEW n
    PROVE  Change!Underway(d, n) <=>
               /\ pending[d] = n
               /\ \/ ~up[d] \/ d \in deferred \/ Has(queue[d], n)
                  \/ Has(out[d], Bundle(n)) \/ Has(inbox[d], Confirmed(n))
BY DEF Change!Underway, Has, Bundle, Confirmed

(* What may be on its way, and where.                                      *)
LEMMA FramesAre ==
    ASSUME KeyInv, NEW n \in Change!Keys, n = Len(made), NEW e \in Devices
    PROVE  /\ e = made[n].by => /\ Mine(e) = {n}
                                /\ OutHere(e) = Leaves \cup {Bundle(n)}
                                /\ InHere(e) = Leaves \cup {Confirmed(n)}
           /\ e # made[n].by => /\ Mine(e) = {}
                                /\ OutHere(e) = Leaves
                                /\ InHere(e) = Leaves \cup {Bundle(n)}
<1>1. [type : {"bundle"}, key : {n}] = {Bundle(n)} /\ [type : {"sent"}, key : {n}] = {Confirmed(n)}
    <2>1. ASSUME NEW t, NEW r PROVE r \in [type : {t}, key : {n}] <=> r = [type |-> t, key |-> n]
        OBVIOUS
    <2> QED
        BY <2>1 DEF Bundle, Confirmed
<1>2. [type : {"bundle"}, key : {}] = {} /\ [type : {"sent"}, key : {}] = {}
    OBVIOUS
<1>3. e = made[n].by => Mine(e) = {n} /\ Theirs(e) = {}
    BY LastKey DEF Mine, Theirs
<1>4. e # made[n].by => Mine(e) = {} /\ Theirs(e) = {n}
    BY LastKey DEF Mine, Theirs
<1> QED
    BY <1>1, <1>2, <1>3, <1>4 DEF OutHere, InHere

LEMMA KindsDiffer ==
    ASSUME NEW n, NEW f \in Leaves
    PROVE  f # Bundle(n) /\ f # Confirmed(n) /\ Bundle(n) # Confirmed(n)
BY DEF Leaves, Bundle, Confirmed

(* The steps that make no key.                                             *)
Moves(d) ==
    \/ Change!SendLocal(d) \/ Change!Connect(d) \/ Change!Drop(d) \/ Change!SendCard(d)
    \/ Change!Forward(d) \/ Change!Refuse(d)
    \/ Change!Handle(d) \/ Change!LeaveAccount(d) \/ Change!Restart(d)

LEMMA MovesMakeNoKey ==
    ASSUME NEW d \in Devices, Moves(d)
    PROVE  made' = made
BY DEF Moves, Change!SendLocal, Change!Connect, Change!Drop, Change!SendCard, Change!Forward, Change!Refuse,
       Change!Read, Change!Handle, Change!LeaveAccount, Change!Restart

(* What a device takes from its inbox moves it to the key made last, takes it out, or neither.   *)
LEMMA HandleMoves ==
    ASSUME KeyInv, FollowTypes, NEW d \in Devices, Alone(d), Change!Handle(d)
    PROVE  /\ \/ key' = key
              \/ key' = [key EXCEPT ![d] = key'[d]] /\ key'[d] \in {Len(made), None}
           /\ \/ restart' = restart
              \/ /\ restart' = [restart EXCEPT ![d] = TRUE]
                 /\ key'[d] \in {Len(made), None} \/ Theirs(d) # {}
           /\ \/ pending' = pending
              \/ /\ pending' = [pending EXCEPT ![d] = None]
                 /\ key'[d] = Len(made) \/ <<d, Len(made)>> \in unsaved'
           /\ unsaved \subseteq unsaved'
           /\ known' = known \/ \E e \in Devices : known' = [known EXCEPT ![d] = @ \cup {e}]
           /\ made' = made /\ up' = up /\ queue' = queue /\ out' = out /\ deferred' = deferred
           /\ inbox[d] # <<>> /\ inbox' = [inbox EXCEPT ![d] = Tail(@)]
<1>1. PICK f : f = Head(inbox[d])
    OBVIOUS
<1>2. f \in InHere(d)
    BY <1>1 DEF Change!Handle, Alone
<1>3. f.type \notin {"leave", "card"} => f.key = Len(made)
    BY <1>2 DEF InHere, Leaves, Mine, Theirs
<1>4. f.type = "bundle" => Theirs(d) # {}
    BY <1>2 DEF InHere, Leaves
<1>5. f.type = "card" => f.from \in Devices
    BY <1>2 DEF InHere, Leaves
<1>6. key \in [Devices -> AnyKey] /\ restart \in [Devices -> BOOLEAN]
    BY KeysTyped
<1>7. /\ made' = made /\ up' = up /\ queue' = queue /\ out' = out /\ deferred' = deferred
      /\ inbox[d] # <<>> /\ inbox' = [inbox EXCEPT ![d] = Tail(@)]
      /\ Change!OnSent(d, f) \/ Change!OnBundle(d, f) \/ Change!OnLeave(d, f) \/ Change!OnCard(d, f)
    BY <1>1 DEF Change!Handle
<1>8. ASSUME NEW forget, f.key = Len(made), Change!MoveTo(d, f.key, forget)
      PROVE  \/ /\ key' = [key EXCEPT ![d] = key'[d]] /\ key'[d] = Len(made)
                /\ restart' = [restart EXCEPT ![d] = TRUE] /\ unsaved' = unsaved
             \/ /\ key' = key /\ restart' = restart
                /\ <<d, Len(made)>> \in unsaved' /\ unsaved \subseteq unsaved'
    BY <1>6, <1>8 DEF Change!MoveTo
<1>9. CASE Change!OnSent(d, f)
    <2>1. f.key = Len(made) /\ known' = known
        BY <1>3, <1>9 DEF Change!OnSent
    <2>2. CASE Change!TakeRekey(d, f)
        BY <1>7, <1>8, <1>9, <2>1, <2>2 DEF Change!OnSent
    <2>3. CASE ~Change!TakeRekey(d, f)
        BY <1>7, <1>9, <2>1, <2>3 DEF Change!OnSent, Change!Ignore
    <2> QED
        BY <2>2, <2>3
<1>10. CASE Change!OnBundle(d, f)
    <2>1. f.key = Len(made) /\ known' = known /\ pending' = pending /\ Theirs(d) # {}
        BY <1>3, <1>4, <1>10 DEF Change!OnBundle
    <2>2. CASE Change!MoveTo(d, f.key, Change!LeftOut(d, f.key))
        BY <1>7, <1>8, <2>1, <2>2
    <2>3. CASE Change!ForgetAccount(d)
        <3>1. key' = key \/ (key' = [key EXCEPT ![d] = key'[d]] /\ key'[d] = None)
            BY <1>6, <2>3 DEF Change!ForgetAccount
        <3>2. restart' = [restart EXCEPT ![d] = TRUE] /\ unsaved' = unsaved
            BY <2>3 DEF Change!ForgetAccount
        <3> QED
            BY <1>7, <2>1, <3>1, <3>2
    <2>4. CASE Change!Ignore
        BY <1>7, <2>1, <2>4 DEF Change!Ignore
    <2> QED
        BY <1>10, <2>2, <2>3, <2>4 DEF Change!OnBundle
<1>11. CASE Change!OnLeave(d, f)
    BY <1>7, <1>11 DEF Change!OnLeave
<1>12. CASE Change!OnCard(d, f)
    BY <1>5, <1>7, <1>12 DEF Change!OnCard
<1> QED
    BY <1>7, <1>9, <1>10, <1>11, <1>12

(* A connection changes only what its device had no room for.                                    *)
LEMMA RoomForIt ==
    ASSUME NEW d, Moves(d), NEW e, e # d
    PROVE  e \in deferred' <=> e \in deferred
BY DEF Moves, Change!SendLocal, Change!Connect, Change!Drop, Change!SendCard, Change!Forward,
       Change!Refuse, Change!Read, Change!Handle, Change!LeaveAccount, Change!Restart

(* What could not be saved stays so.                                                             *)
LEMMA UnsavedStays ==
    ASSUME KeyInv, FollowTypes, NEW d \in Devices, Alone(d), Moves(d)
    PROVE  unsaved \subseteq unsaved'
<1>1. CASE Change!Handle(d)
    BY <1>1, HandleMoves
<1> QED
    BY <1>1 DEF Moves, Change!record, Change!SendLocal, Change!Connect, Change!Drop, Change!SendCard,
            Change!Forward, Change!Refuse, Change!Read, Change!LeaveAccount, Change!Restart

(* A stored key gives way only to the key made last, or to none.           *)
LEMMA KeysMove ==
    ASSUME KeyInv, FollowTypes, NEW d \in Devices, Alone(d), Moves(d), NEW e \in Devices
    PROVE  key'[e] \in {key[e], Len(made), None}
<1>1. key \in [Devices -> AnyKey]
    BY KeysTyped
<1>2. CASE Change!Handle(d)
    BY <1>1, <1>2, HandleMoves
<1>3. CASE Change!LeaveAccount(d)
    BY <1>1, <1>3 DEF Change!LeaveAccount
<1>4. CASE key' = key
    BY <1>4
<1> QED
    BY <1>2, <1>3, <1>4
    DEF Moves, Change!SendLocal, Change!Connect, Change!Drop, Change!SendCard, Change!Forward,
        Change!Refuse, Change!Read, Change!Restart

LEMMA TakeFrom ==
    ASSUME NEW S, NEW s \in Seq(S), s # <<>>
    PROVE  Head(s) \in S /\ Tail(s) \in Seq(S)
OBVIOUS

LEMMA PutTo ==
    ASSUME NEW S, NEW s \in Seq(S), NEW x \in S
    PROVE  Append(s, x) \in Seq(S)
OBVIOUS

LEMMA AloneMoves ==
    ASSUME KeyInv, FollowTypes, \A e \in Devices : Alone(e), NEW d \in Devices, Moves(d),
           NEW e \in Devices
    PROVE  Alone(e)'
<1>1. made' = made
    BY MovesMakeNoKey
<1>2. PICK M, O, I, n : M = Mine(e) /\ O = OutHere(e) /\ I = InHere(e) /\ n = Len(made)
    OBVIOUS
<1>3. Mine(e)' = M /\ OutHere(e)' = O /\ InHere(e)' = I /\ Len(made)' = n
    BY <1>1, <1>2, AloneKept
<1> SUFFICES /\ pending'[e] \in M \cup {None} /\ queue'[e] \in Seq(M)
             /\ out'[e] \in Seq(O) /\ inbox'[e] \in Seq(I)
             /\ restart'[e] => \A k \in M : key'[e] \in {k, None}
    BY <1>3 DEF Alone
<1>4. /\ pending[e] \in M \cup {None} /\ queue[e] \in Seq(M)
      /\ out[e] \in Seq(O) /\ inbox[e] \in Seq(I)
      /\ restart[e] => \A k \in M : key[e] \in {k, None}
    BY <1>2 DEF Alone
<1>5. /\ key \in [Devices -> AnyKey] /\ restart \in [Devices -> BOOLEAN]
      /\ DOMAIN pending = Devices /\ DOMAIN queue = Devices
      /\ DOMAIN out = Devices /\ DOMAIN inbox = Devices
    BY KeysTyped
<1>6. Leaves \subseteq O /\ \A k \in M : [type |-> "bundle", key |-> k] \in O
                                         /\ [type |-> "sent", key |-> k] \in I
    BY <1>2 DEF OutHere, InHere
<1>7. CASE Change!SendLocal(d)
    <2>1. UNCHANGED <<inbox, restart, key>> /\ queue[d] # <<>>
          /\ queue' = [queue EXCEPT ![d] = Tail(@)]
        BY <1>7 DEF Change!SendLocal
    <2>2. \/ out' = out /\ pending' = [pending EXCEPT ![d] = IF @ = Head(queue[d]) THEN None ELSE @]
          \/ /\ out' = [out EXCEPT ![d] = Append(@, [type |-> "bundle", key |-> Head(queue[d])])]
             /\ pending' = pending
        BY <1>7 DEF Change!SendLocal, Change!FailRekey
    <2>3. pending'[e] \in M \cup {None}
        BY <1>4, <1>5, <2>2
    <2>4. queue'[e] \in Seq(M)
        BY <1>4, <1>5, <2>1
    <2>5. out'[e] \in Seq(O)
        <3>1. CASE e = d
            <4>1. Head(queue[d]) \in M
                BY <1>4, <2>1, <3>1
            <4>2. PICK x \in O : x = [type |-> "bundle", key |-> Head(queue[d])]
                BY <4>1, <1>6
            <4>3. out'[e] = out[e] \/ out'[e] = Append(out[e], x)
                BY <1>5, <2>2, <3>1, <4>2
            <4>4. out[e] \in Seq(O) /\ Append(out[e], x) \in Seq(O)
                BY <1>4, PutTo
            <4> QED
                BY <4>3, <4>4
        <3>2. CASE e # d
            BY <1>4, <1>5, <2>2, <3>2
        <3> QED
            BY <3>1, <3>2
    <2> QED
        BY <1>4, <2>1, <2>3, <2>4, <2>5
<1>8. CASE Change!Connect(d)
    <2>1. UNCHANGED <<pending, out, inbox, restart, key>>
          /\ \/ queue' = queue
             \/ pending[d] # None /\ queue' = [queue EXCEPT ![d] = Append(@, pending[d])]
        BY <1>8 DEF Change!Connect
    <2>2. queue'[e] = queue[e] \/ (pending[e] # None /\ queue'[e] = Append(queue[e], pending[e]))
        BY <1>5, <2>1
    <2>3. queue'[e] \in Seq(M)
        <3>1. CASE queue'[e] = queue[e]
            BY <1>4, <3>1
        <3>2. CASE pending[e] # None /\ queue'[e] = Append(queue[e], pending[e])
            <4>1. PICK k \in M : k = pending[e]
                BY <1>4, <3>2
            <4>2. Append(queue[e], k) \in Seq(M)
                BY <1>4, PutTo
            <4> QED
                BY <3>2, <4>1, <4>2
        <3> QED
            BY <2>2, <3>1, <3>2
    <2> QED
        BY <1>4, <2>1, <2>3
<1>9. CASE Change!Drop(d)
    BY <1>4, <1>5, <1>9 DEF Change!Drop
<1>10. ASSUME NEW others \in SUBSET (Devices \ {d}), Change!Read(d, others)
       PROVE  out'[e] \in Seq(O) /\ inbox'[e] \in Seq(I) /\ UNCHANGED <<pending, queue, restart, key>>
    <2>1. PICK f : f = Head(out[d])
        OBVIOUS
    <2>2. /\ UNCHANGED <<pending, queue, restart, key>> /\ out[d] # <<>>
          /\ out' = [out EXCEPT ![d] = Tail(@)]
          /\ inbox'[e] = IF e \in others THEN Append(inbox[e], f)
                         ELSE IF e = d /\ f.type = "bundle"
                              THEN Append(inbox[e], [type |-> "sent", key |-> f.key])
                         ELSE inbox[e]
        BY <1>10, <2>1 DEF Change!Read
    <2>3. f \in OutHere(d)
        BY <2>1, <2>2 DEF Alone
    <2>4. out'[e] \in Seq(O)
        BY <1>4, <1>5, <2>2
    <2>5. e \in others => f \in I
        <3>1. e \in others => Mine(d) \subseteq Theirs(e)
            BY DEF Mine, Theirs
        <3> QED
            BY <1>2, <2>3, <3>1 DEF OutHere, InHere
    <2>6. e = d /\ f.type = "bundle" => [type |-> "sent", key |-> f.key] \in I
        <3>1. f.type = "bundle" => f.key \in Mine(d)
            BY <2>3 DEF OutHere, Leaves
        <3> QED
            BY <1>2, <1>6, <3>1
    <2>7. inbox'[e] \in Seq(I)
        BY <1>4, <2>2, <2>5, <2>6
    <2> QED
        BY <2>2, <2>4, <2>7
<1>11. CASE Change!Forward(d) \/ Change!Refuse(d)
    BY <1>4, <1>10, <1>11 DEF Change!Forward, Change!Refuse, Change!Roommates
<1>12. CASE Change!Handle(d)
    <2>1. inbox'[e] \in Seq(I)
        <3>1. inbox'[e] = inbox[e] \/ (inbox[e] # <<>> /\ inbox'[e] = Tail(inbox[e]))
            BY <1>5, <1>12, HandleMoves
        <3>2. inbox[e] \in Seq(I) /\ (inbox[e] # <<>> => Tail(inbox[e]) \in Seq(I))
            BY <1>4, TakeFrom
        <3> QED
            BY <3>1, <3>2
    <2>2. pending'[e] \in M \cup {None}
        BY <1>4, <1>5, <1>12, HandleMoves
    <2>3. ASSUME restart'[e], NEW k \in M PROVE key'[e] \in {k, None}
        <3>1. k = n /\ Mine(e) # {} /\ Theirs(e) = {}
            BY <1>2, <2>3 DEF Mine, Theirs
        <3>2. CASE e = d
            <4>1. \/ restart' = restart \/ key'[d] \in {n, None}
                BY <1>2, <1>12, <3>1, <3>2, HandleMoves
            <4>2. key' = key \/ key'[d] \in {n, None}
                BY <1>2, <1>12, HandleMoves
            <4> QED
                BY <1>4, <2>3, <3>1, <3>2, <4>1, <4>2
        <3>3. CASE e # d
            <4>1. restart' = restart \/ restart' = [restart EXCEPT ![d] = TRUE]
                BY <1>12, HandleMoves
            <4>2. restart'[e] = restart[e]
                BY <1>5, <3>3, <4>1
            <4>3. key' = key \/ key' = [key EXCEPT ![d] = key'[d]]
                BY <1>12, HandleMoves
            <4>4. key'[e] = key[e]
                BY <1>5, <3>3, <4>3
            <4> QED
                BY <1>4, <2>3, <4>2, <4>4
        <3> QED
            BY <3>2, <3>3
    <2>4. queue' = queue /\ out' = out
        BY <1>12, HandleMoves
    <2> QED
        BY <1>4, <2>1, <2>2, <2>3, <2>4
<1>13. CASE Change!LeaveAccount(d)
    <2>1. /\ UNCHANGED <<pending, queue, inbox>>
          /\ \/ /\ key' = [key EXCEPT ![d] = None]
                /\ restart' = [restart EXCEPT ![d] = TRUE]
             \/ UNCHANGED <<key, restart>>
          /\ out' = [out EXCEPT ![d] = IF up[d] THEN Append(@, [type |-> "leave", from |-> d]) ELSE @]
        BY <1>13 DEF Change!LeaveAccount
    <2>2. [type |-> "leave", from |-> d] \in O
        BY <1>6 DEF Leaves
    <2>3. out'[e] \in Seq(O)
        BY <1>4, <1>5, <2>1, <2>2
    <2>4. restart'[e] => \A k \in M : key'[e] \in {k, None}
        BY <1>4, <1>5, <2>1
    <2> QED
        BY <1>4, <2>1, <2>3, <2>4
<1>14. CASE Change!Restart(d)
    BY <1>4, <1>5, <1>14 DEF Change!Restart
<1>15. CASE Change!SendCard(d)
    <2>1. /\ UNCHANGED <<pending, queue, inbox, key, restart>>
          /\ out' = [out EXCEPT ![d] = Append(@, [type |-> "card", from |-> d])]
        BY <1>15 DEF Change!SendCard
    <2>2. [type |-> "card", from |-> d] \in O
        BY <1>6 DEF Leaves
    <2>3. out'[e] \in Seq(O)
        BY <1>4, <1>5, <2>1, <2>2
    <2> QED
        BY <1>4, <2>1, <2>3
<1> QED
    BY <1>7, <1>8, <1>9, <1>11, <1>12, <1>13, <1>14, <1>15 DEF Moves

(* A device that did not make the last key takes a step: the maker's side  *)
(* stands as it did, and the key comes to nobody it was not on its way to. *)
LEMMA OthersMove ==
    ASSUME Change!RekeyAssumption, KeyInv, FollowTypes, \A e \in Devices : Alone(e),
           NEW n \in Change!Keys, n = Len(made), NEW b \in Devices, b = made[n].by,
           NEW d \in Devices, d # b, Moves(d)
    PROVE  /\ queue'[b] = queue[b] /\ pending'[b] = pending[b] /\ known'[b] = known[b]
           /\ up'[b] = up[b] /\ out'[b] = out[b] /\ (b \in deferred' <=> b \in deferred)
           /\ Has(inbox'[b], Confirmed(n)) <=> Has(inbox[b], Confirmed(n))
           /\ \A e \in Devices \ {b} : key'[e] = n \/ Has(inbox'[e], Bundle(n)) =>
                                           key[e] = n \/ Has(inbox[e], Bundle(n))
<1> DEFINE Goal == /\ queue'[b] = queue[b] /\ pending'[b] = pending[b] /\ known'[b] = known[b]
                   /\ up'[b] = up[b] /\ out'[b] = out[b]
                   /\ Has(inbox'[b], Confirmed(n)) <=> Has(inbox[b], Confirmed(n))
                   /\ \A e \in Devices \ {b} : key'[e] = n \/ Has(inbox'[e], Bundle(n)) =>
                                                   key[e] = n \/ Has(inbox[e], Bundle(n))
<1> SUFFICES Goal
    BY RoomForIt
<1>1. /\ key \in [Devices -> AnyKey] /\ DOMAIN pending = Devices /\ DOMAIN queue = Devices
      /\ DOMAIN out = Devices /\ DOMAIN inbox = Devices
      /\ \A e \in Devices : inbox[e] \in Seq(Frames)
      /\ restart \in [Devices -> BOOLEAN] /\ up \in [Devices -> BOOLEAN]
      /\ known \in [Devices -> SUBSET Devices]
    BY KeysTyped DEF FollowTypes
<1>2. n \in Nat /\ n # None
    BY LastKey DEF Change!RekeyAssumption
<1>3. /\ queue[d] \in Seq({}) /\ out[d] \in Seq(Leaves)
      /\ inbox[d] \in Seq(Leaves \cup {Bundle(n)})
    BY FramesAre DEF Alone
<1>4. CASE Change!SendLocal(d)
    <2>1. queue[d] # <<>> /\ Head(queue[d]) \in {}
        BY <1>3, <1>4, TakeFrom DEF Change!SendLocal
    <2> QED
        BY <2>1
<1>5. CASE Change!Connect(d)
    BY <1>1, <1>5 DEF Change!Connect
<1>6. CASE Change!Drop(d)
    BY <1>1, <1>6, HasNothing DEF Change!Drop
<1>7. ASSUME NEW others, Change!Read(d, others) PROVE Goal
    <2>1. PICK f : f = Head(out[d])
        OBVIOUS
    <2>2. f \in Leaves
        BY <1>3, <1>7, <2>1, TakeFrom DEF Change!Read
    <2>3. f \in Frames /\ f.type # "bundle"
        BY <2>2 DEF Leaves, Frames
    <2>4. \A e \in Devices : inbox'[e] = inbox[e] \/ inbox'[e] = Append(inbox[e], f)
        BY <1>7, <2>1, <2>3 DEF Change!Read
    <2>5. ASSUME NEW e \in Devices, NEW x \in {Bundle(n), Confirmed(n)}
          PROVE  Has(inbox'[e], x) <=> Has(inbox[e], x)
        <3>1. f # x
            BY <2>2, KindsDiffer
        <3>2. Has(Append(inbox[e], f), x) <=> Has(inbox[e], x)
            BY <1>1, <2>3, <3>1, HasAppend
        <3> QED
            BY <2>4, <3>2
    <2>6. /\ UNCHANGED <<key, queue, pending, known, up>> /\ out' = [out EXCEPT ![d] = Tail(@)]
        BY <1>7 DEF Change!Read
    <2>7. out'[b] = out[b]
        BY <1>1, <2>6
    <2> QED
        BY <2>5, <2>6, <2>7
<1>8. CASE Change!Forward(d) \/ Change!Refuse(d)
    BY <1>7, <1>8 DEF Change!Forward, Change!Refuse
<1>9. CASE Change!Handle(d)
    <2>1. PICK f : f = Head(inbox[d])
        OBVIOUS
    <2>2. /\ inbox[d] # <<>> /\ inbox' = [inbox EXCEPT ![d] = Tail(@)]
          /\ up' = up /\ queue' = queue /\ out' = out
        BY <1>9, HandleMoves
    <2>9. known'[b] = known[b]
        <3>1. known' = known \/ \E e \in Devices : known' = [known EXCEPT ![d] = @ \cup {e}]
            BY <1>9, HandleMoves
        <3> QED
            BY <1>1, <3>1
    <2>3. pending'[b] = pending[b] /\ \A e \in Devices \ {d} : key'[e] = key[e]
        <3>1. /\ key' = key \/ key' = [key EXCEPT ![d] = key'[d]]
              /\ pending' = pending \/ pending' = [pending EXCEPT ![d] = None]
            BY <1>9, HandleMoves
        <3>2. pending'[b] = pending[b]
            BY <1>1, <3>1
        <3>3. \A e \in Devices \ {d} : key'[e] = key[e]
            BY <1>1, <3>1
        <3> QED
            BY <3>2, <3>3
    <2>4. Has(inbox[d], Bundle(n)) <=> f = Bundle(n) \/ Has(Tail(inbox[d]), Bundle(n))
        BY <1>1, <2>1, <2>2, HasTail
    <2>5. f \in Leaves \/ f = Bundle(n)
        BY <1>3, <2>1, <2>2, TakeFrom
    <2>6. f \in Leaves => key' = key
        BY <1>9, <2>1 DEF Change!Handle, Change!OnSent, Change!OnBundle, Change!OnLeave, Change!OnCard,
                          Leaves
    <2>7. /\ inbox'[d] = Tail(inbox[d])
          /\ \A e \in Devices \ {d} : inbox'[e] = inbox[e]
        BY <1>1, <2>2
    <2>8. key'[d] = n \/ Has(inbox'[d], Bundle(n)) => key[d] = n \/ Has(inbox[d], Bundle(n))
        BY <2>4, <2>5, <2>6, <2>7
    <2> QED
        BY <2>2, <2>3, <2>7, <2>8, <2>9
<1>10. CASE Change!LeaveAccount(d)
    <2>1. /\ UNCHANGED <<pending, known, up, queue, inbox>>
          /\ key' = [key EXCEPT ![d] = None] \/ key' = key
          /\ \A e \in Devices \ {d} : out'[e] = out[e]
        BY <1>1, <1>10 DEF Change!LeaveAccount
    <2>2. \A e \in Devices : key'[e] = n => key[e] = n
        BY <1>1, <1>2, <2>1
    <2> QED
        BY <2>1, <2>2
<1>11. CASE Change!Restart(d)
    <2>1. /\ queue'[b] = queue[b] /\ pending'[b] = pending[b] /\ known'[b] = known[b]
          /\ up'[b] = up[b] /\ out'[b] = out[b] /\ key' = key
        BY <1>1, <1>11 DEF Change!Restart
    <2>2. /\ inbox'[d] = <<>> /\ \A e \in Devices \ {d} : inbox'[e] = inbox[e]
        BY <1>1, <1>11 DEF Change!Restart
    <2> QED
        BY <2>1, <2>2, HasNothing
<1>12. CASE Change!SendCard(d)
    BY <1>1, <1>12 DEF Change!SendCard
<1> QED
    BY <1>4, <1>5, <1>6, <1>8, <1>9, <1>10, <1>11, <1>12 DEF Moves

(* The maker of the last key takes a step.                                 *)
LEMMA MakerMoves ==
    ASSUME Change!RekeyAssumption, KeyInv, FollowTypes, \A e \in Devices : Alone(e),
           NEW n \in Change!Keys, n = Len(made), NEW d \in Devices, d = made[n].by,
           Follows(n), Moves(d)
    PROVE  Follows(n)'
<1>1. /\ key \in [Devices -> AnyKey] /\ DOMAIN pending = Devices /\ DOMAIN queue = Devices
      /\ DOMAIN out = Devices /\ DOMAIN inbox = Devices
      /\ \A e \in Devices : inbox[e] \in Seq(Frames)
      /\ restart \in [Devices -> BOOLEAN] /\ up \in [Devices -> BOOLEAN]
      /\ known \in [Devices -> SUBSET Devices]
    BY KeysTyped DEF FollowTypes
<1>2. made' = made /\ n \in Nat /\ n # None
    BY LastKey, MovesMakeNoKey DEF Change!RekeyAssumption
<1>3. /\ pending[d] \in {n, None} /\ queue[d] \in Seq({n})
      /\ out[d] \in Seq(Leaves \cup {Bundle(n)}) /\ inbox[d] \in Seq(Leaves \cup {Confirmed(n)})
    BY FramesAre DEF Alone
<1>18. restart[d] => key[d] \in {n, None}
    <2>1. n \in Mine(d)
        BY FramesAre
    <2> QED
        BY <2>1 DEF Alone
<1>16. unsaved \subseteq unsaved'
    BY UnsavedStays
<1>4. Bundle(n)' = Bundle(n) /\ Confirmed(n)' = Confirmed(n)
    BY DEF Bundle, Confirmed
<1> DEFINE Away == \E e \in Devices \ {d} : key[e] = n \/ Has(inbox[e], Bundle(n))
           Way == \/ ~up[d] \/ d \in deferred \/ Has(queue[d], n)
                  \/ Has(out[d], Bundle(n)) \/ Has(inbox[d], Confirmed(n))
           Can == made[n].keep \subseteq known[d]
           Moved == key[d] \in {n, None} \/ <<d, n>> \in unsaved
<1>5. \/ Moved
      \/ /\ pending[d] = n => Can
         /\ queue[d] # <<>> => pending[d] = n
         /\ Has(out[d], Bundle(n)) \/ Has(inbox[d], Confirmed(n)) \/ Away => pending[d] = n /\ Way
    BY UnderwayHas DEF Follows, Elsewhere, MovedOn, CanSend
<1>6. SUFFICES ASSUME key'[d] \notin {n, None}, <<d, n>> \notin unsaved'
               PROVE  /\ pending'[d] = n => Can'
                      /\ queue'[d] # <<>> => pending'[d] = n
                      /\ Has(out'[d], Bundle(n)) \/ Has(inbox'[d], Confirmed(n)) \/ Away'
                            => pending'[d] = n /\ Way'
    <2>1. Change!Underway(d, n)' <=> pending'[d] = n /\ Way'
        BY <1>4 DEF Change!Underway, Has, Bundle, Confirmed
    <2> QED
        BY <1>2, <1>4, <2>1 DEF Follows, Elsewhere, MovedOn, CanSend
<1>7. ~Moved /\ ~restart[d]
    BY <1>6, <1>16, <1>18, KeysMove
<1> DEFINE Goal == /\ pending'[d] = n => Can'
                   /\ queue'[d] # <<>> => pending'[d] = n
                   /\ Has(out'[d], Bundle(n)) \/ Has(inbox'[d], Confirmed(n)) \/ Away'
                            => pending'[d] = n /\ Way'
<1>8. CASE Change!SendLocal(d)
    <2>1. /\ UNCHANGED <<key, known, up, inbox>> /\ queue[d] # <<>> /\ up[d]
          /\ queue' = [queue EXCEPT ![d] = Tail(@)]
        BY <1>8 DEF Change!SendLocal
    <2>2. Head(queue[d]) = n
        BY <1>3, <2>1, TakeFrom
    <2>3. Away' <=> Away
        BY <1>4, <2>1
    <2>4. Can' <=> Can
        BY <1>2, <2>1
    <2>5. CASE Can
        <3>1. out' = [out EXCEPT ![d] = Append(@, Bundle(n))] /\ pending' = pending
            BY <1>8, <2>2, <2>5 DEF Change!SendLocal, Bundle
        <3>2. Has(out'[d], Bundle(n))
            <4>1. Bundle(n) \in Leaves \cup {Bundle(n)}
                OBVIOUS
            <4>2. Has(Append(out[d], Bundle(n)), Bundle(n))
                BY <1>3, <4>1, HasAppend
            <4> QED
                BY <1>1, <3>1, <4>2
        <3> QED
            BY <1>5, <1>7, <2>1, <2>4, <2>5, <3>1, <3>2
    <2>6. Can
        BY <1>5, <1>7, <2>1
    <2> QED
        BY <2>5, <2>6
<1>9. CASE Change!Connect(d)
    <2>1. /\ UNCHANGED <<key, known, pending, out, inbox>> /\ ~up[d]
          /\ \/ pending[d] = None /\ queue' = queue
             \/ pending[d] # None /\ queue' = [queue EXCEPT ![d] = Append(@, pending[d])]
             \/ pending[d] # None /\ queue' = queue /\ d \in deferred'
        BY <1>9 DEF Change!Connect
    <2>2. (Away' <=> Away) /\ (Can' <=> Can)
        BY <1>2, <1>4, <2>1
    <2>3. CASE pending[d] = None
        BY <1>1, <1>2, <1>5, <1>7, <2>1, <2>2, <2>3
    <2>4. CASE pending[d] = n
        <3>1. n \in {n} /\ Has(Append(queue[d], n), n)
            BY <1>3, HasAppend
        <3>2. Way'
            BY <1>1, <1>2, <2>1, <2>4, <3>1
        <3> QED
            BY <1>5, <1>7, <2>1, <2>2, <2>4, <3>2
    <2> QED
        BY <1>3, <2>3, <2>4
<1>10. CASE Change!Drop(d)
    <2>1. /\ UNCHANGED <<key, known, pending, queue>> /\ ~up'[d]
          /\ out'[d] = <<>> /\ inbox'[d] = <<>>
          /\ \A e \in Devices \ {d} : inbox'[e] = inbox[e]
        BY <1>1, <1>10 DEF Change!Drop
    <2>2. (Away' <=> Away) /\ (Can' <=> Can)
        BY <1>2, <1>4, <2>1
    <2> QED
        BY <1>5, <1>7, <2>1, <2>2, HasNothing
<1>11. ASSUME NEW others \in SUBSET (Devices \ {d}), Change!Read(d, others) PROVE Goal
    <2>1. PICK f : f = Head(out[d])
        OBVIOUS
    <2>2. /\ UNCHANGED <<key, known, pending, queue, up>> /\ out[d] # <<>>
          /\ out' = [out EXCEPT ![d] = Tail(@)]
          /\ inbox' = [e \in Devices |->
                 IF e \in others THEN Append(inbox[e], f)
                 ELSE IF e = d /\ f.type = "bundle"
                      THEN Append(inbox[e], [type |-> "sent", key |-> f.key])
                 ELSE inbox[e]]
        BY <1>11, <2>1 DEF Change!Read
    <2>3. out'[d] = Tail(out[d]) /\ (Can' <=> Can)
        BY <1>1, <1>2, <2>2
    <2>4. Has(out[d], Bundle(n)) <=> f = Bundle(n) \/ Has(out'[d], Bundle(n))
        BY <1>3, <2>1, <2>2, <2>3, HasTail
    <2>5. f \in Leaves \/ f = Bundle(n)
        BY <1>3, <2>1, <2>2, TakeFrom
    <2>6. CASE f \in Leaves
        <3>1. f.type # "bundle" /\ f \in Frames /\ f # Bundle(n)
            BY <2>6, KindsDiffer DEF Leaves, Frames
        <3>2. inbox'[d] = inbox[d]
              /\ \A e \in Devices : inbox'[e] = inbox[e] \/ inbox'[e] = Append(inbox[e], f)
            BY <2>2, <3>1
        <3>3. \A e \in Devices : Has(inbox'[e], Bundle(n)) <=> Has(inbox[e], Bundle(n))
            <4> SUFFICES ASSUME NEW e \in Devices
                         PROVE  Has(inbox'[e], Bundle(n)) <=> Has(inbox[e], Bundle(n))
                OBVIOUS
            <4>1. Has(Append(inbox[e], f), Bundle(n)) <=> Has(inbox[e], Bundle(n))
                BY <1>1, <3>1, HasAppend
            <4> QED
                BY <3>2, <4>1
        <3>4. Away' <=> Away
            BY <1>4, <2>2, <3>3
        <3>5. /\ Has(out'[d], Bundle(n)) <=> Has(out[d], Bundle(n))
              /\ Has(inbox'[d], Confirmed(n)) <=> Has(inbox[d], Confirmed(n))
            BY <2>4, <3>1, <3>2
        <3>6. pending' = pending /\ queue' = queue /\ up' = up /\ deferred' = deferred
            BY <1>11 DEF Change!Read
        <3>7. Way' <=> Way
            BY <3>5, <3>6, <1>4
        <3> QED
            BY <1>5, <1>7, <2>3, <3>4, <3>5, <3>6, <3>7
    <2>7. CASE f = Bundle(n)
        <3>1. f.type = "bundle" /\ f.key = n
            BY <2>7 DEF Bundle
        <3>2. inbox'[d] = Append(inbox[d], Confirmed(n))
            BY <2>2, <3>1 DEF Confirmed
        <3>3. Has(inbox'[d], Confirmed(n))
            BY <1>3, <3>2, HasAppend
        <3> QED
            BY <1>5, <1>7, <2>2, <2>3, <2>4, <2>7, <3>3
    <2> QED
        BY <2>5, <2>6, <2>7
<1>12. CASE Change!Forward(d) \/ Change!Refuse(d)
    BY <1>11, <1>12 DEF Change!Forward, Change!Refuse, Change!Roommates
<1>13. CASE Change!Handle(d)
    <2>1. PICK f : f = Head(inbox[d])
        OBVIOUS
    <2>2. /\ UNCHANGED <<up, queue, out, deferred>> /\ inbox[d] # <<>>
          /\ inbox' = [inbox EXCEPT ![d] = Tail(@)]
        BY <1>13, HandleMoves
    <2>3. /\ inbox'[d] = Tail(inbox[d]) /\ \A e \in Devices \ {d} : inbox'[e] = inbox[e]
        BY <1>1, <2>2
    <2>4. key' = key \/ key'[d] \in {n, None}
        BY <1>13, HandleMoves
    <2>5. key' = key
        BY <1>6, <2>4
    <2>6. pending'[d] = pending[d]
        <3>1. pending' = pending \/ key'[d] = n \/ <<d, n>> \in unsaved'
            BY <1>13, HandleMoves
        <3> QED
            BY <1>6, <3>1
    <2>7. (Away' <=> Away) /\ (Can => Can')
        <3>1. known[d] \subseteq known'[d]
            <4>1. known' = known \/ \E e \in Devices : known' = [known EXCEPT ![d] = @ \cup {e}]
                BY <1>13, HandleMoves
            <4> QED
                BY <1>1, <4>1
        <3>2. Away' <=> Away
            BY <1>2, <1>4, <2>2, <2>3, <2>5
        <3> QED
            BY <1>2, <3>1, <3>2
    <2>8. Has(inbox[d], Confirmed(n)) <=> f = Confirmed(n) \/ Has(inbox'[d], Confirmed(n))
        BY <1>3, <2>1, <2>2, <2>3, HasTail
    <2>9. f = Confirmed(n) => pending[d] # n
        <3>1. SUFFICES ASSUME f = Confirmed(n), pending[d] = n
                       PROVE  key'[d] = n \/ <<d, n>> \in unsaved'
            BY <1>6
        <3>2. f.type = "sent" /\ f.key = n
            BY <3>1 DEF Confirmed
        <3>3. Change!OnSent(d, f)
            BY <1>13, <2>1, <3>2 DEF Change!Handle, Change!OnBundle, Change!OnLeave, Change!OnCard
        <3>4. PICK forget : Change!MoveTo(d, n, forget)
            BY <3>1, <3>2, <3>3 DEF Change!OnSent, Change!TakeRekey
        <3> QED
            BY <1>1, <3>4 DEF Change!MoveTo
    <2> QED
        BY <1>5, <1>7, <2>2, <2>6, <2>7, <2>8, <2>9
<1>14. CASE Change!LeaveAccount(d)
    <2>1. key' = key /\ UNCHANGED <<pending, queue, inbox, known, up, deferred>>
        BY <1>1, <1>6, <1>14 DEF Change!LeaveAccount
    <2>2. PICK f \in Leaves : out'[d] = out[d] \/ out'[d] = Append(out[d], f)
        BY <1>1, <1>14 DEF Change!LeaveAccount, Leaves
    <2>3. Has(out'[d], Bundle(n)) <=> Has(out[d], Bundle(n))
        <3>1. f # Bundle(n)
            BY KindsDiffer
        <3>2. Has(Append(out[d], f), Bundle(n)) <=> Has(out[d], Bundle(n))
            BY <1>3, <3>1, HasAppend
        <3> QED
            BY <2>2, <3>2
    <2>4. (Away' <=> Away) /\ (Can' <=> Can)
        BY <1>2, <1>4, <2>1
    <2> QED
        BY <1>5, <1>7, <2>1, <2>3, <2>4
<1>15. CASE Change!Restart(d)
    BY <1>7, <1>15 DEF Change!Restart
<1>17. CASE Change!SendCard(d)
    <2>1. /\ UNCHANGED <<key, pending, queue, inbox, known, up, deferred>>
          /\ out'[d] = Append(out[d], [type |-> "card", from |-> d])
        BY <1>1, <1>17 DEF Change!SendCard
    <2>2. PICK f \in Leaves : f = [type |-> "card", from |-> d]
        BY DEF Leaves
    <2>3. Has(out'[d], Bundle(n)) <=> Has(out[d], Bundle(n))
        <3>1. f # Bundle(n)
            BY KindsDiffer
        <3>2. Has(Append(out[d], f), Bundle(n)) <=> Has(out[d], Bundle(n))
            BY <1>3, <3>1, HasAppend
        <3> QED
            BY <2>1, <2>2, <3>2
    <2>4. (Away' <=> Away) /\ (Can' <=> Can)
        BY <1>2, <1>4, <2>1
    <2> QED
        BY <1>5, <1>7, <2>1, <2>3, <2>4
<1> QED
    BY <1>8, <1>9, <1>10, <1>12, <1>13, <1>14, <1>15, <1>17 DEF Moves

LEMMA FollowsMoves ==
    ASSUME Change!RekeyAssumption, KeyInv, FollowTypes, \A e \in Devices : Alone(e),
           NEW n \in Change!Keys, n = Len(made), Follows(n), NEW d \in Devices, Moves(d)
    PROVE  Follows(n)'
<1>1. PICK b \in Devices : b = made[n].by
    BY LastKey
<1>2. CASE d = b
    BY <1>1, <1>2, MakerMoves
<1>3. CASE d # b
    <2>1. made' = made /\ Bundle(n)' = Bundle(n) /\ Confirmed(n)' = Confirmed(n)
        BY MovesMakeNoKey DEF Bundle, Confirmed
    <2>2. key'[b] \in {key[b], n, None}
        BY KeysMove
    <2>3. /\ queue'[b] = queue[b] /\ pending'[b] = pending[b] /\ known'[b] = known[b]
          /\ up'[b] = up[b] /\ out'[b] = out[b] /\ (b \in deferred' <=> b \in deferred)
          /\ Has(inbox'[b], Confirmed(n)) <=> Has(inbox[b], Confirmed(n))
          /\ \A e \in Devices \ {b} : key'[e] = n \/ Has(inbox'[e], Bundle(n)) =>
                                          key[e] = n \/ Has(inbox[e], Bundle(n))
        BY <1>1, <1>3, OthersMove
    <2>4. Elsewhere(n)' => Elsewhere(n)
        BY <1>1, <2>1, <2>3 DEF Elsewhere
    <2>5. Change!Underway(b, n) => Change!Underway(b, n)'
        <3>1. Change!Underway(b, n)' <=>
                  /\ pending'[b] = n
                  /\ \/ ~up'[b] \/ b \in deferred' \/ Has(queue'[b], n)
                     \/ Has(out'[b], Bundle(n)) \/ Has(inbox'[b], Confirmed(n))
            BY DEF Change!Underway, Has, Bundle, Confirmed
        <3> QED
            BY <2>3, <3>1, UnderwayHas
    <2>6. (CanSend(n)' <=> CanSend(n)) /\ (MovedOn(n) => MovedOn(n)')
        BY <1>1, <2>1, <2>2, <2>3, UnsavedStays DEF CanSend, MovedOn
    <2> QED
        BY <1>1, <2>1, <2>3, <2>4, <2>5, <2>6 DEF Follows
<1> QED
    BY <1>2, <1>3

LEMMA EarlierMoves ==
    ASSUME Change!RekeyAssumption, KeyInv, FollowTypes, \A e \in Devices : Alone(e), Earlier,
           NEW d \in Devices, Moves(d)
    PROVE  Earlier'
<1>1. made' = made /\ Change!Keys' = Change!Keys
    BY MovesMakeNoKey DEF Change!Keys
<1>2. SUFFICES ASSUME NEW n \in Change!Keys, n # Len(made),
                      NEW e \in Devices \ {made[n].by}, key'[e] = n
               PROVE  \/ key'[made[n].by] = None \/ key'[made[n].by] >= n
                      \/ <<made[n].by, n>> \in unsaved'
    BY <1>1 DEF Earlier
<1>3. n \in Nat /\ n # None /\ n <= Len(made) /\ made[n].by \in Devices
    BY LastKey, KeysAre DEF Change!RekeyAssumption, KeyInv
<1>4. key[e] = n
    BY <1>2, <1>3, KeysMove
<1>5. key[made[n].by] = None \/ key[made[n].by] >= n \/ <<made[n].by, n>> \in unsaved
    BY <1>2, <1>4 DEF Earlier
<1>6. key'[made[n].by] \in {key[made[n].by], Len(made), None}
    BY <1>3, KeysMove
<1> QED
    BY <1>3, <1>5, <1>6, KeysAre, UnsavedStays DEF KeyInv

LEMMA FollowReplace ==
    ASSUME Change!RekeyAssumption, ~Concurrent, FollowInv, KeyInv',
           NEW d \in Devices, Change!RemoveDevices(d)
    PROVE  FollowInv'
<1>1. PICK removed \in SUBSET list[d] : Change!ReplaceKey(d, removed)
    BY DEF Change!RemoveDevices
<1>2. PICK b, m : /\ m = Len(made) + 1 /\ made' = Append(made, b) /\ b.by = d
                  /\ pending' = [pending EXCEPT ![d] = m]
                  /\ queue' = [queue EXCEPT ![d] = Append(@, m)]
                  /\ b.keep \subseteq list[d]
                  /\ UNCHANGED <<key, restart, list, known, up, out, inbox, unsaved>>
    BY <1>1 DEF Change!ReplaceKey, Change!Keepers, Change!record
<1>3. KeyTypes /\ FollowTypes /\ Change!Keys = 1 .. Len(made) /\ Len(made) \in Nat
    BY KeysAre DEF FollowInv, KeyInv
<1>4. /\ key \in [Devices -> AnyKey] /\ DOMAIN pending = Devices /\ DOMAIN queue = Devices
      /\ made \in Seq(Bundles) /\ made' \in Seq(Bundles)
    BY <1>3 DEF KeyTypes, KeyInv
<1>5. /\ Len(made') = m /\ made'[m] = b /\ \A n \in Change!Keys : made'[n] = made[n]
      /\ m \in Nat /\ m # None /\ Change!Keys' = Change!Keys \cup {m}
    BY <1>2, <1>3, <1>4 DEF Change!Keys, Change!RekeyAssumption
<1>6. \A e \in Devices : /\ ~restart[e] /\ pending[e] = None
                         /\ queue[e] = <<>> /\ out[e] = <<>> /\ inbox[e] = <<>>
    BY <1>1 DEF Change!ReplaceKey, Change!Settled
<1>7. \A e \in Devices : key[e] # m
    BY <1>3, <1>4, <1>5, <1>2 DEF AnyKey
<1>8. FollowTypes'
    BY <1>2, <1>3 DEF FollowTypes
<1>9. ASSUME NEW e \in Devices PROVE Alone(e)'
    <2>1. out'[e] = <<>> /\ inbox'[e] = <<>> /\ ~restart'[e]
        BY <1>2, <1>6
    <2>2. CASE e # d
        <3>1. pending'[e] = None /\ queue'[e] = <<>>
            BY <1>2, <1>4, <1>6, <2>2
        <3> QED
            BY <2>1, <3>1 DEF Alone
    <2>3. CASE e = d
        <3>1. m \in Mine(d)'
            BY <1>2, <1>5 DEF Mine
        <3>2. queue'[e] = Append(<<>>, m) /\ pending'[e] = m
            BY <1>2, <1>4, <1>6, <2>3
        <3>3. Append(<<>>, m) \in Seq(Mine(d)')
            BY <3>1
        <3> QED
            BY <2>1, <2>3, <3>1, <3>2, <3>3 DEF Alone
    <2> QED
        BY <2>2, <2>3
<1>10. ASSUME NEW n \in Change!Keys', n = Len(made') PROVE Follows(n)'
    <2>1. n = m /\ made'[n].by = d
        BY <1>2, <1>5, <1>10
    <2>2. pending'[d] = n
        BY <1>2, <1>4, <2>1
    <2>4. CanSend(n)'
        BY <1>2, <1>3, <1>5, <2>1 DEF CanSend, FollowTypes
    <2>3. ~Elsewhere(n)'
        BY <1>2, <1>6, <1>7, <2>1, HasNothing DEF Elsewhere
    <2> QED
        BY <2>1, <2>2, <2>3, <2>4 DEF Follows
<1>11. Earlier'
    <2>1. ASSUME NEW n \in Change!Keys, NEW e \in Devices \ {made[n].by}, key[e] = n
          PROVE  \/ key[made[n].by] = None \/ key[made[n].by] >= n
                 \/ <<made[n].by, n>> \in unsaved
        <3>1. CASE n # Len(made)
            BY <2>1, <3>1 DEF FollowInv, Earlier
        <3>2. CASE n = Len(made)
            <4>1. Elsewhere(n) /\ made[n].by \in Devices /\ n # None /\ n \in Nat
                BY <2>1, LastKey, <1>3 DEF Elsewhere, FollowInv, Change!RekeyAssumption
            <4>2. ~Change!Underway(made[n].by, n)
                BY <1>6, <4>1 DEF Change!Underway
            <4>3. key[made[n].by] \in {n, None} \/ <<made[n].by, n>> \in unsaved
                BY <3>2, <4>1, <4>2 DEF FollowInv, Follows, MovedOn
            <4> QED
                BY <4>1, <4>3
        <3> QED
            BY <3>1, <3>2
    <2>2. ASSUME NEW n \in Change!Keys', n # Len(made'),
                 NEW e \in Devices \ {made'[n].by}, key'[e] = n
          PROVE  \/ key'[made'[n].by] = None \/ key'[made'[n].by] >= n
                 \/ <<made'[n].by, n>> \in unsaved'
        <3>1. n \in Change!Keys /\ made'[n] = made[n] /\ key' = key /\ unsaved' = unsaved
            BY <1>2, <1>5, <2>2
        <3> QED
            BY <2>1, <2>2, <3>1
    <2> QED
        BY <2>2 DEF Earlier
<1> QED
    BY <1>8, <1>9, <1>10, <1>11 DEF FollowInv

LEMMA FollowInit ==
    ASSUME Change!RekeyAssumption, Change!Init
    PROVE  FollowInv
<1>1. KeyInv
    BY KeyInit
<1>2. Change!Keys = {} /\ FollowTypes
    BY DEF Change!Init, Change!Keys, FollowTypes
<1>3. ASSUME NEW d \in Devices PROVE Alone(d)
    BY DEF Change!Init, Alone
<1> QED
    BY <1>1, <1>2, <1>3 DEF FollowInv, Earlier

LEMMA FollowStep ==
    ASSUME Change!RekeyAssumption, ~Concurrent, FollowInv, [Change!Next]_(Change!vars)
    PROVE  FollowInv'
<1>1. KeyInv'
    BY KeyStep DEF FollowInv
<1>2. CASE UNCHANGED Change!vars
    <2>1. Change!Keys' = Change!Keys /\ FollowTypes'
        BY <1>2 DEF FollowInv, FollowTypes, Change!vars, Change!wire, Change!Keys
    <2>2. ASSUME NEW d \in Devices PROVE Alone(d)'
        BY <1>2, AloneKept DEF FollowInv, Alone, Change!vars, Change!wire
    <2>3. ASSUME NEW n \in Change!Keys, n = Len(made) PROVE Follows(n)'
        BY <1>2, <2>3 DEF FollowInv, Follows, Elsewhere, MovedOn, CanSend, Change!Underway, Bundle,
                          Confirmed, Change!vars, Change!wire, Change!record
    <2>4. Earlier' /\ made' = made
        BY <1>2, <2>1 DEF FollowInv, Earlier, Change!vars, Change!record
    <2> QED
        BY <1>1, <2>1, <2>2, <2>3, <2>4 DEF FollowInv
<1>3. CASE \E d \in Devices : Change!RemoveDevices(d)
    BY <1>1, <1>3, FollowReplace
<1>4. ASSUME NEW d \in Devices, Moves(d) PROVE FollowInv'
    <2>1. made' = made /\ Change!Keys' = Change!Keys
        BY <1>4, MovesMakeNoKey DEF Change!Keys
    <2>2. FollowTypes'
        <3>1. /\ known \in [Devices -> SUBSET Devices] /\ list \in [Devices -> SUBSET Devices]
              /\ up \in [Devices -> BOOLEAN] /\ \A e \in Devices : list[e] \subseteq known[e]
            BY KeysTyped DEF FollowInv, FollowTypes
        <3>2. CASE Change!Handle(d)
            <4>1. PICK f : Change!OnSent(d, f) \/ Change!OnBundle(d, f) \/ Change!OnLeave(d, f)
                           \/ (Change!OnCard(d, f) /\ f = Head(inbox[d]))
                BY <3>2 DEF Change!Handle
            <4>2. up' = up
                BY <3>2 DEF Change!Handle
            <4>3. CASE Change!OnCard(d, f) /\ f = Head(inbox[d])
                <5>1. f \in Frames /\ f.type = "card"
                    <6>1. inbox[d] # <<>> /\ inbox[d] \in Seq(Frames) /\ f = Head(inbox[d])
                        BY <3>2, <4>3, KeysTyped DEF Change!Handle, FollowInv
                    <6>2. f \in Frames
                        BY <6>1, TakeFrom
                    <6> QED
                        BY <4>3, <6>2 DEF Change!OnCard
                <5>2. PICK e \in Devices : e = f.from
                    BY <5>1 DEF Frames
                <5>3. /\ known' = [known EXCEPT ![d] = @ \cup {e}]
                      /\ list' = [list EXCEPT ![d] = @ \cup {e}]
                    BY <4>3, <5>2 DEF Change!OnCard
                <5> QED
                    BY <3>1, <4>2, <5>3 DEF FollowTypes
            <4>4. CASE Change!OnSent(d, f) \/ Change!OnBundle(d, f) \/ Change!OnLeave(d, f)
                <5>1. known' = known
                    BY <4>4 DEF Change!OnSent, Change!OnBundle, Change!OnLeave
                <5>2. list' = list \/ \E s : list' = [list EXCEPT ![d] = s] /\ s \subseteq list[d]
                    BY <4>4, Zenon DEF Change!OnSent, Change!OnBundle, Change!OnLeave, Change!MoveTo,
                                Change!ForgetAccount, Change!Ignore
                <5>3. \A e \in Devices : list'[e] \subseteq list[e]
                    BY <3>1, <5>2
                <5> QED
                    BY <3>1, <4>2, <5>1, <5>3 DEF FollowTypes
            <4> QED
                BY <4>1, <4>3, <4>4
        <3>3. CASE Change!LeaveAccount(d)
            BY <3>1, <3>3 DEF FollowTypes, Change!LeaveAccount
        <3>4. CASE Change!Restart(d)
            BY <3>1, <3>4 DEF FollowTypes, Change!Restart
        <3> QED
            BY <1>4, <3>1, <3>2, <3>3, <3>4
            DEF FollowTypes, Moves, Change!SendLocal, Change!Connect, Change!Drop, Change!SendCard,
                Change!Forward, Change!Refuse, Change!Read
    <2>3. \A e \in Devices : Alone(e)'
        BY <1>4, AloneMoves DEF FollowInv
    <2>4. \A n \in Change!Keys : n = Len(made) => Follows(n)'
        BY <1>4, FollowsMoves DEF FollowInv
    <2>5. Earlier'
        BY <1>4, EarlierMoves DEF FollowInv
    <2> QED
        BY <1>1, <2>1, <2>2, <2>3, <2>4, <2>5 DEF FollowInv
<1> QED
    BY <1>2, <1>3, <1>4 DEF Change!Next, Moves

LEMMA FollowImplies ==
    ASSUME Change!RekeyAssumption, FollowInv
    PROVE  Change!MakerFollows
<1> SUFFICES ASSUME NEW n \in Change!Keys, NEW e \in Devices \ {made[n].by}, key[e] = n
             PROVE  \/ key[made[n].by] = None \/ key[made[n].by] >= n
                    \/ Change!Underway(made[n].by, n) \/ <<made[n].by, n>> \in unsaved
    BY DEF Change!MakerFollows
<1>1. n \in Nat
    BY LastKey DEF FollowInv
<1>2. CASE n = Len(made)
    BY <1>1, <1>2 DEF FollowInv, Follows, Elsewhere, MovedOn
<1>3. CASE n # Len(made)
    BY <1>3 DEF FollowInv, Earlier
<1> QED
    BY <1>2, <1>3

(* With one change of the key at a time, whatever connections drop, whatever is refused and      *)
(* whatever cannot be saved: where a device has gone to a key, the one that made it has gone     *)
(* too, or has it or its confirmation on its way, or sends it again when it connects, or was     *)
(* told that it could not save it (resend_pending, take_rekey, move_to_new_key).                 *)
THEOREM MakerIsFollowed ==
    ASSUME ~Concurrent
    PROVE  /\ Change!Spec => []Change!MakerFollows
           /\ MCSpec => []MakerFollows
<1>1. Change!Init => FollowInv
    BY FollowInit, DeviceAssumption
<1>2. FollowInv /\ [Change!Next]_(Change!vars) => FollowInv'
    BY FollowStep, DeviceAssumption
<1>3. FollowInv => Change!MakerFollows
    BY FollowImplies, DeviceAssumption
<1>4. Change!Spec => []Change!MakerFollows
    BY <1>1, <1>2, <1>3, PTL DEF Change!Spec
<1>5. MCSpec => []MakerFollows
    <2>1. MCInit => (part = "rekey" => FollowInv)
        BY <1>1, PartStarts
    <2>2. (part = "rekey" => FollowInv) /\ [MCNext]_<<part, slots>> => (part = "rekey" => FollowInv)'
        BY <1>2, PartGoesOn
    <2>3. (part = "rekey" => FollowInv) => MakerFollows
        BY <1>3 DEF MakerFollows
    <2> QED
        BY <2>1, <2>2, <2>3, PTL DEF MCSpec
<1> QED
    BY <1>4, <1>5

(***************************************************************************)
(* The replay guard.  There is room for every other device of the account, *)
(* so that none is pushed out; the highest numbers, in memory while the    *)
(* daemon runs and in the file while it does not, cover every clip written *)
(* unless a crash lost one.                                                *)
(***************************************************************************)
Others == Owners \ {Me}
Heights == UNION {[S -> Nat] : S \in SUBSET Others}

GuardTypes ==
    /\ sealed \subseteq Guard!Clips
    /\ highest \in Heights /\ sink.highest \in Heights /\ disk.highest \in Heights
    /\ phase \in {"off", "idle", "event", "save"}
    /\ phase = "event" => hand[1] \in Guard!Clips
    /\ written \in Seq(Guard!Clips)
    /\ lost \in BOOLEAN

(* `order` lists the devices known, each once. *)
Listed(q, h) ==
    /\ q \in Seq(Others)
    /\ \A i, j \in DOMAIN q : q[i] = q[j] => i = j
    /\ Guard!Range(q) = DOMAIN h

Covers(h) ==
    \A i \in DOMAIN written : /\ written[i].dev \in DOMAIN h
                              /\ written[i].seq <= h[written[i].dev]

(* The clip on its way to the clipboard is the newest of its device, and is not written yet. *)
HandIsNewest(c) ==
    /\ c.dev \in DOMAIN highest /\ c.seq = highest[c.dev]
    /\ \A i \in DOMAIN written : written[i].dev = c.dev => written[i].seq < c.seq

GuardCovers ==
    lost \/ /\ phase # "off" => Covers(highest)
            /\ phase = "off" => Covers(disk.highest)
            /\ phase = "event" => HandIsNewest(hand[1])

GuardInv == GuardTypes /\ Listed(order, highest) /\ GuardCovers /\ Guard!ClipsInOrder

(* Finite sets are counted alike in both modules. *)
LEMMA GuardCounts ==
    /\ \A S : Guard!Cardinality(S) = Cardinality(S)
    /\ \A S : Guard!IsFiniteSet(S) <=> IsFiniteSet(S)
<1>1. ASSUME NEW S PROVE Guard!Cardinality(S) = Cardinality(S)
    BY DEF Cardinality, Guard!Cardinality
<1>2. ASSUME NEW S PROVE Guard!IsFiniteSet(S) <=> IsFiniteSet(S)
    BY DEF IsFiniteSet, Guard!IsFiniteSet
<1> QED
    BY <1>1, <1>2

(* A list without repetition is no longer than there are others. *)
LEMMA ListedFits ==
    ASSUME Guard!ReplayAssumption, NEW q \in Seq(Others),
           \A i, j \in DOMAIN q : q[i] = q[j] => i = j
    PROVE  Len(q) <= DeviceCapacity
<1>1. IsFiniteSet(Others) /\ DeviceCapacity >= Cardinality(Others)
    <2>1. IsFiniteSet(Owners) /\ DeviceCapacity >= Cardinality(Owners \ {Me})
        BY GuardCounts DEF Guard!ReplayAssumption
    <2> QED
        BY <2>1, FS_Subset DEF Others
<1>2. q \in Injection(1 .. Len(q), Others)
    BY DEF Injection, IsInjective
<1>3. Cardinality(1 .. Len(q)) <= Cardinality(Others)
    BY <1>1, <1>2, FS_Injection
<1>4. Cardinality(1 .. Len(q)) = Len(q) /\ Len(q) \in Nat
    <2>1. Len(q) \in Nat
        OBVIOUS
    <2>2. Cardinality(1 .. Len(q)) = IF 1 > Len(q) THEN 0 ELSE Len(q) - 1 + 1
        BY <2>1, FS_Interval
    <2> QED
        BY <2>1, <2>2
<1>5. Cardinality(Others) \in Nat
    BY <1>1, FS_CardinalityType
<1> QED
    BY <1>1, <1>3, <1>4, <1>5 DEF Guard!ReplayAssumption
(* ReplayGuard::record makes room for nobody, and raises the number of the clip's device only. *)
LEMMA Recorded ==
    ASSUME Guard!ReplayAssumption, GuardInv, NEW c \in Guard!Clips, c.dev # Me, Guard!Record(c)
    PROVE  /\ highest' \in Heights /\ Listed(order', highest')
           /\ DOMAIN highest' = DOMAIN highest \cup {c.dev}
           /\ highest'[c.dev] = c.seq
           /\ \A d \in DOMAIN highest : d # c.dev => highest'[d] = highest[d]
<1> DEFINE arrived == IF Guard!Known(c.dev) THEN order ELSE Append(order, c.dev)
           kept == IF Len(arrived) > DeviceCapacity THEN Tail(arrived) ELSE arrived
           high == [d \in DOMAIN highest \cup {c.dev} |-> IF d = c.dev THEN c.seq ELSE highest[d]]
<1>1. /\ c.dev \in Others /\ c.seq \in Nat /\ Listed(order, highest) /\ highest \in Heights
    BY DEF Guard!Clips, Guard!Numbers, Guard!ReplayAssumption, Others, GuardInv, GuardTypes
<1>2. /\ arrived \in Seq(Others) /\ \A i, j \in DOMAIN arrived : arrived[i] = arrived[j] => i = j
      /\ Guard!Range(arrived) = DOMAIN highest \cup {c.dev}
    <2>1. CASE c.dev \in DOMAIN highest
        BY <1>1, <2>1 DEF Listed, Guard!Known
    <2>2. CASE c.dev \notin DOMAIN highest
        <3>1. arrived = Append(order, c.dev)
            BY <2>2 DEF Guard!Known
        <3>2. order \in Seq(Others) /\ \A i \in DOMAIN order : order[i] # c.dev
            BY <1>1, <2>2 DEF Listed, Guard!Range
        <3> HIDE DEF arrived
        <3>3. /\ arrived \in Seq(Others) /\ DOMAIN arrived = DOMAIN order \cup {Len(order) + 1}
              /\ arrived[Len(order) + 1] = c.dev
              /\ \A i \in DOMAIN order : arrived[i] = order[i]
            BY <1>1, <3>1, <3>2
        <3>4. \A i, j \in DOMAIN arrived : arrived[i] = arrived[j] => i = j
            BY <1>1, <3>2, <3>3 DEF Listed
        <3>5. Guard!Range(arrived) = DOMAIN highest \cup {c.dev}
            BY <1>1, <3>3 DEF Listed, Guard!Range
        <3> QED
            BY <3>3, <3>4, <3>5
    <2> QED
        BY <2>1, <2>2
<1>3. order' = kept /\ highest' = [x \in Guard!Range(kept) |-> high[x]]
    BY DEF Guard!Record, Guard!Restrict
<1> HIDE DEF arrived
<1>4. Len(arrived) \in Nat /\ Len(arrived) <= DeviceCapacity /\ DeviceCapacity \in Nat
    BY <1>2, ListedFits DEF Guard!ReplayAssumption
<1>5. kept = arrived
    BY <1>4
<1> HIDE DEF kept
<1>6. /\ DOMAIN highest' = DOMAIN highest \cup {c.dev}
      /\ highest' = high
    BY <1>2, <1>3, <1>5
<1>7. PICK S \in SUBSET Others : highest \in [S -> Nat]
    BY <1>1 DEF Heights
<1>8. highest' \in [S \cup {c.dev} -> Nat]
    BY <1>1, <1>6, <1>7
<1>9. highest' \in Heights
    BY <1>1, <1>8 DEF Heights
<1>10. Listed(order', highest')
    BY <1>2, <1>3, <1>5, <1>6 DEF Listed
<1> QED
    BY <1>6, <1>9, <1>10

(* restore lists every device of the file. *)
LEMMA Restored ==
    ASSUME Guard!ReplayAssumption, NEW h \in Heights
    PROVE  Listed(Guard!Listing(DOMAIN h), h)
<1>1. PICK S \in SUBSET Others : h \in [S -> Nat]
    BY DEF Heights
<1>2. DOMAIN h = S /\ IsFiniteSet(S)
    <2>1. IsFiniteSet(Owners) /\ S \subseteq Owners
        BY GuardCounts DEF Guard!ReplayAssumption, Others
    <2> QED
        BY <1>1, <2>1, FS_Subset
<1>3. PICK n \in Nat : n = Cardinality(S) /\ ExistsBijection(1 .. n, S)
    BY <1>2, FS_CardinalityType
<1>4. PICK f \in [1 .. n -> S] : Guard!Range(f) = S
    <2>1. PICK f \in [1 .. n -> S] : \A x \in S : \E i \in 1 .. n : f[i] = x
        BY <1>3 DEF ExistsBijection, Bijection, Surjection
    <2> QED
        BY <2>1 DEF Guard!Range
<1>5. PICK q : q = Guard!Listing(S)
    OBVIOUS
<1>6. q = CHOOSE g \in [1 .. n -> S] : Guard!Range(g) = S
    BY <1>3, <1>5, GuardCounts DEF Guard!Listing
<1>7. q \in [1 .. n -> S] /\ Guard!Range(q) = S
    BY <1>4, <1>6
<1>8. q \in Seq(Others) /\ Len(q) = n
    BY <1>7
<1>9. q \in Surjection(1 .. n, S)
    BY <1>7 DEF Surjection, Guard!Range
<1>10. IsFiniteSet(1 .. n) /\ Cardinality(1 .. n) = n
    <2>1. IsFiniteSet(1 .. n) /\ Cardinality(1 .. n) = IF 1 > n THEN 0 ELSE n - 1 + 1
        BY FS_Interval
    <2> QED
        BY <2>1
<1>11. \A a, b \in DOMAIN q : q[a] = q[b] => a = b
    <2>1. q \in Injection(1 .. n, S)
        BY <1>3, <1>9, <1>10, FS_Surjection
    <2> QED
        BY <1>7, <2>1 DEF Injection, IsInjective
<1> QED
    BY <1>2, <1>5, <1>7, <1>8, <1>11 DEF Listed

LEMMA GuardInit ==
    ASSUME Guard!Init
    PROVE  GuardInv
<1>1. highest = <<>> /\ order = <<>> /\ written = <<>> /\ sealed = {} /\ phase = "idle" /\ ~lost
      /\ sink = [highest |-> <<>>, recent |-> <<>>] /\ disk = [highest |-> <<>>, recent |-> <<>>]
      /\ lost \in BOOLEAN
    BY DEF Guard!Init, Guard!Empty
<1>2. <<>> \in Heights
    <2>1. <<>> \in [{} -> Nat]
        OBVIOUS
    <2> QED
        BY <2>1 DEF Heights
<1>3. GuardTypes
    BY <1>1, <1>2 DEF GuardTypes
<1>4. Listed(order, highest)
    BY <1>1 DEF Listed, Guard!Range
<1>5. GuardCovers /\ Guard!ClipsInOrder
    BY <1>1 DEF GuardCovers, Covers, Guard!ClipsInOrder
<1> QED
    BY <1>3, <1>4, <1>5 DEF GuardInv

(* A step that leaves alone what the invariant is about. *)
LEMMA GuardStays ==
    ASSUME GuardInv, UNCHANGED <<highest, order, written, hand, sink>>, lost' = lost,
           sealed' \subseteq Guard!Clips,
           \/ phase' = phase /\ disk' = disk
           \/ phase = "idle" /\ phase' = "save" /\ disk' = disk
           \/ phase = "save" /\ phase' = "idle" /\ disk' \in {disk, sink}
    PROVE  GuardInv'
<1>1. GuardTypes'
    BY DEF GuardInv, GuardTypes
<1>2. Listed(order', highest')
    BY DEF GuardInv, Listed
<1>3. GuardCovers'
    BY DEF GuardInv, GuardCovers, Covers, HandIsNewest
<1>4. Guard!ClipsInOrder'
    BY DEF GuardInv, Guard!ClipsInOrder
<1> QED
    BY <1>1, <1>2, <1>3, <1>4 DEF GuardInv

LEMMA GuardAccept ==
    ASSUME Guard!ReplayAssumption, GuardInv, NEW c \in sealed, NEW retained \in BOOLEAN,
           Guard!Accept(c, retained)
    PROVE  GuardInv'
<1>1. c \in Guard!Clips /\ c.dev # Me /\ c.seq \in Nat
    BY DEF GuardInv, GuardTypes, Guard!Accept, Guard!Check, Guard!Clips, Guard!Numbers,
        Guard!ReplayAssumption
<1>2. /\ highest' \in Heights /\ Listed(order', highest')
      /\ DOMAIN highest' = DOMAIN highest \cup {c.dev}
      /\ highest'[c.dev] = c.seq
      /\ \A d \in DOMAIN highest : d # c.dev => highest'[d] = highest[d]
    BY <1>1, Recorded DEF Guard!Accept
<1>3. /\ phase = "idle" /\ phase' = "event" /\ hand' = <<c, retained>> /\ hand'[1] = c
      /\ sink'.highest = highest'
      /\ UNCHANGED <<sealed, disk, written, lost>>
      /\ c.dev \in DOMAIN highest => c.seq > highest[c.dev]
    BY DEF Guard!Accept, Guard!Check, Guard!Known, Guard!Memory
<1>4. GuardTypes'
    BY <1>1, <1>2, <1>3 DEF GuardInv, GuardTypes
<1>5. ASSUME ~lost, NEW i \in DOMAIN written
      PROVE  /\ written[i].dev \in DOMAIN highest' /\ written[i].seq <= highest'[written[i].dev]
             /\ written[i].dev = c.dev => written[i].seq < c.seq
    <2>1. written[i].dev \in DOMAIN highest /\ written[i].seq <= highest[written[i].dev]
        BY <1>3, <1>5 DEF GuardInv, GuardCovers, Covers
    <2>2. written[i].seq \in Nat /\ \A d \in DOMAIN highest : highest[d] \in Nat
        <3>1. written[i] \in Guard!Clips /\ highest \in Heights
            BY <1>5 DEF GuardInv, GuardTypes
        <3>2. written[i].seq \in Nat
            BY <3>1 DEF Guard!Clips, Guard!Numbers, Guard!ReplayAssumption
        <3>3. PICK S \in SUBSET Others : highest \in [S -> Nat]
            BY <3>1 DEF Heights
        <3> QED
            BY <3>2, <3>3
    <2>3. CASE written[i].dev = c.dev
        <3>1. highest[c.dev] < c.seq /\ highest[c.dev] \in Nat /\ c.dev \in DOMAIN highest
            BY <1>3, <2>1, <2>2, <2>3
        <3> QED
            BY <1>1, <1>2, <2>1, <2>2, <2>3, <3>1
    <2>4. CASE written[i].dev # c.dev
        BY <1>2, <2>1, <2>4
    <2> QED
        BY <2>3, <2>4
<1>6. GuardCovers'
    BY <1>2, <1>3, <1>5 DEF GuardCovers, Covers, HandIsNewest
<1>7. Guard!ClipsInOrder'
    BY <1>3 DEF GuardInv, Guard!ClipsInOrder
<1> QED
    BY <1>2, <1>4, <1>6, <1>7 DEF GuardInv

LEMMA GuardEvent ==
    ASSUME Guard!ReplayAssumption, GuardInv, NEW paused \in BOOLEAN, Guard!OnLiveEvent(paused)
    PROVE  GuardInv'
<1>1. PICK c : c = hand[1]
    OBVIOUS
<1>2. /\ phase = "event" /\ phase' = "save"
      /\ UNCHANGED <<sealed, highest, order, sink, disk, lost>>
      /\ written' = written \/ written' = Append(written, c)
    BY <1>1 DEF Guard!OnLiveEvent, Guard!Write, Guard!guard
<1>3. c \in Guard!Clips /\ c.seq \in Nat
    BY <1>1, <1>2 DEF GuardInv, GuardTypes, Guard!Clips, Guard!Numbers, Guard!ReplayAssumption
<1>4. GuardTypes'
    BY <1>2, <1>3 DEF GuardInv, GuardTypes
<1>5. Listed(order', highest')
    BY <1>2 DEF GuardInv, Listed
<1>6. CASE written' = written
    BY <1>2, <1>4, <1>5, <1>6 DEF GuardInv, GuardCovers, Covers, Guard!ClipsInOrder
<1>7. CASE written' = Append(written, c)
    <2>1. written \in Seq(Guard!Clips) /\ Len(written) \in Nat
        BY DEF GuardInv, GuardTypes
    <2>2. /\ DOMAIN written' = DOMAIN written \cup {Len(written) + 1}
          /\ written'[Len(written) + 1] = c
          /\ \A i \in DOMAIN written : written'[i] = written[i] /\ i < Len(written) + 1 /\ i \in Nat
        BY <1>3, <1>7, <2>1
    <2>3. ~lost => Covers(highest) /\ HandIsNewest(c)
        BY <1>1, <1>2 DEF GuardInv, GuardCovers
    <2>4. ~lost => Covers(highest)'
        BY <1>2, <1>3, <2>2, <2>3 DEF Covers, HandIsNewest
    <2>5. Guard!ClipsInOrder'
        <3> SUFFICES ASSUME ~lost, NEW i \in DOMAIN written', NEW j \in DOMAIN written', i < j,
                            written'[i].dev = written'[j].dev
                     PROVE  written'[i].seq < written'[j].seq
            BY <1>2 DEF Guard!ClipsInOrder
        <3>1. CASE j = Len(written) + 1
            <4>1. i \in DOMAIN written
                BY <2>1, <2>2, <3>1
            <4> QED
                BY <2>2, <2>3, <3>1, <4>1 DEF HandIsNewest
        <3>2. CASE j \in DOMAIN written
            <4>1. i \in DOMAIN written
                BY <2>1, <2>2, <3>2
            <4> QED
                BY <2>2, <3>2, <4>1 DEF GuardInv, Guard!ClipsInOrder
        <3> QED
            BY <2>2, <3>1, <3>2
    <2>6. GuardCovers'
        BY <1>2, <2>4 DEF GuardCovers
    <2> QED
        BY <1>4, <1>5, <2>5, <2>6 DEF GuardInv
<1> QED
    BY <1>2, <1>6, <1>7
(* A crash that finds the file up to date loses nothing. *)
LEMMA GuardCrash ==
    ASSUME GuardInv, Guard!Crash
    PROVE  GuardInv'
<1>1. /\ phase # "off" /\ phase' = "off" /\ highest' = <<>> /\ order' = <<>>
      /\ sink' = [highest |-> <<>>, recent |-> <<>>]
      /\ lost' = (lost \/ disk # [highest |-> highest, recent |-> seen])
      /\ UNCHANGED <<sealed, disk, written>>
    BY DEF Guard!Crash, Guard!Memory, Guard!Empty
<1>2. <<>> \in Heights
    <2>1. <<>> \in [{} -> Nat]
        OBVIOUS
    <2> QED
        BY <2>1 DEF Heights
<1>3. lost' \in BOOLEAN /\ (lost => lost') /\ (~lost' => disk.highest = highest)
    <2>1. disk = [highest |-> highest, recent |-> seen] => disk.highest = highest
        OBVIOUS
    <2>2. lost \in BOOLEAN
        BY DEF GuardInv, GuardTypes
    <2> QED
        BY <1>1, <2>1, <2>2, Zenon
<1>4. GuardTypes'
    BY <1>1, <1>2, <1>3 DEF GuardInv, GuardTypes
<1>5. Listed(order', highest')
    BY <1>1 DEF Listed, Guard!Range
<1>6. GuardCovers'
    BY <1>1, <1>3 DEF GuardInv, GuardCovers, Covers
<1>7. Guard!ClipsInOrder'
    BY <1>1, <1>3 DEF GuardInv, Guard!ClipsInOrder
<1> QED
    BY <1>4, <1>5, <1>6, <1>7 DEF GuardInv

LEMMA GuardStart ==
    ASSUME Guard!ReplayAssumption, GuardInv, Guard!Start
    PROVE  GuardInv'
<1>1. /\ phase = "off" /\ phase' = "idle" /\ highest' = disk.highest
      /\ order' = Guard!Listing(DOMAIN disk.highest) /\ sink' = disk
      /\ UNCHANGED <<sealed, disk, written, lost>>
    BY DEF Guard!Start
<1>2. GuardTypes'
    BY <1>1 DEF GuardInv, GuardTypes
<1>3. Listed(order', highest')
    BY <1>1, Restored DEF GuardInv, GuardTypes
<1>4. GuardCovers'
    BY <1>1 DEF GuardInv, GuardCovers, Covers
<1>5. Guard!ClipsInOrder'
    BY <1>1 DEF GuardInv, Guard!ClipsInOrder
<1> QED
    BY <1>2, <1>3, <1>4, <1>5 DEF GuardInv

LEMMA GuardStep ==
    ASSUME Guard!ReplayAssumption, GuardInv, [Guard!Next]_(Guard!vars)
    PROVE  GuardInv'
<1>1. sealed \subseteq Guard!Clips
    BY DEF GuardInv, GuardTypes
<1>2. CASE UNCHANGED Guard!vars
    BY <1>1, <1>2, GuardStays DEF Guard!vars
<1>3. ASSUME NEW c \in sealed, NEW retained \in BOOLEAN,
             Guard!Accept(c, retained) \/ Guard!Refuse(c, retained)
      PROVE  GuardInv'
    BY <1>1, <1>3, GuardAccept, GuardStays DEF Guard!Refuse, Guard!guard
<1>4. ASSUME NEW paused \in BOOLEAN, Guard!OnLiveEvent(paused) PROVE GuardInv'
    BY <1>4, GuardEvent
<1>5. CASE Guard!SaveIfChanged
    BY <1>1, <1>5, GuardStays DEF Guard!SaveIfChanged, Guard!guard
<1>6. CASE Guard!AskForRetained \/ Guard!Reconnect \/ Guard!Tick
    BY <1>1, <1>6, GuardStays DEF Guard!AskForRetained, Guard!Reconnect, Guard!Tick, Guard!guard
<1>7. ASSUME NEW c \in Guard!Clips, Guard!Seal(c) PROVE GuardInv'
    BY <1>1, <1>7, GuardStays DEF Guard!Seal, Guard!guard
<1> QED
    BY <1>2, <1>3, <1>4, <1>5, <1>6, <1>7, GuardCrash, GuardStart DEF Guard!Next

(* However the relay reorders, repeats and relabels the clips it was given, those of a device    *)
(* reach the clipboard at most once and in the order they were made, across restarts too, unless *)
(* a crash came before an acceptance was saved: for any capacity that holds the account's other  *)
(* devices, and whatever the capacity for message ids, the ages and the jump allowed (check,     *)
(* record, memory, restore).                                                                     *)
THEOREM NoClipAgain ==
    /\ Guard!Spec => []Guard!ClipsInOrder
    /\ MCSpec => []ClipsInOrder
<1>1. Guard!Init => GuardInv
    BY GuardInit
<1>2. GuardInv /\ [Guard!Next]_(Guard!vars) => GuardInv'
    BY GuardStep, DeviceAssumption
<1>3. GuardInv => Guard!ClipsInOrder
    BY DEF GuardInv
<1>4. Guard!Spec => []Guard!ClipsInOrder
    BY <1>1, <1>2, <1>3, PTL DEF Guard!Spec
<1>5. MCSpec => []ClipsInOrder
    <2>1. MCInit => (part = "replay" => GuardInv)
        BY <1>1, PartStarts
    <2>2. (part = "replay" => GuardInv) /\ [MCNext]_<<part, slots>> => (part = "replay" => GuardInv)'
        BY <1>2, PartGoesOn
    <2>3. (part = "replay" => GuardInv) => ClipsInOrder
        BY <1>3 DEF ClipsInOrder
    <2> QED
        BY <2>1, <2>2, <2>3, PTL DEF MCSpec
<1> QED
    BY <1>4, <1>5
(***************************************************************************)
(* The clipboard history.  What a start would find at this moment          *)
(* (Opened) is one of the lists it may find, in every state of a process   *)
(* that has not left its account.  For that: what is about to be renamed   *)
(* is what is in memory, a file about to be overwritten may be found       *)
(* empty, and no file is sealed under a key the account has not reached,   *)
(* so that a new key never opens an old file by accident.                  *)
(***************************************************************************)
KeysReached ==
    /\ running \in BOOLEAN /\ gone \in BOOLEAN
    /\ account \in Nat \ {0} /\ key \in Nat /\ key <= account
    /\ moving = "carrying" => key = account
    /\ file \notin {None, Scrap} => file.key \in Nat /\ file.key <= account

SaveUnderWay ==
    /\ job = "rename" => tmp = Past!Sealed
    /\ job \in {"shred", "unlink"} => <<>> \in lists

Findable == ~gone => Past!Opened \in lists

PastInv == KeysReached /\ SaveUnderWay /\ (running => ~gone) /\ Findable

(* The marks of a file that is not there and of one half written are no    *)
(* files.                                                                  *)
MarksAreNoFiles == \A k, l : [key |-> k, list |-> l] \notin {None, Scrap}

LEMMA PastInit == Past!Init => PastInv
<1> SUFFICES ASSUME Past!Init PROVE PastInv
    OBVIOUS
<1>1. running = TRUE /\ gone = FALSE /\ account = 1 /\ key = 1 /\ moving = "no" /\ file = None
      /\ job = "idle" /\ lists = {<<>>}
    BY DEF Past!Init
<1>2. KeysReached
    <2>1. 1 \in Nat \ {0} /\ 1 \in Nat /\ 1 <= 1
        OBVIOUS
    <2>2. file \in {None, Scrap} /\ moving # "carrying" /\ running \in BOOLEAN /\ gone \in BOOLEAN
        BY <1>1
    <2> QED
        BY <1>1, <2>1, <2>2 DEF KeysReached
<1>3. Past!Opened = <<>>
    BY <1>1 DEF Past!Opened
<1> QED
    BY <1>1, <1>2, <1>3 DEF PastInv, SaveUnderWay, Findable

(* A step that leaves the files and the keys alone, and takes no list away *)
LEMMA PastStays ==
    ASSUME PastInv, UNCHANGED <<file, account, key>>, lists \subseteq lists',
           job' = "rename" => UNCHANGED <<job, tmp, mem>>,
           job' \in {"shred", "unlink"} => job' = job \/ <<>> \in lists',
           running' \in BOOLEAN, gone' \in BOOLEAN, running' => ~gone', ~gone' => ~gone,
           moving' = "carrying" => moving' = moving
    PROVE  PastInv'
<1>1. KeysReached'
    BY DEF PastInv, KeysReached
<1>2. SaveUnderWay'
    BY DEF PastInv, SaveUnderWay, Past!Sealed
<1>3. Findable'
    BY DEF PastInv, Findable, Past!Opened
<1> QED
    BY <1>1, <1>2, <1>3 DEF PastInv

(* record, forget, the window, and everything that only changes memory *)
LEMMA PastInMemory ==
    ASSUME PastInv,
           \/ Past!Record \/ (\E i \in 1 .. MaxEntries : Past!Forget(i))
           \/ Past!SaveKeep \/ Past!Refresh \/ Past!DecodeThumbnail \/ Past!LeaveAccount
           \/ UNCHANGED Past!vars
    PROVE  PastInv'
<1> USE DEF Past!store, Past!screen, Past!bounds
<1>0. running \in BOOLEAN /\ gone \in BOOLEAN /\ (running => ~gone)
    BY DEF PastInv, KeysReached
<1>1. CASE Past!Record
    BY <1>0, <1>1, PastStays DEF Past!Record, Past!Persist, Past!Free
<1>2. CASE \E i \in 1 .. MaxEntries : Past!Forget(i)
    BY <1>0, <1>2, PastStays DEF Past!Forget, Past!Persist
<1>3. CASE Past!SaveKeep
    BY <1>0, <1>3, PastStays DEF Past!SaveKeep
<1>4. CASE Past!Refresh
    BY <1>0, <1>4, PastStays DEF Past!Refresh
<1>5. CASE Past!DecodeThumbnail
    BY <1>0, <1>5, PastStays DEF Past!DecodeThumbnail
<1>6. CASE Past!LeaveAccount
    BY <1>0, <1>6, PastStays DEF Past!LeaveAccount
<1>7. CASE UNCHANGED Past!vars
    BY <1>0, <1>7, PastStays DEF Past!vars
<1> QED
    BY <1>1, <1>2, <1>3, <1>4, <1>5, <1>6, <1>7

(* write_atomic, when it fails too *)
LEMMA PastSaves ==
    ASSUME PastInv, MarksAreNoFiles, Past!WriteTemp \/ Past!Rename \/ Past!WriteFails
    PROVE  PastInv'
<1>0. running \in BOOLEAN /\ gone \in BOOLEAN /\ (running => ~gone) /\ account \in Nat \ {0}
      /\ key \in Nat /\ key <= account
    BY DEF PastInv, KeysReached
<1>1. CASE Past!WriteTemp
    <2>1. /\ UNCHANGED <<file, account, key, mem, lists, running, gone, moving>>
          /\ job' = "rename" /\ tmp' = Past!Sealed
        BY <1>1 DEF Past!WriteTemp
    <2> QED
        BY <2>1 DEF PastInv, KeysReached, SaveUnderWay, Findable, Past!Sealed, Past!Opened
<1>2. CASE Past!Rename
    <2>1. /\ UNCHANGED <<account, key, mem, running, gone>> /\ job' = "idle"
          /\ file' = tmp /\ tmp = [key |-> key, list |-> mem]
          /\ lists' = {mem} \cup Past!Unreadable /\ running
          /\ moving' = "carrying" => moving = "carrying"
        BY <1>2 DEF Past!Rename, Past!Carried, PastInv, SaveUnderWay, Past!Sealed
    <2>2. file' \notin {None, Scrap} /\ file'.key = key /\ file'.list = mem
        BY <2>1 DEF MarksAreNoFiles
    <2>3. Findable'
        BY <2>1, <2>2 DEF Findable, Past!Opened, Past!Unreadable
    <2>4. KeysReached' /\ SaveUnderWay'
        BY <1>0, <2>1, <2>2 DEF PastInv, KeysReached, SaveUnderWay
    <2> QED
        BY <1>0, <2>1, <2>3, <2>4 DEF PastInv
<1>3. CASE Past!WriteFails
    <2>1. /\ UNCHANGED <<account, mem, running, gone, file, lists>> /\ job' = "idle" /\ running
          /\ key' = (IF moving = "carrying" THEN key - 1 ELSE key)
          /\ moving' # "carrying"
        BY <1>3 DEF Past!WriteFails, Past!Carried
    <2>2. key' \in Nat /\ key' <= account
        BY <1>0, <2>1 DEF PastInv, KeysReached
    <2> QED
        BY <1>0, <2>1, <2>2 DEF PastInv, KeysReached, SaveUnderWay, Findable, Past!Opened
<1> QED
    BY <1>1, <1>2, <1>3

(* clear, set_enabled and shred *)
LEMMA PastClears ==
    ASSUME PastInv, Past!ClearHistory \/ Past!SetEnabled \/ Past!Overwrite \/ Past!Unlink
    PROVE  PastInv'
<1>0. running \in BOOLEAN /\ gone \in BOOLEAN /\ (running => ~gone)
    BY DEF PastInv, KeysReached
<1>1. ASSUME Past!Clear, UNCHANGED <<running, key, file, account, moving, gone>>
      PROVE  PastInv'
    <2>1. CASE file # None
        BY <1>0, <1>1, <2>1, PastStays DEF Past!Clear
    <2>2. CASE file = None
        BY <1>1, <2>2 DEF Past!Clear, PastInv, KeysReached, SaveUnderWay, Findable, Past!Opened
    <2> QED
        BY <2>1, <2>2
<1>2. CASE Past!ClearHistory
    BY <1>1, <1>2 DEF Past!ClearHistory
<1>3. CASE Past!SetEnabled
    <2>1. CASE keep
        BY <1>0, <1>3, <2>1, PastStays DEF Past!SetEnabled, Past!Free
    <2>2. CASE ~keep
        BY <1>1, <1>3, <2>2 DEF Past!SetEnabled
    <2> QED
        BY <2>1, <2>2
<1>4. CASE Past!Overwrite
    BY <1>4 DEF Past!Overwrite, PastInv, KeysReached, SaveUnderWay, Findable, Past!Opened
<1>5. CASE Past!Unlink
    BY <1>5 DEF Past!Unlink, PastInv, KeysReached, SaveUnderWay, Findable, Past!Opened
<1> QED
    BY <1>2, <1>3, <1>4, <1>5

(* A new account key, and leaving the account *)
LEMMA PastMoves ==
    ASSUME PastInv, Past!StoreKey \/ Past!Rekey \/ Past!WipeFile \/ Past!Restart \/ Past!Crash
    PROVE  PastInv'
<1> USE DEF Past!store, Past!screen, Past!bounds
<1>0. running \in BOOLEAN /\ gone \in BOOLEAN /\ (running => ~gone)
    BY DEF PastInv, KeysReached
<1>1. CASE Past!StoreKey
    <2>1. /\ UNCHANGED <<running, gone, key, mem, job, tmp, file>> /\ moving' = "moving"
          /\ account' = account + 1 /\ lists' = lists \cup {<<>>}
        BY <1>1 DEF Past!StoreKey
    <2>2. KeysReached'
        BY <2>1 DEF PastInv, KeysReached
    <2>3. file \notin {None, Scrap} => file.key # account'
        BY <2>1 DEF PastInv, KeysReached
    <2>4. Findable' /\ SaveUnderWay'
        BY <2>1, <2>3 DEF PastInv, Findable, SaveUnderWay, Past!Opened, Past!Sealed
    <2> QED
        BY <1>0, <2>1, <2>2, <2>4 DEF PastInv
<1>2. CASE Past!Rekey
    BY <1>2 DEF Past!Rekey, PastInv, KeysReached, SaveUnderWay, Findable, Past!Opened
<1>3. CASE Past!WipeFile
    BY <1>3 DEF Past!WipeFile, PastInv, KeysReached, SaveUnderWay, Findable, Past!Opened,
                Past!Sealed
<1>4. CASE Past!Restart
    BY <1>0, <1>4, PastStays DEF Past!Restart
<1>5. CASE Past!Crash
    <2>1. gone' \in BOOLEAN
        BY <1>5 DEF Past!Crash
    <2> QED
        BY <1>0, <1>5, <2>1, PastStays DEF Past!Crash
<1> QED
    BY <1>1, <1>2, <1>3, <1>4, <1>5

(* open_or_reset *)
LEMMA PastStarts ==
    ASSUME PastInv, Past!Start
    PROVE  PastInv'
<1>1. /\ running' = TRUE /\ gone' = FALSE /\ job' = "idle" /\ key' = account' /\ moving' = moving
      /\ account' = (IF gone THEN account + 1 ELSE account)
      /\ mem' = (IF gone THEN <<>> ELSE Past!Opened) /\ lists' = {mem'}
      /\ file' \in {file, None}
      /\ gone \/ file = Scrap => file' = None
      /\ file # Scrap /\ file # None /\ file' = file => file.key = account' /\ ~gone
      /\ file' # file => gone \/ file = Scrap \/ file.key # account'
    BY DEF Past!Start
<1>2. KeysReached'
    <2>1. account' \in Nat \ {0} /\ key' \in Nat /\ key' <= account'
        BY <1>1 DEF PastInv, KeysReached
    <2>2. file' \notin {None, Scrap} => file' = file /\ file.key = account'
        BY <1>1
    <2>3. file' \notin {None, Scrap} => file'.key \in Nat /\ file'.key <= account'
        BY <2>1, <2>2
    <2> QED
        BY <1>1, <2>1, <2>3 DEF KeysReached
<1>3. Past!Opened' = mem'
    BY <1>1 DEF Past!Opened
<1> QED
    BY <1>1, <1>2, <1>3 DEF PastInv, SaveUnderWay, Findable

LEMMA PastStep ==
    ASSUME MarksAreNoFiles, PastInv, [Past!Next]_(Past!vars)
    PROVE  PastInv'
BY PastInMemory, PastSaves, PastClears, PastMoves, PastStarts DEF Past!Next

(* open_or_reset finds the list last settled or one that was being saved,  *)
(* after a crash at any moment of a save, a clear or a resealing, for any  *)
(* contents, limits and number of keys.                                    *)
THEOREM StartsFindTheList ==
    ASSUME MarksAreNoFiles
    PROVE  /\ Past!Spec => Past!RestartKeepsList
           /\ MCSpec => RestartKeepsList
<1>1. Past!Init => PastInv
    BY PastInit
<1>2. PastInv /\ [Past!Next]_(Past!vars) => PastInv'
    BY PastStep
<1>3. PastInv /\ [Past!Next]_(Past!vars) => [Past!RestartKept]_(Past!vars)
    <2> SUFFICES ASSUME PastInv, [Past!Next]_(Past!vars), ~running, running', ~gone
                 PROVE  mem' \in lists
        BY DEF Past!RestartKept
    <2>1. CASE Past!Start
        BY <2>1 DEF Past!Start, PastInv, Findable
    <2>2. CASE Past!Next /\ ~Past!Start
        BY <2>2 DEF Past!Next, Past!Record, Past!WriteTemp, Past!Rename, Past!WriteFails,
            Past!ClearHistory, Past!SaveKeep, Past!SetEnabled, Past!Overwrite, Past!Unlink,
            Past!Forget, Past!Refresh, Past!DecodeThumbnail, Past!StoreKey, Past!Rekey,
            Past!LeaveAccount, Past!WipeFile, Past!Restart, Past!Crash, Past!AtWindow, Past!Free
    <2>3. CASE UNCHANGED Past!vars
        BY <2>3 DEF Past!vars
    <2> QED
        BY <2>1, <2>2, <2>3
<1>4. Past!Spec => Past!RestartKeepsList
    BY <1>1, <1>2, <1>3, PTL DEF Past!Spec, Past!RestartKeepsList
<1>5. MCSpec => RestartKeepsList
    <2>1. MCInit => (part = "history" => PastInv)
        BY <1>1, PartStarts
    <2>2. (part = "history" => PastInv) /\ [MCNext]_<<part, slots>> => (part = "history" => PastInv)'
        BY <1>2, PartGoesOn
    <2>3. (part = "history" => PastInv) /\ [MCNext]_<<part, slots>>
              => (part = "history" => Past!RestartKept)
        BY <1>3, PartGoesOn DEF Past!vars, Past!RestartKept
    <2> QED
        BY <2>1, <2>2, <2>3, PTL DEF MCSpec, RestartKeepsList
<1> QED
    BY <1>4, <1>5
(***************************************************************************)
(* Marked contents.  What says no is not read, by the watcher of either    *)
(* device; for the second one, a clip written concealed carries a mark its *)
(* own watcher looks for.                                                  *)
(***************************************************************************)
MarkSeen ==
    stage = "written" /\ concealed =>
        \E m \in Copied!MarkedBy(board) :
            to = "windows" => m \in registered /\ board.marks[m] = "zero"

CopiedInv ==
    /\ from \in Copied!Platforms /\ to \in Copied!Platforms
    /\ concealed \in BOOLEAN
    /\ registered \subseteq {"exclude", "history", "cloud"}
    /\ MarkSeen
    /\ Copied!SecretsUnread

(* is_sensitive comes first on every platform. *)
LEMMA MarkedUnread ==
    ASSUME NEW p \in Copied!Platforms, NEW o, NEW m \in Copied!MarkedBy(o),
           p = "windows" => m \in registered /\ o.marks[m] \in {"zero", "short"}
    PROVE  Copied!Read(p, o).kind \in {"sensitive", "none"}
<1>0. Copied!SensitiveEvent.kind = "sensitive" /\ Copied!Nothing.kind = "none"
    BY DEF Copied!SensitiveEvent, Copied!Nothing
<1>1. Copied!MarkedBy(o) # {}
    OBVIOUS
<1>2. CASE p \in {"wayland", "x11"}
    <2>1. Copied!Read(p, o) = Copied!ReadWayland(o)
        BY <1>2 DEF Copied!Read, Copied!ReadX11
    <2>2. Copied!ReadWayland(o) = Copied!SensitiveEvent
        BY <1>1 DEF Copied!ReadWayland, Copied!HintPresent
    <2> QED
        BY <1>0, <2>1, <2>2
<1>3. CASE p = "windows"
    <2>1. Copied!WindowsExcluded(o)
        <3>1. ~Copied!DwordPermits(o.marks[m]) /\ m \in Copied!MarkedBy(o) \cap registered
            BY <1>3 DEF Copied!DwordPermits
        <3> QED
            BY <3>1 DEF Copied!WindowsExcluded
    <2>2. Copied!Read(p, o) = Copied!ReadWindows(o)
        BY <1>3 DEF Copied!Read
    <2>3. Copied!ReadWindows(o) = Copied!SensitiveEvent
        BY <2>1 DEF Copied!ReadWindows
    <2> QED
        BY <1>0, <2>2, <2>3
<1>4. CASE p = "macos"
    <2>1. Copied!Read(p, o) = Copied!ReadMacos(o)
        BY <1>4 DEF Copied!Read
    <2>2. Copied!ReadMacos(o) \in {Copied!Nothing, Copied!SensitiveEvent}
        BY <1>1 DEF Copied!ReadMacos, Copied!Nspasteboard
    <2> QED
        BY <1>0, <2>1, <2>2
<1> QED
    BY <1>2, <1>3, <1>4 DEF Copied!Platforms, Copied!Linux

(* The clip as it is written, before it is concealed *)
Unconcealed(p, e) ==
    CASE p = "wayland" -> Copied!WriteWayland(e)
      [] p = "x11" -> Copied!WriteX11(e)
      [] p = "windows" -> Copied!WriteWindows(e)
      [] OTHER -> Copied!WriteMacos(e)

(* An offer has the marks of its platform, all absent. *)
LEMMA OffersUnmarked ==
    ASSUME NEW p \in Copied!Platforms, NEW e, e.kind = "text"
    PROVE  /\ "marks" \in DOMAIN Unconcealed(p, e)
           /\ Unconcealed(p, e).marks = Copied!Unmarked(p)
<1>1. \E t : Unconcealed(p, e) = Copied!OfferText(p, t)
    BY DEF Unconcealed, Copied!WriteWayland, Copied!WriteX11, Copied!WriteWindows,
        Copied!WriteMacos, Copied!Platforms, Copied!Linux
<1>2. PICK t : Unconcealed(p, e) = Copied!OfferText(p, t)
    BY <1>1
<1>3. "marks" \in DOMAIN Copied!Plain(p) /\ Copied!Plain(p).marks = Copied!Unmarked(p)
    BY DEF Copied!Plain
<1>4. "marks" \in DOMAIN Copied!OfferText(p, t)
      /\ Copied!OfferText(p, t).marks = Copied!Plain(p).marks
    BY <1>3 DEF Copied!OfferText
<1> QED
    BY <1>2, <1>3, <1>4

(* mark_concealed and write_exclusion_markers leave a mark that is looked  *)
(* for.                                                                    *)
LEMMA ConcealMarks ==
    ASSUME NEW p \in Copied!Platforms, NEW b, "marks" \in DOMAIN b, b.marks = Copied!Unmarked(p),
           registered \subseteq {"exclude", "history", "cloud"}, p = "windows" => registered # {}
    PROVE  LET o == Copied!Conceal(p, b)
           IN  \E m \in Copied!MarkedBy(o) :
                   p = "windows" => m \in registered /\ o.marks[m] = "zero"
<1> DEFINE u == Copied!Unmarked(p)
           o == Copied!Conceal(p, b)
<1>1. u = [m \in Copied!MarksOf(p) |-> "absent"]
    BY DEF Copied!Unmarked
<1>2. CASE p = "windows"
    <2>1. PICK m : m \in registered /\ m \in Copied!MarksOf(p)
        BY <1>2 DEF Copied!MarksOf, Copied!Linux
    <2>2. o.marks = [k \in DOMAIN u |-> IF k \in registered THEN "zero" ELSE "absent"]
        BY <1>2 DEF Copied!Conceal, Copied!MarkWindows
    <2>3. m \in DOMAIN o.marks /\ o.marks[m] = "zero"
        BY <1>1, <2>1, <2>2
    <2> QED
        BY <2>1, <2>3 DEF Copied!MarkedBy
<1>3. CASE p = "macos"
    <2>1. o.marks = [u EXCEPT !["concealed"] = "zero"]
        BY <1>3 DEF Copied!Conceal, Copied!MarkMacos
    <2>2. "concealed" \in Copied!MarksOf(p)
        BY <1>3 DEF Copied!MarksOf, Copied!Linux
    <2>3. "concealed" \in DOMAIN o.marks /\ o.marks["concealed"] = "zero"
        BY <1>1, <2>1, <2>2
    <2> QED
        BY <1>3, <2>3 DEF Copied!MarkedBy
<1>4. CASE p \in Copied!Linux
    <2>1. o.marks = [k \in DOMAIN u |-> "zero"]
        BY <1>4 DEF Copied!Conceal, Copied!Marked, Copied!Linux
    <2>2. "hint" \in Copied!MarksOf(p)
        <3>1. Copied!MarksOf(p) = {"hint"}
            BY <1>4 DEF Copied!MarksOf, Copied!Linux
        <3> QED
            BY <3>1
    <2>3. "hint" \in DOMAIN o.marks /\ o.marks["hint"] = "zero"
        BY <1>1, <2>1, <2>2
    <2> QED
        BY <1>4, <2>3 DEF Copied!MarkedBy, Copied!Linux
<1> QED
    BY <1>2, <1>3, <1>4 DEF Copied!Platforms

LEMMA CopiedInit == Copied!Init => CopiedInv
BY DEF Copied!Init, CopiedInv, MarkSeen, Copied!SecretsUnread

LEMMA CopiedStep ==
    ASSUME CopiedInv, [Copied!Next]_(Copied!vars)
    PROVE  CopiedInv'
<1> USE DEF CopiedInv
<1>1. CASE Copied!Look
    <2>1. /\ stage' = "seen" /\ event' = Copied!Read(from, offer)
          /\ UNCHANGED <<from, to, registered, offer, concealed>>
        BY <1>1 DEF Copied!Look
    <2>2. Copied!SaysNo(offer) => event'.kind \in {"sensitive", "none"}
        BY <2>1, MarkedUnread DEF Copied!SaysNo
    <2>3. Copied!SaysNo(offer)' <=> Copied!SaysNo(offer)
        BY <2>1 DEF Copied!SaysNo, Copied!MarkedBy
    <2> QED
        BY <2>1, <2>2, <2>3 DEF MarkSeen, Copied!SecretsUnread
<1>2. CASE Copied!Send
    BY <1>2 DEF Copied!Send, MarkSeen, Copied!SecretsUnread
<1>3. CASE Copied!Write
    <2>1. /\ stage' = "written" /\ UNCHANGED <<from, to, registered>>
          /\ concealed' \in BOOLEAN
          /\ concealed' => event.kind = "text"
          /\ concealed' /\ to = "windows" => registered # {}
          /\ concealed' => board' = Copied!Conceal(to, Unconcealed(to, event))
        BY <1>3 DEF Copied!Write, Unconcealed
    <2>2. MarkSeen'
        <3> SUFFICES ASSUME concealed'
                     PROVE  \E m \in Copied!MarkedBy(board') :
                                to = "windows" => m \in registered /\ board'.marks[m] = "zero"
            BY <2>1 DEF MarkSeen, Copied!MarkedBy
        <3>1. /\ "marks" \in DOMAIN Unconcealed(to, event)
              /\ Unconcealed(to, event).marks = Copied!Unmarked(to)
            BY <2>1, OffersUnmarked
        <3> QED
            BY <2>1, <3>1, ConcealMarks
    <2> QED
        BY <2>1, <2>2 DEF Copied!SecretsUnread
<1>4. CASE Copied!Check
    <2>1. /\ stage = "written" /\ stage' = "checked" /\ back' = Copied!Read(to, board)
          /\ UNCHANGED <<from, to, registered, concealed>>
        BY <1>4 DEF Copied!Check
    <2>2. concealed => back'.kind \in {"sensitive", "none"}
        BY <2>1, MarkedUnread DEF MarkSeen
    <2> QED
        BY <2>1, <2>2 DEF MarkSeen, Copied!SecretsUnread
<1>5. CASE UNCHANGED Copied!vars
    BY <1>5 DEF Copied!vars, MarkSeen, Copied!SecretsUnread, Copied!SaysNo, Copied!MarkedBy
<1> QED
    BY <1>1, <1>2, <1>3, <1>4, <1>5 DEF Copied!Next

(* is_sensitive and the marks of a concealed write: content somebody asked *)
(* to be left alone, and content written concealed, is never reported, for *)
(* texts of any length, on every platform.                                 *)
THEOREM MarkedStaysUnread ==
    /\ Copied!Spec => []Copied!SecretsUnread
    /\ MCSpec => []SecretsUnread
<1>1. CopiedInv /\ [Copied!Next]_(Copied!vars) => CopiedInv'
    BY CopiedStep
<1>2. CopiedInv => Copied!SecretsUnread
    BY DEF CopiedInv
<1>3. Copied!Spec => []Copied!SecretsUnread
    BY CopiedInit, <1>1, <1>2, PTL DEF Copied!Spec
<1>4. MCSpec => []SecretsUnread
    <2>1. MCInit => (part = "offers" => CopiedInv)
        BY CopiedInit, PartStarts
    <2>2. (part = "offers" => CopiedInv) /\ [MCNext]_<<part, slots>> => (part = "offers" => CopiedInv)'
        BY <1>1, PartGoesOn
    <2>3. (part = "offers" => CopiedInv) => SecretsUnread
        BY <1>2 DEF SecretsUnread
    <2> QED
        BY <2>1, <2>2, <2>3, PTL DEF MCSpec
<1> QED
    BY <1>3, <1>4

(***************************************************************************)
(* The list of devices.  As long as no broadcast reports comings and       *)
(* goings together, a device that is connected will announce itself yet,   *)
(* or has an announcement under way that nothing said before can outlast,  *)
(* or is listed under the connection it has (Learnt); and whoever is       *)
(* listed has a connection in the room, or the list is about to be emptied.*)
(***************************************************************************)
Elements(q) == {q[i] : i \in DOMAIN q}

Sayings == [type : {"card"}, from : Pair, ts : Nat, conn : Nat] \cup [type : {"leave"}, from : Pair]

IsCard(f, e) == f.type = "card" /\ f.from = e

ListTypes ==
    /\ owner \in Seq(Pair) /\ Len(owner) <= MaxConns
    /\ room \subseteq 1 .. Len(owner)
    /\ conn \in [Pair -> List!Conns \cup {None}]
    /\ up \in [List!Conns -> Seq(Sayings)]
    /\ peers \in [Pair -> Nat] /\ cards \in [Pair -> Nat]
    /\ known \in [Pair -> [Pair -> Nat]]
    /\ heard \in [Pair -> SUBSET Pair]
    /\ at \in [Pair -> [Pair -> List!Conns \cup {None}]]
    /\ timer \in BOOLEAN /\ opened \in BOOLEAN /\ closed \in BOOLEAN

(* A frame is its connection's device's.                                   *)
OwnFrames ==
    \A k \in List!Conns : \A f \in Elements(up[k]) :
        /\ k \in 1 .. Len(owner) /\ f.from = owner[k]
        /\ f.type = "card" => f.conn = k /\ f.ts <= cards[f.from]
        /\ f.type = "leave" => f.from \in left

InTheRoom ==
    \A d \in Pair : List!Connected(d) =>
        conn[d] \in 1 .. Len(owner) /\ conn[d] \in room /\ owner[conn[d]] = d

(* What a device was told, and what has changed since.                     *)
CountsTold ==
    /\ timer <=> opened \/ closed
    /\ ~opened \/ ~closed
    /\ \A d \in Pair : List!Connected(d) =>
          /\ opened => peers[d] <= Cardinality(room)
          /\ closed => peers[d] > Cardinality(room)
          /\ ~timer => peers[d] = Cardinality(room)

(* The cards of e's other connections are older than t.                    *)
OthersBefore(e, t) ==
    \A j \in List!Conns \ {conn[e]} : \A f \in Elements(up[j]) : IsCard(f, e) => f.ts < t

CardsDated ==
    /\ \A d, e \in Pair : known[d][e] <= cards[e]
    /\ \A e \in Pair : List!Connected(e) => OthersBefore(e, cards[e])

WillSay(e) ==
    \/ opened /\ peers[e] < Cardinality(room)
    \/ \E f \in Elements(up[conn[e]]) : f.type = "card" /\ f.ts = cards[e]

Lists(d, e) == e \in heard[d] /\ at[d][e] = conn[e] /\ OthersBefore(e, known[d][e])

Learnt ==
    \A d, e \in Pair : d # e /\ List!Connected(d) /\ List!Connected(e) /\ e \notin left =>
        WillSay(e) \/ Lists(d, e)

Present ==
    \A d, e \in Pair : e \in heard[d] =>
        List!Connected(d) /\ (closed \/ \E j \in room : owner[j] = e)

OnlineInv == ListTypes /\ OwnFrames /\ InTheRoom /\ CountsTold /\ CardsDated /\ Learnt /\ Present

(* A sequence with one element more.                                       *)
LEMMA OneMore ==
    ASSUME NEW S, NEW q \in Seq(S), NEW x \in S
    PROVE  Append(q, x) \in Seq(S) /\ Elements(Append(q, x)) = Elements(q) \cup {x}
<1>1. /\ Append(q, x) \in Seq(S)
      /\ DOMAIN Append(q, x) = DOMAIN q \cup {Len(q) + 1} /\ Append(q, x)[Len(q) + 1] = x
      /\ \A p \in DOMAIN q : Append(q, x)[p] = q[p]
    OBVIOUS
<1> QED
    BY <1>1 DEF Elements

(* And with one less.                                                      *)
LEMMA OneLess ==
    ASSUME NEW S, NEW q \in Seq(S), q # <<>>
    PROVE  /\ Head(q) \in Elements(q) /\ Head(q) \in S /\ Tail(q) \in Seq(S)
           /\ Elements(q) = Elements(Tail(q)) \cup {Head(q)}
<1>1. /\ DOMAIN q = 1 .. Len(q) /\ Len(q) \in Nat \ {0} /\ Head(q) = q[1]
      /\ Tail(q) \in Seq(S) /\ DOMAIN Tail(q) = 1 .. Len(q) - 1
      /\ \A p \in 1 .. Len(q) - 1 : Tail(q)[p] = q[p + 1]
    OBVIOUS
<1>2. Head(q) \in Elements(q) /\ Head(q) \in S
    BY <1>1 DEF Elements
<1>3. Elements(Tail(q)) \subseteq Elements(q)
    <2>1. ASSUME NEW p \in DOMAIN Tail(q) PROVE Tail(q)[p] \in Elements(q)
        <3>1. p \in 1 .. Len(q) - 1 /\ p + 1 \in DOMAIN q /\ Tail(q)[p] = q[p + 1]
            BY <1>1
        <3> QED
            BY <3>1 DEF Elements
    <2> QED
        BY <2>1 DEF Elements
<1>4. Elements(q) \subseteq Elements(Tail(q)) \cup {Head(q)}
    <2>1. ASSUME NEW p \in DOMAIN q, p # 1 PROVE q[p] \in Elements(Tail(q))
        <3>1. p - 1 \in 1 .. Len(q) - 1 /\ p - 1 + 1 = p
            BY <1>1, <2>1
        <3>2. p - 1 \in DOMAIN Tail(q) /\ Tail(q)[p - 1] = q[p]
            BY <1>1, <3>1
        <3> QED
            BY <3>2 DEF Elements
    <2>2. ASSUME NEW p \in DOMAIN q PROVE q[p] \in Elements(Tail(q)) \cup {Head(q)}
        BY <1>1, <2>1
    <2> QED
        BY <2>2 DEF Elements
<1> QED
    BY <1>1, <1>2, <1>3, <1>4

(* What a sequence over a set holds is in the set.                         *)
LEMMA ElementsOf ==
    ASSUME NEW S, NEW q \in Seq(S) PROVE Elements(q) \subseteq S
BY DEF Elements

(* The cardinality of the instance is the cardinality.                     *)
LEMMA ListCounts ==
    ASSUME NEW S PROVE List!Cardinality(S) = Cardinality(S)
BY DEF Cardinality, List!Cardinality

(* The room is finite, and one more or one less counts as one.             *)
LEMMA RoomCounts ==
    ASSUME ListTypes
    PROVE  /\ Cardinality(room) \in Nat
           /\ Len(owner) \in Nat
           /\ \A k \in room : Cardinality(room \ {k}) = Cardinality(room) - 1
           /\ Cardinality(room \cup {Len(owner) + 1}) = Cardinality(room) + 1
<1>1. Len(owner) \in Nat /\ room \subseteq 1 .. Len(owner)
    BY DEF ListTypes
<1>2. IsFiniteSet(room)
    <2>1. IsFiniteSet(1 .. Len(owner))
        BY <1>1, FS_Interval
    <2> QED
        BY <1>1, <2>1, FS_Subset
<1>3. Len(owner) + 1 \notin room
    BY <1>1
<1> QED
    BY <1>1, <1>2, <1>3, FS_CardinalityType, FS_AddElement, FS_RemoveElement

(* Whoever is connected has a connection that is counted.                  *)
LEMMA WhoIsConnected ==
    ASSUME List!RosterAssumption, ListTypes, NEW d \in Pair
    PROVE  List!Connected(d) <=> conn[d] \in List!Conns
BY DEF List!RosterAssumption, List!Connected, ListTypes

(* Nobody is connected, and nothing is said, at first.                     *)
LEMMA OnlineInit ==
    ASSUME List!RosterAssumption, List!Init
    PROVE  OnlineInv
<1>1. /\ owner = <<>> /\ room = {} /\ timer = FALSE /\ opened = FALSE /\ closed = FALSE
      /\ conn = [d \in Pair |-> None] /\ up = [k \in List!Conns |-> <<>>]
      /\ peers = [d \in Pair |-> 0] /\ cards = [d \in Pair |-> 0]
      /\ known = [d \in Pair |-> [e \in Pair |-> 0]] /\ heard = [d \in Pair |-> {}]
      /\ at = [d \in Pair |-> [e \in Pair |-> None]]
    BY DEF List!Init
<1>2. ListTypes
    <2>1. owner \in Seq(Pair) /\ Len(owner) <= MaxConns /\ room \subseteq 1 .. Len(owner)
        BY <1>1 DEF List!RosterAssumption
    <2>2. up \in [List!Conns -> Seq(Sayings)]
        BY <1>1
    <2>3. /\ known \in [Pair -> [Pair -> Nat]] /\ heard \in [Pair -> SUBSET Pair]
          /\ at \in [Pair -> [Pair -> List!Conns \cup {None}]]
        BY <1>1
    <2>4. conn \in [Pair -> List!Conns \cup {None}] /\ peers \in [Pair -> Nat] /\ cards \in [Pair -> Nat]
        BY <1>1
    <2> QED
        BY <1>1, <2>1, <2>2, <2>3, <2>4 DEF ListTypes
<1>3. \A d \in Pair : ~List!Connected(d)
    BY <1>1 DEF List!Connected
<1>4. OwnFrames
    BY <1>1 DEF OwnFrames, Elements
<1>5. CardsDated
    BY <1>1, <1>3 DEF CardsDated
<1> QED
    BY <1>1, <1>2, <1>3, <1>4, <1>5 DEF OnlineInv, InTheRoom, CountsTold, Learnt, Present

(* auth_ok: the newcomer says who it is; all others will, as the count     *)
(* they were told is too small now.                                        *)
LEMMA OnlineConnect ==
    ASSUME List!RosterAssumption, OnlineInv, NEW x \in Pair, List!Connect(x), ~Overlaps
    PROVE  OnlineInv'
<1>0. ListTypes
    BY DEF OnlineInv
<1>1. PICK k : k = Len(owner) + 1
    OBVIOUS
<1>2. PICK c : c = List!Card(x, k)
    OBVIOUS
<1>3. /\ ~List!Connected(x) /\ x \notin left /\ k \in List!Conns /\ ~closed
      /\ conn' = [conn EXCEPT ![x] = k] /\ owner' = Append(owner, x) /\ room' = room \cup {k}
      /\ timer' = TRUE /\ opened' = TRUE
      /\ peers' = [peers EXCEPT ![x] = List!Cardinality(room')]
      /\ cards' = [cards EXCEPT ![x] = cards[x] + 1]
      /\ up' = [up EXCEPT ![k] = <<c>>]
      /\ UNCHANGED <<closed, known, heard, at, left>>
    BY <1>1, <1>2 DEF List!Connect, List!list
<1>4. /\ c.type = "card" /\ c.from = x /\ c.ts = cards[x] + 1 /\ c.conn = k
      /\ c \in Sayings
    BY <1>0, <1>1, <1>2 DEF List!Card, Sayings, ListTypes
<1>5. /\ Cardinality(room') = Cardinality(room) + 1 /\ Cardinality(room) \in Nat
      /\ Len(owner) \in Nat
    BY <1>0, <1>1, <1>3, RoomCounts
<1>6. /\ peers' \in [Pair -> Nat] /\ peers'[x] = Cardinality(room')
      /\ \A d \in Pair \ {x} : peers'[d] = peers[d]
    BY <1>0, <1>3, <1>5, ListCounts DEF ListTypes
<1>7. /\ cards' \in [Pair -> Nat] /\ cards'[x] = cards[x] + 1
      /\ \A d \in Pair : cards'[d] \in Nat /\ cards[d] \in Nat /\ cards[d] <= cards'[d]
      /\ \A d \in Pair \ {x} : cards'[d] = cards[d]
    BY <1>0, <1>3 DEF ListTypes
<1>8. /\ owner' \in Seq(Pair) /\ Len(owner') = k /\ owner'[k] = x
      /\ \A j \in 1 .. Len(owner) : owner'[j] = owner[j] /\ j \in 1 .. Len(owner') /\ j # k
    <2>1. owner \in Seq(Pair) /\ owner' = Append(owner, x)
        BY <1>0, <1>3 DEF ListTypes
    <2>2. \A j \in 1 .. Len(owner) : j \in 1 .. k /\ j # k
        BY <1>1, <1>5
    <2> QED
        BY <1>1, <1>5, <2>1, <2>2
<1>9. /\ conn' \in [Pair -> List!Conns \cup {None}] /\ conn'[x] = k
      /\ \A d \in Pair \ {x} : conn'[d] = conn[d]
    BY <1>0, <1>3 DEF ListTypes
<1>10. /\ up' \in [List!Conns -> Seq(Sayings)] /\ Elements(up'[k]) = {c}
       /\ \A j \in List!Conns \ {k} : up'[j] = up[j]
    <2>1. <<c>> \in Seq(Sayings) /\ Elements(<<c>>) = {c}
        BY <1>4 DEF Elements
    <2> QED
        BY <1>0, <1>3, <2>1 DEF ListTypes
<1>11. ListTypes'
    <2>1. Len(owner') <= MaxConns /\ room' \subseteq 1 .. Len(owner')
        <3>1. k \in 1 .. MaxConns
            BY <1>3 DEF List!Conns
        <3>2. room \subseteq 1 .. Len(owner) /\ MaxConns \in Nat
            BY <1>0 DEF ListTypes, List!RosterAssumption
        <3>3. 1 .. Len(owner) \subseteq 1 .. k /\ k \in 1 .. k
            BY <1>1, <1>5
        <3> QED
            BY <1>3, <1>8, <3>1, <3>2, <3>3
    <2> QED
        BY <1>0, <1>3, <1>6, <1>7, <1>8, <1>9, <1>10, <2>1 DEF ListTypes
<1>12. \A d \in Pair : List!Connected(d)' <=> d = x \/ List!Connected(d)
    BY <1>0, <1>3, <1>9 DEF List!Connected, List!RosterAssumption
<1>13. OwnFrames'
    <2>1. ASSUME NEW j \in List!Conns, NEW f \in Elements(up'[j])
          PROVE  /\ j \in 1 .. Len(owner') /\ f.from = owner'[j]
                 /\ f.type = "card" => f.conn = j /\ f.ts <= cards'[f.from]
                 /\ f.type = "leave" => f.from \in left'
        <3>1. CASE j = k
            BY <1>3, <1>4, <1>5, <1>7, <1>8, <1>10, <2>1, <3>1
        <3>2. CASE j # k
            <4>1. f \in Elements(up[j]) /\ f \in Sayings
                BY <1>0, <1>10, <2>1, <3>2, ElementsOf DEF ListTypes
            <4>2. /\ j \in 1 .. Len(owner) /\ f.from = owner[j]
                  /\ f.type = "card" => f.conn = j /\ f.ts <= cards[f.from]
                  /\ f.type = "leave" => f.from \in left
                BY <4>1 DEF OnlineInv, OwnFrames
            <4>3. f.from \in Pair /\ (f.type = "card" => f.ts \in Nat)
                BY <4>1 DEF Sayings
            <4> QED
                BY <1>3, <1>7, <1>8, <4>2, <4>3
        <3> QED
            BY <3>1, <3>2
    <2> QED
        BY <2>1 DEF OwnFrames
<1>14. InTheRoom'
    <2>1. k \in 1 .. Len(owner')
        BY <1>1, <1>5, <1>8
    <2> QED
        BY <1>3, <1>8, <1>9, <1>12, <2>1 DEF OnlineInv, InTheRoom
<1>15. \A d \in Pair : List!Connected(d) => peers[d] <= Cardinality(room) /\ peers[d] \in Nat
    BY <1>0, <1>3, <1>5 DEF OnlineInv, CountsTold, ListTypes
<1>16. CountsTold'
    BY <1>3, <1>5, <1>6, <1>12, <1>15 DEF CountsTold
<1>17. CardsDated'
    <2>1. \A d, e \in Pair : known'[d][e] <= cards'[e]
        <3>1. \A d, e \in Pair : known[d][e] \in Nat /\ known[d][e] <= cards[e]
            BY <1>0 DEF OnlineInv, CardsDated, ListTypes
        <3>2. known' = known
            BY <1>3
        <3>3. ASSUME NEW d \in Pair, NEW e \in Pair PROVE known[d][e] <= cards'[e]
            BY <1>7, <3>1
        <3> QED
            BY <3>2, <3>3
    <2>2. ASSUME NEW e \in Pair, List!Connected(e)', NEW j \in List!Conns \ {conn'[e]},
                 NEW f \in Elements(up'[j]), IsCard(f, e)
          PROVE  f.ts < cards'[e]
        <3>1. CASE j = k
            BY <1>4, <1>9, <1>10, <2>2, <3>1 DEF IsCard
        <3>2. CASE j # k
            <4>1. f \in Elements(up[j]) /\ f \in Sayings
                BY <1>0, <1>10, <2>2, <3>2, ElementsOf DEF ListTypes
            <4>2. f.ts \in Nat /\ f.ts <= cards[e]
                BY <2>2, <4>1 DEF OnlineInv, OwnFrames, IsCard, Sayings
            <4>3. e # x => f.ts < cards[e]
                BY <1>9, <1>12, <2>2, <4>1 DEF OnlineInv, CardsDated, OthersBefore
            <4> QED
                BY <1>7, <4>2, <4>3
        <3> QED
            BY <3>1, <3>2
    <2> QED
        BY <2>1, <2>2 DEF CardsDated, OthersBefore
<1>18. ASSUME NEW e \in Pair, List!Connected(e)'
       PROVE  WillSay(e)'
    <2>1. CASE e = x
        BY <1>4, <1>7, <1>9, <1>10, <2>1 DEF WillSay
    <2>2. CASE e # x
        <3>1. peers'[e] < Cardinality(room')
            BY <1>5, <1>6, <1>12, <1>15, <1>18, <2>2
        <3> QED
            BY <1>3, <3>1 DEF WillSay
    <2> QED
        BY <2>1, <2>2
<1>19. Learnt'
    BY <1>18 DEF Learnt
<1>20. Present'
    <2>1. ASSUME NEW d \in Pair, NEW e \in Pair, e \in heard'[d]
          PROVE  List!Connected(d)' /\ \E j \in room' : owner'[j] = e
        <3>1. List!Connected(d) /\ \E j \in room : owner[j] = e
            BY <1>3, <2>1 DEF OnlineInv, Present
        <3> QED
            BY <1>0, <1>3, <1>8, <1>12, <3>1 DEF ListTypes
    <2> QED
        BY <2>1 DEF Present
<1> QED
    BY <1>11, <1>13, <1>14, <1>16, <1>17, <1>19, <1>20 DEF OnlineInv

(* What the others said before stays before, while they say nothing else.  *)
LEMMA OthersStay ==
    ASSUME NEW e \in Pair, conn'[e] = conn[e],
           \A j \in List!Conns \ {conn[e]} : \A f \in Elements(up'[j]) :
               IsCard(f, e) => f \in Elements(up[j])
    PROVE  \A t : OthersBefore(e, t) => OthersBefore(e, t)'
BY DEF OthersBefore

(* set_connected: nobody is listed, and nobody is addressed.               *)
LEMMA OnlineDrop ==
    ASSUME List!RosterAssumption, OnlineInv, NEW x \in Pair, List!Drop(x)
    PROVE  OnlineInv'
<1>0. ListTypes
    BY DEF OnlineInv
<1>1. /\ List!Connected(x) /\ conn' = [conn EXCEPT ![x] = None]
      /\ at' = [at EXCEPT ![x] = [e \in Pair |-> None]]
      /\ heard' = [heard EXCEPT ![x] = {}]
      /\ peers' = [peers EXCEPT ![x] = 0]
      /\ UNCHANGED <<owner, room, timer, opened, closed, up, cards, known, left>>
    BY DEF List!Drop, List!relay
<1>2. /\ conn' \in [Pair -> List!Conns \cup {None}] /\ conn'[x] = None
      /\ \A d \in Pair \ {x} : conn'[d] = conn[d]
    BY <1>0, <1>1 DEF ListTypes
<1>3. /\ heard' \in [Pair -> SUBSET Pair] /\ heard'[x] = {}
      /\ \A d \in Pair \ {x} : heard'[d] = heard[d]
    BY <1>0, <1>1 DEF ListTypes
<1>4. /\ at' \in [Pair -> [Pair -> List!Conns \cup {None}]]
      /\ \A d \in Pair \ {x} : at'[d] = at[d]
    BY <1>0, <1>1 DEF ListTypes
<1>5. peers' \in [Pair -> Nat] /\ \A d \in Pair \ {x} : peers'[d] = peers[d]
    BY <1>0, <1>1 DEF ListTypes
<1>6. ListTypes'
    BY <1>0, <1>1, <1>2, <1>3, <1>4, <1>5 DEF ListTypes
<1>7. \A d \in Pair : List!Connected(d)' <=> d # x /\ List!Connected(d)
    BY <1>2 DEF List!Connected
<1>8. OwnFrames'
    BY <1>1 DEF OnlineInv, OwnFrames
<1>9. InTheRoom'
    BY <1>1, <1>2, <1>7 DEF OnlineInv, InTheRoom
<1>10. CountsTold'
    BY <1>1, <1>5, <1>7 DEF OnlineInv, CountsTold
<1>11. ASSUME NEW e \in Pair \ {x}, NEW t, OthersBefore(e, t) PROVE OthersBefore(e, t)'
    BY <1>1, <1>2, <1>11, OthersStay
<1>12. CardsDated'
    <2>1. ASSUME NEW e \in Pair, List!Connected(e)' PROVE OthersBefore(e, cards[e])'
        BY <1>1, <1>7, <1>11, <2>1 DEF OnlineInv, CardsDated
    <2> QED
        BY <1>1, <2>1 DEF OnlineInv, CardsDated
<1>13. Learnt'
    <2>1. ASSUME NEW d \in Pair, NEW e \in Pair, d # e, List!Connected(d)', List!Connected(e)',
                 e \notin left'
          PROVE  WillSay(e)' \/ Lists(d, e)'
        <3>1. WillSay(e) \/ Lists(d, e)
            BY <1>1, <1>7, <2>1 DEF OnlineInv, Learnt
        <3>2. d # x /\ e # x
            BY <1>7, <2>1
        <3>3. WillSay(e) => WillSay(e)'
            BY <1>1, <1>2, <1>5, <3>2 DEF WillSay
        <3>4. Lists(d, e) => Lists(d, e)'
            BY <1>1, <1>2, <1>3, <1>4, <1>11, <3>2 DEF Lists
        <3> QED
            BY <3>1, <3>3, <3>4
    <2> QED
        BY <2>1 DEF Learnt
<1>14. Present'
    BY <1>1, <1>3, <1>7 DEF OnlineInv, Present
<1> QED
    BY <1>6, <1>8, <1>9, <1>10, <1>12, <1>13, <1>14 DEF OnlineInv

(* say_leaving: what is under way of others stays what it is.              *)
LEMMA OnlineLeaving ==
    ASSUME List!RosterAssumption, OnlineInv, NEW x \in Pair, List!SayLeaving(x)
    PROVE  OnlineInv'
<1>0. ListTypes
    BY DEF OnlineInv
<1>1. PICK k : k = conn[x]
    OBVIOUS
<1>2. PICK g : g = List!Leave(x)
    OBVIOUS
<1>3. /\ List!Connected(x)
      /\ left' = left \cup {x} /\ up' = [up EXCEPT ![k] = Append(up[k], g)]
      /\ UNCHANGED <<owner, room, timer, opened, closed, conn, peers, cards, known, heard, at>>
    BY <1>1, <1>2 DEF List!SayLeaving, List!relay, List!list
<1>4. g.type = "leave" /\ g.from = x /\ g \in Sayings
    BY <1>2 DEF List!Leave, Sayings
<1>5. k \in List!Conns /\ k \in 1 .. Len(owner) /\ owner[k] = x
    BY <1>0, <1>1, <1>3, WhoIsConnected DEF OnlineInv, InTheRoom
<1>6. /\ up' \in [List!Conns -> Seq(Sayings)]
      /\ Elements(up'[k]) = Elements(up[k]) \cup {g}
      /\ \A j \in List!Conns \ {k} : up'[j] = up[j]
    <2>1. up[k] \in Seq(Sayings)
        BY <1>0, <1>5 DEF ListTypes
    <2>2. Append(up[k], g) \in Seq(Sayings) /\ Elements(Append(up[k], g)) = Elements(up[k]) \cup {g}
        BY <1>4, <2>1, OneMore
    <2> QED
        BY <1>0, <1>3, <1>5, <2>2 DEF ListTypes
<1>7. \A j \in List!Conns : \A f \in Elements(up'[j]) :
          f \in Elements(up[j]) \/ (f = g /\ j = k)
    BY <1>6
<1>8. \A j \in List!Conns : Elements(up[j]) \subseteq Elements(up'[j])
    BY <1>6
<1>9. ListTypes'
    BY <1>0, <1>3, <1>6 DEF ListTypes
<1>10. \A d \in Pair : List!Connected(d)' <=> List!Connected(d)
    BY <1>3 DEF List!Connected
<1>11. OwnFrames'
    BY <1>3, <1>4, <1>5, <1>7 DEF OnlineInv, OwnFrames
<1>12. InTheRoom' /\ CountsTold' /\ Present'
    BY <1>3, <1>10 DEF OnlineInv, InTheRoom, CountsTold, Present
<1>13. ASSUME NEW e \in Pair, NEW t, OthersBefore(e, t) PROVE OthersBefore(e, t)'
    <2>1. \A j \in List!Conns \ {conn[e]} : \A f \in Elements(up'[j]) :
               IsCard(f, e) => f \in Elements(up[j])
        BY <1>4, <1>7 DEF IsCard
    <2> QED
        BY <1>3, <1>13, <2>1, OthersStay
<1>14. CardsDated'
    BY <1>3, <1>10, <1>13 DEF OnlineInv, CardsDated
<1>15. Learnt'
    <2>1. ASSUME NEW d \in Pair, NEW e \in Pair, d # e, List!Connected(d)', List!Connected(e)',
                 e \notin left'
          PROVE  WillSay(e)' \/ Lists(d, e)'
        <3>1. WillSay(e) \/ Lists(d, e)
            BY <1>3, <1>10, <2>1 DEF OnlineInv, Learnt
        <3>2. conn[e] \in List!Conns
            BY <1>0, <1>10, <2>1, WhoIsConnected
        <3>3. WillSay(e) => WillSay(e)'
            BY <1>3, <1>8, <3>2 DEF WillSay
        <3>4. Lists(d, e) => Lists(d, e)'
            BY <1>3, <1>13 DEF Lists
        <3> QED
            BY <3>1, <3>3, <3>4
    <2> QED
        BY <2>1 DEF Learnt
<1> QED
    BY <1>9, <1>11, <1>12, <1>14, <1>15 DEF OnlineInv

(* A connection the relay takes for ended is nobody's any more; everyone   *)
(* was told a larger count then.                                           *)
LEMMA OnlineClose ==
    ASSUME List!RosterAssumption, OnlineInv, NEW k \in List!Conns, List!Close(k), ~Overlaps
    PROVE  OnlineInv'
<1>0. ListTypes
    BY DEF OnlineInv
<1>1. /\ k \in room /\ ~List!Live(k) /\ ~opened /\ room' = room \ {k}
      /\ timer' = TRUE /\ closed' = TRUE /\ up' = [up EXCEPT ![k] = <<>>]
      /\ UNCHANGED <<owner, opened, conn, peers, cards, known, heard, at, left>>
    BY DEF List!Close, List!list
<1>2. Cardinality(room') = Cardinality(room) - 1 /\ Cardinality(room) \in Nat /\ Len(owner) \in Nat
    BY <1>0, <1>1, RoomCounts
<1>3. /\ up' \in [List!Conns -> Seq(Sayings)] /\ Elements(up'[k]) = {}
      /\ \A j \in List!Conns \ {k} : up'[j] = up[j]
    <2>1. <<>> \in Seq(Sayings) /\ Elements(<<>>) = {}
        BY DEF Elements
    <2> QED
        BY <1>0, <1>1, <2>1 DEF ListTypes
<1>4. \A j \in List!Conns : Elements(up'[j]) \subseteq Elements(up[j])
    BY <1>3
<1>5. ListTypes'
    BY <1>0, <1>1, <1>3 DEF ListTypes
<1>6. \A d \in Pair : List!Connected(d)' <=> List!Connected(d)
    BY <1>1 DEF List!Connected
<1>7. \A d \in Pair : List!Connected(d) => conn[d] # k
    BY <1>1, <1>2 DEF OnlineInv, InTheRoom, List!Live
<1>8. OwnFrames'
    BY <1>1, <1>4 DEF OnlineInv, OwnFrames
<1>9. InTheRoom'
    BY <1>1, <1>6, <1>7 DEF OnlineInv, InTheRoom
<1>10. CountsTold'
    <2>1. ASSUME NEW d \in Pair, List!Connected(d) PROVE peers[d] > Cardinality(room) - 1
        <3>1. peers[d] >= Cardinality(room) /\ peers[d] \in Nat
            <4>1. peers[d] \in Nat
                BY <1>0 DEF ListTypes
            <4>2. CASE closed
                BY <1>2, <2>1, <4>1, <4>2 DEF OnlineInv, CountsTold
            <4>3. CASE ~closed
                <5>1. ~timer
                    BY <1>1, <4>3 DEF OnlineInv, CountsTold
                <5> QED
                    BY <1>2, <2>1, <4>1, <5>1 DEF OnlineInv, CountsTold
            <4> QED
                BY <4>1, <4>2, <4>3
        <3> QED
            BY <1>2, <3>1
    <2> QED
        BY <1>1, <1>2, <1>6, <2>1 DEF CountsTold
<1>11. ASSUME NEW e \in Pair, NEW t, OthersBefore(e, t) PROVE OthersBefore(e, t)'
    BY <1>1, <1>4, <1>11, OthersStay
<1>12. CardsDated'
    BY <1>1, <1>6, <1>11 DEF OnlineInv, CardsDated
<1>13. Learnt'
    <2>1. ASSUME NEW d \in Pair, NEW e \in Pair, d # e, List!Connected(d)', List!Connected(e)',
                 e \notin left'
          PROVE  WillSay(e)' \/ Lists(d, e)'
        <3>1. WillSay(e) \/ Lists(d, e)
            BY <1>1, <1>6, <2>1 DEF OnlineInv, Learnt
        <3>2. conn[e] \in List!Conns /\ conn[e] # k
            BY <1>0, <1>6, <1>7, <2>1, WhoIsConnected
        <3>3. WillSay(e) => WillSay(e)'
            BY <1>1, <1>3, <3>2 DEF WillSay
        <3>4. Lists(d, e) => Lists(d, e)'
            BY <1>1, <1>11 DEF Lists
        <3> QED
            BY <3>1, <3>3, <3>4
    <2> QED
        BY <2>1 DEF Learnt
<1>14. Present'
    BY <1>1, <1>6 DEF OnlineInv, Present
<1> QED
    BY <1>5, <1>8, <1>9, <1>10, <1>12, <1>13, <1>14 DEF OnlineInv

(* The broadcast: after departures everyone starts over and says who they  *)
(* are, after arrivals whoever was told less does.                         *)
LEMMA OnlinePresence ==
    ASSUME List!RosterAssumption, OnlineInv, List!FirePresence, ~Overlaps
    PROVE  OnlineInv'
<1>0. ListTypes
    BY DEF OnlineInv
<1>1. PICK n : n = Cardinality(room)
    OBVIOUS
<1>2. /\ n \in Nat /\ n = List!Cardinality(room)
    BY <1>0, <1>1, RoomCounts, ListCounts
<1>3. /\ timer /\ timer' = FALSE /\ opened' = FALSE /\ closed' = FALSE
      /\ heard' = [d \in Pair |-> IF d \in List!Told /\ n < peers[d] THEN {} ELSE heard[d]]
      /\ peers' = [d \in Pair |-> IF d \in List!Told THEN n ELSE peers[d]]
      /\ cards' = [d \in Pair |-> IF d \in List!Announce(n) THEN cards[d] + 1 ELSE cards[d]]
      /\ up' = [k \in List!Conns |-> IF List!Live(k) /\ owner[k] \in List!Announce(n)
                    THEN Append(up[k], List!Card(owner[k], k)) ELSE up[k]]
      /\ UNCHANGED <<owner, room, conn, known, at, left>>
    BY <1>2 DEF List!FirePresence, List!Departure
<1>4. \A d \in Pair : /\ d \in List!Told <=> List!Connected(d)
                      /\ d \in List!Announce(n) <=> List!Connected(d) /\ n # peers[d]
    BY DEF List!Told, List!Announce
<1>5. \A d \in Pair : List!Connected(d)' <=> List!Connected(d)
    BY <1>3 DEF List!Connected
<1>6. /\ cards' \in [Pair -> Nat]
      /\ \A d \in Pair : cards[d] \in Nat /\ cards'[d] \in Nat /\ cards[d] <= cards'[d]
      /\ \A d \in Pair : d \in List!Announce(n) => cards'[d] = cards[d] + 1
      /\ \A d \in Pair : d \notin List!Announce(n) => cards'[d] = cards[d]
    BY <1>0, <1>3 DEF ListTypes
<1>7. /\ peers' \in [Pair -> Nat]
      /\ \A d \in Pair : List!Connected(d) => peers'[d] = n
    BY <1>0, <1>2, <1>3, <1>4 DEF ListTypes
<1>8. ASSUME NEW k \in List!Conns, List!Live(k), owner[k] \in List!Announce(n)
      PROVE  /\ k \in 1 .. Len(owner) /\ owner[k] \in Pair /\ conn[owner[k]] = k
             /\ List!Card(owner[k], k) \in Sayings
             /\ List!Card(owner[k], k).type = "card" /\ List!Card(owner[k], k).from = owner[k]
             /\ List!Card(owner[k], k).conn = k
             /\ List!Card(owner[k], k).ts = cards'[owner[k]]
             /\ up'[k] \in Seq(Sayings)
             /\ Elements(up'[k]) = Elements(up[k]) \cup {List!Card(owner[k], k)}
    <2>1. k \in 1 .. Len(owner) /\ k \in Nat /\ owner[k] \in Pair /\ conn[owner[k]] = k
        BY <1>0, <1>8 DEF List!Live, List!Conns, ListTypes, List!RosterAssumption
    <2>2. PICK c : c = List!Card(owner[k], k)
        OBVIOUS
    <2>3. c.type = "card" /\ c.from = owner[k] /\ c.conn = k /\ c.ts = cards[owner[k]] + 1
          /\ c \in Sayings
        BY <1>6, <2>1, <2>2 DEF List!Card, Sayings
    <2>4. up[k] \in Seq(Sayings) /\ up'[k] = Append(up[k], c)
        BY <1>0, <1>3, <1>8, <2>2 DEF ListTypes
    <2>5. up'[k] \in Seq(Sayings) /\ Elements(up'[k]) = Elements(up[k]) \cup {c}
        BY <2>3, <2>4, OneMore
    <2>6. cards'[owner[k]] = cards[owner[k]] + 1
        BY <1>6, <1>8, <2>1
    <2> QED
        BY <2>1, <2>2, <2>3, <2>5, <2>6
<1>9. ASSUME NEW k \in List!Conns, ~(List!Live(k) /\ owner[k] \in List!Announce(n))
      PROVE  up'[k] = up[k] /\ up[k] \in Seq(Sayings)
    BY <1>0, <1>3, <1>9 DEF ListTypes
<1>10. up' \in [List!Conns -> Seq(Sayings)]
    <2>1. \A k \in List!Conns : up'[k] \in Seq(Sayings)
        BY <1>8, <1>9
    <2> QED
        BY <1>3, <2>1
<1>11. \A j \in List!Conns : \A f \in Elements(up'[j]) :
          \/ f \in Elements(up[j])
          \/ /\ j \in 1 .. Len(owner) /\ owner[j] \in Pair /\ conn[owner[j]] = j
             /\ f.type = "card" /\ f.from = owner[j] /\ f.conn = j /\ f.ts = cards'[owner[j]]
    BY <1>8, <1>9
<1>12. \A j \in List!Conns : Elements(up[j]) \subseteq Elements(up'[j])
    BY <1>8, <1>9
<1>13. opened \/ closed
    BY <1>3 DEF OnlineInv, CountsTold
<1>14. ASSUME opened
       PROVE  ~closed /\ heard' = heard
    <2>1. ~closed
        BY <1>14 DEF OnlineInv, CountsTold
    <2>2. ASSUME NEW d \in Pair, d \in List!Told PROVE ~(n < peers[d])
        <3>1. peers[d] \in Nat /\ peers[d] <= n
            BY <1>0, <1>1, <1>4, <1>14, <2>2 DEF OnlineInv, CountsTold, ListTypes
        <3> QED
            BY <1>2, <3>1
    <2>3. \A d \in Pair : heard'[d] = heard[d]
        BY <1>3, <2>2
    <2>4. heard = [d \in Pair |-> heard[d]] /\ heard' = [d \in Pair |-> heard'[d]]
        BY <1>0, <1>3 DEF ListTypes
    <2>5. heard' = heard
        BY <2>3, <2>4
    <2> QED
        BY <2>1, <2>5
<1>15. ASSUME closed
       PROVE  \A d \in Pair : /\ List!Connected(d) => d \in List!Announce(n)
                              /\ heard'[d] = {}
    <2>1. ASSUME NEW d \in Pair, List!Connected(d) PROVE n < peers[d] /\ n # peers[d]
        <3>1. peers[d] \in Nat /\ peers[d] > n
            BY <1>0, <1>1, <1>15, <2>1 DEF OnlineInv, CountsTold, ListTypes
        <3> QED
            BY <1>2, <3>1
    <2>2. \A d \in Pair : ~List!Connected(d) => heard[d] = {}
        BY <1>0 DEF OnlineInv, Present, ListTypes
    <2> QED
        BY <1>3, <1>4, <2>1, <2>2
<1>16. ListTypes'
    <2>1. heard' \in [Pair -> SUBSET Pair]
        BY <1>0, <1>3 DEF ListTypes
    <2> QED
        BY <1>0, <1>3, <1>6, <1>7, <1>10, <2>1 DEF ListTypes
<1>17. OwnFrames'
    <2>1. ASSUME NEW j \in List!Conns, NEW f \in Elements(up'[j])
          PROVE  /\ j \in 1 .. Len(owner) /\ f.from = owner[j]
                 /\ f.type = "card" => f.conn = j /\ f.ts <= cards'[f.from]
                 /\ f.type = "leave" => f.from \in left
        <3>1. CASE f \in Elements(up[j])
            <4>1. f \in Sayings
                BY <1>0, <3>1, ElementsOf DEF ListTypes
            <4>2. /\ j \in 1 .. Len(owner) /\ f.from = owner[j]
                  /\ f.type = "card" => f.conn = j /\ f.ts <= cards[f.from]
                  /\ f.type = "leave" => f.from \in left
                BY <3>1 DEF OnlineInv, OwnFrames
            <4>3. f.from \in Pair /\ (f.type = "card" => f.ts \in Nat)
                BY <4>1 DEF Sayings
            <4> QED
                BY <1>6, <4>2, <4>3
        <3>2. CASE f \notin Elements(up[j])
            <4>1. /\ j \in 1 .. Len(owner) /\ owner[j] \in Pair
                  /\ f.type = "card" /\ f.from = owner[j] /\ f.conn = j /\ f.ts = cards'[owner[j]]
                BY <1>11, <2>1, <3>2
            <4> QED
                BY <1>6, <4>1
        <3> QED
            BY <3>1, <3>2
    <2> QED
        BY <1>3, <2>1 DEF OwnFrames
<1>18. InTheRoom'
    BY <1>3, <1>5 DEF OnlineInv, InTheRoom
<1>19. CountsTold'
    BY <1>1, <1>3, <1>5, <1>7 DEF CountsTold
<1>20. ASSUME NEW e \in Pair, NEW t, OthersBefore(e, t) PROVE OthersBefore(e, t)'
    <2>1. \A j \in List!Conns \ {conn[e]} : \A f \in Elements(up'[j]) :
               IsCard(f, e) => f \in Elements(up[j])
        BY <1>11 DEF IsCard
    <2> QED
        BY <1>3, <1>20, <2>1, OthersStay
<1>21. CardsDated'
    <2>1. ASSUME NEW d \in Pair, NEW e \in Pair PROVE known[d][e] <= cards'[e]
        <3>1. known[d][e] \in Nat /\ known[d][e] <= cards[e]
            BY <1>0 DEF OnlineInv, CardsDated, ListTypes
        <3> QED
            BY <1>6, <3>1
    <2>2. ASSUME NEW e \in Pair, List!Connected(e), NEW j \in List!Conns \ {conn[e]},
                 NEW f \in Elements(up'[j]), IsCard(f, e)
          PROVE  f.ts < cards'[e]
        <3>1. f \in Elements(up[j])
            BY <1>11, <2>2 DEF IsCard
        <3>2. f.ts < cards[e]
            BY <2>2, <3>1 DEF OnlineInv, CardsDated, OthersBefore
        <3>3. f.ts \in Nat
            BY <1>0, <2>2, <3>1, ElementsOf DEF ListTypes, IsCard, Sayings
        <3> QED
            BY <1>6, <3>2, <3>3
    <2> QED
        BY <1>3, <1>5, <2>1, <2>2 DEF CardsDated, OthersBefore
<1>22. Learnt'
    <2>1. ASSUME NEW d \in Pair, NEW e \in Pair, d # e, List!Connected(d), List!Connected(e),
                 e \notin left
          PROVE  WillSay(e)' \/ Lists(d, e)'
        <3>1. conn[e] \in List!Conns /\ conn[e] \in 1 .. Len(owner) /\ owner[conn[e]] = e
            BY <1>0, <2>1, WhoIsConnected DEF OnlineInv, InTheRoom
        <3>2. CASE e \in List!Announce(n)
            <4>1. conn[e] <= Len(owner)
                BY <3>1
            <4>2. List!Live(conn[e])
                BY <3>1, <4>1 DEF List!Live
            <4>3. PICK c : c = List!Card(e, conn[e])
                OBVIOUS
            <4>4. c \in Elements(up'[conn[e]]) /\ c.type = "card" /\ c.ts = cards'[e]
                BY <1>8, <3>1, <3>2, <4>2, <4>3
            <4> QED
                BY <1>3, <4>4 DEF WillSay
        <3>3. CASE e \notin List!Announce(n)
            <4>1. opened /\ ~closed /\ heard' = heard
                BY <1>13, <1>14, <1>15, <2>1, <3>3
            <4>2. peers[e] = n /\ cards'[e] = cards[e]
                BY <1>4, <1>6, <2>1, <3>3
            <4>3. WillSay(e) \/ Lists(d, e)
                BY <2>1 DEF OnlineInv, Learnt
            <4>4. ~(peers[e] < Cardinality(room))
                BY <1>1, <1>2, <4>2
            <4>5. WillSay(e) => WillSay(e)'
                BY <1>3, <1>12, <3>1, <4>2, <4>4 DEF WillSay
            <4>6. Lists(d, e) => Lists(d, e)'
                BY <1>3, <1>20, <4>1 DEF Lists
            <4> QED
                BY <4>3, <4>5, <4>6
        <3> QED
            BY <3>2, <3>3
    <2> QED
        BY <1>3, <1>5, <2>1 DEF Learnt
<1>23. Present'
    <2>1. ASSUME NEW d \in Pair, NEW e \in Pair, e \in heard'[d]
          PROVE  List!Connected(d) /\ \E j \in room : owner[j] = e
        <3>1. opened /\ ~closed /\ heard' = heard
            BY <1>13, <1>14, <1>15, <2>1
        <3> QED
            BY <2>1, <3>1 DEF OnlineInv, Present
    <2> QED
        BY <1>3, <1>5, <2>1 DEF Present
<1> QED
    BY <1>16, <1>17, <1>18, <1>19, <1>21, <1>22, <1>23 DEF OnlineInv

(* on_card, heard_card and on_leave: the card that names a connection in   *)
(* use is the newest of its device, so no other replaces it.               *)
LEMMA OnlineForward ==
    ASSUME List!RosterAssumption, OnlineInv, NEW k \in List!Conns, List!Forward(k)
    PROVE  OnlineInv'
<1>0. ListTypes
    BY DEF OnlineInv
<1>1. PICK f : f = Head(up[k])
    OBVIOUS
<1>2. PICK who : who = List!Receivers(k, f)
    OBVIOUS
<1>3. /\ k \in room /\ up[k] # <<>> /\ up' = [up EXCEPT ![k] = Tail(up[k])]
      /\ \/ f.type = "card" /\ List!OnCard(who, f)
         \/ f.type = "leave" /\ List!OnLeave(who, f)
      /\ UNCHANGED <<owner, room, timer, opened, closed, conn, peers, cards, left>>
    BY <1>1, <1>2 DEF List!Forward, List!relay
<1>4. /\ f \in Sayings /\ f \in Elements(up[k])
      /\ up' \in [List!Conns -> Seq(Sayings)]
      /\ Elements(up[k]) = Elements(up'[k]) \cup {f}
      /\ \A j \in List!Conns \ {k} : up'[j] = up[j]
    <2>1. up[k] \in Seq(Sayings)
        BY <1>0 DEF ListTypes
    <2>2. /\ f \in Elements(up[k]) /\ f \in Sayings /\ Tail(up[k]) \in Seq(Sayings)
          /\ Elements(up[k]) = Elements(Tail(up[k])) \cup {f}
        BY <1>1, <1>3, <2>1, OneLess
    <2> QED
        BY <1>0, <1>3, <2>2 DEF ListTypes
<1>5. /\ f.from \in Pair /\ k \in 1 .. Len(owner) /\ f.from = owner[k]
      /\ f.type = "card" => f.conn = k /\ f.ts \in Nat /\ f.ts <= cards[f.from]
      /\ f.type = "leave" => f.from \in left
    BY <1>4 DEF OnlineInv, OwnFrames, Sayings
<1>6. who \subseteq Pair /\ \A d \in Pair : d \in who <=> List!Connected(d) /\ f.from # d /\ conn[d] # k
    BY <1>2 DEF List!Receivers
<1>7. \A j \in List!Conns : Elements(up'[j]) \subseteq Elements(up[j])
    BY <1>4
<1>8. \A j \in List!Conns : \A g \in Elements(up[j]) : g \in Elements(up'[j]) \/ (j = k /\ g = f)
    BY <1>4
<1>9. \A d \in Pair : List!Connected(d)' <=> List!Connected(d)
    BY <1>3 DEF List!Connected
<1>10. OwnFrames' /\ InTheRoom' /\ CountsTold'
    <2>1. OwnFrames'
        BY <1>3, <1>7 DEF OnlineInv, OwnFrames
    <2>2. InTheRoom'
        BY <1>3, <1>9 DEF OnlineInv, InTheRoom
    <2>3. CountsTold'
        BY <1>3, <1>9 DEF OnlineInv, CountsTold
    <2> QED
        BY <2>1, <2>2, <2>3
<1>11. ASSUME NEW e \in Pair, NEW t, OthersBefore(e, t) PROVE OthersBefore(e, t)'
    BY <1>3, <1>7, <1>11, OthersStay
<1>12. ASSUME NEW e \in Pair, WillSay(e), ~(f.type = "card" /\ f.from = e /\ f.ts = cards[e]),
              List!Connected(e)
       PROVE  WillSay(e)'
    <2>1. conn[e] \in List!Conns /\ owner[conn[e]] = e
        BY <1>0, <1>12, WhoIsConnected DEF OnlineInv, InTheRoom
    <2>2. CASE opened /\ peers[e] < Cardinality(room)
        BY <1>3, <2>2 DEF WillSay
    <2>3. ASSUME NEW g \in Elements(up[conn[e]]), g.type = "card", g.ts = cards[e]
          PROVE  WillSay(e)'
        <3>1. g \in Elements(up'[conn[e]])
            BY <1>5, <1>8, <1>12, <2>1, <2>3
        <3> QED
            BY <1>3, <2>3, <3>1 DEF WillSay
    <2> QED
        BY <1>12, <2>2, <2>3 DEF WillSay
<1>13. CASE f.type = "card"
    <2>1. PICK a \in Pair : a = f.from
        BY <1>5
    <2>2. PICK take : take = {d \in who : f.ts >= known[d][a]}
        OBVIOUS
    <2>3. /\ heard' = [d \in Pair |-> IF d \in who THEN heard[d] \cup {a} ELSE heard[d]]
          /\ known' = [d \in Pair |-> IF d \in take THEN [known[d] EXCEPT ![a] = f.ts] ELSE known[d]]
          /\ at' = [d \in Pair |-> IF d \in take THEN [at[d] EXCEPT ![a] = k] ELSE at[d]]
        BY <1>3, <1>5, <1>13, <2>1, <2>2 DEF List!OnCard, List!Heard, List!Put, List!Newer
    <2>4. /\ heard' \in [Pair -> SUBSET Pair]
          /\ \A d \in Pair : heard[d] \subseteq heard'[d] /\ heard'[d] \subseteq heard[d] \cup {a}
          /\ \A d \in who : a \in heard'[d]
          /\ \A d \in Pair \ who : heard'[d] = heard[d]
        BY <1>0, <1>6, <2>3 DEF ListTypes
    <2>5. /\ known' \in [Pair -> [Pair -> Nat]]
          /\ \A d \in take : known'[d][a] = f.ts
          /\ \A d, e \in Pair : ~(d \in take /\ e = a) => known'[d][e] = known[d][e]
        BY <1>0, <1>5, <1>6, <1>13, <2>2, <2>3 DEF ListTypes
    <2>6. /\ at' \in [Pair -> [Pair -> List!Conns \cup {None}]]
          /\ \A d \in take : at'[d][a] = k
          /\ \A d, e \in Pair : ~(d \in take /\ e = a) => at'[d][e] = at[d][e]
        BY <1>0, <1>6, <2>2, <2>3 DEF ListTypes
    <2>7. ListTypes'
        BY <1>0, <1>3, <1>4, <2>4, <2>5, <2>6 DEF ListTypes
    <2>8. CardsDated'
        <3>1. ASSUME NEW d \in Pair, NEW e \in Pair PROVE known'[d][e] <= cards'[e]
            <4>1. cards' = cards
                BY <1>3
            <4>2. CASE d \in take /\ e = a
                BY <1>5, <1>13, <2>1, <2>5, <4>1, <4>2
            <4>3. CASE ~(d \in take /\ e = a)
                <5>1. known'[d][e] = known[d][e] /\ known[d][e] <= cards[e]
                    BY <2>5, <4>3 DEF OnlineInv, CardsDated
                <5> QED
                    BY <4>1, <5>1
            <4> QED
                BY <4>2, <4>3
        <3>2. ASSUME NEW e \in Pair, List!Connected(e)' PROVE OthersBefore(e, cards[e])'
            BY <1>3, <1>9, <1>11, <3>2 DEF OnlineInv, CardsDated
        <3> QED
            BY <1>3, <3>1, <3>2 DEF CardsDated
    <2>9. Learnt'
        <3>1. ASSUME NEW d \in Pair, NEW e \in Pair, d # e, List!Connected(d), List!Connected(e),
                     e \notin left
              PROVE  WillSay(e)' \/ Lists(d, e)'
            <4>1. WillSay(e) \/ Lists(d, e)
                BY <3>1 DEF OnlineInv, Learnt
            <4>2. CASE a = e /\ f.ts = cards[e]
                <5>1. OthersBefore(e, cards[e])
                    BY <3>1 DEF OnlineInv, CardsDated
                <5>2. k = conn[e]
                    BY <1>4, <1>5, <1>13, <2>1, <4>2, <5>1 DEF OthersBefore, IsCard
                <5>3. d \in who
                    <6>1. conn[d] # k
                        BY <1>5, <2>1, <3>1, <4>2 DEF OnlineInv, InTheRoom
                    <6> QED
                        BY <1>6, <2>1, <3>1, <4>2, <6>1
                <5>4. d \in take
                    BY <2>2, <4>2, <5>3 DEF OnlineInv, CardsDated
                <5>5. OthersBefore(e, f.ts)'
                    BY <1>11, <4>2, <5>1
                <5> QED
                    BY <1>3, <2>4, <2>5, <2>6, <4>2, <5>2, <5>3, <5>4, <5>5 DEF Lists
            <4>3. ASSUME WillSay(e), ~(a = e /\ f.ts = cards[e]) PROVE WillSay(e)'
                BY <1>12, <2>1, <3>1, <4>3
            <4>4. ASSUME Lists(d, e) PROVE Lists(d, e)'
                <5>1. e \in heard'[d] /\ at[d][e] = conn[e] /\ OthersBefore(e, known[d][e])
                    BY <2>4, <4>4 DEF Lists
                <5>2. CASE d \in take /\ e = a
                    <6>1. f.ts >= known[d][e] /\ f.ts \in Nat /\ known[d][e] \in Nat
                        BY <1>0, <1>5, <1>13, <2>2, <5>2 DEF ListTypes
                    <6>2. k = conn[e]
                        BY <1>4, <1>5, <1>13, <2>1, <5>1, <5>2, <6>1 DEF OthersBefore, IsCard
                    <6>3. OthersBefore(e, f.ts)
                        <7>1. \A j \in List!Conns \ {conn[e]} : \A g \in Elements(up[j]) :
                                  IsCard(g, e) => g.ts \in Nat /\ g.ts < known[d][e]
                            BY <1>0, <5>1, ElementsOf DEF OthersBefore, ListTypes, Sayings, IsCard
                        <7> QED
                            BY <6>1, <7>1 DEF OthersBefore
                    <6>4. OthersBefore(e, f.ts)'
                        BY <1>11, <6>3
                    <6> QED
                        BY <1>3, <2>5, <2>6, <5>1, <5>2, <6>2, <6>4 DEF Lists
                <5>3. CASE ~(d \in take /\ e = a)
                    <6>1. known'[d][e] = known[d][e] /\ at'[d][e] = at[d][e]
                        BY <2>5, <2>6, <5>3
                    <6>2. OthersBefore(e, known[d][e])'
                        BY <1>3, <1>7, <5>1, <6>1, OthersStay
                    <6> QED
                        BY <1>3, <5>1, <6>1, <6>2 DEF Lists, OthersBefore
                <5> QED
                    BY <5>2, <5>3
            <4> QED
                BY <4>1, <4>2, <4>3, <4>4
        <3> QED
            BY <1>3, <1>9, <3>1 DEF Learnt
    <2>10. Present'
        <3>1. ASSUME NEW d \in Pair, NEW e \in Pair, e \in heard'[d]
              PROVE  List!Connected(d) /\ (closed \/ \E j \in room : owner[j] = e)
            <4>1. CASE e \in heard[d]
                BY <4>1 DEF OnlineInv, Present
            <4>2. CASE e \notin heard[d]
                <5>1. e = a /\ d \in who
                    BY <2>4, <3>1, <4>2
                <5> QED
                    BY <1>3, <1>5, <1>6, <2>1, <5>1
            <4> QED
                BY <4>1, <4>2
        <3> QED
            BY <1>3, <1>9, <3>1 DEF Present
    <2> QED
        BY <1>10, <2>7, <2>8, <2>9, <2>10 DEF OnlineInv
<1>14. CASE f.type = "leave"
    <2>1. PICK a \in Pair : a = f.from /\ a \in left
        BY <1>5, <1>14
    <2>2. PICK take : take = {d \in who : a \in stored[d]}
        OBVIOUS
    <2>3. /\ heard' = [d \in Pair |-> IF d \in take THEN heard[d] \ {a} ELSE heard[d]]
          /\ UNCHANGED <<known, at>>
        BY <1>3, <1>14, <2>1, <2>2 DEF List!OnLeave, List!Cut
    <2>4. /\ heard' \in [Pair -> SUBSET Pair]
          /\ \A d \in Pair : heard'[d] \subseteq heard[d] /\ heard[d] \subseteq heard'[d] \cup {a}
        BY <1>0, <2>3 DEF ListTypes
    <2>5. ListTypes'
        BY <1>0, <1>3, <1>4, <2>3, <2>4 DEF ListTypes
    <2>6. CardsDated'
        <3>1. ASSUME NEW e \in Pair, List!Connected(e)' PROVE OthersBefore(e, cards[e])'
            BY <1>3, <1>9, <1>11, <3>1 DEF OnlineInv, CardsDated
        <3> QED
            BY <1>3, <2>3, <3>1 DEF OnlineInv, CardsDated
    <2>7. Learnt'
        <3>1. ASSUME NEW d \in Pair, NEW e \in Pair, d # e, List!Connected(d), List!Connected(e),
                     e \notin left
              PROVE  WillSay(e)' \/ Lists(d, e)'
            <4>1. WillSay(e) \/ Lists(d, e)
                BY <3>1 DEF OnlineInv, Learnt
            <4>2. WillSay(e) => WillSay(e)'
                BY <1>12, <1>14, <3>1
            <4>3. Lists(d, e) => Lists(d, e)'
                BY <1>3, <1>11, <2>1, <2>3, <2>4, <3>1 DEF Lists
            <4> QED
                BY <4>1, <4>2, <4>3
        <3> QED
            BY <1>3, <1>9, <3>1 DEF Learnt
    <2>8. Present'
        BY <1>3, <1>9, <2>4 DEF OnlineInv, Present
    <2> QED
        BY <1>10, <2>5, <2>6, <2>7, <2>8 DEF OnlineInv
<1> QED
    BY <1>3, <1>13, <1>14

(* Every step keeps the invariant.                                         *)
LEMMA OnlineStep ==
    ASSUME List!RosterAssumption, ~Overlaps, OnlineInv, [List!Next]_(List!vars)
    PROVE  OnlineInv'
<1>1. CASE UNCHANGED List!vars
    <2>1. UNCHANGED <<owner, room, timer, opened, closed, conn, up, peers, cards, known, heard, at,
                      left>>
        BY <1>1 DEF List!vars, List!relay, List!list
    <2>2. ListTypes' /\ OwnFrames'
        BY <2>1 DEF OnlineInv, ListTypes, OwnFrames
    <2>3. \A d \in Pair : List!Connected(d)' <=> List!Connected(d)
        BY <2>1 DEF List!Connected
    <2>4. InTheRoom' /\ CountsTold' /\ Present'
        BY <2>1, <2>3 DEF OnlineInv, InTheRoom, CountsTold, Present
    <2>5. CardsDated'
        BY <2>1, <2>3 DEF OnlineInv, CardsDated, OthersBefore
    <2>6. Learnt'
        BY <2>1, <2>3 DEF OnlineInv, Learnt, WillSay, Lists, OthersBefore
    <2> QED
        BY <2>2, <2>4, <2>5, <2>6 DEF OnlineInv
<1>2. CASE List!Next
    BY <1>2, OnlineConnect, OnlineDrop, OnlineLeaving, OnlineClose, OnlineForward, OnlinePresence
       DEF List!Next
<1> QED
    BY <1>1, <1>2

(* When all is quiet nobody has anything left to say, and every connection *)
(* in the room is its device's own.                                        *)
LEMMA QuietIsRight ==
    ASSUME List!RosterAssumption, OnlineInv
    PROVE  List!ListIsRight
<1>0. ListTypes
    BY DEF OnlineInv
<1>1. ASSUME List!Quiet, NEW d \in Pair, NEW e \in Pair, d # e, List!Connected(d)
      PROVE  List!ConnOf(d, e) = conn[e]
    <2>1. /\ ~opened /\ ~closed
          /\ \A k \in room : List!Live(k) /\ up[k] = <<>>
          /\ \A x \in left : ~List!Connected(x)
        BY <1>1 DEF List!Quiet, OnlineInv, CountsTold
    <2>2. CASE List!Connected(e)
        <3>1. up[conn[e]] = <<>>
            BY <2>1, <2>2 DEF OnlineInv, InTheRoom
        <3>2. ~WillSay(e)
            BY <2>1, <3>1 DEF WillSay, Elements
        <3>3. Lists(d, e)
            BY <1>1, <2>1, <2>2, <3>2 DEF OnlineInv, Learnt
        <3> QED
            BY <1>1, <3>3 DEF Lists, List!ConnOf
    <2>3. CASE ~List!Connected(e)
        <3>1. conn[e] = None
            BY <2>3 DEF List!Connected
        <3>2. ASSUME e \in heard[d] PROVE FALSE
            <4>1. PICK j \in room : owner[j] = e
                BY <2>1, <3>2 DEF OnlineInv, Present
            <4>2. conn[e] = j
                BY <2>1, <4>1 DEF List!Live
            <4>3. j \in List!Conns
                <5>1. j \in 1 .. Len(owner) /\ Len(owner) <= MaxConns /\ Len(owner) \in Nat
                    BY <1>0, <4>1 DEF ListTypes
                <5> QED
                    BY <5>1 DEF List!Conns, List!RosterAssumption
            <4> QED
                BY <3>1, <4>2, <4>3 DEF List!RosterAssumption
        <3> QED
            BY <3>1, <3>2 DEF List!ConnOf
    <2> QED
        BY <2>2, <2>3
<1> QED
    BY <1>1 DEF List!ListIsRight

(* Presence in handle_frame, set_connected, on_card, heard_card, on_leave  *)
(* and schedulePresence: as long as no broadcast has to report comings and *)
(* goings together, then once all is quiet every device lists exactly the  *)
(* devices that are connected, under the connections they have, however    *)
(* late the relay learns of an end and reads what it was sent, and for any *)
(* number of devices and connections.                                      *)
THEOREM OnlineIsListed ==
    ASSUME ~Overlaps
    PROVE  /\ List!Spec => []List!ListIsRight
           /\ MCSpec => []ListIsRight
<1>1. List!Init => OnlineInv
    BY OnlineInit, DeviceAssumption
<1>2. OnlineInv /\ [List!Next]_(List!vars) => OnlineInv'
    BY OnlineStep, DeviceAssumption
<1>3. OnlineInv => List!ListIsRight
    BY QuietIsRight, DeviceAssumption
<1>4. List!Spec => []List!ListIsRight
    BY <1>1, <1>2, <1>3, PTL DEF List!Spec
<1>5. MCSpec => []ListIsRight
    <2>1. MCInit => (part = "roster" => OnlineInv)
        BY <1>1, PartStarts
    <2>2. (part = "roster" => OnlineInv) /\ [MCNext]_<<part, slots>> => (part = "roster" => OnlineInv)'
        BY <1>2, PartGoesOn
    <2>3. (part = "roster" => OnlineInv) => ListIsRight
        BY <1>3 DEF ListIsRight
    <2> QED
        BY <2>1, <2>2, <2>3, PTL DEF MCSpec
<1> QED
    BY <1>4, <1>5

(***************************************************************************)
(* Images.  Whatever a relay repeats, reorders or relabels, a piece that   *)
(* opens is one that was sealed for the position it claims (Genuine), so   *)
(* what is put together holds pieces of one image in their places, and     *)
(* once it has as many as the image it is that image.  That the last one   *)
(* begun is shown follows a clean run of the relay piece by piece          *)
(* (CleanRun), which starts from an image nothing of which is anywhere but *)
(* with its sender (UnreadIsNowhere).                                      *)
(***************************************************************************)
Pieces == UNION {{Image!Frame(m, i, made[m]) : i \in 0 .. made[m] - 1} : m \in DOMAIN made}

Genuine(f) ==
    /\ f.msg \in DOMAIN made /\ f.count = made[f.msg]
    /\ f.idx \in 0 .. f.count - 1
    /\ f.text = <<f.msg, f.idx>>

Copy(m) == [i \in 0 .. made[m] - 1 |-> <<m, i>>]
Copies == {Copy(m) : m \in DOMAIN made}

Made(s) == {m \in DOMAIN made : m[1] = s}

ImageTypes ==
    /\ DOMAIN made \subseteq Senders \X Nat /\ IsFiniteSet(DOMAIN made)
    /\ \A m \in DOMAIN made : made[m] \in Nat \ {0}
    /\ out \in [Senders -> Seq(Pieces)]
    /\ down \in Seq(Pieces)
    /\ last \in [Senders -> Nat]

(* A number is used once.                                                  *)
Numbered == \A m \in DOMAIN made : m[2] <= Cardinality(Made(m[1]))

InPlace ==
    held # None =>
        /\ held.msg \in DOMAIN made /\ held.count = made[held.msg]
        /\ held = [msg |-> held.msg, count |-> held.count, pieces |-> held.pieces]
        /\ DOMAIN held.pieces \subseteq 0 .. held.count - 1
        /\ held.pieces = [i \in DOMAIN held.pieces |-> <<held.msg, i>>]

Accepted ==
    /\ shown \in Seq(Copies)
    /\ \A k \in DOMAIN shown :
        Image!MsgOf(shown[k])[2] <= last[Image!MsgOf(shown[k])[1]]
    /\ Image!ShownInOrder

ImageInv == ImageTypes /\ Numbered /\ InPlace /\ Accepted

(* The cardinality of the instance is the cardinality.                     *)
LEMMA ImageCounts ==
    ASSUME NEW S PROVE Image!Cardinality(S) = Cardinality(S)
BY DEF Cardinality, Image!Cardinality

(* A piece that was sealed opens at the position it claims.                *)
LEMMA PiecesAreGenuine ==
    ASSUME NEW f \in Pieces
    PROVE  /\ Genuine(f) /\ f.aad = <<f.msg, f.idx, f.count>>
           /\ DOMAIN f = {"msg", "idx", "count", "aad", "text"}
<1>1. PICK m \in DOMAIN made : f \in {Image!Frame(m, i, made[m]) : i \in 0 .. made[m] - 1}
    BY DEF Pieces
<1>2. PICK i \in 0 .. made[m] - 1 : f = Image!Frame(m, i, made[m])
    BY <1>1
<1>3. /\ f.msg = m /\ f.idx = i /\ f.count = made[m] /\ f.aad = <<m, i, made[m]>>
      /\ f.text = <<m, i>> /\ DOMAIN f = {"msg", "idx", "count", "aad", "text"}
    BY <1>2 DEF Image!Frame, Image!Aad
<1> QED
    BY <1>1, <1>2, <1>3 DEF Genuine

(* A relabelled piece opens only under its own label.                      *)
Relabelled(g, m, i, n) == [g EXCEPT !.msg = m, !.idx = i, !.count = n]

LEMMA OpensIsGenuine ==
    ASSUME NEW g \in Pieces, NEW m, NEW i, NEW n, Image!Opens(Relabelled(g, m, i, n))
    PROVE  Genuine(Relabelled(g, m, i, n)) /\ Relabelled(g, m, i, n).msg = g.msg
<1> DEFINE f == Relabelled(g, m, i, n)
<1>1. /\ Genuine(g) /\ g.aad = <<g.msg, g.idx, g.count>>
      /\ DOMAIN g = {"msg", "idx", "count", "aad", "text"}
    BY PiecesAreGenuine
<1>2. f.msg = m /\ f.idx = i /\ f.count = n /\ f.aad = g.aad /\ f.text = g.text
    BY <1>1 DEF Relabelled
<1> HIDE DEF f
<1>3. <<m, i, n>> = <<g.msg, g.idx, g.count>>
    BY <1>1, <1>2 DEF Image!Opens, Image!Aad, f
<1>4. m = g.msg /\ i = g.idx /\ n = g.count
    BY <1>3
<1> QED
    BY <1>1, <1>2, <1>4 DEF Genuine, f

(* Whose image a whole one is                                              *)
LEMMA CopyIs ==
    ASSUME ImageTypes, NEW m \in DOMAIN made
    PROVE  Image!MsgOf(Copy(m)) = m /\ m[1] \in Senders /\ m[2] \in Nat /\ m = <<m[1], m[2]>>
<1>1. 0 \in 0 .. made[m] - 1
    BY DEF ImageTypes
<1>2. Copy(m)[0] = <<m, 0>>
    BY <1>1 DEF Copy
<1>3. m \in Senders \X Nat
    BY DEF ImageTypes
<1> QED
    BY <1>2, <1>3 DEF Image!MsgOf

(* Nothing is made, under way or shown at first.                           *)
LEMMA ImageInit == Image!ImagesAssumption /\ Image!Init => ImageInv
<1> SUFFICES ASSUME Image!Init PROVE ImageInv
    OBVIOUS
<1>1. /\ made = <<>> /\ out = [s \in Senders |-> <<>>] /\ down = <<>> /\ held = None
      /\ last = [s \in Senders |-> 0] /\ shown = <<>>
    BY DEF Image!Init
<1>2. DOMAIN made = {} /\ IsFiniteSet({})
    BY <1>1, FS_EmptySet
<1>3. <<>> \in Seq(Pieces) /\ <<>> \in Seq(Copies)
    OBVIOUS
<1>4. ImageTypes
    BY <1>1, <1>2, <1>3 DEF ImageTypes
<1>5. Numbered
    BY <1>2 DEF Numbered
<1>6. InPlace
    BY <1>1 DEF InPlace
<1>7. DOMAIN shown = {}
    BY <1>1
<1>8. Accepted
    BY <1>1, <1>3, <1>7 DEF Accepted, Image!ShownInOrder
<1> QED
    BY <1>4, <1>5, <1>6, <1>8 DEF ImageInv

(* A piece that opens and finds its place: what is put together then, and  *)
(* when it is the image.                                                   *)
LEMMA ImageAdds ==
    ASSUME ImageInv, NEW f, Genuine(f)
    PROVE  LET b == Image!Begun(f)
               a == Image!WithPiece(b, f)
               n == made[f.msg]
               D == DOMAIN b.pieces \cup {f.idx}
           IN  /\ n \in Nat \ {0} /\ f.count = n /\ f.idx \in 0 .. n - 1 /\ f.msg \in DOMAIN made
               /\ b.count = n /\ DOMAIN b.pieces \subseteq 0 .. n - 1
               /\ b.pieces = IF Image!StartingOver(f) THEN <<>> ELSE held.pieces
               /\ a = [msg |-> f.msg, count |-> n, pieces |-> [i \in D |-> <<f.msg, i>>]]
               /\ D \subseteq 0 .. n - 1
               /\ Image!Complete(a) <=> D = 0 .. n - 1
               /\ D = 0 .. n - 1 => a.pieces = Copy(f.msg) /\ Copy(f.msg) \in Copies
<1> DEFINE b == Image!Begun(f)
           a == Image!WithPiece(b, f)
           n == made[f.msg]
<1>1. Genuine(f) /\ n \in Nat \ {0} /\ f.count = n /\ f.idx \in 0 .. n - 1 /\ f.msg \in DOMAIN made
    BY DEF ImageInv, ImageTypes, Genuine
<1>2. /\ b = [msg |-> f.msg, count |-> n, pieces |-> b.pieces]
      /\ DOMAIN b.pieces \subseteq 0 .. n - 1
      /\ b.pieces = [i \in DOMAIN b.pieces |-> <<f.msg, i>>]
      /\ b.pieces = IF Image!StartingOver(f) THEN <<>> ELSE held.pieces
    <2>1. CASE Image!StartingOver(f)
        <3>1. b = [msg |-> f.msg, count |-> f.count, pieces |-> <<>>]
            BY <2>1 DEF Image!Begun
        <3>2. b.pieces = <<>> /\ DOMAIN b.pieces = {}
            BY <3>1
        <3>3. <<>> = [i \in {} |-> <<f.msg, i>>]
            OBVIOUS
        <3> QED
            BY <1>1, <2>1, <3>1, <3>2, <3>3
    <2>2. CASE ~Image!StartingOver(f)
        <3>1. b = held /\ held # None /\ held.msg = f.msg
            BY <2>2 DEF Image!Begun, Image!StartingOver
        <3> QED
            BY <1>1, <2>2, <3>1 DEF ImageInv, InPlace
    <2> QED
        BY <2>1, <2>2
<1> HIDE DEF b
<1> DEFINE D == DOMAIN b.pieces \cup {f.idx}
<1>3. /\ a = [msg |-> f.msg, count |-> n, pieces |-> [i \in D |-> <<f.msg, i>>]]
      /\ D \subseteq 0 .. n - 1
    <2>1. f.text = <<f.msg, f.idx>>
        BY <1>1 DEF Genuine
    <2> DEFINE p == [i \in D |-> IF i = f.idx THEN f.text ELSE b.pieces[i]]
    <2>2. p = [i \in D |-> <<f.msg, i>>]
        BY <1>2, <2>1
    <2>3. a = [b EXCEPT !.pieces = p]
        BY DEF Image!WithPiece
    <2> HIDE DEF p
    <2>4. [b EXCEPT !.pieces = p] = [msg |-> f.msg, count |-> n, pieces |-> p]
        BY <1>2
    <2> QED
        BY <1>1, <1>2, <2>2, <2>3, <2>4
<1>4. a.msg = f.msg /\ a.count = n /\ a.pieces = [i \in D |-> <<f.msg, i>>]
      /\ DOMAIN a.pieces = D
    BY <1>3
<1> HIDE DEF a
<1>5. IsFiniteSet(0 .. n - 1) /\ Cardinality(0 .. n - 1) = n
    <2>1. 0 \in Int /\ n - 1 \in Int /\ ~(0 > n - 1) /\ n - 1 - 0 + 1 = n
        BY <1>1
    <2> HIDE DEF n
    <2> QED
        BY <2>1, FS_Interval
<1>6. Image!Complete(a) <=> D = 0 .. n - 1
    <2>1. Image!Complete(a) <=> Cardinality(D) = n
        BY <1>4, ImageCounts DEF Image!Complete
    <2> QED
        BY <1>3, <1>5, <2>1, FS_Subset
<1>7. D = 0 .. n - 1 => a.pieces = Copy(f.msg) /\ Copy(f.msg) \in Copies
    BY <1>1, <1>4 DEF Copy, Copies
<1>8. b.count = n
    BY <1>2
<1> QED
    BY <1>1, <1>2, <1>3, <1>6, <1>7, <1>8 DEF a, b

(* on_chunk                                                                *)
LEMMA ImageOnChunk ==
    ASSUME ImageInv, UNCHANGED made, NEW f, Image!Opens(f) => Genuine(f), Image!OnChunk(f)
    PROVE  InPlace' /\ Accepted' /\ last' \in [Senders -> Nat]
<1>0. Copies' = Copies /\ DOMAIN made' = DOMAIN made
    BY DEF Copies, Copy
<1>1. ASSUME UNCHANGED <<last, shown>> PROVE Accepted' /\ last' \in [Senders -> Nat]
    BY <1>0, <1>1 DEF ImageInv, ImageTypes, Accepted, Image!ShownInOrder, Image!MsgOf
<1>2. CASE UNCHANGED <<held, last, shown>>
    BY <1>0, <1>1, <1>2 DEF ImageInv, InPlace
<1>3. CASE held' = None /\ UNCHANGED <<last, shown>>
    BY <1>1, <1>3 DEF InPlace
<1>4. CASE ~Image!Ignored(f) /\ Image!Opens(f) /\ Image!Accepts(Image!Begun(f), f)
    <2> DEFINE b == Image!Begun(f)
               a == Image!WithPiece(b, f)
               n == made[f.msg]
               D == DOMAIN b.pieces \cup {f.idx}
    <2>1. /\ n \in Nat \ {0} /\ f.count = n /\ f.idx \in 0 .. n - 1 /\ f.msg \in DOMAIN made
          /\ a = [msg |-> f.msg, count |-> n, pieces |-> [i \in D |-> <<f.msg, i>>]]
          /\ D \subseteq 0 .. n - 1
          /\ Image!Complete(a) => D = 0 .. n - 1
          /\ D = 0 .. n - 1 => a.pieces = Copy(f.msg) /\ Copy(f.msg) \in Copies
        <3>1. Genuine(f)
            BY <1>4
        <3> HIDE DEF a, b, n, D
        <3> QED
            BY <3>1, ImageAdds DEF a, b, n, D
    <2> HIDE DEF a, b
    <2>2. a.msg = f.msg /\ a.count = n /\ a.pieces = [i \in D |-> <<f.msg, i>>]
          /\ DOMAIN a.pieces = D
        BY <2>1
    <2>5. CASE held' = a /\ UNCHANGED <<last, shown>>
        <3>1. InPlace'
            BY <1>0, <2>1, <2>2, <2>5 DEF InPlace
        <3> QED
            BY <1>1, <2>5, <3>1
    <2>6. CASE Image!Complete(a) /\ held' = None /\ Image!Finish(a)
        <3>2. a.pieces = Copy(f.msg) /\ Copy(f.msg) \in Copies
            BY <2>1, <2>6
        <3> DEFINE m == f.msg
        <3>3. m[1] \in Senders /\ m[2] \in Nat /\ a.pieces[0][1] = m /\ Image!MsgOf(Copy(m)) = m
            BY <2>1, <3>2, CopyIs DEF ImageInv, Image!MsgOf
        <3>4. CASE UNCHANGED <<last, shown>>
            BY <1>1, <2>6, <3>4 DEF InPlace
        <3>5. CASE /\ m[2] > last[m[1]]
                   /\ last' = [last EXCEPT ![m[1]] = m[2]]
                   /\ shown' = Append(shown, Copy(m))
            <4>1. last' \in [Senders -> Nat] /\ last'[m[1]] = m[2]
                  /\ \A s \in Senders : last[s] <= last'[s] /\ last[s] \in Nat /\ last'[s] \in Nat
                BY <3>3, <3>5 DEF ImageInv, ImageTypes
            <4>2. shown \in Seq(Copies) /\ shown' \in Seq(Copies)
                BY <3>2, <3>5 DEF ImageInv, Accepted
            <4>3. /\ DOMAIN shown' = DOMAIN shown \cup {Len(shown) + 1} /\ Len(shown) \in Nat
                  /\ shown'[Len(shown) + 1] = Copy(m)
                  /\ \A k \in DOMAIN shown : shown'[k] = shown[k] /\ k \in 1 .. Len(shown)
                BY <3>5, <4>2
            <4>4. ASSUME NEW k \in DOMAIN shown
                  PROVE  LET c == Image!MsgOf(shown[k])
                         IN  c[1] \in Senders /\ c[2] \in Nat /\ c[2] <= last[c[1]]
                <5>1. shown[k] \in Copies
                    BY <4>2
                <5>2. PICK c \in DOMAIN made : shown[k] = Copy(c)
                    BY <5>1 DEF Copies
                <5> QED
                    BY <5>2, CopyIs DEF ImageInv, Accepted
            <4>5. ASSUME NEW k \in DOMAIN shown'
                  PROVE  LET c == Image!MsgOf(shown'[k]) IN c[2] <= last'[c[1]]
                <5>1. CASE k \in DOMAIN shown
                    BY <4>1, <4>3, <4>4, <5>1
                <5>2. CASE k = Len(shown) + 1
                    BY <3>3, <4>1, <4>3, <5>2
                <5> QED
                    BY <4>3, <5>1, <5>2
            <4>6. ASSUME NEW j \in DOMAIN shown', NEW k \in DOMAIN shown', j < k,
                         Image!MsgOf(shown'[j])[1] = Image!MsgOf(shown'[k])[1]
                  PROVE  Image!MsgOf(shown'[j])[2] < Image!MsgOf(shown'[k])[2]
                <5>1. j \in DOMAIN shown
                    BY <4>3, <4>6
                <5>2. CASE k \in DOMAIN shown
                    BY <4>3, <4>6, <5>1, <5>2 DEF ImageInv, Accepted, Image!ShownInOrder
                <5>3. CASE k = Len(shown) + 1
                    <6>1. Image!MsgOf(shown'[k]) = m /\ shown'[j] = shown[j]
                        BY <3>3, <4>3, <5>1, <5>3
                    <6>2. Image!MsgOf(shown[j])[1] = m[1]
                        BY <4>6, <6>1
                    <6>3. Image!MsgOf(shown[j])[2] <= last[m[1]] /\ Image!MsgOf(shown[j])[2] \in Nat
                        BY <4>4, <5>1, <6>2
                    <6> QED
                        BY <3>3, <3>5, <4>1, <6>1, <6>3
                <5> QED
                    BY <4>3, <5>2, <5>3
            <4>7. Accepted'
                BY <1>0, <4>2, <4>5, <4>6 DEF Accepted, Image!ShownInOrder, Image!MsgOf
            <4> QED
                BY <2>6, <4>1, <4>7 DEF InPlace
        <3> QED
            BY <2>6, <3>2, <3>3, <3>4, <3>5 DEF Image!Finish
    <2> QED
        BY <1>4, <2>5, <2>6 DEF Image!OnChunk, a, b
<1> QED
    BY <1>2, <1>3, <1>4 DEF Image!OnChunk

(* seal_image: the new image has a number of its own, so that what was     *)
(* said of the others stays true.                                          *)
LEMMA ImageCopy ==
    ASSUME Image!ImagesAssumption, ImageInv, NEW s \in Senders, Image!Copy(s)
    PROVE  ImageInv'
<1>1. IsFiniteSet(Made(s)) /\ Cardinality(Made(s)) \in Nat
    BY FS_Subset, FS_CardinalityType DEF ImageInv, ImageTypes, Made
<1> DEFINE id == <<s, Cardinality(Made(s)) + 1>>
<1>2. PICK n \in 1 .. MaxPieces :
          /\ made' = [m \in DOMAIN made \cup {id} |-> IF m = id THEN n ELSE made[m]]
          /\ out' = [out EXCEPT ![s] = [i \in 1 .. n |-> Image!Frame(id, i - 1, n)]]
    BY ImageCounts, Zenon DEF Image!Copy, Made
<1>3. UNCHANGED <<down, held, last, shown>>
    BY DEF Image!Copy
<1>4. id \notin DOMAIN made /\ id[1] = s /\ id[2] = Cardinality(Made(s)) + 1 /\ id \in Senders \X Nat
    <2>1. id[1] = s /\ id[2] = Cardinality(Made(s)) + 1 /\ id \in Senders \X Nat
        BY <1>1
    <2>2. ASSUME id \in DOMAIN made PROVE FALSE
        <3>1. id[2] <= Cardinality(Made(id[1]))
            BY <2>2 DEF ImageInv, Numbered
        <3> HIDE DEF id
        <3> QED
            BY <1>1, <2>1, <3>1
    <2> QED
        BY <2>1, <2>2
<1> HIDE DEF id
<1>5. /\ DOMAIN made' = DOMAIN made \cup {id} /\ made'[id] = n
      /\ \A m \in DOMAIN made : made'[m] = made[m] /\ m # id
      /\ n \in Nat \ {0}
    BY <1>2, <1>4 DEF Image!ImagesAssumption
<1>6. Pieces \subseteq Pieces' /\ Copies \subseteq Copies'
    <2>1. ASSUME NEW f \in Pieces PROVE f \in Pieces'
        <3>1. PICK m \in DOMAIN made : f \in {Image!Frame(m, i, made[m]) : i \in 0 .. made[m] - 1}
            BY DEF Pieces
        <3>2. f \in {Image!Frame(m, i, made'[m]) : i \in 0 .. made'[m] - 1} /\ m \in DOMAIN made'
            BY <1>5, <3>1
        <3> QED
            BY <3>2 DEF Pieces, Image!Frame, Image!Aad
    <2>2. ASSUME NEW c \in Copies PROVE c \in Copies'
        BY <1>5, <2>2 DEF Copies, Copy
    <2> QED
        BY <2>1, <2>2
<1>7. ImageTypes'
    <2>1. [i \in 1 .. n |-> Image!Frame(id, i - 1, n)] \in Seq(Pieces')
        <3>1. ASSUME NEW i \in 1 .. n PROVE Image!Frame(id, i - 1, n) \in Pieces'
            <4>1. i - 1 \in 0 .. made'[id] - 1 /\ id \in DOMAIN made' /\ made'[id] = n
                BY <1>5
            <4>2. Image!Frame(id, i - 1, n) \in
                      {Image!Frame(id, j, made'[id]) : j \in 0 .. made'[id] - 1}
                BY <4>1
            <4> QED
                BY <4>1, <4>2 DEF Pieces, Image!Frame, Image!Aad
        <3> QED
            BY <1>5, <3>1
    <2>2. out' \in [Senders -> Seq(Pieces')] /\ down' \in Seq(Pieces')
        <3>1. \A t \in Seq(Pieces) : t \in Seq(Pieces')
            BY <1>6
        <3> QED
            BY <1>2, <1>3, <2>1, <3>1 DEF ImageInv, ImageTypes
    <2>3. IsFiniteSet(DOMAIN made')
        BY <1>5, FS_AddElement DEF ImageInv, ImageTypes
    <2> QED
        BY <1>3, <1>4, <1>5, <2>2, <2>3 DEF ImageInv, ImageTypes
<1>8. Numbered'
    <2>1. Made(s)' = Made(s) \cup {id} /\ \A t : t # s => Made(t)' = Made(t)
        BY <1>4, <1>5 DEF Made
    <2>2. Cardinality(Made(s)') = Cardinality(Made(s)) + 1
        BY <1>1, <1>4, <2>1, FS_AddElement DEF Made
    <2> SUFFICES ASSUME NEW m \in DOMAIN made' PROVE m[2] <= Cardinality(Made(m[1])')
        BY DEF Numbered, Made
    <2>3. CASE m = id
        BY <1>1, <1>4, <2>2, <2>3
    <2>4. CASE m \in DOMAIN made
        <3>1. m[2] <= Cardinality(Made(m[1])) /\ m[2] \in Nat
            BY <2>4, CopyIs DEF ImageInv, Numbered
        <3>2. CASE m[1] = s
            BY <1>1, <2>2, <3>1, <3>2
        <3>3. CASE m[1] # s
            BY <2>1, <3>1, <3>3
        <3> QED
            BY <3>2, <3>3
    <2> QED
        BY <1>5, <2>3, <2>4
<1>9. InPlace'
    BY <1>3, <1>5 DEF ImageInv, InPlace
<1>10. Accepted'
    <2>1. shown' \in Seq(Copies')
        BY <1>3, <1>6 DEF ImageInv, Accepted
    <2> QED
        BY <1>3, <2>1 DEF ImageInv, Accepted, Image!ShownInOrder, Image!MsgOf
<1> QED
    BY <1>7, <1>8, <1>9, <1>10 DEF ImageInv

(* Everything that only loses pieces, or hands on one                      *)
LEMMA ImageLoses ==
    ASSUME ImageInv, UNCHANGED <<made, last, shown>>, held' = held \/ held' = None,
           out' \in [Senders -> Seq(Pieces)], down' \in Seq(Pieces)
    PROVE  ImageInv'
<1>1. Pieces' = Pieces /\ Copies' = Copies
    BY DEF Pieces, Copies, Copy, Image!Frame, Image!Aad
<1>2. ImageTypes' /\ Numbered'
    BY <1>1 DEF ImageInv, ImageTypes, Numbered, Made
<1>3. InPlace' /\ Accepted'
    BY <1>1 DEF ImageInv, InPlace, Accepted, Image!ShownInOrder, Image!MsgOf
<1> QED
    BY <1>2, <1>3 DEF ImageInv

(* Every step keeps what is said of pieces, numbers and images.            *)
LEMMA ImageStep ==
    ASSUME Image!ImagesAssumption, ImageInv, [Image!Next]_(Image!vars)
    PROVE  ImageInv'
<1>0. out \in [Senders -> Seq(Pieces)] /\ down \in Seq(Pieces) /\ <<>> \in Seq(Pieces)
    BY DEF ImageInv, ImageTypes
<1>1. ASSUME NEW s \in Senders, out[s] # <<>>
      PROVE  /\ Head(out[s]) \in Pieces
             /\ [out EXCEPT ![s] = Tail(@)] \in [Senders -> Seq(Pieces)]
             /\ [out EXCEPT ![s] = <<>>] \in [Senders -> Seq(Pieces)]
             /\ Append(down, Head(out[s])) \in Seq(Pieces)
    <2>1. out[s] \in Seq(Pieces)
        BY <1>0
    <2>2. Head(out[s]) \in Pieces /\ Tail(out[s]) \in Seq(Pieces)
        BY <1>1, <2>1
    <2>3. Append(down, Head(out[s])) \in Seq(Pieces)
        BY <1>0, <2>2
    <2> QED
        BY <1>0, <2>2, <2>3
<1>2. ASSUME NEW s \in Senders, Image!HandleChunk(s) PROVE ImageInv'
    BY <1>0, <1>1, <1>2, ImageLoses DEF Image!HandleChunk
<1>3. ASSUME NEW s \in Senders, Image!RefuseForRate(s) \/ Image!RefuseForQuota(s)
      PROVE  ImageInv'
    BY <1>0, <1>1, <1>3, ImageLoses DEF Image!RefuseForRate, Image!RefuseForQuota
<1>4. ASSUME NEW s \in Senders, Image!Slow(s) \/ Image!SenderLost(s) PROVE ImageInv'
    BY <1>0, <1>1, <1>4, ImageLoses DEF Image!Slow, Image!SenderLost
<1>5. CASE Image!HelloFrame
    BY <1>0, <1>5, ImageLoses DEF Image!HelloFrame
<1>6. CASE UNCHANGED Image!vars
    BY <1>0, <1>6, ImageLoses DEF Image!vars
<1>7. ASSUME UNCHANGED made, InPlace', Accepted', last' \in [Senders -> Nat],
             out' = out, down' \in Seq(Pieces)
      PROVE  ImageInv'
    <2>1. Pieces' = Pieces
        BY <1>7 DEF Pieces, Image!Frame, Image!Aad
    <2> QED
        BY <1>7, <2>1 DEF ImageInv, ImageTypes, Numbered, Made
<1>8. CASE Image!Deliver
    <2>1. Head(down) \in Pieces /\ Tail(down) \in Seq(Pieces) /\ UNCHANGED <<made, out>>
          /\ down' = Tail(down) /\ Image!OnChunk(Head(down))
        BY <1>0, <1>8 DEF Image!Deliver
    <2>2. Genuine(Head(down))
        BY <2>1, PiecesAreGenuine
    <2>3. InPlace' /\ Accepted' /\ last' \in [Senders -> Nat]
        BY <2>1, <2>2, ImageOnChunk
    <2> QED
        BY <1>7, <2>1, <2>3
<1>9. CASE Image!MakeUp
    <2>1. PICK g \in Image!Read, m \in DOMAIN made, i \in Image!Indices, n \in 0 .. MaxPieces :
              Image!OnChunk([g EXCEPT !.msg = m, !.idx = i, !.count = n])
        BY <1>9 DEF Image!MakeUp
    <2>2. g \in Pieces
        BY <2>1 DEF Image!Read, Pieces
    <2> DEFINE f == Relabelled(g, m, i, n)
    <2>3. Image!OnChunk(f)
        BY <2>1 DEF Relabelled
    <2> HIDE DEF f
    <2>4. (Image!Opens(f) => Genuine(f)) /\ Image!OnChunk(f) /\ UNCHANGED <<made, out, down>>
        BY <1>9, <2>2, <2>3, OpensIsGenuine DEF Image!MakeUp, f
    <2>5. InPlace' /\ Accepted' /\ last' \in [Senders -> Nat]
        BY <2>4, ImageOnChunk
    <2> QED
        BY <1>0, <1>7, <2>4, <2>5
<1> QED
    BY <1>2, <1>3, <1>4, <1>5, <1>6, <1>8, <1>9, ImageCopy DEF Image!Next
(* What a sender has still to hand over is the rest of its newest image;   *)
(* and of an image none of whose pieces the relay has read, nothing is on  *)
(* its way, put together or accepted.                                      *)
Rest(m, j) == [i \in 1 .. made[m] - j |-> Image!Frame(m, j + i - 1, made[m])]

Handing ==
    \A s \in Senders :
        out[s] # <<>> =>
            \E m \in Made(s) : \E j \in 0 .. made[m] - 1 :
                m[2] = Cardinality(Made(s)) /\ out[s] = Rest(m, j)

Unread(m) == out[m[1]] # <<>> /\ Head(out[m[1]]).msg = m /\ Head(out[m[1]]).idx = 0

UnreadIsNowhere ==
    \A m \in DOMAIN made : Unread(m) =>
        /\ held # None => held.msg # m
        /\ \A p \in DOMAIN down : down[p].msg # m
        /\ last[m[1]] < m[2]

LastIsMade ==
    /\ \A s \in Senders : last[s] <= Cardinality(Made(s))
    /\ \A m \in DOMAIN made : made[m] <= MaxPieces

UnreadInv == ImageInv /\ Handing /\ UnreadIsNowhere /\ LastIsMade

(* What a frame claims, and that it opens.                                 *)
LEMMA FrameIs ==
    ASSUME NEW m, NEW i, NEW n
    PROVE  /\ Image!Frame(m, i, n).msg = m /\ Image!Frame(m, i, n).idx = i
           /\ Image!Frame(m, i, n).count = n
           /\ Image!Opens(Image!Frame(m, i, n))
BY DEF Image!Frame, Image!Opens, Image!Aad

(* A sequence is the function of its elements.                             *)
LEMMA SeqIsItsElements ==
    ASSUME NEW S, NEW s \in Seq(S)
    PROVE  s = [i \in DOMAIN s |-> s[i]]
OBVIOUS

(* The rest of an image begins with its next piece and goes on with what is*)
(* left after that; every later piece is in it.                            *)
LEMMA RestIs ==
    ASSUME NEW m, made[m] \in Nat, NEW j \in 0 .. made[m] - 1
    PROVE  /\ Rest(m, j) # <<>> /\ Head(Rest(m, j)) = Image!Frame(m, j, made[m])
           /\ j + 1 = made[m] => Tail(Rest(m, j)) = <<>>
           /\ j + 1 # made[m] => j + 1 \in 0 .. made[m] - 1 /\ Tail(Rest(m, j)) = Rest(m, j + 1)
           /\ \A i \in j .. made[m] - 1 :
                  \E p \in DOMAIN Rest(m, j) : Rest(m, j)[p] = Image!Frame(m, i, made[m])
<1> DEFINE n == made[m]
           fr(i) == Image!Frame(m, i, n)
           r == Rest(m, j)
<1>1. n \in Nat /\ j \in Nat /\ j < n /\ n - j \in Nat \ {0}
    OBVIOUS
<1>2. r = [i \in 1 .. n - j |-> fr(j + i - 1)]
    BY DEF Rest
<1> HIDE DEF r, fr, n
<1> DEFINE S == {fr(j + i - 1) : i \in 1 .. n - j}
<1>3. /\ DOMAIN r = 1 .. n - j /\ Len(r) = n - j /\ r \in Seq(S)
      /\ \A i \in 1 .. n - j : r[i] = fr(j + i - 1)
    <2>1. DOMAIN r = 1 .. n - j /\ \A i \in 1 .. n - j : r[i] = fr(j + i - 1)
        BY <1>2
    <2>2. r \in [1 .. n - j -> S]
        BY <1>2
    <2> HIDE DEF S
    <2> QED
        BY <1>1, <2>1, <2>2
<1>4. r # <<>> /\ Head(r) = fr(j)
    <2>1. j + 1 - 1 = j /\ 1 \in 1 .. n - j
        BY <1>1
    <2>2. r[1] = fr(j)
        BY <1>3, <2>1
    <2> QED
        BY <1>1, <1>3, <2>2
<1>5. /\ DOMAIN Tail(r) = 1 .. n - j - 1 /\ Len(Tail(r)) = n - j - 1
      /\ Tail(r) \in Seq(S) /\ \A i \in 1 .. n - j - 1 : Tail(r)[i] = r[i + 1]
    <2> HIDE DEF S
    <2> QED
        BY <1>1, <1>3, <1>4
<1>6. j + 1 = n => Tail(r) = <<>>
    BY <1>1, <1>5
<1>7. ASSUME j + 1 # n PROVE j + 1 \in 0 .. n - 1 /\ Tail(r) = Rest(m, j + 1)
    <2>1. Rest(m, j + 1) = [i \in 1 .. n - (j + 1) |-> fr(j + 1 + i - 1)]
        BY DEF Rest, fr, n
    <2>2. \A i \in 1 .. n - (j + 1) : Tail(r)[i] = fr(j + 1 + i - 1)
        <3> SUFFICES ASSUME NEW i \in 1 .. n - (j + 1) PROVE Tail(r)[i] = fr(j + 1 + i - 1)
            OBVIOUS
        <3>1. i + 1 \in 1 .. n - j /\ i \in 1 .. n - j - 1 /\ j + (i + 1) - 1 = j + 1 + i - 1
            BY <1>1
        <3>2. Tail(r)[i] = r[i + 1] /\ r[i + 1] = fr(j + (i + 1) - 1)
            BY <1>3, <1>5, <3>1
        <3> QED
            BY <3>1, <3>2
    <2>3. DOMAIN Tail(r) = 1 .. n - (j + 1)
        BY <1>1, <1>5
    <2>4. Tail(r) = [i \in DOMAIN Tail(r) |-> Tail(r)[i]]
        BY <1>5, SeqIsItsElements
    <2> QED
        BY <1>1, <1>7, <2>1, <2>2, <2>3, <2>4
<1>8. ASSUME NEW i \in j .. n - 1 PROVE \E p \in DOMAIN r : r[p] = fr(i)
    <2>1. i - j + 1 \in 1 .. n - j /\ j + (i - j + 1) - 1 = i
        BY <1>1
    <2> QED
        BY <1>3, <2>1
<1> QED
    BY <1>4, <1>6, <1>7, <1>8 DEF r, fr, n

(* An unread image is its sender's newest, and all of it is still there.   *)
LEMMA UnreadIsNewest ==
    ASSUME UnreadInv, NEW m \in DOMAIN made, Unread(m)
    PROVE  m[2] = Cardinality(Made(m[1])) /\ m[1] \in Senders /\ out[m[1]] = Rest(m, 0)
<1>1. m[1] \in Senders
    BY CopyIs DEF UnreadInv, ImageInv
<1>2. PICK k \in Made(m[1]) : \E j \in 0 .. made[k] - 1 :
          k[2] = Cardinality(Made(m[1])) /\ out[m[1]] = Rest(k, j)
    BY <1>1 DEF UnreadInv, Handing, Unread
<1>6. PICK j \in 0 .. made[k] - 1 : k[2] = Cardinality(Made(m[1])) /\ out[m[1]] = Rest(k, j)
    BY <1>2
<1>3. made[k] \in Nat
    BY <1>2 DEF UnreadInv, ImageInv, ImageTypes, Made
<1>4. Head(out[m[1]]) = Image!Frame(k, j, made[k])
    BY <1>3, <1>6, RestIs
<1>5. k = m /\ j = 0
    BY <1>4, FrameIs DEF Unread
<1> QED
    BY <1>1, <1>5, <1>6

(* Taking from what is to be handed over leaves nothing unread behind.     *)
LEMMA HandedIsRead ==
    ASSUME UnreadInv, NEW s \in Senders, out[s] # <<>>
    PROVE  /\ Head(out[s]).msg \in Made(s) /\ Head(out[s]).msg[2] = Cardinality(Made(s))
           /\ Tail(out[s]) # <<>> =>
                  \E m \in Made(s) : \E j \in 1 .. made[m] - 1 :
                      m[2] = Cardinality(Made(s)) /\ Tail(out[s]) = Rest(m, j)
           /\ Tail(out[s]) # <<>> => Head(Tail(out[s])).idx # 0
<1>0. PICK k \in Made(s) : \E j \in 0 .. made[k] - 1 :
          k[2] = Cardinality(Made(s)) /\ out[s] = Rest(k, j)
    BY DEF UnreadInv, Handing
<1>1. PICK j \in 0 .. made[k] - 1 : k[2] = Cardinality(Made(s)) /\ out[s] = Rest(k, j)
    BY <1>0
<1>2. made[k] \in Nat
    BY <1>1 DEF UnreadInv, ImageInv, ImageTypes, Made
<1>3. Head(out[s]).msg = k
    BY <1>1, <1>2, RestIs, FrameIs
<1>4. ASSUME Tail(out[s]) # <<>>
      PROVE  j + 1 \in 1 .. made[k] - 1 /\ Tail(out[s]) = Rest(k, j + 1)
    BY <1>1, <1>2, <1>4, RestIs
<1>5. ASSUME Tail(out[s]) # <<>> PROVE Head(Tail(out[s])).idx = j + 1
    <2>1. j + 1 \in 0 .. made[k] - 1
        BY <1>1, <1>4, <1>5
    <2>2. Head(Rest(k, j + 1)) = Image!Frame(k, j + 1, made[k])
        BY <1>2, <2>1, RestIs
    <2>3. Tail(out[s]) = Rest(k, j + 1)
        BY <1>4, <1>5
    <2>4. Image!Frame(k, j + 1, made[k]).idx = j + 1
        BY FrameIs
    <2> QED
        BY <2>2, <2>3, <2>4
<1>6. Head(out[s]).msg \in Made(s) /\ Head(out[s]).msg[2] = Cardinality(Made(s))
    BY <1>1, <1>3
<1>7. Tail(out[s]) # <<>> =>
          \E m \in Made(s) : \E i \in 1 .. made[m] - 1 :
              m[2] = Cardinality(Made(s)) /\ Tail(out[s]) = Rest(m, i)
    <2> SUFFICES ASSUME Tail(out[s]) # <<>>
                 PROVE  \E m \in Made(s) : \E i \in 1 .. made[m] - 1 :
                            m[2] = Cardinality(Made(s)) /\ Tail(out[s]) = Rest(m, i)
        OBVIOUS
    <2>1. j + 1 \in 1 .. made[k] - 1 /\ Tail(out[s]) = Rest(k, j + 1)
        BY <1>4
    <2>2. \E i \in 1 .. made[k] - 1 : k[2] = Cardinality(Made(s)) /\ Tail(out[s]) = Rest(k, i)
        BY <1>1, <2>1
    <2> QED
        BY <2>2
<1>8. Tail(out[s]) # <<>> => Head(Tail(out[s])).idx # 0
    <2>1. j + 1 # 0
        BY <1>1, <1>2
    <2> QED
        BY <1>5, <2>1
<1> QED
    BY <1>6, <1>7, <1>8

(* What becomes of the receiver with a piece.                              *)
LEMMA ChunkDoes ==
    ASSUME ImageInv, UNCHANGED made, NEW f, Image!Opens(f) => Genuine(f), Image!OnChunk(f)
    PROVE  \/ UNCHANGED <<held, last, shown>>
           \/ held' = None /\ UNCHANGED <<last, shown>>
           \/ Image!Opens(f) /\ held'.msg = f.msg /\ UNCHANGED <<last, shown>>
           \/ /\ Image!Opens(f) /\ held' = None
              /\ f.msg[2] > last[f.msg[1]]
              /\ last' = [last EXCEPT ![f.msg[1]] = f.msg[2]]
<1> DEFINE a == Image!WithPiece(Image!Begun(f), f)
<1>1. CASE ~(~Image!Ignored(f) /\ Image!Opens(f) /\ Image!Accepts(Image!Begun(f), f))
    BY <1>1 DEF Image!OnChunk
<1>2. CASE ~Image!Ignored(f) /\ Image!Opens(f) /\ Image!Accepts(Image!Begun(f), f)
    <2>1. Genuine(f)
        BY <1>2
    <2> DEFINE D == DOMAIN Image!Begun(f).pieces \cup {f.idx}
    <2> HIDE DEF a, D
    <2>6. /\ a = [msg |-> f.msg, count |-> made[f.msg], pieces |-> [i \in D |-> <<f.msg, i>>]]
          /\ Image!Complete(a) => a.pieces = Copy(f.msg)
          /\ f.msg \in DOMAIN made
        BY <2>1, ImageAdds DEF a, D
    <2>2. a.msg = f.msg /\ (Image!Complete(a) => a.pieces = Copy(f.msg)) /\ f.msg \in DOMAIN made
        BY <2>6
    <2> HIDE DEF a
    <2>3. Image!Complete(a) => a.pieces[0][1] = f.msg
        BY <2>2, CopyIs DEF Image!MsgOf, ImageInv
    <2>4. CASE held' = a /\ UNCHANGED <<last, shown>>
        BY <1>2, <2>2, <2>4
    <2>5. CASE Image!Complete(a) /\ held' = None /\ Image!Finish(a)
        BY <1>2, <2>3, <2>5 DEF Image!Finish
    <2> QED
        BY <1>2, <2>4, <2>5 DEF Image!OnChunk, a
<1> QED
    BY <1>1, <1>2

(* A piece of an image that was read changes nothing about unread ones.    *)
LEMMA UnreadChunk ==
    ASSUME UnreadInv, UNCHANGED <<made, out>>, NEW f,
           Image!Opens(f) => Genuine(f) /\ ~Unread(f.msg), Image!OnChunk(f),
           \A p \in DOMAIN down' : \E q \in DOMAIN down : down'[p] = down[q]
    PROVE  Handing' /\ UnreadIsNowhere' /\ LastIsMade'
<1>1. /\ \A s : Made(s)' = Made(s)
      /\ \A m, j : Rest(m, j)' = Rest(m, j)
      /\ \A m : Unread(m)' <=> Unread(m)
    BY DEF Made, Rest, Unread, Image!Frame, Image!Aad
<1>2. Handing'
    BY <1>1 DEF UnreadInv, Handing
<1>3. \/ UNCHANGED <<held, last>>
      \/ held' = None /\ last' = last
      \/ Image!Opens(f) /\ held'.msg = f.msg /\ last' = last
      \/ /\ Image!Opens(f) /\ held' = None
         /\ last' = [last EXCEPT ![f.msg[1]] = f.msg[2]]
    BY ChunkDoes DEF UnreadInv
<1>4. ASSUME Image!Opens(f)
      PROVE  /\ f.msg \in DOMAIN made /\ f.msg[1] \in Senders /\ f.msg[2] \in Nat
             /\ f.msg = <<f.msg[1], f.msg[2]>> /\ f.msg[2] <= Cardinality(Made(f.msg[1]))
    BY <1>4, CopyIs DEF Genuine, UnreadInv, ImageInv, Numbered
<1>5. UnreadIsNowhere'
    <2> SUFFICES ASSUME NEW m \in DOMAIN made, Unread(m)
                 PROVE  /\ held' # None => held'.msg # m
                        /\ \A p \in DOMAIN down' : down'[p].msg # m
                        /\ last'[m[1]] < m[2]
        BY <1>1 DEF UnreadIsNowhere
    <2>1. /\ held # None => held.msg # m
          /\ \A p \in DOMAIN down : down[p].msg # m
          /\ last[m[1]] < m[2]
        BY DEF UnreadInv, UnreadIsNowhere
    <2>2. held' # None => held'.msg # m
        BY <1>3, <2>1
    <2>3. m[2] = Cardinality(Made(m[1])) /\ m[1] \in Senders /\ m = <<m[1], m[2]>> /\ m[2] \in Nat
        BY UnreadIsNewest, CopyIs DEF UnreadInv, ImageInv
    <2>4. last'[m[1]] < m[2]
        <3>1. ASSUME Image!Opens(f), f.msg[1] = m[1] PROVE f.msg[2] < m[2]
            BY <1>4, <2>3, <3>1
        <3> QED
            BY <1>3, <2>1, <2>3, <3>1 DEF UnreadInv, ImageInv, ImageTypes
    <2> QED
        BY <2>1, <2>2, <2>4
<1>6. LastIsMade'
    <2> SUFFICES ASSUME NEW s \in Senders PROVE last'[s] <= Cardinality(Made(s))
        BY <1>1 DEF UnreadInv, LastIsMade
    <2>1. last[s] <= Cardinality(Made(s)) /\ last \in [Senders -> Nat]
        BY DEF UnreadInv, LastIsMade, ImageInv, ImageTypes
    <2> QED
        BY <1>3, <1>4, <2>1
<1> QED
    BY <1>2, <1>5, <1>6

(* Nor does losing pieces, or handing one on.                              *)
LEMMA UnreadLoses ==
    ASSUME UnreadInv, UNCHANGED <<made, last>>, held' = held \/ held' = None,
           \A s \in Senders : \/ out'[s] = out[s] \/ out'[s] = <<>>
                              \/ out[s] # <<>> /\ out'[s] = Tail(out[s]),
           \A p \in DOMAIN down' :
               \/ \E q \in DOMAIN down : down'[p] = down[q]
               \/ \E s \in Senders : out[s] # <<>> /\ out'[s] = Tail(out[s]) /\ down'[p] = Head(out[s])
    PROVE  Handing' /\ UnreadIsNowhere' /\ LastIsMade'
<1>1. /\ \A s : Made(s)' = Made(s)
      /\ \A m, j : Rest(m, j)' = Rest(m, j)
    BY DEF Made, Rest, Image!Frame, Image!Aad
<1>2. Handing'
    <2> SUFFICES ASSUME NEW s \in Senders, out'[s] # <<>>
                 PROVE  \E m \in Made(s) : \E j \in 0 .. made[m] - 1 :
                            m[2] = Cardinality(Made(s)) /\ out'[s] = Rest(m, j)
        BY <1>1 DEF Handing
    <2>1. CASE out'[s] = out[s]
        BY <2>1 DEF UnreadInv, Handing
    <2>2. CASE out[s] # <<>> /\ out'[s] = Tail(out[s])
        <3>1. PICK m \in Made(s) : \E j \in 1 .. made[m] - 1 :
                  m[2] = Cardinality(Made(s)) /\ Tail(out[s]) = Rest(m, j)
            BY <2>2, HandedIsRead
        <3>2. PICK j \in 1 .. made[m] - 1 : m[2] = Cardinality(Made(s)) /\ Tail(out[s]) = Rest(m, j)
            BY <3>1
        <3>3. j \in 0 .. made[m] - 1
            BY <3>2
        <3> QED
            BY <2>2, <3>2, <3>3
    <2> QED
        BY <2>1, <2>2
<1>3. UnreadIsNowhere'
    <2> SUFFICES ASSUME NEW m \in DOMAIN made, Unread(m)'
                 PROVE  /\ held' # None => held'.msg # m
                        /\ \A p \in DOMAIN down' : down'[p].msg # m
                        /\ last'[m[1]] < m[2]
        BY DEF UnreadIsNowhere
    <2>1. m[1] \in Senders
        BY CopyIs DEF UnreadInv, ImageInv
    <2>2. out'[m[1]] = out[m[1]]
        BY <2>1, HandedIsRead DEF Unread
    <2>3. Unread(m)
        BY <2>2 DEF Unread
    <2>4. /\ held # None => held.msg # m
          /\ \A p \in DOMAIN down : down[p].msg # m
          /\ last[m[1]] < m[2]
        BY <2>3 DEF UnreadInv, UnreadIsNowhere
    <2>5. ASSUME NEW s \in Senders, out[s] # <<>>, out'[s] = Tail(out[s]) PROVE Head(out[s]).msg # m
        <3>1. SUFFICES ASSUME Head(out[s]).msg = m PROVE FALSE
            OBVIOUS
        <3>2. m[1] = s
            BY <2>5, <3>1, HandedIsRead DEF Made
        <3>3. out'[s] # <<>> /\ Head(out'[s]).idx = 0
            BY <3>2 DEF Unread
        <3> QED
            BY <2>5, <3>3, HandedIsRead
    <2> QED
        BY <2>4, <2>5
<1>4. LastIsMade'
    BY <1>1 DEF UnreadInv, LastIsMade
<1> QED
    BY <1>2, <1>3, <1>4

(* A new image is unread: nothing of it can be anywhere yet.               *)
LEMMA UnreadCopy ==
    ASSUME Image!ImagesAssumption, UnreadInv, NEW s \in Senders, Image!Copy(s)
    PROVE  /\ Handing' /\ UnreadIsNowhere' /\ LastIsMade'
           /\ \A m \in DOMAIN made : m \in DOMAIN made' /\ made'[m] = made[m]
           /\ out'[s] # <<>> /\ Head(out'[s]).idx = 0
           /\ \A t \in Senders : t # s => out'[t] = out[t]
<1>1. IsFiniteSet(Made(s)) /\ Cardinality(Made(s)) \in Nat /\ out[s] = <<>>
    BY FS_Subset, FS_CardinalityType DEF UnreadInv, ImageInv, ImageTypes, Made, Image!Copy
<1>a. PICK id : /\ id = <<s, Cardinality(Made(s)) + 1>>
                 /\ \E n \in 1 .. MaxPieces :
                        /\ made' = [m \in DOMAIN made \cup {id} |-> IF m = id THEN n ELSE made[m]]
                        /\ out' = [out EXCEPT ![s] = [i \in 1 .. n |-> Image!Frame(id, i - 1, n)]]
    <2> DEFINE id == <<s, Cardinality(Made(s)) + 1>>
    <2>1. \E n \in 1 .. MaxPieces :
              /\ made' = [m \in DOMAIN made \cup {id} |-> IF m = id THEN n ELSE made[m]]
              /\ out' = [out EXCEPT ![s] = [i \in 1 .. n |-> Image!Frame(id, i - 1, n)]]
        BY ImageCounts, Zenon DEF Image!Copy, Made
    <2>2. PICK k : k = id
        OBVIOUS
    <2> QED
        BY <2>1, <2>2
<1>2. PICK n \in 1 .. MaxPieces :
          /\ made' = [m \in DOMAIN made \cup {id} |-> IF m = id THEN n ELSE made[m]]
          /\ out' = [out EXCEPT ![s] = [i \in 1 .. n |-> Image!Frame(id, i - 1, n)]]
    BY <1>a
<1>3. UNCHANGED <<down, held, last, shown>>
    BY DEF Image!Copy
<1>4. id[1] = s /\ id[2] = Cardinality(Made(s)) + 1
    BY <1>a
<1>5. id \notin DOMAIN made
    <2>1. ASSUME id \in DOMAIN made PROVE FALSE
        <3>1. id[2] <= Cardinality(Made(id[1]))
            BY <2>1 DEF UnreadInv, ImageInv, Numbered
        <3> QED
            BY <1>1, <1>4, <3>1
    <2> QED
        BY <2>1
<1>6. /\ DOMAIN made' = DOMAIN made \cup {id} /\ made'[id] = n
      /\ \A m \in DOMAIN made : made'[m] = made[m] /\ m # id
      /\ n \in Nat \ {0} /\ n <= MaxPieces
    BY <1>2, <1>5 DEF Image!ImagesAssumption
<1>7. /\ Made(s)' = Made(s) \cup {id} /\ \A t : t # s => Made(t)' = Made(t)
      /\ Cardinality(Made(s)') = Cardinality(Made(s)) + 1
    <2>1. Made(s)' = Made(s) \cup {id} /\ \A t : t # s => Made(t)' = Made(t)
        BY <1>4, <1>6 DEF Made
    <2> QED
        BY <1>1, <1>5, <2>1, FS_AddElement DEF Made
<1>8. out \in [Senders -> Seq(Pieces)]
    BY DEF UnreadInv, ImageInv, ImageTypes
<1>9. out'[s] = [i \in 1 .. n |-> Image!Frame(id, i - 1, n)] /\ \A t \in Senders : t # s => out'[t] = out[t]
    BY <1>2, <1>8
<1>10. out'[s] = Rest(id, 0)'
    <2>1. Rest(id, 0)' = [i \in 1 .. n - 0 |-> Image!Frame(id, 0 + i - 1, n)]
        BY <1>6 DEF Rest, Image!Frame, Image!Aad
    <2>2. n - 0 = n /\ \A i \in 1 .. n : 0 + i - 1 = i - 1
        BY <1>6
    <2> QED
        BY <1>9, <2>1, <2>2
<1>11. /\ out'[s] # <<>> /\ Head(out'[s]).idx = 0 /\ Head(out'[s]).msg = id
    <2>1. /\ DOMAIN out'[s] = 1 .. n /\ 1 \in 1 .. n /\ Len(out'[s]) = n
          /\ out'[s] \in Seq({Image!Frame(id, i - 1, n) : i \in 1 .. n})
          /\ out'[s][1] = Image!Frame(id, 0, n)
        <3> DEFINE S == {Image!Frame(id, i - 1, n) : i \in 1 .. n}
        <3>1. out'[s] \in [1 .. n -> S] /\ 1 \in 1 .. n /\ 1 - 1 = 0
            BY <1>6, <1>9
        <3>2. out'[s][1] = Image!Frame(id, 0, n)
            BY <1>9, <3>1
        <3> HIDE DEF S
        <3>3. DOMAIN out'[s] = 1 .. n /\ out'[s] \in Seq(S) /\ Len(out'[s]) = n
            BY <1>6, <3>1
        <3> QED
            BY <3>1, <3>2, <3>3 DEF S
    <2>2. out'[s] # <<>> /\ Head(out'[s]) = out'[s][1]
        BY <1>6, <2>1
    <2> QED
        BY <2>1, <2>2, FrameIs
<1>12. Handing'
    <2> SUFFICES ASSUME NEW t \in Senders, out'[t] # <<>>
                 PROVE  \E m \in Made(t)' : \E j \in 0 .. made'[m] - 1 :
                            m[2] = Cardinality(Made(t)') /\ out'[t] = Rest(m, j)'
        BY DEF Handing, Made
    <2>1. CASE t = s
        <3>1. 0 \in 0 .. made'[id] - 1 /\ id \in Made(s)'
            BY <1>4, <1>6, <1>7
        <3> QED
            BY <1>4, <1>7, <1>10, <2>1, <3>1
    <2>2. CASE t # s
        <3>1. PICK m \in Made(t) : \E j \in 0 .. made[m] - 1 :
                  m[2] = Cardinality(Made(t)) /\ out[t] = Rest(m, j)
            BY <1>9, <2>2 DEF UnreadInv, Handing
        <3>2. made'[m] = made[m] /\ \A j : Rest(m, j)' = Rest(m, j)
            BY <1>6, <3>1 DEF Made, Rest, Image!Frame, Image!Aad
        <3> QED
            BY <1>7, <1>9, <2>2, <3>1, <3>2
    <2> QED
        BY <2>1, <2>2
<1>13. UnreadIsNowhere'
    <2> SUFFICES ASSUME NEW m \in DOMAIN made', Unread(m)'
                 PROVE  /\ held # None => held.msg # m
                        /\ \A p \in DOMAIN down : down[p].msg # m
                        /\ last[m[1]] < m[2]
        BY <1>3 DEF UnreadIsNowhere
    <2>1. CASE m = id
        <3>1. held # None => held.msg \in DOMAIN made
            BY DEF UnreadInv, ImageInv, InPlace
        <3>2. \A p \in DOMAIN down : down[p].msg \in DOMAIN made
            <4> SUFFICES ASSUME NEW p \in DOMAIN down PROVE down[p].msg \in DOMAIN made
                OBVIOUS
            <4>1. down[p] \in Pieces
                BY DEF UnreadInv, ImageInv, ImageTypes
            <4> QED
                BY <4>1, PiecesAreGenuine DEF Genuine
        <3>3. last[s] <= Cardinality(Made(s)) /\ last[s] \in Nat
            BY DEF UnreadInv, LastIsMade, ImageInv, ImageTypes
        <3> QED
            BY <1>1, <1>4, <1>5, <2>1, <3>1, <3>2, <3>3
    <2>2. CASE m \in DOMAIN made
        <3>1. m[1] \in Senders
            BY <2>2, CopyIs DEF UnreadInv, ImageInv
        <3>2. m[1] # s
            BY <1>6, <1>11, <2>2 DEF Unread
        <3>3. Unread(m)
            BY <1>9, <3>1, <3>2 DEF Unread
        <3> QED
            BY <2>2, <3>3 DEF UnreadInv, UnreadIsNowhere
    <2> QED
        BY <1>6, <2>1, <2>2
<1>14. LastIsMade'
    <2>1. ASSUME NEW t \in Senders PROVE last'[t] <= Cardinality(Made(t)')
        <3>1. last'[t] = last[t] /\ last[t] <= Cardinality(Made(t)) /\ last[t] \in Nat
            BY <1>3 DEF UnreadInv, LastIsMade, ImageInv, ImageTypes
        <3>2. CASE t = s
            BY <1>1, <1>7, <3>1, <3>2 DEF Made
        <3>3. CASE t # s
            BY <1>7, <3>1, <3>3
        <3> QED
            BY <3>2, <3>3
    <2>2. \A m \in DOMAIN made' : made'[m] <= MaxPieces
        BY <1>6 DEF UnreadInv, LastIsMade
    <2> QED
        BY <2>1, <2>2 DEF LastIsMade, Made
<1> QED
    BY <1>6, <1>9, <1>11, <1>12, <1>13, <1>14

(* What a relay can make up with comes from images it has read from.       *)
LEMMA ReadIsKnown ==
    ASSUME UnreadInv, NEW g \in Image!Read
    PROVE  g \in Pieces /\ ~Unread(g.msg)
<1>1. g \in Pieces /\ \A s \in Senders : g \notin Image!Range(out[s])
    BY DEF Image!Read, Pieces
<1>2. PICK m \in DOMAIN made : g \in {Image!Frame(m, i, made[m]) : i \in 0 .. made[m] - 1}
    BY <1>1 DEF Pieces
<1>3. PICK i \in 0 .. made[m] - 1 : g = Image!Frame(m, i, made[m])
    BY <1>2
<1>4. g.msg = m /\ made[m] \in Nat \ {0}
    BY <1>3, FrameIs DEF UnreadInv, ImageInv, ImageTypes
<1>5. ASSUME Unread(m) PROVE FALSE
    <2>1. m[1] \in Senders /\ out[m[1]] = Rest(m, 0)
        BY <1>5, UnreadIsNewest
    <2>2. 0 \in 0 .. made[m] - 1 /\ made[m] \in Nat
        BY <1>4
    <2>3. \E p \in DOMAIN Rest(m, 0) : Rest(m, 0)[p] = Image!Frame(m, i, made[m])
        BY <2>2, RestIs
    <2>4. g \in Image!Range(out[m[1]])
        BY <1>3, <2>1, <2>3 DEF Image!Range
    <2> QED
        BY <1>1, <2>1, <2>4
<1> QED
    BY <1>1, <1>4, <1>5

(* At first nothing is unread.                                             *)
LEMMA UnreadInit ==
    ASSUME Image!ImagesAssumption, Image!Init
    PROVE  UnreadInv
<1>1. /\ made = <<>> /\ out = [s \in Senders |-> <<>>] /\ last = [s \in Senders |-> 0]
    BY DEF Image!Init
<1>2. ImageInv
    BY ImageInit
<1>3. DOMAIN made = {} /\ \A s \in Senders : Made(s) = {}
    BY <1>1 DEF Made
<1>4. Handing /\ UnreadIsNowhere
    BY <1>1, <1>3 DEF Handing, UnreadIsNowhere
<1>5. LastIsMade
    <2>1. \A s \in Senders : last[s] = 0 /\ Cardinality(Made(s)) = 0
        BY <1>1, <1>3, FS_EmptySet
    <2> QED
        BY <1>3, <2>1 DEF LastIsMade
<1> QED
    BY <1>2, <1>4, <1>5 DEF UnreadInv

(* The elements of a sequence with one more.                               *)
LEMMA PutIn ==
    ASSUME NEW S, NEW s \in Seq(S), NEW x \in S, NEW p \in DOMAIN Append(s, x)
    PROVE  \/ p \in DOMAIN s /\ Append(s, x)[p] = s[p]
           \/ p = Len(s) + 1 /\ Append(s, x)[p] = x
OBVIOUS

(* Every step leaves unread images untouched.                              *)
LEMMA UnreadStep ==
    ASSUME Image!ImagesAssumption, UnreadInv, [Image!Next]_(Image!vars)
    PROVE  UnreadInv'
<1>0. ImageInv'
    BY ImageStep DEF UnreadInv
<1>1. SUFFICES Handing' /\ UnreadIsNowhere' /\ LastIsMade'
    BY <1>0 DEF UnreadInv
<1>2. out \in [Senders -> Seq(Pieces)] /\ down \in Seq(Pieces) /\ \A p \in DOMAIN down : down[p] \in Pieces
    BY DEF UnreadInv, ImageInv, ImageTypes
<1>3. ASSUME NEW s \in Senders, Image!HandleChunk(s) PROVE Handing' /\ UnreadIsNowhere' /\ LastIsMade'
    <2>1. /\ out[s] # <<>> /\ UNCHANGED <<made, held, last>> /\ out' = [out EXCEPT ![s] = Tail(@)]
          /\ down' = down \/ down' = Append(down, Head(out[s]))
        BY <1>3 DEF Image!HandleChunk
    <2>2. \A t \in Senders : out'[t] = out[t] \/ (out[t] # <<>> /\ out'[t] = Tail(out[t]))
        BY <1>2, <2>1
    <2>3. out'[s] = Tail(out[s])
        BY <1>2, <2>1
    <2>4. ASSUME NEW p \in DOMAIN down'
          PROVE  down'[p] = Head(out[s]) \/ \E q \in DOMAIN down : down'[p] = down[q]
        <3>1. out[s] \in Seq(Pieces) /\ Head(out[s]) \in Pieces
            BY <1>2, <2>1
        <3> QED
            BY <1>2, <2>1, <3>1, PutIn
    <2>5. \A p \in DOMAIN down' :
              \/ \E q \in DOMAIN down : down'[p] = down[q]
              \/ \E t \in Senders : out[t] # <<>> /\ out'[t] = Tail(out[t]) /\ down'[p] = Head(out[t])
        BY <2>1, <2>3, <2>4
    <2> QED
        BY <2>1, <2>2, <2>5, UnreadLoses
<1>4. ASSUME NEW s \in Senders,
             Image!RefuseForRate(s) \/ Image!RefuseForQuota(s) \/ Image!Slow(s) \/ Image!SenderLost(s)
      PROVE  Handing' /\ UnreadIsNowhere' /\ LastIsMade'
    <2>1. /\ UNCHANGED <<made, down, held, last>>
          /\ \/ out' = out
             \/ out' = [out EXCEPT ![s] = <<>>]
             \/ out[s] # <<>> /\ out' = [out EXCEPT ![s] = Tail(@)]
        BY <1>4 DEF Image!RefuseForRate, Image!RefuseForQuota, Image!Slow, Image!SenderLost
    <2>2. \A t \in Senders : \/ out'[t] = out[t]
                             \/ out'[t] = <<>>
                             \/ out[t] # <<>> /\ out'[t] = Tail(out[t])
        BY <1>2, <2>1
    <2> QED
        BY <2>1, <2>2, UnreadLoses
<1>5. CASE Image!HelloFrame
    <2>1. UNCHANGED <<made, out, last>> /\ held' = None /\ down' = <<>>
        BY <1>5 DEF Image!HelloFrame
    <2> QED
        BY <2>1, UnreadLoses
<1>6. CASE UNCHANGED Image!vars
    BY <1>6, UnreadLoses DEF Image!vars
<1>7. CASE Image!Deliver
    <2>1. /\ UNCHANGED <<made, out>> /\ down # <<>> /\ down' = Tail(down)
          /\ Image!OnChunk(Head(down))
        BY <1>7 DEF Image!Deliver
    <2>2. /\ 1 \in DOMAIN down /\ Head(down) = down[1]
          /\ \A p \in DOMAIN down' : \E q \in DOMAIN down : down'[p] = down[q]
        BY <1>2, <2>1
    <2>3. Genuine(Head(down))
        BY <1>2, <2>2, PiecesAreGenuine
    <2>4. ~Unread(Head(down).msg)
        BY <2>2, <2>3 DEF UnreadInv, UnreadIsNowhere, Genuine
    <2> QED
        BY <2>1, <2>2, <2>3, <2>4, UnreadChunk
<1>8. CASE Image!MakeUp
    <2>1. PICK g \in Image!Read, m \in DOMAIN made, i \in Image!Indices, n \in 0 .. MaxPieces :
              Image!OnChunk([g EXCEPT !.msg = m, !.idx = i, !.count = n])
        BY <1>8 DEF Image!MakeUp
    <2>2. g \in Pieces /\ ~Unread(g.msg)
        BY <2>1, ReadIsKnown
    <2> DEFINE f == Relabelled(g, m, i, n)
    <2>3. Image!OnChunk(f)
        BY <2>1 DEF Relabelled
    <2> HIDE DEF f
    <2>4. UNCHANGED <<made, out, down>> /\ Image!OnChunk(f)
        BY <1>8, <2>3 DEF Image!MakeUp
    <2>5. Image!Opens(f) => Genuine(f) /\ ~Unread(f.msg)
        BY <2>2, OpensIsGenuine DEF f
    <2>6. \A p \in DOMAIN down' : \E q \in DOMAIN down : down'[p] = down[q]
        BY <2>4
    <2> QED
        BY <2>4, <2>5, <2>6, UnreadChunk
<1> QED
    BY <1>3, <1>4, <1>5, <1>6, <1>7, <1>8, UnreadCopy DEF Image!Next

(* The image the relay began to forward last, with nothing gone wrong      *)
(* since: j of its pieces are forwarded and the rest is with its sender,   *)
(* the first i of those have reached the receiver, which has them or the   *)
(* image, and those between are on their way, in order, with no other      *)
(* image's beginning among them.                                           *)
HandsOn(b, j) ==
    \/ /\ j < made[b] /\ out[b[1]] = Rest(b, j)
       /\ assembly[b[1]] = [msg |-> b, count |-> made[b], old |-> FALSE]
    \/ /\ j = made[b] /\ assembly[b[1]] = None
       /\ out[b[1]] # <<>> => Head(out[b[1]]).idx = 0

OnTheWay(d, b, i, j) ==
    /\ \A p \in DOMAIN d : d[p].msg = b => d[p].idx \in i .. j - 1
    /\ \A p, q \in DOMAIN d : p < q /\ d[p].msg = b /\ d[q].msg = b => d[p].idx < d[q].idx
    /\ \A k \in i .. j - 1 : \E p \in DOMAIN d : d[p].msg = b /\ d[p].idx = k
    /\ \A p \in DOMAIN d : d[p].msg # b /\ d[p].msg[1] = b[1] => d[p].msg[2] < b[2]
    /\ \A p \in DOMAIN d :
           /\ d[p].msg # b
           /\ i > 0 \/ \E q \in DOMAIN d : q < p /\ d[q].msg = b
           => d[p].idx # 0

Arrived(b, i) ==
    /\ i = 0 => (held # None => held.msg # b) /\ last[b[1]] < b[2]
    /\ i \in 1 .. made[b] - 1 =>
           held # None /\ held.msg = b /\ DOMAIN held.pieces = 0 .. i - 1 /\ last[b[1]] < b[2]
    /\ i = made[b] => \E k \in DOMAIN shown : Image!MsgOf(shown[k]) = b

CleanRun ==
    clean /\ begun # None =>
        /\ begun \in DOMAIN made
        /\ \E j \in 1 .. made[begun] : \E i \in 0 .. j :
               HandsOn(begun, j) /\ OnTheWay(down, begun, i, j) /\ Arrived(begun, i)

(* Head and tail of a sequence, by position.                               *)
LEMMA SeqEnds ==
    ASSUME NEW S, NEW d \in Seq(S), d # <<>>
    PROVE  /\ 1 \in DOMAIN d /\ Head(d) = d[1] /\ Tail(d) \in Seq(S)
           /\ \A p \in DOMAIN d :
                  p \in Nat /\ p > 0 /\ (p # 1 => p - 1 \in DOMAIN Tail(d) /\ Tail(d)[p - 1] = d[p])
           /\ \A p \in DOMAIN Tail(d) : p \in Nat /\ p > 0 /\ p + 1 \in DOMAIN d /\ Tail(d)[p] = d[p + 1]
<1>1. /\ DOMAIN d = 1 .. Len(d) /\ Len(d) \in Nat \ {0}
      /\ Tail(d) \in Seq(S) /\ DOMAIN Tail(d) = 1 .. Len(d) - 1
      /\ Head(d) = d[1]
      /\ \A p \in 1 .. Len(d) - 1 : Tail(d)[p] = d[p + 1]
    OBVIOUS
<1>2. ASSUME NEW p \in DOMAIN d, p # 1 PROVE p - 1 \in DOMAIN Tail(d) /\ Tail(d)[p - 1] = d[p]
    <2>1. p - 1 \in 1 .. Len(d) - 1 /\ p - 1 + 1 = p
        BY <1>1, <1>2
    <2> QED
        BY <1>1, <2>1
<1> QED
    BY <1>1, <1>2

(* The next piece to arrive is the one the receiver waits for, or one of   *)
(* another image that does not begin while the receiver has some of this.  *)
LEMMA WayHeads ==
    ASSUME NEW S, NEW d \in Seq(S), d # <<>>, NEW b, NEW i \in Nat, NEW j \in Nat,
           OnTheWay(d, b, i, j)
    PROVE  /\ Head(d).msg = b => Head(d).idx = i /\ i < j /\ OnTheWay(Tail(d), b, i + 1, j)
           /\ Head(d).msg # b => OnTheWay(Tail(d), b, i, j)
           /\ Head(d).msg # b /\ i > 0 => Head(d).idx # 0
           /\ Head(d).msg # b /\ Head(d).msg[1] = b[1] => Head(d).msg[2] < b[2]
<1> DEFINE t == Tail(d)
<1>1. /\ 1 \in DOMAIN d /\ Head(d) = d[1]
      /\ \A p \in DOMAIN d : p \in Nat /\ p > 0 /\ (p # 1 => p - 1 \in DOMAIN t /\ t[p - 1] = d[p])
      /\ \A p \in DOMAIN t : p \in Nat /\ p > 0 /\ p + 1 \in DOMAIN d /\ t[p] = d[p + 1]
    BY SeqEnds
<1> HIDE DEF t
<1>2. /\ \A p \in DOMAIN t : t[p].msg = b => t[p].idx \in i .. j - 1
      /\ \A p, q \in DOMAIN t : p < q /\ t[p].msg = b /\ t[q].msg = b => t[p].idx < t[q].idx
      /\ \A p \in DOMAIN t : t[p].msg # b /\ t[p].msg[1] = b[1] => t[p].msg[2] < b[2]
    <2>1. ASSUME NEW p \in DOMAIN t, NEW q \in DOMAIN t, p < q, t[p].msg = b, t[q].msg = b
          PROVE  t[p].idx < t[q].idx
        <3>1. p + 1 \in DOMAIN d /\ q + 1 \in DOMAIN d /\ p + 1 < q + 1 /\ t[p] = d[p + 1] /\ t[q] = d[q + 1]
            BY <1>1, <2>1
        <3> QED
            BY <2>1, <3>1 DEF OnTheWay
    <2>2. \A p \in DOMAIN t : t[p].msg = b => t[p].idx \in i .. j - 1
        BY <1>1 DEF OnTheWay
    <2>3. ASSUME NEW p \in DOMAIN t, t[p].msg # b, t[p].msg[1] = b[1] PROVE t[p].msg[2] < b[2]
        <3>1. p + 1 \in DOMAIN d /\ t[p] = d[p + 1]
            BY <1>1
        <3>2. \A r \in DOMAIN d : d[r].msg # b /\ d[r].msg[1] = b[1] => d[r].msg[2] < b[2]
            BY DEF OnTheWay
        <3>3. d[p + 1].msg # b /\ d[p + 1].msg[1] = b[1]
            BY <2>3, <3>1
        <3>4. d[p + 1].msg[2] < b[2]
            BY <3>1, <3>2, <3>3
        <3> QED
            BY <3>1, <3>4
    <2> QED
        BY <2>1, <2>2, <2>3
<1>3. ASSUME NEW p \in DOMAIN t, t[p].msg # b,
             \/ i > 0
             \/ d[1].msg = b
             \/ \E q \in DOMAIN t : q < p /\ t[q].msg = b
      PROVE  t[p].idx # 0
    <2>1. p + 1 \in DOMAIN d /\ t[p] = d[p + 1] /\ 1 < p + 1
        BY <1>1
    <2>2. i > 0 \/ \E q \in DOMAIN d : q < p + 1 /\ d[q].msg = b
        <3>1. ASSUME NEW q \in DOMAIN t, q < p, t[q].msg = b
              PROVE  q + 1 \in DOMAIN d /\ q + 1 < p + 1 /\ d[q + 1].msg = b
            BY <1>1, <3>1
        <3> QED
            BY <1>1, <1>3, <2>1, <3>1
    <2> QED
        BY <1>3, <2>1, <2>2 DEF OnTheWay
<1>4. ASSUME d[1].msg = b PROVE d[1].idx = i /\ i < j /\ OnTheWay(t, b, i + 1, j)
    <2>1. d[1].idx \in i .. j - 1 /\ i < j
        BY <1>1, <1>4 DEF OnTheWay
    <2>2. d[1].idx = i
        <3>1. i \in i .. j - 1
            BY <2>1
        <3>2. PICK p \in DOMAIN d : d[p].msg = b /\ d[p].idx = i
            BY <3>1 DEF OnTheWay
        <3>3. ASSUME p # 1 PROVE d[1].idx < d[p].idx
            <4>1. 1 < p
                BY <1>1, <3>3
            <4> QED
                BY <1>1, <1>4, <3>2, <4>1 DEF OnTheWay
        <3> QED
            BY <2>1, <3>2, <3>3
    <2>3. \A p \in DOMAIN t : t[p].msg = b => t[p].idx \in i + 1 .. j - 1
        <3> SUFFICES ASSUME NEW p \in DOMAIN t, t[p].msg = b PROVE t[p].idx \in i + 1 .. j - 1
            OBVIOUS
        <3>1. p + 1 \in DOMAIN d /\ t[p] = d[p + 1] /\ 1 < p + 1
            BY <1>1
        <3>2. d[1].idx < d[p + 1].idx /\ d[p + 1].idx \in i .. j - 1
            BY <1>1, <1>4, <3>1 DEF OnTheWay
        <3> QED
            BY <2>2, <3>1, <3>2
    <2>4. \A k \in i + 1 .. j - 1 : \E p \in DOMAIN t : t[p].msg = b /\ t[p].idx = k
        <3> SUFFICES ASSUME NEW k \in i + 1 .. j - 1
                     PROVE  \E p \in DOMAIN t : t[p].msg = b /\ t[p].idx = k
            OBVIOUS
        <3>1. k \in i .. j - 1 /\ k # i
            OBVIOUS
        <3>2. PICK p \in DOMAIN d : d[p].msg = b /\ d[p].idx = k
            BY <3>1 DEF OnTheWay
        <3>3. p # 1
            BY <2>2, <3>1, <3>2
        <3> QED
            BY <1>1, <3>2, <3>3
    <2>5. \A p \in DOMAIN t : t[p].msg # b => t[p].idx # 0
        BY <1>3, <1>4
    <2> QED
        BY <1>2, <2>1, <2>2, <2>3, <2>4, <2>5 DEF OnTheWay
<1>5. ASSUME d[1].msg # b PROVE OnTheWay(t, b, i, j)
    <2>1. \A k \in i .. j - 1 : \E p \in DOMAIN t : t[p].msg = b /\ t[p].idx = k
        <3> SUFFICES ASSUME NEW k \in i .. j - 1
                     PROVE  \E p \in DOMAIN t : t[p].msg = b /\ t[p].idx = k
            OBVIOUS
        <3>1. PICK p \in DOMAIN d : d[p].msg = b /\ d[p].idx = k
            BY DEF OnTheWay
        <3> QED
            BY <1>1, <1>5, <3>1
    <2> QED
        BY <1>2, <1>3, <2>1 DEF OnTheWay
<1>6. /\ d[1].msg # b /\ i > 0 => d[1].idx # 0
      /\ d[1].msg # b /\ d[1].msg[1] = b[1] => d[1].msg[2] < b[2]
    BY <1>1 DEF OnTheWay
<1> QED
    BY <1>1, <1>4, <1>5, <1>6 DEF t

(* A sequence with one more, by position.                                  *)
LEMMA AppendIs ==
    ASSUME NEW S, NEW d \in Seq(S), NEW f \in S
    PROVE  /\ DOMAIN Append(d, f) = DOMAIN d \cup {Len(d) + 1} /\ Append(d, f)[Len(d) + 1] = f
           /\ \A p \in DOMAIN d : p \in Nat /\ p < Len(d) + 1 /\ Append(d, f)[p] = d[p]
           /\ Len(d) \in Nat
OBVIOUS

(* Forwarding the next piece, or a piece of another sender's image that is *)
(* not a first one.                                                        *)
LEMMA WayGoesOn ==
    ASSUME NEW S, NEW d \in Seq(S), NEW f \in S, NEW b, NEW i \in Nat, NEW j \in Nat, i <= j,
           OnTheWay(d, b, i, j)
    PROVE  /\ f.msg = b /\ f.idx = j => OnTheWay(Append(d, f), b, i, j + 1)
           /\ f.msg # b /\ f.msg[1] # b[1] /\ f.idx # 0 => OnTheWay(Append(d, f), b, i, j)
<1> DEFINE e == Append(d, f)
           z == Len(d) + 1
<1>1. /\ DOMAIN e = DOMAIN d \cup {z} /\ e[z] = f /\ z \in Nat
      /\ \A p \in DOMAIN d : p \in Nat /\ p < z /\ e[p] = d[p]
    BY AppendIs
<1> HIDE DEF e, z
<1>2. ASSUME f.msg = b, f.idx = j PROVE OnTheWay(e, b, i, j + 1)
    <2>1. \A p \in DOMAIN e : e[p].msg = b => e[p].idx \in i .. (j + 1) - 1
        BY <1>1, <1>2 DEF OnTheWay
    <2>2. \A p, q \in DOMAIN e : p < q /\ e[p].msg = b /\ e[q].msg = b => e[p].idx < e[q].idx
        <3> SUFFICES ASSUME NEW p \in DOMAIN e, NEW q \in DOMAIN e, p < q, e[p].msg = b, e[q].msg = b
                     PROVE  e[p].idx < e[q].idx
            OBVIOUS
        <3>1. p \in DOMAIN d
            BY <1>1
        <3>2. CASE q \in DOMAIN d
            BY <1>1, <3>1, <3>2 DEF OnTheWay
        <3>3. CASE q = z
            <4>1. e[p].idx \in i .. j - 1
                BY <1>1, <3>1 DEF OnTheWay
            <4> QED
                BY <1>1, <1>2, <3>3, <4>1
        <3> QED
            BY <1>1, <3>2, <3>3
    <2>3. \A k \in i .. (j + 1) - 1 : \E p \in DOMAIN e : e[p].msg = b /\ e[p].idx = k
        <3> SUFFICES ASSUME NEW k \in i .. (j + 1) - 1
                     PROVE  \E p \in DOMAIN e : e[p].msg = b /\ e[p].idx = k
            OBVIOUS
        <3>1. CASE k = j
            BY <1>1, <1>2, <3>1
        <3>2. CASE k \in i .. j - 1
            BY <1>1, <3>2 DEF OnTheWay
        <3> QED
            BY <3>1, <3>2
    <2>4. \A p \in DOMAIN e : e[p].msg # b /\ e[p].msg[1] = b[1] => e[p].msg[2] < b[2]
        BY <1>1, <1>2 DEF OnTheWay
    <2>5. ASSUME NEW p \in DOMAIN e, e[p].msg # b, i > 0 \/ \E q \in DOMAIN e : q < p /\ e[q].msg = b
          PROVE  e[p].idx # 0
        <3>1. p \in DOMAIN d /\ e[p] = d[p]
            BY <1>1, <1>2, <2>5
        <3>2. i > 0 \/ \E q \in DOMAIN d : q < p /\ d[q].msg = b
            BY <1>1, <2>5, <3>1
        <3> QED
            BY <2>5, <3>1, <3>2 DEF OnTheWay
    <2> QED
        BY <2>1, <2>2, <2>3, <2>4, <2>5 DEF OnTheWay
<1>3. ASSUME f.msg # b, f.msg[1] # b[1], f.idx # 0 PROVE OnTheWay(e, b, i, j)
    <2>1. /\ \A p \in DOMAIN e : e[p].msg = b => e[p].idx \in i .. j - 1
          /\ \A p, q \in DOMAIN e : p < q /\ e[p].msg = b /\ e[q].msg = b => e[p].idx < e[q].idx
          /\ \A p \in DOMAIN e : e[p].msg # b /\ e[p].msg[1] = b[1] => e[p].msg[2] < b[2]
        BY <1>1, <1>3 DEF OnTheWay
    <2>2. \A k \in i .. j - 1 : \E p \in DOMAIN e : e[p].msg = b /\ e[p].idx = k
        BY <1>1 DEF OnTheWay
    <2>3. ASSUME NEW p \in DOMAIN e, e[p].msg # b, i > 0 \/ \E q \in DOMAIN e : q < p /\ e[q].msg = b
          PROVE  e[p].idx # 0
        <3>1. CASE p = z
            BY <1>1, <1>3, <3>1
        <3>2. CASE p \in DOMAIN d
            <4>1. i > 0 \/ \E q \in DOMAIN d : q < p /\ d[q].msg = b
                BY <1>1, <1>3, <2>3, <3>2
            <4> QED
                BY <1>1, <2>3, <3>2, <4>1 DEF OnTheWay
        <3> QED
            BY <1>1, <3>1, <3>2
    <2> QED
        BY <2>1, <2>2, <2>3 DEF OnTheWay
<1> QED
    BY <1>2, <1>3 DEF e

(* Forwarding the first piece of an image of which nothing is under way.   *)
LEMMA WayBegins ==
    ASSUME NEW S, NEW d \in Seq(S), NEW f \in S, NEW b, f.msg = b, f.idx = 0,
           \A p \in DOMAIN d : d[p].msg # b,
           \A p \in DOMAIN d : d[p].msg[1] = b[1] => d[p].msg[2] < b[2]
    PROVE  OnTheWay(Append(d, f), b, 0, 1)
<1> DEFINE e == Append(d, f)
           z == Len(d) + 1
<1>1. /\ DOMAIN e = DOMAIN d \cup {z} /\ e[z] = f /\ z \in Nat
      /\ \A p \in DOMAIN d : p \in Nat /\ p < z /\ e[p] = d[p]
    BY AppendIs
<1> HIDE DEF e, z
<1> QED
    BY <1>1 DEF OnTheWay, e

(* The piece the receiver waits for: it takes it, and with the last one it *)
(* has the image.                                                          *)
LEMMA TakesItsPiece ==
    ASSUME Image!ImagesAssumption, UnreadInv, UNCHANGED made, NEW b \in DOMAIN made,
           NEW i \in 0 .. made[b] - 1, NEW f \in Pieces, f.msg = b, f.idx = i,
           Image!OnChunk(f), Arrived(b, i)
    PROVE  Arrived(b, i + 1)'
<1> DEFINE n == made[b]
           g == Image!Begun(f)
           a == Image!WithPiece(g, f)
           D == DOMAIN g.pieces \cup {f.idx}
<1>1. /\ Genuine(f) /\ Image!Opens(f) /\ ImageInv
      /\ n \in Nat \ {0} /\ n <= MaxPieces /\ MaxPieces \in Nat /\ i \in Nat /\ i < n
    BY PiecesAreGenuine DEF Image!Opens, Image!Aad, Image!ImagesAssumption, UnreadInv, LastIsMade,
                            ImageInv, ImageTypes
<1>2. /\ i = 0 => Image!StartingOver(f)
      /\ i # 0 => ~Image!StartingOver(f) /\ DOMAIN held.pieces = 0 .. i - 1
    BY <1>1 DEF Arrived, Image!StartingOver
<1>3. /\ f.count = n /\ g.count = n
      /\ g.pieces = IF Image!StartingOver(f) THEN <<>> ELSE held.pieces
      /\ a = [msg |-> b, count |-> n, pieces |-> [k \in D |-> <<b, k>>]]
      /\ Image!Complete(a) <=> D = 0 .. n - 1
      /\ D = 0 .. n - 1 => a.pieces = Copy(b)
    <2> HIDE DEF a, g, n, D
    <2> QED
        BY <1>1, ImageAdds DEF a, g, n, D
<1>4. DOMAIN g.pieces = 0 .. i - 1 /\ D = 0 .. i
    <2>1. DOMAIN <<>> = 0 .. 0 - 1
        OBVIOUS
    <2>2. DOMAIN g.pieces = 0 .. i - 1
        BY <1>2, <1>3, <2>1
    <2> QED
        BY <1>1, <2>2
<1> HIDE DEF a, g, D
<1>5. ~Image!Ignored(f)
    BY <1>1, <1>2, <1>3 DEF Image!Ignored
<1>6. Image!Accepts(g, f)
    <2>1. Cardinality(0 .. i - 1) = i
        <3>1. 0 \in Int /\ i - 1 \in Int /\ (0 > i - 1 <=> i = 0) /\ i - 1 - 0 + 1 = i
            BY <1>1
        <3> QED
            BY <3>1, FS_Interval
    <2> QED
        BY <1>1, <1>3, <1>4, <2>1, ImageCounts DEF Image!Accepts
<1>7. /\ Image!Final(f) /\ Image!Complete(a) => held' = None /\ Image!Finish(a)
      /\ ~(Image!Final(f) /\ Image!Complete(a)) => held' = a /\ UNCHANGED <<last, shown>>
    BY <1>1, <1>5, <1>6 DEF Image!OnChunk, a, g
<1>8. last[b[1]] < b[2]
    BY <1>1 DEF Arrived
<1>9. CASE i + 1 = n
    <2>1. D = 0 .. n - 1 /\ Image!Final(f)
        BY <1>1, <1>3, <1>4, <1>9 DEF Image!Final
    <2>2. a.pieces[0][1] = b /\ Image!Finish(a) /\ a.pieces = Copy(b)
        BY <1>1, <1>3, <1>7, <2>1, CopyIs DEF Image!MsgOf, ImageInv
    <2>3. /\ b[1] \in Senders /\ b[2] \in Nat /\ last[b[1]] \in Nat
          /\ shown \in Seq(Copies) /\ Copy(b) \in Copies
        BY <1>1, CopyIs DEF ImageInv, ImageTypes, Accepted, Copies
    <2>4. shown' = Append(shown, Copy(b))
        BY <1>8, <2>2, <2>3 DEF Image!Finish
    <2>5. Len(shown) + 1 \in DOMAIN shown' /\ shown'[Len(shown) + 1] = Copy(b)
        BY <2>3, <2>4, AppendIs
    <2>6. Image!MsgOf(Copy(b)) = b
        BY <1>1, CopyIs DEF ImageInv
    <2> QED
        BY <1>1, <1>9, <2>5, <2>6 DEF Arrived, Image!MsgOf
<1>10. CASE i + 1 # n
    <2>1. ~Image!Final(f)
        BY <1>1, <1>3, <1>10 DEF Image!Final
    <2>2. held' = a /\ UNCHANGED <<last, shown>>
        BY <1>7, <2>1
    <2>3. a.msg = b /\ DOMAIN a.pieces = 0 .. (i + 1) - 1
        BY <1>1, <1>3, <1>4
    <2>4. a # None
        <3> DEFINE W == UNION {[S -> Image!Ids \X Image!Indices] : S \in SUBSET Image!Indices}
        <3>1. D \subseteq Image!Indices
            BY <1>1, <1>4 DEF Image!Indices
        <3>2. b \in Image!Ids
            BY <1>1 DEF Image!Ids, ImageInv, ImageTypes
        <3>3. [k \in D |-> <<b, k>>] \in [D -> Image!Ids \X Image!Indices]
            BY <3>1, <3>2
        <3>4. [k \in D |-> <<b, k>>] \in W
            BY <3>1, <3>3
        <3> HIDE DEF W
        <3>5. a \in [msg : Image!Ids, count : Nat, pieces : W]
            BY <1>1, <1>3, <3>2, <3>4
        <3> QED
            BY <3>5 DEF Image!ImagesAssumption, W
    <2> QED
        BY <1>1, <1>8, <1>10, <2>2, <2>3, <2>4 DEF Arrived
<1> QED
    BY <1>9, <1>10

(* What is shown stays shown.                                              *)
LEMMA ShownStays ==
    ASSUME ImageInv, NEW f, Image!OnChunk(f)
    PROVE  \A k \in DOMAIN shown : k \in DOMAIN shown' /\ shown'[k] = shown[k]
<1>1. shown' = shown \/ \E x : shown' = Append(shown, x)
    BY DEF Image!OnChunk, Image!Finish
<1>2. ASSUME NEW x, shown' = Append(shown, x)
      PROVE  \A k \in DOMAIN shown : k \in DOMAIN shown' /\ shown'[k] = shown[k]
    <2>1. shown \in Seq(Copies \cup {x})
        BY DEF ImageInv, Accepted
    <2> QED
        BY <1>2, <2>1, AppendIs
<1> QED
    BY <1>1, <1>2

(* Any other piece, as long as it does not begin an image while the one in *)
(* question is being put together.                                         *)
LEMMA TakesAnother ==
    ASSUME ImageInv, UNCHANGED made, NEW b \in DOMAIN made, NEW i \in 0 .. made[b],
           NEW f \in Pieces, f.msg # b, i > 0 => f.idx # 0,
           f.msg[1] = b[1] => f.msg[2] < b[2],
           Image!OnChunk(f), Arrived(b, i)
    PROVE  Arrived(b, i)'
<1>1. Genuine(f) /\ made[b] \in Nat \ {0} /\ b[1] \in Senders /\ f.msg \in DOMAIN made
    BY PiecesAreGenuine, CopyIs DEF ImageInv, ImageTypes, Genuine
<1>2. CASE i = 0
    <2>1. /\ held # None => held.msg # b
          /\ last[b[1]] < b[2] /\ last \in [Senders -> Nat] /\ f.msg[1] \in Senders
        BY <1>1, <1>2, CopyIs DEF Arrived, ImageInv, ImageTypes
    <2>2. \/ UNCHANGED <<held, last>>
          \/ held' = None /\ last' = last
          \/ held'.msg = f.msg /\ last' = last
          \/ held' = None /\ last' = [last EXCEPT ![f.msg[1]] = f.msg[2]]
        BY <1>1, ChunkDoes
    <2>3. held' # None => held'.msg # b
        BY <2>1, <2>2
    <2>4. last'[b[1]] < b[2]
        <3>1. CASE last' = last
            BY <2>1, <3>1
        <3>2. CASE last' = [last EXCEPT ![f.msg[1]] = f.msg[2]]
            <4>1. CASE f.msg[1] = b[1]
                <5>1. last'[b[1]] = f.msg[2]
                    BY <2>1, <3>2, <4>1
                <5> QED
                    BY <4>1, <5>1
            <4>2. CASE f.msg[1] # b[1]
                <5>1. last'[b[1]] = last[b[1]]
                    BY <1>1, <2>1, <3>2, <4>2
                <5> QED
                    BY <2>1, <5>1
            <4> QED
                BY <4>1, <4>2
        <3> QED
            BY <2>2, <3>1, <3>2
    <2> QED
        BY <1>1, <1>2, <2>3, <2>4 DEF Arrived
<1>3. CASE i \in 1 .. made[b] - 1
    <2>1. held # None /\ held.msg = b /\ f.idx # 0
        BY <1>3 DEF Arrived
    <2>2. UNCHANGED <<held, last, shown>>
        BY <2>1 DEF Image!OnChunk, Image!Ignored, Image!StartingOver
    <2> QED
        BY <2>2 DEF Arrived, Image!MsgOf
<1>4. CASE i = made[b]
    <2>1. PICK k \in DOMAIN shown : Image!MsgOf(shown[k]) = b
        BY <1>4 DEF Arrived
    <2>2. k \in DOMAIN shown' /\ shown'[k] = shown[k]
        BY ShownStays
    <2> QED
        BY <1>1, <1>4, <2>1, <2>2 DEF Arrived, Image!MsgOf
<1> QED
    BY <1>1, <1>2, <1>3, <1>4

CleanInv == UnreadInv /\ DOMAIN assembly = Senders /\ CleanRun

(* None of the three parts changes with what it does not speak of.         *)
LEMMA HandsOnStays ==
    ASSUME NEW b, NEW j, HandsOn(b, j), made'[b] = made[b], out'[b[1]] = out[b[1]],
           assembly'[b[1]] = assembly[b[1]]
    PROVE  HandsOn(b, j)'
BY DEF HandsOn, Rest, Image!Frame, Image!Aad

LEMMA RestStays ==
    ASSUME NEW b, NEW j, made'[b] = made[b]
    PROVE  Rest(b, j)' = Rest(b, j)
BY DEF Rest, Image!Frame, Image!Aad

LEMMA WayOf ==
    ASSUME NEW b, NEW i, NEW j, OnTheWay(down', b, i, j)
    PROVE  OnTheWay(down, b, i, j)'
BY DEF OnTheWay

LEMMA ArrivedStays ==
    ASSUME NEW b, NEW i, Arrived(b, i), made'[b] = made[b], UNCHANGED <<held, last, shown>>
    PROVE  Arrived(b, i)'
BY DEF Arrived, Image!MsgOf

(* A piece arrives.                                                        *)
LEMMA CleanDeliver ==
    ASSUME Image!ImagesAssumption, CleanInv, Image!Deliver
    PROVE  CleanRun'
<1> SUFFICES ASSUME clean', begun' # None
             PROVE  begun' \in DOMAIN made' /\ \E j \in 1 .. made'[begun'] : \E i \in 0 .. j :
                        (HandsOn(begun, j) /\ OnTheWay(down, begun, i, j) /\ Arrived(begun, i))'
    BY DEF CleanRun
<1>1. /\ UNCHANGED <<made, out, assembly, begun, clean>>
      /\ down # <<>> /\ down' = Tail(down) /\ Image!OnChunk(Head(down))
    BY DEF Image!Deliver
<1>2. PICK b : b = begun /\ b = begun'
    BY <1>1
<1>3. b \in DOMAIN made /\ made[b] \in Nat \ {0} /\ down \in Seq(Pieces)
    BY <1>1, <1>2 DEF CleanInv, CleanRun, UnreadInv, ImageInv, ImageTypes
<1>4. PICK j \in 1 .. made[b] : \E i \in 0 .. j :
          HandsOn(b, j) /\ OnTheWay(down, b, i, j) /\ Arrived(b, i)
    BY <1>1, <1>2 DEF CleanInv, CleanRun
<1>5. PICK i \in 0 .. j : HandsOn(b, j) /\ OnTheWay(down, b, i, j) /\ Arrived(b, i)
    BY <1>4
<1>6. HandsOn(b, j)'
    BY <1>1, <1>5, HandsOnStays
<1>7. i \in Nat /\ j \in Nat /\ j <= made[b]
    BY <1>3
<1>8. Head(down) \in Pieces
    BY <1>1, <1>3
<1>9. ASSUME NEW k \in 0 .. j, OnTheWay(down', b, k, j), Arrived(b, k)'
      PROVE  begun' \in DOMAIN made' /\ \E l \in 1 .. made'[begun'] : \E m \in 0 .. l :
                 (HandsOn(begun, l) /\ OnTheWay(down, begun, m, l) /\ Arrived(begun, m))'
    <2>1. OnTheWay(down, b, k, j)'
        BY <1>9, WayOf
    <2> QED
        BY <1>1, <1>2, <1>3, <1>6, <1>9, <2>1
<1>10. CASE Head(down).msg = b
    <2>1. Head(down).idx = i /\ i < j /\ OnTheWay(down', b, i + 1, j)
        BY <1>1, <1>3, <1>5, <1>7, <1>10, WayHeads
    <2>2. i \in 0 .. made[b] - 1 /\ i + 1 \in 0 .. j
        BY <1>3, <1>7, <2>1
    <2>3. Arrived(b, i + 1)'
        BY <1>1, <1>3, <1>5, <1>8, <1>10, <2>1, <2>2, TakesItsPiece DEF CleanInv
    <2> QED
        BY <1>9, <2>1, <2>2, <2>3
<1>11. CASE Head(down).msg # b
    <2>1. /\ OnTheWay(down', b, i, j)
          /\ i > 0 => Head(down).idx # 0
          /\ Head(down).msg[1] = b[1] => Head(down).msg[2] < b[2]
        BY <1>1, <1>3, <1>5, <1>7, <1>11, WayHeads
    <2>2. i \in 0 .. made[b]
        BY <1>3, <1>7
    <2>3. Arrived(b, i)'
        BY <1>1, <1>3, <1>5, <1>8, <1>11, <2>1, <2>2, TakesAnother DEF CleanInv, UnreadInv
    <2> QED
        BY <1>9, <2>1, <2>3
<1> QED
    BY <1>10, <1>11

(* A device copies an image; its sender is between images then.            *)
LEMMA CleanCopy ==
    ASSUME Image!ImagesAssumption, CleanInv, NEW s \in Senders, Image!Copy(s)
    PROVE  CleanRun'
<1> SUFFICES ASSUME clean', begun' # None
             PROVE  begun' \in DOMAIN made' /\ \E j \in 1 .. made'[begun'] : \E i \in 0 .. j :
                        (HandsOn(begun, j) /\ OnTheWay(down, begun, i, j) /\ Arrived(begun, i))'
    BY DEF CleanRun
<1>1. out[s] = <<>> /\ UNCHANGED <<assembly, down, held, last, shown, begun, clean>>
    BY DEF Image!Copy
<1>2. PICK b : b = begun /\ b = begun'
    BY <1>1
<1>3. b \in DOMAIN made /\ made[b] \in Nat \ {0} /\ b[1] \in Senders
    BY <1>1, <1>2, CopyIs DEF CleanInv, CleanRun, UnreadInv, ImageInv, ImageTypes
<1>4. PICK j \in 1 .. made[b] : \E i \in 0 .. j :
          HandsOn(b, j) /\ OnTheWay(down, b, i, j) /\ Arrived(b, i)
    BY <1>1, <1>2 DEF CleanInv, CleanRun
<1>5. PICK i \in 0 .. j : HandsOn(b, j) /\ OnTheWay(down, b, i, j) /\ Arrived(b, i)
    BY <1>4
<1>6. /\ b \in DOMAIN made' /\ made'[b] = made[b]
      /\ out'[s] # <<>> /\ Head(out'[s]).idx = 0
      /\ \A t \in Senders : t # s => out'[t] = out[t]
    BY <1>3, UnreadCopy DEF CleanInv
<1>7. HandsOn(b, j)'
    <2>1. CASE b[1] # s
        BY <1>1, <1>3, <1>5, <1>6, <2>1, HandsOnStays
    <2>2. CASE b[1] = s
        <3>1. j < made[b] => Rest(b, j) # <<>>
            BY <1>3, RestIs
        <3>2. j = made[b] /\ assembly[b[1]] = None
            BY <1>1, <1>5, <2>2, <3>1 DEF HandsOn
        <3> QED
            BY <1>1, <1>6, <2>2, <3>2 DEF HandsOn
    <2> QED
        BY <2>1, <2>2
<1>8. OnTheWay(down, b, i, j)'
    BY <1>1, <1>5, WayOf
<1>9. Arrived(b, i)'
    BY <1>1, <1>5, <1>6, ArrivedStays
<1> QED
    BY <1>2, <1>6, <1>7, <1>8, <1>9

(* The relay forwards the first piece of an image: nothing of it has been  *)
(* read before, so that nothing of it is about.                            *)
LEMMA CleanBegins ==
    ASSUME Image!ImagesAssumption, CleanInv, NEW s \in Senders, Image!HandleChunk(s),
           Image!Forwards(s, Head(out[s])), Head(out[s]).idx = 0
    PROVE  CleanRun'
<1> DEFINE f == Head(out[s])
<1>1. /\ out[s] # <<>> /\ UNCHANGED <<made, held, last, shown>> /\ down' = Append(down, f)
      /\ begun' = f.msg /\ out' = [out EXCEPT ![s] = Tail(@)]
      /\ assembly' = [assembly EXCEPT ![s] =
             IF Image!JoinsMidway(s, f) THEN Image!Current(s)
             ELSE IF Image!Mismatch(s, f) \/ Image!TypeCode(f) = "clip_end" THEN None
             ELSE Image!Assembled(s, f)]
      /\ ~Image!JoinsMidway(s, f) /\ ~Image!Mismatch(s, f)
    BY DEF Image!HandleChunk, Image!Forwards
<1> HIDE DEF f
<1>2. PICK b : b = f.msg
    OBVIOUS
<1>3. b \in Made(s) /\ b \in DOMAIN made /\ b[1] = s /\ ImageInv /\ made[b] \in Nat \ {0}
    BY <1>1, <1>2, HandedIsRead DEF CleanInv, UnreadInv, ImageInv, ImageTypes, Made, f
<1>4. Unread(b) /\ f.idx = 0
    BY <1>1, <1>2, <1>3 DEF Unread, f
<1>5. out[s] = Rest(b, 0) /\ b[2] = Cardinality(Made(s))
    BY <1>3, <1>4, UnreadIsNewest DEF CleanInv
<1>6. /\ f = Image!Frame(b, 0, made[b])
      /\ 0 + 1 = made[b] => Tail(out[s]) = <<>>
      /\ 0 + 1 # made[b] => Tail(out[s]) = Rest(b, 0 + 1)
    <2>1. 0 \in 0 .. made[b] - 1 /\ made[b] \in Nat
        BY <1>3
    <2> QED
        BY <1>5, <2>1, RestIs DEF f
<1>7. f.count = made[b]
    BY <1>6, FrameIs
<1>8. /\ out'[s] = Tail(out[s])
      /\ assembly'[s] = IF Image!TypeCode(f) = "clip_end" THEN None ELSE Image!Assembled(s, f)
    <2>1. out \in [Senders -> Seq(Pieces)] /\ DOMAIN assembly = Senders
        BY <1>3 DEF CleanInv, ImageInv, ImageTypes
    <2> QED
        BY <1>1, <2>1
<1>9. HandsOn(b, 1)'
    <2>1. CASE made[b] = 1
        <3>1. Image!Final(f) /\ Image!TypeCode(f) = "clip_end"
            BY <1>4, <1>7, <2>1 DEF Image!Final, Image!TypeCode
        <3> QED
            BY <1>1, <1>3, <1>6, <1>8, <2>1, <3>1 DEF HandsOn
    <2>2. CASE made[b] # 1
        <3>1. ~Image!Final(f) /\ Image!TypeCode(f) = "clip_begin"
            BY <1>3, <1>4, <1>7, <2>2 DEF Image!Final, Image!TypeCode
        <3>2. assembly'[s] = [msg |-> b, count |-> made[b], old |-> FALSE]
            BY <1>2, <1>7, <1>8, <3>1 DEF Image!Assembled, Image!Starts
        <3>3. out'[s] = Rest(b, 1)' /\ 1 < made[b]
            <4>1. out'[s] = Rest(b, 1) /\ 1 < made[b]
                <5>1. 0 + 1 = 1
                    OBVIOUS
                <5> QED
                    BY <1>3, <1>6, <1>8, <2>2, <5>1
            <4> QED
                BY <1>1, <4>1, RestStays
        <3> QED
            BY <1>1, <1>3, <3>2, <3>3 DEF HandsOn
    <2> QED
        BY <2>1, <2>2
<1>10. OnTheWay(down, b, 0, 1)'
    <2>1. down \in Seq(Pieces) /\ out[s] \in Seq(Pieces)
        BY <1>3 DEF ImageInv, ImageTypes
    <2>2. f \in Pieces
        BY <1>1, <2>1 DEF f
    <2>3. \A p \in DOMAIN down : down[p].msg # b
        BY <1>3, <1>4 DEF CleanInv, UnreadInv, UnreadIsNowhere
    <2>4. ASSUME NEW p \in DOMAIN down, down[p].msg[1] = b[1] PROVE down[p].msg[2] < b[2]
        <3> DEFINE c == down[p].msg
        <3>1. c \in DOMAIN made
            <4>1. down[p] \in Pieces
                BY <2>1
            <4> QED
                BY <4>1, PiecesAreGenuine DEF Genuine
        <3>2. /\ c # b /\ c = <<c[1], c[2]>> /\ c[2] \in Nat /\ b = <<b[1], b[2]>> /\ b[2] \in Nat
              /\ c[2] <= Cardinality(Made(c[1]))
            BY <1>3, <2>3, <3>1, CopyIs DEF ImageInv, Numbered
        <3> HIDE DEF c
        <3>3. c[1] = b[1]
            BY <2>4 DEF c
        <3>4. c[2] <= b[2] /\ c[2] # b[2]
            BY <1>3, <1>5, <3>2, <3>3
        <3>5. c[2] < b[2]
            BY <3>2, <3>4
        <3> QED
            BY <3>5 DEF c
    <2>5. OnTheWay(down', b, 0, 1)
        BY <1>1, <1>2, <1>4, <2>1, <2>2, <2>3, <2>4, WayBegins
    <2> QED
        BY <2>5, WayOf
<1>11. Arrived(b, 0)'
    <2>1. (held # None => held.msg # b) /\ last[b[1]] < b[2]
        BY <1>3, <1>4 DEF CleanInv, UnreadInv, UnreadIsNowhere
    <2> QED
        BY <1>1, <1>3, <2>1 DEF Arrived
<1>12. b \in DOMAIN made' /\ 1 \in 1 .. made'[b] /\ 0 \in 0 .. 1
    BY <1>1, <1>3
<1> QED
    BY <1>1, <1>2, <1>9, <1>10, <1>11, <1>12 DEF CleanRun

(* The relay reads any other piece: the next of the image in question, or  *)
(* one of another sender, which it may refuse.                             *)
LEMMA CleanContinues ==
    ASSUME Image!ImagesAssumption, CleanInv, NEW s \in Senders, Image!HandleChunk(s),
           ~(Image!Forwards(s, Head(out[s])) /\ Head(out[s]).idx = 0)
    PROVE  CleanRun'
<1> DEFINE f == Head(out[s])
<1> SUFFICES ASSUME clean', begun' # None
             PROVE  begun' \in DOMAIN made' /\ \E j \in 1 .. made'[begun'] : \E i \in 0 .. j :
                        (HandsOn(begun, j) /\ OnTheWay(down, begun, i, j) /\ Arrived(begun, i))'
    BY DEF CleanRun
<1>1. /\ out[s] # <<>> /\ UNCHANGED <<made, held, last, shown, begun, clean>>
      /\ down' = IF Image!Forwards(s, f) THEN Append(down, f) ELSE down
      /\ out' = [out EXCEPT ![s] = Tail(@)]
      /\ assembly' = [assembly EXCEPT ![s] =
             IF Image!JoinsMidway(s, f) THEN Image!Current(s)
             ELSE IF Image!Mismatch(s, f) \/ Image!TypeCode(f) = "clip_end" THEN None
             ELSE Image!Assembled(s, f)]
      /\ ~(Image!Forwards(s, f) /\ f.idx = 0)
    BY DEF Image!HandleChunk
<1> HIDE DEF f
<1>2. PICK b : b = begun /\ b = begun'
    BY <1>1
<1>3. /\ b \in DOMAIN made /\ made[b] \in Nat \ {0} /\ b[1] \in Senders
      /\ down \in Seq(Pieces) /\ out \in [Senders -> Seq(Pieces)] /\ DOMAIN assembly = Senders
    BY <1>1, <1>2, CopyIs DEF CleanInv, CleanRun, UnreadInv, ImageInv, ImageTypes
<1>4. PICK j \in 1 .. made[b] : \E i \in 0 .. j :
          HandsOn(b, j) /\ OnTheWay(down, b, i, j) /\ Arrived(b, i)
    BY <1>1, <1>2 DEF CleanInv, CleanRun
<1>5. PICK i \in 0 .. j : HandsOn(b, j) /\ OnTheWay(down, b, i, j) /\ Arrived(b, i)
    BY <1>4
<1>6. Arrived(b, i)'
    BY <1>1, <1>5, ArrivedStays
<1>7. f \in Pieces /\ f.msg \in Made(s) /\ i \in Nat /\ j \in Nat /\ i <= j /\ j >= 1
    <2>1. out[s] \in Seq(Pieces)
        BY <1>3
    <2> QED
        BY <1>1, <1>3, <2>1, HandedIsRead DEF CleanInv, f
<1>8. CASE s # b[1]
    <2>1. HandsOn(b, j)'
        BY <1>1, <1>3, <1>5, <1>8, HandsOnStays
    <2>2. OnTheWay(down', b, i, j)
        <3>1. f.msg # b /\ f.msg[1] # b[1]
            BY <1>7, <1>8 DEF Made
        <3> QED
            BY <1>1, <1>3, <1>5, <1>7, <3>1, WayGoesOn
    <2>3. OnTheWay(down, b, i, j)'
        BY <2>2, WayOf
    <2> QED
        BY <1>1, <1>2, <1>3, <1>6, <2>1, <2>3
<1>9. CASE s = b[1]
    <2>1. CASE /\ j < made[b] /\ out[s] = Rest(b, j)
               /\ assembly[s] = [msg |-> b, count |-> made[b], old |-> FALSE]
        <3>1. /\ j \in 0 .. made[b] - 1
              /\ f = Image!Frame(b, j, made[b])
              /\ j + 1 = made[b] => Tail(out[s]) = <<>>
              /\ j + 1 # made[b] => Tail(out[s]) = Rest(b, j + 1)
            <4>1. j \in 0 .. made[b] - 1 /\ made[b] \in Nat
                BY <1>3, <1>7, <2>1
            <4>2. /\ Head(Rest(b, j)) = Image!Frame(b, j, made[b])
                  /\ j + 1 = made[b] => Tail(Rest(b, j)) = <<>>
                  /\ j + 1 # made[b] => Tail(Rest(b, j)) = Rest(b, j + 1)
                BY <4>1, RestIs
            <4>3. f = Head(out[s]) /\ out[s] = Rest(b, j)
                BY <2>1 DEF f
            <4> QED
                BY <4>1, <4>2, <4>3
        <3>2. f.msg = b /\ f.idx = j /\ f.count = made[b]
            BY <3>1, FrameIs
        <3>3. assembly[s] # None
            <4>1. b \in Image!Ids
                BY <1>3 DEF Image!Ids, CleanInv, UnreadInv, ImageInv, ImageTypes
            <4>2. assembly[s] \in [msg : Image!Ids, count : Nat, old : BOOLEAN]
                BY <1>3, <2>1, <4>1
            <4> QED
                BY <4>2 DEF Image!ImagesAssumption
        <3>4. Image!Current(s) = assembly[s]
            BY <2>1, <3>3 DEF Image!Current
        <3>5. Image!TypeCode(f) # "clip_begin" /\ (Image!TypeCode(f) = "clip_end" <=> j + 1 = made[b])
            BY <1>7, <3>2 DEF Image!TypeCode, Image!Final
        <3>6. ~Image!Starts(s, f) /\ Image!Assembled(s, f) = assembly[s]
            BY <3>3, <3>4, <3>5 DEF Image!Starts, Image!Assembled
        <3>7. ~Image!JoinsMidway(s, f) /\ ~Image!Mismatch(s, f)
            BY <2>1, <3>2, <3>6 DEF Image!JoinsMidway, Image!Mismatch
        <3>8. down' = Append(down, f)
            BY <1>1, <3>7 DEF Image!Forwards
        <3>9. OnTheWay(down, b, i, j + 1)'
            <4>1. OnTheWay(down', b, i, j + 1)
                BY <1>3, <1>5, <1>7, <3>2, <3>8, WayGoesOn
            <4> QED
                BY <4>1, WayOf
        <3>10. out'[s] = Tail(out[s]) /\ assembly'[s] = IF j + 1 = made[b] THEN None ELSE assembly[s]
            BY <1>1, <1>3, <3>5, <3>6, <3>7
        <3>11. HandsOn(b, j + 1)'
            <4>1. CASE j + 1 = made[b]
                BY <1>1, <1>9, <3>1, <3>10, <4>1 DEF HandsOn
            <4>2. CASE j + 1 # made[b]
                <5>1. out'[s] = Rest(b, j + 1)' /\ j + 1 < made[b]
                    <6>1. out'[s] = Rest(b, j + 1) /\ j + 1 < made[b]
                        BY <1>3, <1>7, <2>1, <3>1, <3>10, <4>2
                    <6> QED
                        BY <1>1, <6>1, RestStays
                <5> QED
                    BY <1>1, <1>9, <2>1, <3>10, <4>2, <5>1 DEF HandsOn
            <4> QED
                BY <4>1, <4>2
        <3>12. j + 1 \in 1 .. made'[b] /\ i \in 0 .. (j + 1)
            BY <1>1, <1>3, <1>7, <3>1
        <3> QED
            BY <1>1, <1>2, <1>3, <1>6, <3>9, <3>11, <3>12
    <2>2. CASE assembly[s] = None /\ Head(out[s]).idx = 0
        <3>1. Image!Starts(s, f) /\ Image!Assembled(s, f) = [msg |-> f.msg, count |-> f.count, old |-> FALSE]
            BY <2>2 DEF Image!Starts, Image!Assembled, Image!Current
        <3>2. Image!Forwards(s, f)
            BY <2>2, <3>1 DEF Image!Forwards, Image!JoinsMidway, Image!Mismatch, f
        <3> QED
            BY <1>1, <2>2, <3>2 DEF f
    <2> QED
        BY <1>1, <1>5, <1>9, <2>1, <2>2 DEF HandsOn
<1> QED
    BY <1>8, <1>9

(* At first no image is begun.                                             *)
LEMMA CleanInit ==
    ASSUME Image!ImagesAssumption, Image!Init
    PROVE  CleanInv
<1>1. DOMAIN assembly = Senders /\ CleanRun
    BY DEF Image!Init, CleanRun
<1> QED
    BY <1>1, UnreadInit DEF CleanInv

(* Every step keeps the invariant; a fault ends the clean run.             *)
LEMMA CleanStep ==
    ASSUME Image!ImagesAssumption, CleanInv, [Image!Next]_(Image!vars)
    PROVE  CleanInv'
<1>1. UnreadInv'
    BY UnreadStep DEF CleanInv
<1>2. SUFFICES DOMAIN assembly' = Senders /\ CleanRun'
    BY <1>1 DEF CleanInv
<1>3. ASSUME NEW s \in Senders, Image!HandleChunk(s)
      PROVE  DOMAIN assembly' = Senders /\ CleanRun'
    <2>1. DOMAIN assembly' = Senders
        BY <1>3 DEF Image!HandleChunk, CleanInv
    <2> QED
        BY <1>3, <2>1, CleanBegins, CleanContinues
<1>4. ASSUME NEW s \in Senders, Image!Copy(s)
      PROVE  DOMAIN assembly' = Senders /\ CleanRun'
    BY <1>4, CleanCopy DEF Image!Copy, CleanInv
<1>5. CASE Image!Deliver
    BY <1>5, CleanDeliver DEF Image!Deliver, CleanInv
<1>6. ASSUME NEW s \in Senders,
             Image!RefuseForRate(s) \/ Image!RefuseForQuota(s) \/ Image!Slow(s) \/ Image!SenderLost(s)
      PROVE  DOMAIN assembly' = Senders /\ CleanRun'
    <2>1. clean' = FALSE
        BY <1>6 DEF Image!RefuseForRate, Image!RefuseForQuota, Image!Slow, Image!SenderLost, Image!Fault
    <2>2. DOMAIN assembly' = Senders
        BY <1>6 DEF Image!RefuseForRate, Image!RefuseForQuota, Image!Slow, Image!SenderLost, CleanInv
    <2> QED
        BY <2>1, <2>2 DEF CleanRun
<1>7. CASE Image!MakeUp \/ Image!HelloFrame
    <2>1. clean' = FALSE /\ assembly' = assembly
        BY <1>7 DEF Image!MakeUp, Image!HelloFrame, Image!Fault
    <2> QED
        BY <2>1 DEF CleanRun, CleanInv
<1>8. CASE UNCHANGED Image!vars
    <2>1. UNCHANGED <<made, out, assembly, down, held, last, shown, begun, clean>>
        BY <1>8 DEF Image!vars
    <2>2. ASSUME clean, begun # None
          PROVE  /\ begun \in DOMAIN made
                 /\ \E j \in 1 .. made[begun] : \E i \in 0 .. j :
                        (HandsOn(begun, j) /\ OnTheWay(down, begun, i, j) /\ Arrived(begun, i))'
        <3>1. PICK b : b = begun /\ b = begun'
            BY <2>1
        <3>2. PICK j \in 1 .. made[b] : \E i \in 0 .. j :
                  HandsOn(b, j) /\ OnTheWay(down, b, i, j) /\ Arrived(b, i)
            BY <2>2, <3>1 DEF CleanInv, CleanRun
        <3>3. PICK i \in 0 .. j : HandsOn(b, j) /\ OnTheWay(down, b, i, j) /\ Arrived(b, i)
            BY <3>2
        <3>4. (HandsOn(b, j) /\ OnTheWay(down, b, i, j) /\ Arrived(b, i))'
            BY <2>1, <3>3, HandsOnStays, WayOf, ArrivedStays
        <3> QED
            BY <2>2, <3>1, <3>4 DEF CleanInv, CleanRun
    <2> QED
        BY <2>1, <2>2 DEF CleanInv, CleanRun
<1> QED
    BY <1>3, <1>4, <1>5, <1>6, <1>7, <1>8 DEF Image!Next

(* With nothing left under way all pieces have arrived, and the image is   *)
(* shown.                                                                  *)
LEMMA CleanShows ==
    ASSUME Image!ImagesAssumption, CleanInv
    PROVE  Image!LastBegunIsShown
<1>1. Image!ShownInOrder
    BY DEF CleanInv, UnreadInv, ImageInv, Accepted
<1>2. Image!ShownWhole
    BY DEF CleanInv, UnreadInv, ImageInv, Accepted, Copies, Copy, Image!ShownWhole, Image!Whole
<1>3. ASSUME begun # None, clean, down = <<>>, \A s \in Senders : out[s] = <<>>
      PROVE  \E k \in DOMAIN shown : Image!MsgOf(shown[k]) = begun
    <2>1. begun \in DOMAIN made /\ made[begun] \in Nat \ {0} /\ begun[1] \in Senders
        BY <1>3, CopyIs DEF CleanInv, CleanRun, UnreadInv, ImageInv, ImageTypes
    <2>2. PICK j \in 1 .. made[begun] : \E i \in 0 .. j :
              HandsOn(begun, j) /\ OnTheWay(down, begun, i, j) /\ Arrived(begun, i)
        BY <1>3 DEF CleanInv, CleanRun
    <2>3. PICK i \in 0 .. j : HandsOn(begun, j) /\ OnTheWay(down, begun, i, j) /\ Arrived(begun, i)
        BY <2>2
    <2>4. j = made[begun]
        <3>1. j < made[begun] => Rest(begun, j) # <<>>
            BY <2>1, RestIs
        <3> QED
            BY <1>3, <2>1, <2>3, <3>1 DEF HandsOn
    <2>5. i = j
        <3>1. i < j => i \in i .. j - 1
            BY <2>1
        <3>2. DOMAIN down = {}
            BY <1>3
        <3>3. ~(i < j)
            BY <2>3, <3>1, <3>2 DEF OnTheWay
        <3> QED
            BY <2>1, <3>3
    <2> QED
        BY <2>3, <2>4, <2>5 DEF Arrived
<1> QED
    BY <1>1, <1>2, <1>3 DEF Image!LastBegunIsShown

(* handleChunk, open_chunk, Assembly::accept, starting_over and the replay *)
(* guard: whatever the relay loses, delays, repeats, reorders or relabels, *)
(* what the receiver shows is an image some device copied, whole, and no   *)
(* image twice or after a later one of that device; and the last image of  *)
(* which the relay forwarded the first piece is shown once all is through, *)
(* unless something went wrong since, for any number of devices, images    *)
(* and pieces.                                                             *)
THEOREM LastImageIsShown ==
    /\ Image!Spec => []Image!LastBegunIsShown
    /\ MCSpec => []LastBegunIsShown
<1>1. Image!Init => CleanInv
    BY CleanInit, DeviceAssumption
<1>2. CleanInv /\ [Image!Next]_(Image!vars) => CleanInv'
    BY CleanStep, DeviceAssumption
<1>3. CleanInv => Image!LastBegunIsShown
    BY CleanShows, DeviceAssumption
<1>4. Image!Spec => []Image!LastBegunIsShown
    BY <1>1, <1>2, <1>3, PTL DEF Image!Spec
<1>5. MCSpec => []LastBegunIsShown
    <2>1. MCInit => (part = "images" => CleanInv)
        BY <1>1, PartStarts
    <2>2. (part = "images" => CleanInv) /\ [MCNext]_<<part, slots>> => (part = "images" => CleanInv)'
        BY <1>2, PartGoesOn
    <2>3. (part = "images" => CleanInv) => LastBegunIsShown
        BY <1>3 DEF LastBegunIsShown
    <2> QED
        BY <2>1, <2>2, <2>3, PTL DEF MCSpec
<1> QED
    BY <1>4, <1>5

(***************************************************************************)
(* The pacing of connection attempts: however connections end and whatever *)
(* the settings screen asks for meanwhile, the connection loop never dials *)
(* again before the time the relay asked for is over, nor faster than its  *)
(* failures allow.                                                         *)
(***************************************************************************)
Phases == {"start", "address read", "dialing", "handshake", "up", "ended", "waiting", "stopped"}

Pacings == [attempt : Nat, cap : Nat, floor : Nat]

PaceTypes ==
    /\ phase \in Phases
    /\ pacing \in Pacings
    /\ upFor \in Nat
    /\ left \in Nat
    /\ away \in Nat
    /\ fails \in Nat

(* Only an authenticated connection has been up for any time, and one is   *)
(* authenticated only if the relay takes it back.                          *)
UpIsWelcome ==
    /\ phase \in {"dialing", "handshake"} => upFor = 0
    /\ phase = "up" => away = 0

(* The floor of the pacing outlives the attempt it was set for: it covers  *)
(* what is left of the time asked for, however often a person retries.     *)
FloorCovers == away <= pacing.floor

(* Every connection that ended since the last stable one is an attempt.    *)
FailuresCount == phase # "stopped" => pacing.attempt >= fails

(* The wait is at least as long as what the relay asked for.               *)
WaitCovers == phase \in {"ended", "waiting"} => away <= left

PaceInv ==
    /\ PaceTypes
    /\ UpIsWelcome
    /\ FloorCovers
    /\ FailuresCount
    /\ WaitCovers

(* No delay is shorter than the floor.                                     *)
LEMMA DelaysAboveFloor ==
    ASSUME NEW p \in Pacings, NEW d \in Pace!Delays(p)
    PROVE  d \in Nat /\ d >= p.floor
<1>1. PICK jitter \in 0 .. Pace!Interval(p) : d = p.floor + jitter
    BY DEF Pace!Delays
<1>2. jitter \in Nat
    BY <1>1
<1> QED
    BY <1>1, <1>2 DEF Pacings

(* The pacing of every step is one.                                        *)
LEMMA PacingType ==
    ASSUME Pace!SupervisorAssumption, NEW p \in Pacings, NEW lasted, NEW end
    PROVE  /\ Pace!Fresh \in Pacings
           /\ Pace!NoteStable(lasted, p) \in Pacings
           /\ Pace!OnClose(end, p) \in Pacings
           /\ Pace!OnClose(end, p).attempt = p.attempt
           /\ end = "rate close" => Pace!OnClose(end, p).floor = RateCap
           /\ end = "quota close" => Pace!OnClose(end, p).floor = QuotaCap
           /\ end \notin {"rate close", "quota close"} => Pace!OnClose(end, p) = p
<1>1. Pace!Fresh \in Pacings
    BY DEF Pace!SupervisorAssumption, Pace!Fresh, Pacings
<1>2. Pace!NoteStable(lasted, p) \in Pacings
    BY <1>1 DEF Pace!NoteStable
<1>3. CASE end = "rate close"
    BY <1>1, <1>2, <1>3 DEF Pace!OnClose, Pacings, Pace!SupervisorAssumption
<1>4. CASE end = "quota close"
    BY <1>1, <1>2, <1>4 DEF Pace!OnClose, Pacings, Pace!SupervisorAssumption
<1>5. CASE end \notin {"rate close", "quota close"}
    BY <1>1, <1>2, <1>5 DEF Pace!OnClose
<1> QED
    BY <1>3, <1>4, <1>5

(* The loop starts without a debt to the relay.                            *)
LEMMA PaceInit ==
    ASSUME Pace!SupervisorAssumption, Pace!Init
    PROVE  PaceInv
BY DEF Pace!SupervisorAssumption, Pace!Init, PaceInv, PaceTypes, Phases, Pacings, Pace!Fresh,
       UpIsWelcome, FloorCovers, FailuresCount, WaitCovers

(* The end of a connection, where all of it is decided.                    *)
LEMMA PaceEnded ==
    ASSUME Pace!SupervisorAssumption, PaceInv, NEW end \in Pace!Ends, Pace!Ended(end)
    PROVE  PaceInv'
<1>0. PICK q : q = Pace!NoteStable(upFor, pacing)
    OBVIOUS
<1>1. PICK p : p = Pace!OnClose(end, q)
    OBVIOUS
<1>2. q \in Pacings /\ p \in Pacings /\ p.attempt = q.attempt
    BY <1>0, <1>1, PacingType DEF PaceInv, PaceTypes
<1>3. p = Pace!PacingAfter(end)
    BY <1>0, <1>1 DEF Pace!PacingAfter
<1>4. /\ phase \in {"dialing", "handshake", "up"} /\ upFor' = upFor
      /\ phase' = IF Pace!Permanent(end) THEN "stopped" ELSE "ended"
    BY DEF Pace!Ended
<1>5. PICK d \in Pace!Delays(p) : left' = IF Pace!Permanent(end) THEN 0 ELSE d
    BY <1>3 DEF Pace!Ended
<1>6. /\ pacing' \in Pacings
      /\ pacing'.floor = p.floor
      /\ ~Pace!Permanent(end) => pacing'.attempt = Pace!Least(p.attempt + 1, MaxShift)
    <2>1. pacing' = IF Pace!Permanent(end) THEN p
                     ELSE [p EXCEPT !.attempt = Pace!Least(@ + 1, MaxShift)]
        BY <1>3 DEF Pace!Ended
    <2>2. Pace!Least(p.attempt + 1, MaxShift) \in Nat
        BY <1>2 DEF Pace!SupervisorAssumption, Pace!Least, Pacings
    <2> QED
        BY <1>2, <2>1, <2>2 DEF Pacings
<1>7. away' \in Nat /\ away' <= p.floor
    <2>0. RateCap \in Nat /\ QuotaCap \in Nat
        BY DEF Pace!SupervisorAssumption
    <2>1. CASE end = "rate close"
        <3>1. p.floor = RateCap
            BY <1>1, <1>2, <2>1, PacingType
        <3>2. away' = RateCap
            BY <2>1 DEF Pace!Ended
        <3> QED
            BY <2>0, <3>1, <3>2
    <2>2. CASE end = "quota close"
        <3>1. p.floor = QuotaCap
            BY <1>1, <1>2, <2>2, PacingType
        <3>2. away' = QuotaCap
            BY <2>2 DEF Pace!Ended
        <3> QED
            BY <2>0, <3>1, <3>2
    <2>3. CASE end \notin {"rate close", "quota close"}
        <3>1. p = q
            BY <1>1, <1>2, <2>3, PacingType
        <3>2. away' = away
            BY <2>3 DEF Pace!Ended
        <3>3. CASE upFor > Stable
            <4>1. phase = "up"
                BY <1>4, <3>3 DEF PaceInv, UpIsWelcome, Pace!SupervisorAssumption
            <4>2. away = 0
                BY <4>1 DEF PaceInv, UpIsWelcome
            <4> QED
                BY <1>2, <3>2, <4>2 DEF Pacings
        <3>4. CASE ~(upFor > Stable)
            BY <1>0, <3>1, <3>2, <3>4 DEF PaceInv, PaceTypes, FloorCovers, Pace!NoteStable
        <3> QED
            BY <3>3, <3>4
    <2> QED
        BY <2>1, <2>2, <2>3
<1>8. left' \in Nat /\ (~Pace!Permanent(end) => p.floor <= left')
    <2>1. d \in Nat /\ d >= p.floor
        BY <1>2, <1>5, DelaysAboveFloor
    <2>2. p.floor \in Nat
        BY <1>2 DEF Pacings
    <2> QED
        BY <1>5, <2>1, <2>2
<1>9. fails' \in Nat /\ (~Pace!Permanent(end) => pacing'.attempt >= fails')
    <2>1. fails' = IF upFor > Stable THEN 1 ELSE Pace!Least(fails + 1, MaxShift)
        BY DEF Pace!Ended
    <2>2. CASE upFor > Stable
        <3>1. q = Pace!Fresh
            BY <1>0, <2>2 DEF Pace!NoteStable
        <3>2. p.attempt = 0
            BY <1>2, <3>1 DEF Pace!Fresh
        <3>3. Pace!Least(0 + 1, MaxShift) = 1
            BY DEF Pace!Least, Pace!SupervisorAssumption
        <3> QED
            BY <1>6, <2>1, <2>2, <3>2, <3>3
    <2>3. CASE ~(upFor > Stable)
        <3>1. q = pacing
            BY <1>0, <2>3 DEF Pace!NoteStable
        <3>2. p.attempt \in Nat /\ p.attempt >= fails
            BY <1>2, <1>4, <3>1 DEF PaceInv, PaceTypes, Pacings, FailuresCount
        <3>3. fails' = Pace!Least(fails + 1, MaxShift)
            BY <2>1, <2>3
        <3> QED
            BY <1>6, <3>2, <3>3 DEF PaceInv, PaceTypes, Pace!SupervisorAssumption, Pace!Least
    <2> QED
        BY <2>2, <2>3
<1>10. PaceTypes'
    BY <1>4, <1>6, <1>7, <1>8, <1>9 DEF PaceInv, PaceTypes, Phases
<1>11. UpIsWelcome' /\ FloorCovers' /\ FailuresCount'
    BY <1>4, <1>6, <1>7, <1>9 DEF UpIsWelcome, FloorCovers, FailuresCount
<1>12. WaitCovers'
    <2>1. p.floor \in Nat
        BY <1>2 DEF Pacings
    <2> QED
        BY <1>4, <1>7, <1>8, <2>1 DEF WaitCovers
<1> QED
    BY <1>10, <1>11, <1>12 DEF PaceInv

(* Time passes for the loop and for the relay alike.                       *)
LEMMA PaceTick ==
    ASSUME Pace!SupervisorAssumption, PaceInv, Pace!Tick
    PROVE  PaceInv'
<1>1. PaceTypes'
    BY DEF Pace!SupervisorAssumption, PaceInv, PaceTypes, Pace!Tick, Pace!Least
<1>2. UpIsWelcome' /\ FailuresCount'
    BY DEF PaceInv, PaceTypes, UpIsWelcome, FailuresCount, Pace!Tick
<1>3. FloorCovers'
    BY DEF PaceInv, PaceTypes, Pacings, FloorCovers, Pace!Tick
<1>4. WaitCovers'
    BY DEF PaceInv, PaceTypes, WaitCovers, Pace!Tick
<1> QED
    BY <1>1, <1>2, <1>3, <1>4 DEF PaceInv

(* Every step keeps the invariant.                                         *)
LEMMA PaceStep ==
    ASSUME Pace!SupervisorAssumption, PaceInv, [Pace!Next]_(Pace!vars)
    PROVE  PaceInv'
<1>0. 0 <= pacing.floor
    BY DEF PaceInv, PaceTypes, Pacings
<1> USE DEF PaceInv, PaceTypes, Phases, UpIsWelcome, FloorCovers, FailuresCount, WaitCovers,
            Pace!settings
<1>1. ASSUME Pace!ReadAddress PROVE PaceInv'
    BY <1>1 DEF Pace!ReadAddress
<1>2. ASSUME Pace!Dial PROVE PaceInv'
    BY <1>2 DEF Pace!Dial
<1>3. ASSUME NEW end \in Pace!Ends, Pace!Ended(end) PROVE PaceInv'
    BY <1>3, PaceEnded
<1>4. ASSUME Pace!AddressChanged PROVE PaceInv'
    BY <1>4, PaceEnded DEF Pace!AddressChanged, Pace!Ends
<1>5. ASSUME Pace!StartWait PROVE PaceInv'
    BY <1>5 DEF Pace!StartWait
<1>6. ASSUME Pace!Wake PROVE PaceInv'
    BY <1>6 DEF Pace!Wake
<1>7. ASSUME Pace!SocketOpen PROVE PaceInv'
    BY <1>7 DEF Pace!SocketOpen
<1>8. ASSUME Pace!Authenticated PROVE PaceInv'
    BY <1>0, <1>8 DEF Pace!Authenticated
<1>9. ASSUME Pace!RelayError PROVE PaceInv'
    BY <1>9 DEF Pace!RelayError
<1>10. ASSUME Pace!SaveAddress \/ Pace!RaiseReconnect \/ Pace!RetryNow PROVE PaceInv'
    BY <1>10 DEF Pace!SaveAddress, Pace!RaiseReconnect, Pace!RetryNow
<1>11. ASSUME Pace!Tick PROVE PaceInv'
    BY <1>11, PaceTick
<1>12. ASSUME UNCHANGED Pace!vars PROVE PaceInv'
    BY <1>12 DEF Pace!vars
<1> QED
    BY <1>1, <1>2, <1>3, <1>4, <1>5, <1>6, <1>7, <1>8, <1>9, <1>10, <1>11, <1>12
     DEF Pace!Next, Pace!Loop

(* Only a wait that ran out, or a person, begins a new attempt.            *)
LEMMA StepInTime ==
    ASSUME PaceInv, [Pace!Next]_(Pace!vars)
    PROVE  Pace!InTime
<1> SUFFICES ASSUME phase # "start", phase' = "start", ~reconnect
             PROVE  away = 0 /\ pacing.attempt >= fails
    BY DEF Pace!InTime
<1>1. phase = "waiting" /\ left = 0
    <2>1. ASSUME NEW end \in Pace!Ends, Pace!Ended(end) PROVE FALSE
        BY <2>1 DEF Pace!Ended
    <2>2. ASSUME Pace!AddressChanged PROVE FALSE
        BY <2>2 DEF Pace!AddressChanged
    <2>3. ASSUME Pace!Wake PROVE phase = "waiting" /\ left = 0
        BY <2>3 DEF Pace!Wake
    <2>4. ASSUME Pace!ReadAddress \/ Pace!Dial \/ Pace!SocketOpen \/ Pace!Authenticated PROVE FALSE
        BY <2>4 DEF Pace!ReadAddress, Pace!Dial, Pace!SocketOpen, Pace!Authenticated
    <2>5. ASSUME Pace!StartWait PROVE FALSE
        BY <2>5 DEF Pace!StartWait
    <2>6. ASSUME Pace!RelayError \/ Pace!SaveAddress \/ Pace!RaiseReconnect \/ Pace!RetryNow
                 \/ Pace!Tick
          PROVE  FALSE
        BY <2>6 DEF Pace!RelayError, Pace!SaveAddress, Pace!RaiseReconnect, Pace!RetryNow, Pace!Tick
    <2> QED
        BY <2>1, <2>2, <2>3, <2>4, <2>5, <2>6 DEF Pace!Next, Pace!Loop, Pace!vars
<1> QED
    BY <1>1 DEF PaceInv, PaceTypes, WaitCovers, FailuresCount

(* No attempt comes too soon, whatever the intervals and caps of backoff.rs *)
(* are and however long the loop runs.                                     *)
THEOREM AttemptsInTime ==
    /\ Pace!Spec => Pace!NeverTooSoon
    /\ MCSpec => NeverTooSoon
<1>1. Pace!Init => PaceInv
    BY PaceInit, DeviceAssumption
<1>2. PaceInv /\ [Pace!Next]_(Pace!vars) => PaceInv'
    BY PaceStep, DeviceAssumption
<1>3. PaceInv /\ [Pace!Next]_(Pace!vars) => [Pace!InTime]_(Pace!vars)
    BY StepInTime, DeviceAssumption
<1>4. Pace!Spec => Pace!NeverTooSoon
    BY <1>1, <1>2, <1>3, PTL DEF Pace!Spec, Pace!NeverTooSoon
<1>5. MCSpec => NeverTooSoon
    <2>1. MCInit => (part = "supervisor" => PaceInv)
        BY <1>1, PartStarts
    <2>2. (part = "supervisor" => PaceInv) /\ [MCNext]_<<part, slots>> => (part = "supervisor" => PaceInv)'
        BY <1>2, PartGoesOn
    <2>3. (part = "supervisor" => PaceInv) /\ [MCNext]_<<part, slots>>
              => (part = "supervisor" => Pace!InTime)
        BY StepInTime, PartGoesOn
    <2> QED
        BY <2>1, <2>2, <2>3, PTL DEF MCSpec, NeverTooSoon
<1> QED
    BY <1>4, <1>5

=============================================================================
