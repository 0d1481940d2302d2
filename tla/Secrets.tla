------------------------------ MODULE Secrets -------------------------------
(***************************************************************************)
(* Where the account key and this device's own key are kept: the keychain  *)
(* when there is one, a file otherwise (secrets.rs).  The keychain locks   *)
(* and unlocks and its service comes and goes on its own, and the process  *)
(* may be killed between any two steps.                                    *)
(*                                                                         *)
(* A value is an account key and a device key, None in an entry written    *)
(* before there were device keys.  Decoding is the identity on what        *)
(* encoding wrote.                                                         *)
(***************************************************************************)
EXTENDS Naturals

CONSTANTS
    MaxAccounts,    \* accounts this device joins, and key changes
    MaxDrawn,       \* device keys it draws
    Vanishes,       \* whether a keychain that was there may be gone for a while
    Locked,         \* the error load reports of a locked keychain
    Zeroed,         \* a file of zeros, and the error load reports of it
    None

(* An account key by its number, and the device key kept with it. *)
Values == [account : Nat, device : Nat \cup {None}]

SecretsAssumption ==
    /\ MaxAccounts \in Nat \ {0} /\ MaxDrawn \in Nat
    /\ None \notin Nat /\ None \notin Values
    /\ Zeroed \notin Values \cup {None, Locked}

VARIABLES
    keychain,   \* "open", "locked" or "absent"
    entry,      \* the keychain's entry
    file,       \* secret_file
    tmp,        \* the temporary file beside it
    job,        \* the operation under way and its next step
    used,       \* account keys used so far
    current,    \* the value last reported stored, None once it was reported forgotten
    doubt,      \* what an operation that did not finish may have left
    stray,      \* whether an old file may be left: after a "crash", or as the person was "told"
    drawn,      \* device keys drawn so far
    pinned      \* per account, the device key the other devices have pinned

vars == <<keychain, entry, file, tmp, job, used, current, doubt, stray, drawn, pinned>>

disk == <<entry, file, tmp>>

Idle == [step |-> "idle", value |-> None]

Init ==
    /\ keychain \in {"open", "absent"}
    /\ \E value \in {None, [account |-> 1, device |-> None]} :
        /\ entry = IF keychain = "open" THEN value ELSE None
        /\ file = IF keychain = "open" THEN None ELSE value
        /\ current = value
        /\ used = IF value = None THEN 0 ELSE 1
    /\ tmp = None
    /\ job = Idle
    /\ doubt = {}
    /\ stray = "no"
    /\ drawn = 0
    /\ pinned = [a \in 1 .. MaxAccounts |-> None]

(* load: the keychain first; a locked one may hold a key, so that the file *)
(* is tried and its absence is an error.  A file that does not decode is   *)
(* an error too.                                                           *)
Loaded ==
    IF keychain = "open" /\ entry # None THEN entry
    ELSE IF file # None THEN file
    ELSE IF keychain = "locked" THEN Locked ELSE None

HasKeys == Loaded \notin {None, Locked, Zeroed}
-----------------------------------------------------------------------------
Start(step, value) ==
    /\ job = Idle
    /\ job' = [step |-> step, value |-> value]
    /\ UNCHANGED doubt

Done(value) ==
    /\ job' = Idle
    /\ current' = value
    /\ doubt' = {}

(* The operation returns an error before it has changed anything,          *)
Refused ==
    /\ job' = Idle
    /\ UNCHANGED <<current, doubt>>

(* or when it may have.                                                    *)
Failed ==
    /\ job' = Idle
    /\ doubt' = doubt \cup {job.value}
    /\ UNCHANGED current

Draw == drawn < MaxDrawn /\ drawn' = drawn + 1

(* Joining an account draws a device key.                                  *)
Join ==
    /\ used < MaxAccounts /\ Draw
    /\ used' = used + 1
    /\ Start("keychain", [account |-> used', device |-> drawn'])
    /\ UNCHANGED <<keychain, disk, current, stray, pinned>>

(* A key change keeps the device key: the others know it.                  *)
ReplaceKey ==
    /\ used < MaxAccounts
    /\ HasKeys
    /\ pinned[Loaded.account] # None
    /\ used' = used + 1
    /\ Start("keychain", [account |-> used', device |-> pinned[Loaded.account]])
    /\ pinned' = [pinned EXCEPT ![used'] = pinned[Loaded.account]]
    /\ UNCHANGED <<keychain, disk, current, stray, drawn>>

(* A mistake: the new device key is used without being stored.             *)
LoadAccountUnstored ==
    /\ job = Idle
    /\ HasKeys
    /\ IF Loaded.device # None
       THEN /\ pinned' = [pinned EXCEPT ![Loaded.account] = Loaded.device]
            /\ UNCHANGED drawn
       ELSE /\ Draw
            /\ pinned' = [pinned EXCEPT ![Loaded.account] = drawn']
    /\ UNCHANGED <<keychain, disk, job, used, current, doubt, stray>>

(* load_account: an install from before device keys is given one, which is *)
(* stored before it is used.                                               *)
LoadAccount ==
    /\ job = Idle
    /\ HasKeys
    /\ IF Loaded.device # None
       THEN /\ pinned' = [pinned EXCEPT ![Loaded.account] = Loaded.device]
            /\ UNCHANGED <<job, doubt, drawn>>
       ELSE /\ Draw
            /\ Start("keychain", [Loaded EXCEPT !.device = drawn'])
            /\ UNCHANGED pinned
    /\ UNCHANGED <<keychain, disk, used, current, stray>>

Wipe ==
    /\ Start("delete", None)
    /\ UNCHANGED <<keychain, disk, used, current, stray, drawn, pinned>>

(* A mistake: a locked keychain is passed over like a missing one.         *)
SetPasswordOrFile ==
    /\ job.step = "keychain"
    /\ IF keychain = "open"
       THEN entry' = job.value /\ job' = [job EXCEPT !.step = "shred"]
       ELSE job' = [job EXCEPT !.step = "write"] /\ UNCHANGED entry
    /\ UNCHANGED <<keychain, file, tmp, used, current, doubt, stray, drawn, pinned>>

(* set_password.  A keychain that is there but locked is not bypassed; one *)
(* that does not answer is.                                                *)
SetPassword ==
    /\ job.step = "keychain"
    /\ \/ /\ keychain = "open"
          /\ entry' = job.value
          /\ job' = [job EXCEPT !.step = "shred"]
          /\ UNCHANGED <<current, doubt>>
       \/ /\ keychain = "locked"
          /\ Refused
          /\ UNCHANGED entry
       \/ /\ keychain = "absent"
          /\ job' = [job EXCEPT !.step = "write"]
          /\ UNCHANGED <<entry, current, doubt>>
    /\ UNCHANGED <<keychain, file, tmp, used, stray, drawn, pinned>>

(* delete_credential; no keychain counts as nothing there.                 *)
DeleteCredential ==
    /\ job.step = "delete"
    /\ \/ /\ keychain = "locked"
          /\ Refused
          /\ UNCHANGED entry
       \/ /\ keychain # "locked"
          /\ entry' = IF keychain = "open" THEN None ELSE entry
          /\ job' = [job EXCEPT !.step = "forget"]
          /\ UNCHANGED <<current, doubt>>
    /\ UNCHANGED <<keychain, file, tmp, used, stray, drawn, pinned>>

(* shred_secret_file overwrites the file, whether or not it can,           *)
Shred ==
    /\ job.step \in {"shred", "forget"}
    /\ \/ file = None /\ Done(job.value) /\ UNCHANGED file
       \/ /\ file # None
          /\ file' \in {file, Zeroed}
          /\ job' = [job EXCEPT !.step = "unlink"]
          /\ UNCHANGED <<current, doubt>>
    /\ UNCHANGED <<keychain, entry, tmp, used, stray, drawn, pinned>>

(* and removes it.  Failing to is reported to the person, after storing as *)
(* a warning and after forgetting as an error.                             *)
Unlink ==
    /\ job.step = "unlink"
    /\ \/ file' = None /\ UNCHANGED stray
       \/ UNCHANGED file /\ stray' = "told"
    /\ Done(job.value)
    /\ UNCHANGED <<keychain, entry, tmp, used, drawn, pinned>>

(* write_secret_file: a temporary file, renamed over the target.           *)
WriteSecretFile ==
    /\ job.step = "write"
    /\ \/ /\ tmp' = job.value
          /\ job' = [job EXCEPT !.step = "rename"]
          /\ UNCHANGED <<current, doubt>>
       \/ UNCHANGED tmp /\ Refused
    /\ UNCHANGED <<keychain, entry, file, used, stray, drawn, pinned>>

Rename ==
    /\ job.step = "rename"
    /\ \/ file' = tmp /\ tmp' = None /\ Done(job.value)
       \/ UNCHANGED <<file, tmp>> /\ Refused
       \/ file' = tmp /\ tmp' = None /\ Failed       \* its permissions cannot be set
    /\ UNCHANGED <<keychain, entry, used, stray, drawn, pinned>>

(* The process is killed: what it was doing may or may not have happened.  *)
Crash ==
    /\ job # Idle
    /\ Failed
    /\ stray' = IF job.step \in {"shred", "forget", "unlink"} /\ stray = "no" THEN "crash" ELSE stray
    /\ UNCHANGED <<keychain, disk, used, drawn, pinned>>

(* The session's keychain locks, unlocks, starts, and stops.               *)
Keychain ==
    /\ keychain' \in {"open", "locked", "absent"} \ {keychain}
    /\ keychain' = "absent" => Vanishes
    /\ UNCHANGED <<disk, job, used, current, doubt, stray, drawn, pinned>>

Next ==
    \/ Join \/ ReplaceKey \/ LoadAccount \/ Wipe
    \/ SetPassword \/ DeleteCredential \/ Shred \/ Unlink \/ WriteSecretFile \/ Rename
    \/ Crash \/ Keychain

Spec == Init /\ [][Next]_vars

-----------------------------------------------------------------------------
(* A start uses the keys last stored, or finds none once they were         *)
(* forgotten, or says that the keychain is locked; it never uses keys that *)
(* were replaced, and a crash or an error in the middle leaves the old     *)
(* ones or the new ones (store, load, wipe, write_secret_file).  The one   *)
(* crash that may leave neither is that of a process dropping a file of    *)
(* keys: what it overwrote and did not remove is an error to the starts    *)
(* that come to read it, until the next store or wipe.                     *)
LoadsLatest ==
    job = Idle /\ stray # "told" =>
        Loaded \in {current, Locked} \cup doubt \cup {e \in {Zeroed} : stray = "crash"}

(* The device key the others pinned is the one every later start uses, as  *)
(* long as no crash and no error has left a file of old keys behind, which *)
(* a start may read where the keychain does not answer (load_account).     *)
PinKept == stray = "no" => \A a \in 1 .. MaxAccounts : pinned[a] \in {None, pinned'[a]}
DeviceKeyKept == [][PinKept]_vars

-----------------------------------------------------------------------------
(* What is said of the code and not kept by it: TLC refutes each of these  *)
(* (README, "Where the words and the code part").                          *)

(* No start would "silently use the old account", one that was replaced or *)
(* forgotten.                                                              *)
NeverTheOldAccount ==
    job = Idle /\ stray # "told" => Loaded \in {None, Locked, Zeroed, current} \cup doubt

(* The key file "is either the old contents or the new ones"               *)
(* (secrets.rs:307-308): while it is being dropped it is zeros as well.    *)
FileIsOldOrNew == job = Idle => file # Zeroed
=============================================================================
