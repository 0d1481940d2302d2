------------------------------ MODULE Instance ------------------------------
(***************************************************************************)
(* The processes that share one configuration directory: launches of Asli, *)
(* of which one holds the lock of instance.rs and runs, replacements of a  *)
(* process that restarts itself, and commands typed in a terminal, which   *)
(* leave what they ask for in a file the running Asli looks at every half  *)
(* second (cli.rs, spawn_rekey_watch in daemon.rs).                        *)
(*                                                                         *)
(* A file is written through a rename and so changes in one step.          *)
(***************************************************************************)
EXTENDS Naturals, FiniteSets

CONSTANTS
    Launches,       \* processes running `asli tray` or `asli run`
    Transfers,      \* commands that leave a TransferRequest
    Rekeys,         \* commands that leave a RekeyRequest
    None,
    Together,       \* whether commands may run at the same time
    MaxRestarts     \* times a process replaces itself

VARIABLES
    unix,       \* whether a process replaces itself with exec
    lock,       \* who holds asli.lock
    launch,     \* where each launch is
    again,      \* launches that are replacements (RESTART_ENV)
    command,    \* where each command is
    file,       \* the request each file holds
    read,       \* the request read from each file and not yet removed
    restarts

vars == <<unix, lock, launch, again, command, file, read, restarts>>

Askers == Transfers \cup Rekeys

InstanceAssumption == None \notin Launches \cup Askers /\ Launches \cap Askers = {}

Files == {"transfer", "rekey"}
FileOf(c) == IF c \in Transfers THEN "transfer" ELSE "rekey"

Init ==
    /\ unix \in BOOLEAN
    /\ lock = None
    /\ launch = [p \in Launches |-> "new"]
    /\ again = {}
    /\ command = [c \in Askers |-> "new"]
    /\ file = [f \in Files |-> None]
    /\ read = [f \in Files |-> None]
    /\ restarts = 0

commands == <<command, file, read>>

Running(p) == launch[p] \in {"running", "leaving"}
Goes(p, to) == launch' = [launch EXCEPT ![p] = to]
-----------------------------------------------------------------------------
(* Launching, as often as somebody clicks the icon.                        *)
Launch(p) ==
    /\ launch[p] = "new"
    /\ Goes(p, "claiming")
    /\ UNCHANGED <<unix, lock, again, commands, restarts>>

(* claim.  Who is no replacement is not kept waiting by a held lock, and   *)
(* ends quietly; a replacement waits, longer than its predecessor takes to *)
(* exit, and ends only when the lock is in other hands.                    *)
Claim(p) ==
    /\ launch[p] = "claiming" /\ lock = None
    /\ lock' = p
    /\ Goes(p, "starting")
    /\ UNCHANGED <<unix, again, commands, restarts>>

Leaving(q) == q \in Launches /\ launch[q] = "exiting"

(* A mistake: a replacement tries once.                                    *)
NoPatience(p) == FALSE

Patient(p) == p \in again /\ (Leaving(lock) \/ lock \in Askers)

AlreadyRunning(p) ==
    /\ launch[p] = "claiming" /\ lock # None /\ ~Patient(p)
    /\ Goes(p, "turned away")
    /\ UNCHANGED <<unix, lock, again, commands, restarts>>

(* run up to spawn_rekey_watch, which removes what was left over.          *)
StartWatch(p) ==
    /\ launch[p] = "starting"
    /\ Goes(p, "running")
    /\ file' = [f \in Files |-> None]
    /\ UNCHANGED <<unix, lock, again, command, read, restarts>>

(* The process ends, however it ends, and the system lets go of its lock.  *)
Quit(p) ==
    /\ launch[p] \in {"claiming", "starting", "running", "leaving", "exiting"}
    /\ Goes(p, "gone")
    /\ lock' = IF lock = p THEN None ELSE lock
    /\ read' = IF lock = p THEN [f \in Files |-> None] ELSE read
    /\ UNCHANGED <<unix, again, command, file, restarts>>

(* forget_account_files, before the restart that ends leaving an account:  *)
(* what commands have left goes, read or not.                              *)
ForgetFiles(p) ==
    /\ launch[p] = "running" /\ restarts < MaxRestarts
    /\ Goes(p, "leaving")
    /\ file' = [f \in Files |-> None]
    /\ UNCHANGED <<unix, lock, again, command, read, restarts>>

(* restart_self, after an account was created, joined, left or rekeyed:    *)
(* exec where there is one, which lets go of the lock before the new image *)
(* runs; else a new process, started while this one is on its way out.     *)
Restart(p) ==
    /\ Running(p) /\ restarts < MaxRestarts
    /\ restarts' = restarts + 1
    /\ read' = [f \in Files |-> None]
    /\ \/ /\ unix
          /\ Goes(p, "claiming")
          /\ lock' = None
          /\ again' = again \cup {p}
       \/ /\ ~unix
          /\ \E q \in Launches :
               /\ launch[q] = "new"
               /\ launch' = [launch EXCEPT ![p] = "exiting", ![q] = "claiming"]
               /\ again' = again \cup {q}
          /\ UNCHANGED lock
    /\ UNCHANGED <<unix, command, file>>
-----------------------------------------------------------------------------
(* The watch: reads a file, removes it and acts on what it read            *)
(* (act_on_transfer_request, replace_key).                                 *)
ReadRequest(p, f) ==
    /\ Running(p) /\ file[f] # None /\ read[f] = None
    /\ read' = [read EXCEPT ![f] = file[f]]
    /\ UNCHANGED <<unix, lock, launch, again, command, file, restarts>>

ActOn(p, f) ==
    /\ Running(p) /\ read[f] # None
    /\ file' = [file EXCEPT ![f] = None]
    /\ read' = [read EXCEPT ![f] = None]
    /\ UNCHANGED <<unix, lock, launch, again, command, restarts>>
-----------------------------------------------------------------------------
(* A command.  is_running takes the lock for a moment to find out.         *)
Step(c, to) == command' = [command EXCEPT ![c] = to]

Begin(c) ==
    /\ command[c] = "new"
    /\ Together \/ \A d \in Askers : command[d] \in {"new", "left", "refused"}
    /\ Step(c, "asking")
    /\ UNCHANGED <<unix, lock, launch, again, file, read, restarts>>

IsRunning(c) ==
    /\ command[c] = "asking"
    /\ IF lock = None
       THEN lock' = c /\ Step(c, "unlocking")
       ELSE UNCHANGED lock /\ Step(c, "waiting")
    /\ UNCHANGED <<unix, launch, again, file, read, restarts>>

Unlock(c) ==
    /\ command[c] = "unlocking"
    /\ lock' = None
    /\ Step(c, "refused")
    /\ UNCHANGED <<unix, launch, again, file, read, restarts>>

(* request_transfer waits for the last request to be picked up;            *)
(* request_rekey does not.                                                 *)
(* A mistake: it does not look whether one is waiting.                     *)
SlotAnyhow(c) == TRUE

Slot(c) == c \in Transfers => file[FileOf(c)] = None

SeesSlot(c) ==
    /\ command[c] = "waiting" /\ Slot(c)
    /\ Step(c, "writing")
    /\ UNCHANGED <<unix, lock, launch, again, file, read, restarts>>

GivesUp(c) ==
    /\ command[c] = "waiting" /\ ~Slot(c)
    /\ Step(c, "refused")
    /\ UNCHANGED <<unix, lock, launch, again, file, read, restarts>>

LeaveRequest(c) ==
    /\ command[c] = "writing"
    /\ file' = [file EXCEPT ![FileOf(c)] = c]
    /\ Step(c, "left")
    /\ UNCHANGED <<unix, lock, launch, again, read, restarts>>
-----------------------------------------------------------------------------
Starting(p) == Claim(p) \/ AlreadyRunning(p) \/ StartWatch(p)
Command(c) == IsRunning(c) \/ Unlock(c) \/ SeesSlot(c) \/ GivesUp(c) \/ LeaveRequest(c)

Next ==
    \/ \E p \in Launches :
        \/ Launch(p) \/ Starting(p) \/ Quit(p) \/ ForgetFiles(p) \/ Restart(p)
        \/ \E f \in Files : ReadRequest(p, f) \/ ActOn(p, f)
    \/ \E c \in Askers : Begin(c) \/ Command(c)

(* A launch runs on, one that is on its way out gets there, and a command  *)
(* gives the lock straight back.                                           *)
Fairness ==
    /\ \A p \in Launches :
        WF_vars(Starting(p)) /\ WF_vars(launch[p] = "exiting" /\ Quit(p))
    /\ WF_vars(\E c \in Askers : Unlock(c))

Spec == Init /\ [][Next]_vars /\ Fairness
-----------------------------------------------------------------------------
(* A transfer request the terminal reported as left for the running Asli   *)
(* is read by it: nothing takes it from the file unread but the next       *)
(* start and the leaving of the account, by when nobody waits for it       *)
(* ("writing over one it has not read yet would lose it").  Commands come  *)
(* one after the other here.                                               *)
TakenOnlyRead(f) ==
    file[f] # None /\ file'[f] # file[f] =>
        \/ read[f] = file[f]
        \/ \E p \in Launches : launch[p] = "starting" /\ launch'[p] = "running"
        \/ \E p \in Launches : launch'[p] = "leaving"
TransferKept == TakenOnlyRead("transfer")
NoTransferLost == [][TransferKept]_vars

(* The process that replaces this one comes up, although it starts while   *)
(* the lock is still held: Asli runs again after every restart, unless     *)
(* somebody quits it (RESTART_ENV).                                        *)
Replacing == \E p \in again : launch[p] = "claiming"
UpAgain ==
    \/ \E p \in again : launch[p] = "gone"
    \/ \E q \in Launches : launch[q] \in {"starting", "running", "leaving"}
ComesBack == Replacing ~> UpAgain

-----------------------------------------------------------------------------
(* What is said of the code and not kept by it: TLC refutes each of these  *)
(* (README, "Where the words and the code part").                          *)

(* A launch ends as "already running" only when an Asli is: "there is no   *)
(* stale pid to detect and no race between checking and claiming".         *)
StartsWhenAlone ==
    [][\A p \in Launches : AlreadyRunning(p) => lock \in Launches]_vars

(* "Picks up a key change or a file transfer asked for from the command    *)
(* line and carries it out": the same for a key change.                    *)
NoRekeyLost == [][TakenOnlyRead("rekey")]_vars
=============================================================================
