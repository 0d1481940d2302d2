------------------------------ MODULE Settings ------------------------------
(***************************************************************************)
(* config.json: read, changed and written back by the window's thread, by  *)
(* the daemon's when the account's key changes, and by commands in a       *)
(* terminal, each a process of its own (load_config, save_config and       *)
(* write_atomically in config.rs, and their callers).                      *)
(*                                                                         *)
(* A file is an inode and what it holds.  Writers of one temporary file    *)
(* may have it open together: each writes from its start, and goes on      *)
(* writing to it after somebody renamed it.                                *)
(***************************************************************************)
EXTENDS Naturals, FiniteSets

CONSTANTS
    Threads,        \* of the running Asli, subset of {"window", "daemon"}
    Commands,       \* processes of a terminal
    None,
    Empty,          \* what a file just created holds
    Torn,           \* what two writers left of each other's text
    MaxSaves

(* A configuration: for the settings a person chooses, and for what        *)
(* belongs to the account, the number of the save that set it.             *)
Fields == {"settings", "account"}

Configs == [Fields -> Nat]

Files == [inode : Nat, holds : Configs \cup {Empty, Torn}]

ASSUME SettingsAssumption ==
    /\ IsFiniteSet(Threads \cup Commands)
    /\ Empty \notin Configs /\ Torn \notin Configs
    /\ None \notin Files
    /\ MaxSaves \in Nat

VARIABLES
    conf,       \* config.json
    tmp,        \* config.tmp, or None
    at,         \* where each writer is
    held,       \* the configuration it holds
    open,       \* the inode it has open
    writing,    \* the processes that hold their mutex WRITING
    saves       \* saves begun

vars == <<conf, tmp, at, held, open, writing, saves>>

Writers == Threads \cup Commands
Process(w) == IF w \in Threads THEN "asli" ELSE w

First == [f \in Fields |-> 0]

(* What apply, save_settings, create and autostart_command change, and     *)
(* what move_to_new_key, finish_join and join do.                          *)
Sets(w) == IF w = "window" THEN {"settings"} ELSE IF w = "daemon" THEN {"account"} ELSE Fields

Init ==
    /\ conf = [inode |-> 0, holds |-> First]
    /\ tmp = None
    /\ at = [w \in Writers |-> "idle"]
    /\ held = [w \in Writers |-> None]
    /\ open = [w \in Writers |-> 0]
    /\ writing = {}
    /\ saves = 0

Goes(w, to) == at' = [at EXCEPT ![w] = to]
-----------------------------------------------------------------------------
(* load_config and the change; what does not parse is refused.  A command  *)
(* that joins an account does this minutes before it saves.                *)
Load(w) ==
    /\ at[w] = "idle" /\ saves < MaxSaves
    /\ conf.holds \notin {Empty, Torn}
    /\ saves' = saves + 1
    /\ \E f \in Sets(w) : held' = [held EXCEPT ![w] = [conf.holds EXCEPT ![f] = saves + 1]]
    /\ Goes(w, "loaded")
    /\ UNCHANGED <<conf, tmp, open, writing>>

(* A mistake: nothing keeps two threads apart.                             *)
LockNothing(w) == TRUE

(* WRITING: one writer at a time, of this process.                         *)
MayWrite(w) == Process(w) \notin writing

(* An inode that no name and no writer refers to.                          *)
Unused == CHOOSE i \in 0 .. Cardinality(Writers) + 1 : i # conf.inode /\ \A w \in Writers : i # open[w]

(* create_private: opened and truncated if it is there.                    *)
Create(w) ==
    /\ at[w] = "loaded" /\ MayWrite(w)
    /\ writing' = writing \cup {Process(w)}
    /\ LET inode == IF tmp = None THEN Unused ELSE tmp.inode IN
        /\ tmp' = [inode |-> inode, holds |-> Empty]
        /\ open' = [open EXCEPT ![w] = inode]
    /\ Goes(w, "created")
    /\ UNCHANGED <<conf, held, saves>>

(* write_all and sync_all, into whatever the file is called by now.        *)
Wrote(file, w) ==
    IF file = None \/ file.inode # open[w] THEN {file}
    ELSE {[file EXCEPT !.holds = x] :
            x \in {held[w]} \cup (IF file.holds = Empty THEN {} ELSE {Torn})}

WriteAll(w) ==
    /\ at[w] = "created"
    /\ tmp' \in Wrote(tmp, w)
    /\ conf' \in Wrote(conf, w)
    /\ Goes(w, "written")
    /\ UNCHANGED <<held, open, writing, saves>>

(* rename; when the name is gone by then the save is reported as failed.   *)
Rename(w) ==
    /\ at[w] = "written"
    /\ writing' = writing \ {Process(w)}
    /\ IF tmp = None THEN UNCHANGED <<conf, tmp>>
       ELSE /\ conf' = tmp
            /\ tmp' = None
    /\ Goes(w, "idle")
    /\ held' = [held EXCEPT ![w] = None]
    /\ UNCHANGED <<open, saves>>

(* The process ends at any point, and starts again.                        *)
Crash(p) ==
    /\ \E w \in Writers : Process(w) = p /\ at[w] # "idle"
    /\ at' = [w \in Writers |-> IF Process(w) = p THEN "idle" ELSE at[w]]
    /\ held' = [w \in Writers |-> IF Process(w) = p THEN None ELSE held[w]]
    /\ writing' = writing \ {p}
    /\ UNCHANGED <<conf, tmp, open, saves>>

Next ==
    \/ \E w \in Writers : Load(w) \/ Create(w) \/ WriteAll(w) \/ Rename(w)
    \/ \E p \in {"asli"} \cup Commands : Crash(p)

Spec == Init /\ [][Next]_vars
-----------------------------------------------------------------------------
(* Threads of one Asli, crashing at any point, keep the promise of a file  *)
(* written whole: config.json always holds a whole configuration, and      *)
(* changes only to one a thread has finished writing.                      *)
Whole == INSTANCE Register WITH
    value <- conf.holds,
    offered <- {held[w] : w \in {v \in Writers : at[v] = "written"}}
WholeConfigs == Whole!Spec

-----------------------------------------------------------------------------
(* What is said of the code and not kept by it: TLC refutes each of these  *)
(* (README, "Where the words and the code part").                          *)

(* "With one shared temporary name they could interleave into an empty     *)
(* file, which then stops the daemon starting": it always parses.          *)
AlwaysParses == conf.holds \notin {Empty, Torn}

(* "Reads, changes and writes the configuration, reporting a failure       *)
(* rather than losing it": a setting saved stays until it is set again.    *)
SettingsKept ==
    [][conf.holds \notin {Empty, Torn} /\ conf'.holds \notin {Empty, Torn}
        => \A f \in Fields : conf'.holds[f] >= conf.holds[f]]_vars
=============================================================================
