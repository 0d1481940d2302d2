------------------------------ MODULE History -------------------------------
(***************************************************************************)
(* The clipboard history of one device: the list in memory, the encrypted  *)
(* file it is rewritten to on every change (asli-history), the recording   *)
(* switch and the revision (history_store.rs), and the window that shows   *)
(* the list from another thread (window.rs).                               *)
(*                                                                         *)
(* An entry is its content: the list never holds one twice.  A file is the *)
(* list and the key it was sealed under; Scrap is one half overwritten or  *)
(* half written.  The history lock is held while job is not "idle".        *)
(***************************************************************************)
EXTENDS Naturals, Sequences, Functions

CONSTANTS
    Texts, Pictures,    \* what may be copied
    MaxEntries,         \* limits.max_entries
    TextBudget,         \* limits.max_text_bytes, in texts
    PictureBudget,      \* limits.max_image_bytes, in images
    Scrap, None,
    MaxChanges,         \* clips recorded
    MaxFaults,          \* writes that fail, and kills
    MaxKeys             \* account keys, the first one included

VARIABLES
    running,
    mem, key,           \* Store.entries and Store.key
    file, tmp,          \* history.bin and history.bin.tmp
    job,                \* what the holder of the lock is about to do
    enabled, revision,  \* StoreHistory
    keep,               \* keep_history in the configuration
    account,            \* the account key stored
    moving,             \* move_to_new_key or leave_account is under way, and its next step
    drawn,              \* the rows on the screen, the revision they were drawn from
    drawing,            \* rows whose thumbnails are still to be decoded
    thumbs,             \* THUMBNAILS, by entry
    lists,              \* the lists a start may find: the one last settled, and those since
    gone,               \* whether the account was left
    changes, faults

store == <<mem, key, job, enabled, revision>>
screen == <<drawn, drawing, thumbs>>
bounds == <<changes, faults>>
vars == <<running, store, file, tmp, keep, account, moving, screen, lists, gone, bounds>>

IsPicture(c) == c \in Pictures

Contents == Texts \cup Pictures

Sealed == [key |-> key, list |-> mem]

Init ==
    /\ running = TRUE
    /\ mem = <<>> /\ key = 1
    /\ file = None /\ tmp = None
    /\ job = "idle"
    /\ enabled = TRUE /\ revision = 0
    /\ keep = TRUE
    /\ account = 1
    /\ moving = "no"
    /\ drawn = [revision |-> 0, enabled |-> TRUE, rows |-> <<>>]
    /\ drawing = <<>>
    /\ thumbs = <<>>
    /\ lists = {<<>>}
    /\ gone = FALSE
    /\ changes = 0 /\ faults = 0

-----------------------------------------------------------------------------
(* entries.remove(i)                                                       *)
Without(list, i) == SubSeq(list, 1, i - 1) \o SubSeq(list, i + 1, Len(list))

(* evict_by_budget: the oldest of one kind until the kind fits.            *)
OldestOf(list, kind) ==
    CHOOSE i \in DOMAIN list : list[i] \in kind /\ \A j \in DOMAIN list : list[j] \in kind => j <= i

KindFits(list, kind, budget) == Len(SelectSeq(list, LAMBDA c : c \in kind)) <= budget

(* One entry is added at a time, so at most one of its kind has to go.     *)
EvictByBudget(list, kind, budget) ==
    IF KindFits(list, kind, budget) THEN list ELSE Without(list, OldestOf(list, kind))

(* evict: the count first, then the two budgets, each walked by itself.    *)
Evict(list) ==
    LET short == IF Len(list) > MaxEntries THEN Without(list, Len(list)) ELSE list
    IN  EvictByBudget(EvictByBudget(short, Texts, TextBudget), Pictures, PictureBudget)

(* append_from: a repeat moves to the top, and is not evicted for.         *)
Appended(c) ==
    IF c \in Range(mem) THEN <<c>> \o SelectSeq(mem, LAMBDA x : x # c) ELSE Evict(<<c>> \o mem)

(* The lock is free.                                                       *)
Free == running /\ job = "idle"

(* persist begins: memory has changed already.                             *)
Persist(list) ==
    /\ mem' = list
    /\ lists' = lists \cup {list}
    /\ job' = "write"

(* record, from the daemon's thread.  The newest entry again, and a clip   *)
(* that is concealed, empty or too large, changes the revision only.       *)
Record ==
    /\ Free /\ enabled
    /\ changes < MaxChanges /\ changes' = changes + 1
    /\ revision' = revision + 1
    /\ \/ UNCHANGED <<mem, lists, job>>
       \/ \E c \in Contents :
            /\ mem # <<>> => mem[1] # c
            /\ Persist(Appended(c))
    /\ UNCHANGED <<running, key, file, tmp, enabled, keep, account, moving, screen, gone, faults>>

-----------------------------------------------------------------------------
(* A file sealed under a key the account has left is not read again.      *)
Unreadable == IF key = account THEN {} ELSE {<<>>}

(* The resealing of a rekey, if this was one, is over.                     *)
Carried == moving' = IF moving = "carrying" THEN "carried" ELSE moving

(* write_atomic, first half: the temporary file, whole or, when the disk   *)
(* refuses, what was written of it.                                        *)
WriteTemp ==
    /\ running /\ job = "write"
    /\ tmp' = Sealed
    /\ job' = "rename"
    /\ UNCHANGED <<running, mem, key, enabled, revision, file, keep, account, moving, screen,
                   lists, gone, bounds>>

(* A mistake: the file itself is rewritten.                                *)
RenameInPlace ==
    /\ running /\ job = "rename"
    /\ \/ file # Scrap /\ file' = Scrap /\ UNCHANGED <<tmp, job, lists>>
       \/ file = Scrap /\ file' = tmp /\ tmp' = None /\ job' = "idle" /\ lists' = {mem}
    /\ UNCHANGED <<running, mem, key, enabled, revision, keep, account, moving, screen, gone,
                   bounds>>

(* Its second half: the rename.  A rekey that got here has moved.          *)
Rename ==
    /\ running /\ job = "rename"
    /\ file' = tmp /\ tmp' = None
    /\ job' = "idle"
    /\ lists' = {mem} \cup Unreadable
    /\ Carried
    /\ UNCHANGED <<running, mem, key, enabled, revision, keep, account, screen, gone, bounds>>

(* Either half fails.  The entry stays in memory; a rekey takes the old    *)
(* key back, "so it still matches what is on disk".                        *)
WriteFails ==
    /\ running /\ job \in {"write", "rename"}
    /\ faults < MaxFaults /\ faults' = faults + 1
    /\ tmp' = IF job = "write" THEN Scrap ELSE tmp
    /\ job' = "idle"
    /\ key' = IF moving = "carrying" THEN key - 1 ELSE key
    /\ Carried
    /\ UNCHANGED <<running, mem, enabled, revision, file, keep, account, screen, lists, gone,
                   changes>>

-----------------------------------------------------------------------------
(* clear: the list goes from memory, then the file, when there is one, is  *)
(* overwritten and unlinked.                                               *)
Clear ==
    /\ mem' = <<>>
    /\ revision' = revision + 1
    /\ job' = IF file = None THEN "idle" ELSE "shred"
    /\ lists' = IF file = None THEN {<<>>} ELSE lists \cup {<<>>}

(* The window's thread is not in the middle of a redraw.                   *)
AtWindow == Free /\ drawing = <<>>

ClearHistory ==
    /\ AtWindow /\ mem # <<>>
    /\ Clear
    /\ UNCHANGED <<running, key, enabled, file, tmp, keep, account, moving, screen, gone, bounds>>

(* set_keep_history, first half: the configuration is saved.               *)
SaveKeep ==
    /\ AtWindow /\ keep = enabled
    /\ changes < MaxChanges /\ changes' = changes + 1
    /\ keep' = ~keep
    /\ UNCHANGED <<running, store, file, tmp, account, moving, screen, lists, gone, faults>>

(* Its second half, set_enabled: turning it off clears the list.           *)
SetEnabled ==
    /\ Free /\ keep # enabled
    /\ enabled' = keep
    /\ IF keep THEN UNCHANGED <<mem, job, revision, lists>> ELSE Clear
    /\ UNCHANGED <<running, key, file, tmp, keep, account, moving, screen, gone, bounds>>

(* shred: overwrite with zeros, then unlink.                               *)
Overwrite ==
    /\ running /\ job = "shred"
    /\ file' = Scrap
    /\ job' = "unlink"
    /\ UNCHANGED <<running, mem, key, enabled, revision, tmp, keep, account, moving, screen,
                   lists, gone, bounds>>

Unlink ==
    /\ running /\ job = "unlink"
    /\ file' = None
    /\ job' = "idle"
    /\ lists' = {<<>>}
    /\ UNCHANGED <<running, mem, key, enabled, revision, tmp, keep, account, moving, screen,
                   gone, bounds>>

(* forget: the row's number, looked up in the list as it is now.           *)
Forget(i) ==
    /\ AtWindow /\ keep = enabled
    /\ i \in DOMAIN drawn.rows \cap DOMAIN mem
    /\ revision' = revision + 1
    /\ Persist(Without(mem, i))
    /\ UNCHANGED <<running, key, enabled, file, tmp, keep, account, moving, screen, gone, bounds>>

-----------------------------------------------------------------------------
(* refresh_history, when the revision is another: the list is read under   *)
(* the lock, thumbnails of entries gone are dropped.                       *)
Refresh ==
    /\ AtWindow
    /\ drawn.revision # revision \/ drawn.enabled # enabled
    /\ drawn' = [revision |-> revision, enabled |-> enabled, rows |-> mem]
    /\ thumbs' = [c \in DOMAIN thumbs \cap Range(mem) |-> thumbs[c]]
    /\ drawing' = SelectSeq([i \in DOMAIN mem |-> i],
                            LAMBDA i : IsPicture(mem[i]) /\ mem[i] \notin DOMAIN thumbs)
    /\ UNCHANGED <<running, store, file, tmp, keep, account, moving, lists, gone, bounds>>

(* thumbnail: the row's content is fetched by its number, under the lock   *)
(* taken again.                                                            *)
DecodeThumbnail ==
    /\ Free /\ drawing # <<>>
    /\ LET i == Head(drawing)
           found == IF i \in DOMAIN mem /\ IsPicture(mem[i]) THEN mem[i] ELSE None
       IN  thumbs' = [c \in DOMAIN thumbs \cup {drawn.rows[i]} |->
                        IF c = drawn.rows[i] THEN found ELSE thumbs[c]]
    /\ drawing' = Tail(drawing)
    /\ UNCHANGED <<running, store, file, tmp, keep, account, moving, drawn, lists, gone, bounds>>

-----------------------------------------------------------------------------
(* move_to_new_key: the new account key is stored; the history follows,    *)
(* and the program restarts.  leave_account: the key is forgotten, the     *)
(* history wiped without its lock, and the program restarts.               *)
StoreKey ==
    /\ running /\ moving = "no" /\ ~gone
    /\ account < MaxKeys /\ account' = account + 1
    /\ moving' = "moving"
    /\ lists' = lists \cup {<<>>}
    /\ UNCHANGED <<running, store, file, tmp, keep, screen, gone, bounds>>

Rekey ==
    /\ Free /\ moving = "moving"
    /\ key' = account
    /\ job' = "write"
    /\ moving' = "carrying"
    /\ UNCHANGED <<running, mem, enabled, revision, file, tmp, keep, account, screen, lists, gone,
                   bounds>>

LeaveAccount ==
    /\ running /\ moving = "no" /\ ~gone
    /\ account < MaxKeys
    /\ moving' = "leaving"
    /\ UNCHANGED <<running, store, file, tmp, keep, account, screen, lists, gone, bounds>>

WipeFile ==
    /\ running /\ moving = "leaving"
    /\ file' = None
    /\ moving' = "left"
    /\ lists' = {<<>>} \cup lists
    /\ UNCHANGED <<running, store, tmp, keep, account, screen, gone, bounds>>

(* restart_for: the process ends, whatever other threads were doing.       *)
Restart ==
    /\ running
    /\ \/ moving = "carried" /\ Free /\ UNCHANGED gone
       \/ moving = "left" /\ gone' = TRUE
    /\ running' = FALSE
    /\ moving' = "no"
    /\ UNCHANGED <<store, file, tmp, keep, account, screen, lists, bounds>>

(* The process is killed.                                                  *)
Crash ==
    /\ running
    /\ faults < MaxFaults /\ faults' = faults + 1
    /\ running' = FALSE
    /\ gone' = (moving \in {"leaving", "left"})
    /\ moving' = "no"
    /\ UNCHANGED <<store, file, tmp, keep, account, screen, lists, changes>>

(* decode_all: the list, when the file opens under the account's key.      *)
Opened == IF file \notin {None, Scrap} /\ file.key = account THEN file.list ELSE <<>>

(* open_or_reset: a file that does not open is shredded.  A device that    *)
(* left its account comes back with the key of the next one.               *)
Start ==
    /\ ~running
    /\ running' = TRUE
    /\ IF gone THEN account' = account + 1 ELSE UNCHANGED account
    /\ gone' = FALSE
    /\ mem' = IF gone THEN <<>> ELSE Opened
    /\ file' = IF file # None /\ (gone \/ file = Scrap) THEN None
               ELSE IF file # None /\ file.key # account' THEN None ELSE file
    /\ key' = account'
    /\ job' = "idle"
    /\ enabled' = keep
    /\ revision' = 0
    /\ drawn' = [revision |-> 0, enabled |-> keep, rows |-> mem']
    /\ drawing' = <<>> /\ thumbs' = <<>>
    /\ lists' = {mem'}
    /\ UNCHANGED <<tmp, keep, moving, bounds>>

Next ==
    \/ Record
    \/ WriteTemp \/ Rename \/ WriteFails
    \/ ClearHistory \/ SaveKeep \/ SetEnabled \/ Overwrite \/ Unlink
    \/ \E i \in 1 .. MaxEntries : Forget(i)
    \/ Refresh \/ DecodeThumbnail
    \/ StoreKey \/ Rekey \/ LeaveAccount \/ WipeFile \/ Restart
    \/ Crash \/ Start

Spec == Init /\ [][Next]_vars

-----------------------------------------------------------------------------
(* A start finds the list as it was last settled on disk, or as an         *)
(* operation that did not finish would have left it, never a mixture and   *)
(* never nothing (write_atomic, rekey, shred, decode_all).  The one        *)
(* exception is a kill or a failed write between the storing of a new      *)
(* account key and the resealing of the history.                           *)
RestartKept == ~running /\ running' /\ ~gone => mem' \in lists
RestartKeepsList == [][RestartKept]_vars

-----------------------------------------------------------------------------
(* What is said of the code and not kept by it: TLC refutes each of these  *)
(* (README, "Where the words and the code part").                          *)

(* Once the account was left, no sealed list stays behind: the key the     *)
(* person abandoned "would still read anything left behind" (wipe).        *)
NothingLeft == gone => file \in {None, Scrap} /\ tmp \in {None, Scrap}

(* A thumbnail shows the entry it is filed under (thumbnail).              *)
ThumbnailIsRight == \A c \in DOMAIN thumbs : thumbs[c] = c

(* Forgetting removes the entry the row showed (forget_entry).             *)
ForgetsTheRowShown ==
    [][\A i \in DOMAIN drawn.rows : Forget(i) => mem[i] = drawn.rows[i]]_vars
=============================================================================
