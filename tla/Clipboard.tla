----------------------------- MODULE Clipboard ------------------------------
(***************************************************************************)
(* One device's system clipboard, shared by a person at its applications,  *)
(* the thread that watches it and the thread that writes to it             *)
(* (clipboard_io.rs, and the platform backends of asli-clipboard).         *)
(*                                                                         *)
(* Texts and images are members of Clips.  Secret is what a password       *)
(* manager marks, and Token a text written with the marks and cleared      *)
(* later.  Time appears only where it ends something: the memory of an own *)
(* write may end at any moment, five seconds being long or short, and a    *)
(* timer fire at any.                                                      *)
(***************************************************************************)
EXTENDS Naturals, Sequences

CONSTANTS
    Clips, Secret, Token,
    Nobody,         \* an empty clipboard, and no value
    Platforms,      \* subset of {"x11", "wayland", "windows", "macos"}
    Repeats,        \* whether a clip may be put there again while an own write of it is remembered
    MaxChanges      \* copies, received clips and tokens in a behaviour

ASSUME ClipboardAssumption ==
    /\ {Secret, Token, Nobody} \cap Clips = {}
    /\ Platforms \subseteq {"x11", "wayland", "windows", "macos"}

VARIABLES
    platform,
    board,      \* the system's clipboard: what it holds, by whom, and the number of the change
    queued,     \* copies, received clips and tokens so far
    inbox,      \* the channel to the writer
    interrupt,  \* the writer's shutdown flag
    signals,    \* threads that have queued work and not set the flag yet
    writer,     \* "idle" in recv, "woken", "confirming", "clearing", "releasing", "serving"
    clear,      \* the batch's clear, still to be carried out
    serving,    \* the change whose payload the writer holds, 0 for none
    notices,    \* to the writer's connection, unread: whose selections were replaced
    generation,
    timers,     \* scheduled clears
    own,        \* OwnWrites
    written,    \* last_written: the change number of the newest own write
    shares,     \* whether the watcher sees `written`
    seen,       \* whether the watcher has its baseline
    changed,    \* a change the watcher has not looked at yet
    reading,    \* what it has read and not reported yet
    echoes,     \* own writes it reported as copies, and whether their memory had ended by then
    owed,       \* the newest write queued, until the writer took it up
    raced,      \* whether what is there was copied between two calls of the writer's
    lapsed      \* clips whose memory ended while they were under way

vars == <<platform, board, queued, inbox, interrupt, signals, writer, clear, serving, notices,
          generation, timers, own, written, shares, seen, changed, reading, echoes, owed, raced,
          lapsed>>
writing == <<inbox, interrupt, signals, writer, clear>>
watching == <<shares, seen, changed, reading, echoes>>

Linux == platform \in {"x11", "wayland"}

(* watcher_for: where the watcher shares the writer's change number.       *)
Sibling == platform \in {"windows", "macos"}

Write(x) == [op |-> "write", what |-> x]
ClearIfUnchanged(g) == [op |-> "clear", gen |-> g]

(* plan and start: one backend, two connections, the watcher's made last.  *)
Init ==
    /\ platform \in Platforms
    /\ board = [what |-> Nobody, by |-> "nobody", n |-> 0]
    /\ queued = 0
    /\ inbox = <<>> /\ interrupt = FALSE /\ signals = 0 /\ writer = "idle" /\ clear = Nobody
    /\ serving = 0 /\ notices = {} /\ written = 0
    /\ generation = 0 /\ timers = {} /\ own = {}
    /\ shares = Sibling
    /\ seen = (platform \in {"x11", "windows"})
    /\ changed = (platform \in {"wayland", "macos"})
    /\ reading = Nobody /\ echoes = {}
    /\ owed = Nobody
    /\ raced = FALSE /\ lapsed = {}
-----------------------------------------------------------------------------
(* The selection passes to `by`.  What the display server tells the        *)
(* writer's connection: on X11 every change of owner that is not its own,  *)
(* on Wayland that a source of its own was cancelled.                      *)
OwnerChanged(by) == IF by = "us" THEN {} ELSE {board.n + 1}
Cancelled == IF board.by = "us" THEN {board.n} ELSE {}
Told(by) ==
    CASE platform = "x11" -> OwnerChanged(by)
      [] platform = "wayland" -> Cancelled
      [] OTHER -> {}

(* The writer is between looking at the clipboard and emptying it, or, on  *)
(* Windows, between a change of its own and the reading of its number.     *)
Between == writer = "releasing" \/ (writer = "confirming" /\ platform = "windows")

Takes(what, by) ==
    /\ board' = [what |-> what, by |-> by, n |-> board.n + 1]
    /\ notices' = notices \cup Told(by)
    /\ raced' = (by = "them" /\ Between)

UnderWay(x) == \/ \E i \in DOMAIN inbox : inbox[i] = Write(x)
               \/ board.what = x /\ changed
               \/ reading # Nobody /\ reading.what = x
InFlight(x) == x \in own \/ UnderWay(x)

(* Somebody copies something with another application.                     *)
Copy(x) ==
    /\ queued < MaxChanges /\ queued' = queued + 1
    /\ Repeats \/ ~InFlight(x)
    /\ Takes(x, "them")
    /\ changed' = TRUE
    /\ UNCHANGED <<platform, serving, generation, timers, own, written, shares, seen, reading,
                   echoes, writing, owed, lapsed>>

(* SystemClipboard::queue: remembered first, then queued; then, a step of  *)
(* its own, the writer is interrupted.  A concealed write is remembered    *)
(* under a name of its own.                                                *)
(* A mistake: only a concealed write is remembered.                        *)
RememberedToken(x) == {x} \cap {Token}
Remembered(x) == {x}

Queue(x) ==
    /\ queued < MaxChanges /\ queued' = queued + 1
    /\ Repeats \/ ~InFlight(x)
    /\ generation' = generation + 1
    /\ own' = own \cup Remembered(x)
    /\ inbox' = Append(inbox, Write(x))
    /\ signals' = IF Linux THEN signals + 1 ELSE signals
    /\ owed' = x
    /\ lapsed' = lapsed \ {x}
    /\ UNCHANGED <<platform, board, interrupt, writer, clear, serving, notices, written, shares,
                   seen, changed, reading, echoes, raced>>

Interrupt ==
    /\ signals > 0
    /\ signals' = signals - 1
    /\ interrupt' = TRUE
    /\ UNCHANGED <<platform, board, queued, inbox, writer, clear, serving, notices, generation,
                   timers, own, written, watching, owed, raced, lapsed>>

(* write_text, write_image: apply_clip and apply_image, and the person     *)
(* putting back an entry of the history.  Meant for every device, that is  *)
(* also announced to the bridge, past the watcher (write_text_as_copy).    *)
WriteText(x) == Queue(x) /\ UNCHANGED timers

(* write_text_concealed and the thread it starts.                          *)
WriteConcealed ==
    /\ Queue(Token)
    /\ timers' = timers \cup {generation'}

TimerFires(g) ==
    /\ \A h \in timers : g <= h        \* they all wait equally long
    /\ timers' = timers \ {g}
    /\ inbox' = Append(inbox, ClearIfUnchanged(g))
    /\ signals' = IF Linux THEN signals + 1 ELSE signals
    /\ UNCHANGED <<platform, board, queued, interrupt, writer, clear, serving, notices, generation, own,
                   written, watching, owed, raced, lapsed>>
-----------------------------------------------------------------------------
(* writer_loop.  recv takes the first of the queue and the flag is reset   *)
(* before the rest is drained; on macOS a tick of the main thread drains,  *)
(* applies and polls, here in steps of their own.                          *)
Wake ==
    /\ writer = "idle" /\ inbox # <<>>
    /\ writer' = "woken"
    /\ interrupt' = FALSE
    /\ UNCHANGED <<platform, board, queued, inbox, signals, clear, serving, notices, generation,
                   timers, own, written, watching, owed, raced, lapsed>>

(* Batch::push over everything queued: the newest write, and a clear only  *)
(* if it came after it.                                                    *)
(* A mistake: a clear takes the write before it along.                     *)
NewestOnly(q) == IF q[Len(q)].op = "clear" THEN Nobody ELSE q[Len(q)].what
Newest(q) ==
    LET writes == {i \in DOMAIN q : q[i].op = "write"}
    IN  IF writes = {} THEN Nobody ELSE q[CHOOSE i \in writes : \A j \in writes : j <= i].what
ClearAfter(q) == IF q[Len(q)].op = "clear" THEN q[Len(q)].gen ELSE Nobody

(* The end of a batch: back to recv when nothing it wrote is held, or the  *)
(* system keeps what is written; else the selection is served.             *)
(* A mistake: the interrupt is reset again.                                *)
AfterBatchReset(holding) ==
    /\ writer' = IF holding /\ Linux THEN "serving" ELSE "idle"
    /\ interrupt' = FALSE
AfterBatch(holding) ==
    /\ writer' = IF holding /\ Linux THEN "serving" ELSE "idle"
    /\ UNCHANGED interrupt

(* Batch::apply, the write: set_text, set_image or set_text_concealed of   *)
(* the backend takes the selection and holds its payload; or it fails, and *)
(* the person is told.  macOS says the number of the change it made.       *)
Applied(x) ==
    /\ x # Nobody
    /\ Takes(x, "us")
    /\ serving' = IF Linux THEN board.n + 1 ELSE serving
    /\ written' = IF platform = "macos" THEN board.n + 1 ELSE written
    /\ seen' = (seen \/ platform = "macos")
    /\ changed' = TRUE

(* What the writer does next with a batch.                                 *)
GoesOn(holding, still) ==
    IF still = Nobody
    THEN AfterBatch(holding) /\ clear' = Nobody
    ELSE writer' = "clearing" /\ clear' = [still EXCEPT !.holding = holding] /\ UNCHANGED interrupt

ToClear(q) == IF ClearAfter(q) = Nobody THEN Nobody
              ELSE [gen |-> ClearAfter(q), holding |-> FALSE]

ApplyWrite ==
    /\ writer = "woken"
    /\ inbox' = <<>>
    /\ \/ /\ Applied(Newest(inbox))
          /\ IF platform \in {"x11", "windows"}
             THEN writer' = "confirming" /\ clear' = ToClear(inbox) /\ UNCHANGED interrupt
             ELSE GoesOn(TRUE, ToClear(inbox))
       \/ /\ GoesOn(FALSE, ToClear(inbox))
          /\ UNCHANGED <<board, notices, raced, serving, written, seen, changed>>
    /\ owed' = IF Newest(inbox) = owed THEN Nobody ELSE owed
    /\ UNCHANGED <<platform, queued, signals, generation, timers, own, shares, reading, echoes,
                   lapsed>>

(* After its change X11's writer asks whether it has the selection, and    *)
(* reports an error if not, and Windows' reads the number of the change,   *)
(* once the clipboard is closed and anybody may have made another.         *)
Confirm ==
    /\ writer = "confirming"
    /\ written' = IF platform = "windows" THEN board.n ELSE written
    /\ GoesOn(platform = "windows" \/ board.by = "us", clear)
    /\ UNCHANGED <<platform, board, queued, inbox, signals, serving, notices, generation, timers,
                   own, watching, owed, raced, lapsed>>

(* release_selection: whoever holds the clipboard would lose it, so each   *)
(* platform asks first whether it is still its own (the owner, a round     *)
(* trip, the sequence number, the change count).                           *)
ServerSaysOurs == board.by = "us"
NotCancelled == serving # 0 /\ serving \notin notices
SequenceIsOurs == board.n = written
ChangeCountIsOurs == board.n = written
(* A mistake: nobody is asked.                                             *)
StillOursByGeneration == TRUE
StillOurs ==
    CASE platform = "x11" -> ServerSaysOurs
      [] platform = "wayland" -> NotCancelled
      [] platform = "windows" -> SequenceIsOurs
      [] OTHER -> ChangeCountIsOurs

(* Batch::apply, the clear: dropped if anything was copied since.  The     *)
(* answer to the question is in; what is done about it comes after.        *)
ApplyClear ==
    /\ writer = "clearing"
    /\ \/ /\ clear.gen = generation /\ StillOurs
          /\ writer' = "releasing"
          /\ serving' = 0
          /\ notices' = IF platform = "wayland" THEN {} ELSE notices
          /\ UNCHANGED <<interrupt, clear>>
       \/ /\ clear.gen = generation /\ ~StillOurs
          /\ GoesOn(FALSE, Nobody)
          /\ serving' = 0
          /\ notices' = IF platform = "wayland" THEN {} ELSE notices
       \/ /\ clear.gen = generation     \* nobody answered
          /\ GoesOn(clear.holding, Nobody)
          /\ serving' = IF platform = "x11" THEN 0 ELSE serving
          /\ UNCHANGED notices
       \/ /\ clear.gen # generation
          /\ GoesOn(clear.holding, Nobody)
          /\ UNCHANGED <<serving, notices>>
    /\ UNCHANGED <<platform, board, queued, inbox, signals, generation, timers, own, written,
                   watching, owed, raced, lapsed>>

(* The clipboard is emptied, whoever holds it by now; or it could not be   *)
(* opened or reached.                                                      *)
Release ==
    /\ writer = "releasing"
    /\ \/ /\ Takes(Nobody, "nobody")
          /\ changed' = TRUE
          /\ IF platform = "windows"
             THEN writer' = "confirming" /\ clear' = Nobody /\ UNCHANGED <<interrupt, written>>
             ELSE /\ GoesOn(FALSE, Nobody)
                  /\ written' = IF platform = "macos" THEN board.n + 1 ELSE written
       \/ /\ GoesOn(clear.holding, Nobody)
          /\ UNCHANGED <<board, notices, raced, changed, written>>
    /\ UNCHANGED <<platform, queued, inbox, signals, serving, generation, timers, own, shares,
                   seen, reading, echoes, owed, lapsed>>

(* The serve loop (run of a serve_only connection) reads its notices, and  *)
(* ends when it is interrupted.  On Wayland a cancellation names its       *)
(* source; on X11 any other owner ends what is held.                       *)
Forget(n) == serving' = IF serving = n THEN 0 ELSE serving
NoLongerOwned == serving' = 0

Hear(n) ==
    /\ writer = "serving" /\ n \in notices
    /\ notices' = notices \ {n}
    /\ IF platform = "wayland" THEN Forget(n) ELSE NoLongerOwned
    /\ UNCHANGED <<platform, board, queued, generation, timers, own, written, writing, watching,
                   owed, raced, lapsed>>

ServeEnds ==
    /\ writer = "serving" /\ interrupt
    /\ writer' = "idle"
    /\ UNCHANGED <<platform, board, queued, inbox, interrupt, signals, clear, serving, notices,
                   generation, timers, own, written, watching, owed, raced, lapsed>>
-----------------------------------------------------------------------------
(* The watcher's loop on each platform, after its debounce: Wayland's and  *)
(* macOS's first selection is the baseline, an own change is known by its  *)
(* number on Windows and macOS.                                            *)
IsOurOwnWrite == shares /\ board.n = written
ReportsX11 == TRUE
ReportsWayland == seen
ReportsWindows == ~IsOurOwnWrite
PollOnce == seen /\ ~IsOurOwnWrite
IsNews ==
    CASE platform = "x11" -> ReportsX11
      [] platform = "wayland" -> ReportsWayland
      [] platform = "windows" -> ReportsWindows
      [] OTHER -> PollOnce

(* What cannot be read, is emptiness, or is too large, which the person is *)
(* told, is left.  Offers models what is read.                             *)
Look ==
    /\ changed /\ reading = Nobody
    /\ changed' = FALSE
    /\ seen' = TRUE
    /\ \/ /\ IsNews /\ board.by # "nobody"
          /\ reading' = [what |-> board.what, by |-> board.by]
       \/ UNCHANGED reading
    /\ UNCHANGED <<platform, board, queued, serving, notices, generation, timers, own, written,
                   shares, echoes, writing, owed, raced, lapsed>>

(* to_observed: an own write is consumed, marked content is not read, and  *)
(* only a copy that was read makes a scheduled clear stale.                *)
Sensitive(x) == x \in {Secret, Token}
Ours(x) == own \cap (IF Sensitive(x) THEN {Token} ELSE {x})
Counts(x) == x \in Clips

Report ==
    /\ reading # Nobody
    /\ reading' = Nobody
    /\ IF Ours(reading.what) # {}
       THEN own' = own \ Ours(reading.what) /\ UNCHANGED <<generation, echoes>>
       ELSE /\ echoes' = echoes \cup
                   (IF Counts(reading.what) /\ reading.by = "us"
                    THEN {[what |-> reading.what, late |-> reading.what \in lapsed]} ELSE {})
            /\ generation' = generation + (IF Counts(reading.what) THEN 1 ELSE 0)
            /\ UNCHANGED own
    /\ lapsed' = lapsed \ {reading.what}
    /\ UNCHANGED <<platform, board, queued, serving, notices, timers, written, shares, seen,
                   changed, writing, owed, raced>>

(* The watcher's connection ends and another is made, on Windows one that  *)
(* no longer shares the writer's number.                                   *)
Reconnect ==
    /\ platform # "macos"
    /\ shares' = FALSE
    /\ seen' = (platform # "wayland")
    /\ changed' = (platform = "wayland")
    /\ reading' = Nobody
    /\ UNCHANGED <<platform, board, queued, serving, notices, generation, timers, own, written,
                   echoes, writing, owed, raced, lapsed>>

(* EchoGuard::expire, after TTL_MS by the clock whatever is under way; and *)
(* remember, which forgets the oldest when it is full.                     *)
Expire(x) ==
    /\ x \in own
    /\ own' = own \ {x}
    /\ lapsed' = lapsed \cup {y \in {x} \cap Clips : UnderWay(y)}
    /\ UNCHANGED <<platform, board, queued, serving, notices, generation, timers, written,
                   writing, watching, owed, raced>>
-----------------------------------------------------------------------------
Person == (\E x \in Clips \cup {Secret} : Copy(x)) \/ WriteConcealed
Daemon == (\E x \in Clips : WriteText(x)) \/ Interrupt
Writer == Wake \/ ApplyWrite \/ Confirm \/ ApplyClear \/ Release \/ ServeEnds
Server == \E n \in notices : Hear(n)
Watcher == Look \/ Report \/ Reconnect
Clock == (\E g \in timers : TimerFires(g)) \/ (\E x \in own : Expire(x))

Next == Person \/ Daemon \/ Writer \/ Server \/ Watcher \/ Clock

(* The writer's thread is never blocked but in recv and in its serve loop, *)
(* which looks at the flag every POLL_TIMEOUT; who has queued work goes on *)
(* to set the flag.                                                        *)
Fairness == WF_vars(Writer) /\ WF_vars(Interrupt)
Spec == Init /\ [][Next]_vars /\ Fairness
-----------------------------------------------------------------------------
(* A clip written here is reported as copied here, and so bounces between  *)
(* devices, only if the five seconds its memory lasts were over before the *)
(* report (OwnWrites): however the threads' steps fall, nothing else uses  *)
(* the memory up or comes before it.                                       *)
NoEcho == \A e \in echoes : e.late

(* A scheduled clear takes from the clipboard what somebody copied there   *)
(* only if that was copied between two calls of the writer's, after the    *)
(* look that release_selection takes first or, on Windows, before the      *)
(* number of the change before it was read: whether the watcher has seen   *)
(* the copy or not.                                                        *)
ClearSparesCopies == [][board.by = "them" /\ board'.by = "nobody" => raced]_vars

(* Whatever else was queued with it, the newest clip queued is the one     *)
(* the writer puts on the clipboard.                                       *)
NewestWins == inbox = <<>> /\ writer # "woken" => owed = Nobody

(* No wake-up is lost: what is queued is taken up, however it falls        *)
(* between the writer's steps.                                             *)
WorkIsTaken == []<>(inbox = <<>>)

-----------------------------------------------------------------------------
(* What is said of the code and not kept by it: TLC refutes each of these  *)
(* (README, "Where the words and the code part").                          *)

(* What this device put on the clipboard can be pasted from it: the        *)
(* writer, which must answer for it on X11 and Wayland, holds it and is in *)
(* its loop or about to be.                                                *)
Pasteable ==
    Linux /\ board.by = "us" => /\ serving = board.n
                                /\ writer # "idle" \/ inbox # <<>>

(* What this device put on the clipboard is never sent back as a copy      *)
(* ("catches it at the clipboard, before any of that",                     *)
(* clipboard_io.rs:215-219, and echo.rs:3-11): the memory ends by the      *)
(* clock, also while the write waits for its turn or its change for the    *)
(* watcher.                                                                *)
NeverEchoed == echoes = {}

(* A clear never erases what somebody else copied (linux_x11.rs:269-273,   *)
(* linux_wayland.rs:454-457, windows.rs:574-577): each platform looks      *)
(* first, and empties in a second call.                                    *)
ClearSparesAll == [][board.by = "them" => board'.by # "nobody"]_vars
=============================================================================
