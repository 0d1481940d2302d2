-------------------------- MODULE ClipboardProofs ---------------------------
(***************************************************************************)
(* Proofs about the device's clipboard, for any clips, any platforms and   *)
(* any number of changes: an own write echoes only once its memory has     *)
(* ended, a scheduled clear spares what somebody copied unless it fell     *)
(* between two calls of the writer's, and the newest clip queued is the    *)
(* one the writer takes up.                                                *)
(*                                                                         *)
(* Each rests on an invariant of its own.  An echo: an own write is        *)
(* remembered, or its memory has run out, as long as it is queued, on the  *)
(* clipboard unseen or read and not reported, and it is in one of those    *)
(* places only.  A clear: what the writer believes of its last change is   *)
(* behind the clipboard, never ahead of it but for a copy made between two *)
(* of its calls.  The newest clip: the last write in the channel is the    *)
(* one owed.                                                               *)
(*                                                                         *)
(* Then, in the model of MCClipboard, how Linux's watchers come by what    *)
(* they report: for any number of applications and copies, of any length,  *)
(* the newest copy is the one reported last.                               *)
(***************************************************************************)
EXTENDS MCClipboard, FiniteSets, FiniteSetTheorems, TLAPS

Held == Clips \cup {Secret, Token, Nobody}
Tasks == [op : {"write"}, what : Clips \cup {Token}] \cup [op : {"clear"}, gen : Nat]

(* What the proofs use of the types. *)
TypeOK ==
    /\ platform \in Platforms
    /\ board \in [what : Held, by : {"us", "them", "nobody"}, n : Nat]
    /\ inbox \in Seq(Tasks)
    /\ reading = Nobody \/ reading \in [what : Held, by : {"us", "them", "nobody"}]
    /\ own \subseteq Clips \cup {Token}
    /\ generation \in Nat
    /\ timers \subseteq Nat
    /\ serving \in Nat /\ written \in Nat
    /\ seen \in BOOLEAN /\ changed \in BOOLEAN

(* The watcher will report what is on the clipboard when it looks. *)
Unseen(x) == board.what = x /\ changed /\ seen
Queueing(x) == \E i \in DOMAIN inbox : inbox[i] = Write(x)
Reading(x) == reading # Nobody /\ reading.what = x

(* An own write is remembered wherever it still is, or its memory has run out, *)
Covered ==
    \A x \in Clips :
        /\ Queueing(x) => x \in own \cup lapsed
        /\ Unseen(x) /\ board.by = "us" => x \in own \cup lapsed
        /\ Reading(x) /\ reading.by = "us" => x \in own \cup lapsed

(* and a clip is in one of those places only, so that the report which uses the memory up is the *)
(* last one to need it. *)
Once ==
    \A x \in Clips :
        /\ ~(Queueing(x) /\ Unseen(x))
        /\ ~(Queueing(x) /\ Reading(x))
        /\ ~(Reading(x) /\ Unseen(x) /\ board.by = "us")

(* X11 and Windows report every change. *)
AlwaysSeen == platform \in {"x11", "windows"} => seen

(* The last write in the channel is the newest one queued, and it is owed. *)
Writes == {i \in DOMAIN inbox : inbox[i].op = "write"}
OwedIsLast ==
    IF Writes = {} THEN owed = Nobody
    ELSE \E i \in Writes : inbox[i].what = owed /\ \A j \in Writes : j <= i

(* Windows and macOS: the change number the writer last noted is not that of another's copy, but *)
(* for a copy made before Windows' writer read the number.                                       *)
NumberIsOurs ==
    /\ written <= board.n
    /\ written = board.n => board.by # "them" \/ raced

(* What somebody copied is there between two of the writer's calls only if it came in between. *)
CameBetween == Between /\ board.by = "them" => raced

(* Wayland: a source the writer still serves is the selection, or its cancellation is on the way. *)
ServedOrCancelled ==
    platform = "wayland" /\ serving # 0 =>
        \/ serving = board.n /\ board.by = "us"
        \/ serving \in notices

EchoInv == Covered /\ Once /\ AlwaysSeen /\ NoEcho
ClearInv == NumberIsOurs /\ ServedOrCancelled /\ CameBetween
BaseInv == TypeOK /\ OwedIsLast /\ ClearInv

-----------------------------------------------------------------------------
(* What the writer takes from the channel (Batch::push) is what is owed, a write that is there.  *)
LEMMA NewestIsOwed ==
    ASSUME TypeOK, OwedIsLast
    PROVE  /\ Newest(inbox) = owed
           /\ owed # Nobody => owed \in Clips \cup {Token} /\ Queueing(owed)
<1>1. CASE Writes = {}
    BY <1>1 DEF OwedIsLast, Newest, Writes
<1>2. CASE Writes # {}
    <2>1. PICK i \in Writes : inbox[i].what = owed /\ \A j \in Writes : j <= i
        BY <1>2 DEF OwedIsLast
    <2>2. inbox[i] \in [op : {"write"}, what : Clips \cup {Token}] /\ i \in DOMAIN inbox
        BY DEF Writes, TypeOK, Tasks
    <2>3. inbox[i] = Write(owed) /\ owed \in Clips \cup {Token}
        BY <2>1, <2>2 DEF Write
    <2>4. Writes \subseteq Nat
        BY DEF Writes, TypeOK
    <2>5. (CHOOSE k \in Writes : \A j \in Writes : j <= k) = i
        <3>1. PICK k : k = CHOOSE h \in Writes : \A j \in Writes : j <= h
            OBVIOUS
        <3>2. k \in Writes /\ \A j \in Writes : j <= k
            BY <2>1, <3>1
        <3>3. k <= i /\ i <= k /\ k \in Nat /\ i \in Nat
            BY <2>1, <2>4, <3>2
        <3> QED
            BY <3>1, <3>3
    <2>6. Newest(inbox) = inbox[CHOOSE k \in Writes : \A j \in Writes : j <= k].what
        BY <1>2 DEF Newest, Writes
    <2> QED
        BY <2>1, <2>2, <2>3, <2>5, <2>6 DEF Queueing
<1> QED
    BY <1>1, <1>2

(* What is appended to the channel is its last element; the others stay. *)
LEMMA Appending ==
    ASSUME TypeOK, NEW t \in Tasks, inbox' = Append(inbox, t)
    PROVE  /\ inbox' \in Seq(Tasks)
           /\ DOMAIN inbox' = DOMAIN inbox \cup {Len(inbox) + 1}
           /\ inbox'[Len(inbox) + 1] = t
           /\ \A i \in DOMAIN inbox : inbox'[i] = inbox[i] /\ i <= Len(inbox)
           /\ Len(inbox) \in Nat /\ DOMAIN inbox \subseteq Nat
    BY DEF TypeOK

(* The tasks are told apart by their kind. *)
LEMMA TaskKinds ==
    /\ \A x : Write(x).op = "write" /\ Write(x).what = x
    /\ \A g : ClearIfUnchanged(g).op = "clear"
    /\ \A x, y : Write(x) = Write(y) => x = y
    /\ \A x, g : Write(x) # ClearIfUnchanged(g)
    /\ \A x \in Clips \cup {Token} : Write(x) \in Tasks
    /\ \A g \in Nat : ClearIfUnchanged(g) \in Tasks
<1>1. \A x : Write(x).op = "write" /\ Write(x).what = x
    BY DEF Write
<1>2. \A g : ClearIfUnchanged(g).op = "clear"
    BY DEF ClearIfUnchanged
<1>3. \A x \in Clips \cup {Token} : Write(x) \in Tasks
    BY DEF Write, Tasks
<1>4. \A g \in Nat : ClearIfUnchanged(g) \in Tasks
    BY DEF ClearIfUnchanged, Tasks
<1>5. \A x, y : Write(x) = Write(y) => x = y
    BY <1>1
<1>6. \A x, g : Write(x) # ClearIfUnchanged(g)
    <2> SUFFICES ASSUME NEW x, NEW g, Write(x) = ClearIfUnchanged(g)
                 PROVE  FALSE
        OBVIOUS
    <2>1. Write(x).op = "write" /\ ClearIfUnchanged(g).op = "clear"
        BY <1>1, <1>2
    <2> QED
        BY <2>1
<1> QED
    BY <1>1, <1>2, <1>3, <1>4, <1>5, <1>6

-----------------------------------------------------------------------------
(* The newest clip and the clear.  Neither needs that a clip in flight is not put there again.   *)
LEMMA BaseInit == Init => BaseInv
<1> SUFFICES ASSUME Init PROVE BaseInv
    OBVIOUS
<1>1. TypeOK
    BY DEF Init, TypeOK, Held, Sibling
<1>2. OwedIsLast
    BY DEF Init, OwedIsLast, Writes
<1>3. ClearInv
    BY DEF Init, ClearInv, NumberIsOurs, ServedOrCancelled, CameBetween
<1> QED
    BY <1>1, <1>2, <1>3 DEF BaseInv

(* A step that leaves the channel and what is owed alone. *)
LEMMA OwedStays ==
    ASSUME OwedIsLast, UNCHANGED <<inbox, owed>>
    PROVE  OwedIsLast'
    BY DEF OwedIsLast, Writes

(* The clipboard changes hands: another's copy leaves the writer's beliefs behind it, and a      *)
(* change of the writer's own is at most noted.                                                  *)
LEMMA TakenBy ==
    ASSUME TypeOK, ClearInv, NEW x \in Held, NEW by \in {"us", "them", "nobody"}, Takes(x, by),
           platform' = platform, by = "them" => writer' = writer,
           written' = written \/ (by # "them" /\ written' = board.n + 1),
           serving' = serving \/ serving' = 0 \/ (by = "us" /\ serving' = board.n + 1)
    PROVE  ClearInv' /\ board' \in [what : Held, by : {"us", "them", "nobody"}, n : Nat]
           /\ written' \in Nat /\ serving' \in Nat
<1>1. board' = [what |-> x, by |-> by, n |-> board.n + 1] /\ board.n \in Nat
    BY DEF Takes, TypeOK
<1>2. board'.n = board.n + 1 /\ board'.by = by
    BY <1>1
<1>3. written' \in Nat /\ serving' \in Nat
    BY <1>1 DEF TypeOK
<1>4. NumberIsOurs'
    BY <1>1, <1>2 DEF ClearInv, NumberIsOurs, TypeOK
<1>5. ServedOrCancelled'
    <2>1. platform = "wayland" /\ board.by = "us" => notices' = notices \cup {board.n}
        BY DEF Takes, Told, Cancelled
    <2>2. notices \subseteq notices'
        BY DEF Takes
    <2>3. CASE serving' = serving
        BY <2>1, <2>2, <2>3 DEF ClearInv, ServedOrCancelled
    <2>4. CASE serving' = 0 \/ (by = "us" /\ serving' = board.n + 1)
        BY <1>2, <2>4 DEF ServedOrCancelled
    <2> QED
        BY <2>3, <2>4
<1>6. CameBetween'
    BY <1>2 DEF Takes, CameBetween, Between
<1> QED
    BY <1>1, <1>3, <1>4, <1>5, <1>6 DEF ClearInv

LEMMA ClearStays ==
    ASSUME ClearInv, UNCHANGED <<platform, board, serving, written, notices, raced>>,
           Between' => Between
    PROVE  ClearInv'
    BY DEF ClearInv, NumberIsOurs, ServedOrCancelled, CameBetween

(* What the writer does next is not between two calls. *)
LEMMA GoesOnIs ==
    ASSUME NEW holding, NEW still, GoesOn(holding, still)
    PROVE  ~Between'
    BY DEF GoesOn, AfterBatch, Between

LEMMA BaseQueue ==
    ASSUME BaseInv, NEW x \in Clips \cup {Token}, Queue(x),
           timers' = timers \/ timers' = timers \cup {generation'}
    PROVE  BaseInv'
<1>1. inbox' = Append(inbox, Write(x)) /\ Write(x) \in Tasks /\ owed' = x
    BY TaskKinds DEF Queue
<1>2. /\ inbox' \in Seq(Tasks)
      /\ DOMAIN inbox' = DOMAIN inbox \cup {Len(inbox) + 1}
      /\ inbox'[Len(inbox) + 1] = Write(x)
      /\ \A i \in DOMAIN inbox : inbox'[i] = inbox[i] /\ i <= Len(inbox)
      /\ Len(inbox) \in Nat /\ DOMAIN inbox \subseteq Nat
    BY <1>1, Appending DEF BaseInv
<1>3. TypeOK'
    <2>1. own' = own \cup {x} /\ generation' = generation + 1
        BY DEF Queue, Remembered
    <2>2. generation' \in Nat /\ own' \subseteq Clips \cup {Token}
        BY <2>1 DEF BaseInv, TypeOK
    <2>3. timers' \subseteq Nat
        BY <2>2 DEF BaseInv, TypeOK
    <2> QED
        BY <1>2, <2>2, <2>3 DEF BaseInv, TypeOK, Queue
<1>4. OwedIsLast'
    <2>1. Len(inbox) + 1 \in Writes' /\ inbox'[Len(inbox) + 1].what = owed'
        BY <1>1, <1>2, TaskKinds DEF Writes
    <2>2. \A j \in Writes' : j <= Len(inbox) + 1
        BY <1>2 DEF Writes
    <2> QED
        BY <2>1, <2>2 DEF OwedIsLast
<1>5. ClearInv'
    BY ClearStays DEF BaseInv, Queue, Between
<1> QED
    BY <1>3, <1>4, <1>5 DEF BaseInv

LEMMA BaseTimer ==
    ASSUME BaseInv, NEW g \in timers, TimerFires(g)
    PROVE  BaseInv'
<1>1. inbox' = Append(inbox, ClearIfUnchanged(g)) /\ ClearIfUnchanged(g) \in Tasks /\ owed' = owed
    BY TaskKinds DEF TimerFires, BaseInv, TypeOK
<1>2. /\ inbox' \in Seq(Tasks)
      /\ DOMAIN inbox' = DOMAIN inbox \cup {Len(inbox) + 1}
      /\ inbox'[Len(inbox) + 1] = ClearIfUnchanged(g)
      /\ \A i \in DOMAIN inbox : inbox'[i] = inbox[i] /\ i <= Len(inbox)
      /\ Len(inbox) \in Nat /\ DOMAIN inbox \subseteq Nat
    BY <1>1, Appending DEF BaseInv
<1>3. TypeOK'
    BY <1>2 DEF BaseInv, TypeOK, TimerFires, watching
<1>4. OwedIsLast'
    <2>1. Writes' = Writes
        BY <1>2, TaskKinds DEF Writes
    <2>2. \A i \in Writes : inbox'[i] = inbox[i]
        BY <1>2 DEF Writes
    <2> QED
        BY <1>1, <2>1, <2>2 DEF BaseInv, OwedIsLast
<1>5. ClearInv'
    BY ClearStays DEF BaseInv, TimerFires, Between
<1> QED
    BY <1>3, <1>4, <1>5 DEF BaseInv

LEMMA BaseApplyWrite ==
    ASSUME BaseInv, ApplyWrite
    PROVE  BaseInv'
<1>1. Newest(inbox) = owed /\ (owed # Nobody => owed \in Clips \cup {Token})
    BY NewestIsOwed DEF BaseInv
<1>2. inbox' = <<>> /\ owed' = Nobody
    BY <1>1 DEF ApplyWrite
<1>3. OwedIsLast'
    BY <1>2 DEF OwedIsLast, Writes
<1>4. inbox' \in Seq(Tasks)
    BY <1>2
<1>5. CASE Applied(Newest(inbox))
    <2>1. owed \in Held
        BY <1>1 DEF Held
    <2>2. /\ Takes(owed, "us")
          /\ serving' = serving \/ serving' = board.n + 1
          /\ written' = written \/ written' = board.n + 1
        BY <1>1, <1>5 DEF Applied
    <2>3. ClearInv' /\ board' \in [what : Held, by : {"us", "them", "nobody"}, n : Nat]
           /\ written' \in Nat /\ serving' \in Nat
        BY <2>1, <2>2, TakenBy DEF ApplyWrite, BaseInv
    <2>4. seen' \in BOOLEAN /\ changed' \in BOOLEAN
        BY <1>5 DEF Applied, BaseInv, TypeOK
    <2>5. UNCHANGED <<platform, generation, timers, own, reading>>
        BY DEF ApplyWrite
    <2>6. TypeOK'
        BY <1>4, <2>3, <2>4, <2>5 DEF BaseInv, TypeOK
    <2> QED
        BY <1>3, <2>3, <2>6 DEF BaseInv
<1>6. CASE /\ GoesOn(FALSE, ToClear(inbox))
           /\ UNCHANGED <<board, notices, raced, serving, written, seen, changed>>
    <2>1. UNCHANGED <<platform, generation, timers, own, reading>>
        BY DEF ApplyWrite
    <2>2. ClearInv'
        BY <1>6, <2>1, ClearStays, GoesOnIs DEF BaseInv
    <2>3. TypeOK'
        BY <1>4, <1>6, <2>1 DEF BaseInv, TypeOK
    <2> QED
        BY <1>3, <2>2, <2>3 DEF BaseInv
<1> QED
    BY <1>5, <1>6 DEF ApplyWrite

(* The number Windows' writer reads is that of its own change or of a copy made since. *)
LEMMA BaseConfirm ==
    ASSUME BaseInv, Confirm
    PROVE  BaseInv'
<1>1. OwedIsLast'
    BY OwedStays DEF Confirm, BaseInv
<1>2. written' \in Nat
    BY DEF Confirm, BaseInv, TypeOK
<1>3. TypeOK'
    BY <1>2 DEF Confirm, BaseInv, TypeOK, watching
<1>4. UNCHANGED <<platform, board, serving, notices, raced>> /\ ~Between'
    BY GoesOnIs DEF Confirm
<1>5. NumberIsOurs'
    <2>1. CASE platform = "windows"
        <3>1. written' = board.n /\ Between
            BY <2>1 DEF Confirm, Between
        <3> QED
            BY <1>4, <3>1 DEF BaseInv, ClearInv, CameBetween, NumberIsOurs, TypeOK
    <2>2. CASE platform # "windows"
        BY <1>4, <2>2 DEF Confirm, BaseInv, ClearInv, NumberIsOurs
    <2> QED
        BY <2>1, <2>2
<1> QED
    BY <1>1, <1>3, <1>4, <1>5 DEF BaseInv, ClearInv, ServedOrCancelled, CameBetween

(* What each platform asks (the owner, its own cancelled source, the change number) tells        *)
(* another's copy from the writer's own change, unless it came before the number was read.       *)
LEMMA AskingTells ==
    ASSUME BaseInv, StillOurs, board.by = "them"
    PROVE  raced
    BY DEF StillOurs, ServerSaysOurs, NotCancelled, SequenceIsOurs, ChangeCountIsOurs, BaseInv,
        ClearInv, NumberIsOurs, ServedOrCancelled, TypeOK

LEMMA BaseApplyClear ==
    ASSUME BaseInv, ApplyClear
    PROVE  BaseInv'
<1>1. OwedIsLast'
    BY OwedStays DEF ApplyClear, BaseInv
<1>2. UNCHANGED <<platform, board, inbox, generation, timers, own, written, watching, raced>>
    BY DEF ApplyClear
<1>3. serving' = 0 \/ (serving' = serving /\ notices' = notices)
    BY DEF ApplyClear
<1>6. TypeOK'
    BY <1>2, <1>3 DEF BaseInv, TypeOK, watching
<1>7. ServedOrCancelled'
    BY <1>2, <1>3 DEF BaseInv, ClearInv, ServedOrCancelled
<1>4. NumberIsOurs'
    BY <1>2 DEF BaseInv, ClearInv, NumberIsOurs
<1>5. CameBetween'
    <2>1. CASE StillOurs
        BY <1>2, <2>1, AskingTells DEF CameBetween
    <2>2. CASE ~StillOurs
        <3>1. GoesOn(FALSE, Nobody) \/ GoesOn(clear.holding, Nobody)
            BY <2>2 DEF ApplyClear
        <3> QED
            BY <3>1, GoesOnIs DEF CameBetween
    <2> QED
        BY <2>1, <2>2
<1> QED
    BY <1>1, <1>4, <1>5, <1>6, <1>7 DEF BaseInv, ClearInv

LEMMA BaseRelease ==
    ASSUME BaseInv, Release
    PROVE  BaseInv'
<1>1. OwedIsLast'
    BY OwedStays DEF Release, BaseInv
<1>2. CASE Takes(Nobody, "nobody")
    <2>1. written' = written \/ written' = board.n + 1
        BY DEF Release, GoesOn
    <2>2. ClearInv' /\ board' \in [what : Held, by : {"us", "them", "nobody"}, n : Nat]
          /\ written' \in Nat /\ serving' \in Nat
        BY <1>2, <2>1, TakenBy DEF Release, BaseInv, Held
    <2>3. TypeOK'
        BY <2>2 DEF Release, BaseInv, TypeOK
    <2> QED
        BY <1>1, <2>2, <2>3 DEF BaseInv
<1>3. CASE GoesOn(clear.holding, Nobody) /\ UNCHANGED <<board, notices, raced, changed, written>>
    <2>1. TypeOK'
        BY <1>3 DEF Release, BaseInv, TypeOK
    <2>2. ClearInv'
        BY <1>3, ClearStays, GoesOnIs DEF Release, BaseInv
    <2> QED
        BY <1>1, <2>1, <2>2 DEF BaseInv
<1> QED
    BY <1>2, <1>3 DEF Release

LEMMA BaseHear ==
    ASSUME BaseInv, NEW n \in notices, Hear(n)
    PROVE  BaseInv'
<1>1. OwedIsLast'
    BY OwedStays DEF Hear, BaseInv, writing
<1>2. serving' = 0 \/ (serving' = serving /\ platform = "wayland" /\ serving # n)
    BY DEF Hear, Forget, NoLongerOwned
<1>3. TypeOK'
    BY <1>2 DEF Hear, BaseInv, TypeOK, writing, watching
<1>4. ClearInv'
    BY <1>2 DEF Hear, BaseInv, ClearInv, NumberIsOurs, ServedOrCancelled, CameBetween, Between,
        writing
<1> QED
    BY <1>1, <1>3, <1>4 DEF BaseInv

LEMMA BaseWatcher ==
    ASSUME BaseInv, Watcher
    PROVE  BaseInv'
<1>1. UNCHANGED <<platform, board, inbox, serving, notices, written, timers, owed, raced, writer>>
    BY DEF Watcher, Look, Report, Reconnect, writing
<1>2. OwedIsLast' /\ ClearInv'
    BY <1>1, OwedStays, ClearStays DEF BaseInv, Between
<1>3. CASE Look
    <2>1. reading' = reading \/ reading' = [what |-> board.what, by |-> board.by]
        BY <1>3 DEF Look
    <2>2. reading' = Nobody \/ reading' \in [what : Held, by : {"us", "them", "nobody"}]
        BY <2>1 DEF BaseInv, TypeOK
    <2> QED
        BY <1>1, <1>2, <1>3, <2>2 DEF Look, BaseInv, TypeOK, writing
<1>4. CASE Report
    <2>1. generation' \in Nat /\ own' \subseteq own
        BY <1>4 DEF Report, BaseInv, TypeOK
    <2> QED
        BY <1>1, <1>2, <1>4, <2>1 DEF Report, BaseInv, TypeOK
<1>5. CASE Reconnect
    BY <1>1, <1>2, <1>5 DEF Reconnect, BaseInv, TypeOK
<1> QED
    BY <1>3, <1>4, <1>5 DEF Watcher

LEMMA BaseCopy ==
    ASSUME BaseInv, NEW x \in Clips \cup {Secret}, Copy(x)
    PROVE  BaseInv'
<1>1. OwedIsLast'
    BY OwedStays DEF Copy, BaseInv, writing
<1>2. ClearInv'
    BY TakenBy DEF Copy, BaseInv, Held, writing
<1>3. board' = [what |-> x, by |-> "them", n |-> board.n + 1] /\ board.n \in Nat
    BY DEF Copy, Takes, BaseInv, TypeOK
<1>4. board' \in [what : Held, by : {"us", "them", "nobody"}, n : Nat]
    BY <1>3 DEF Held
<1>5. TypeOK'
    BY <1>4 DEF Copy, BaseInv, TypeOK, writing
<1> QED
    BY <1>1, <1>2, <1>5 DEF BaseInv

LEMMA BaseStep == BaseInv /\ [Next]_vars => BaseInv'
<1> SUFFICES ASSUME BaseInv, [Next]_vars PROVE BaseInv'
    OBVIOUS
<1>1. CASE UNCHANGED vars
    <2>1. TypeOK'
        BY <1>1 DEF BaseInv, TypeOK, vars
    <2> QED
        BY <1>1, <2>1, OwedStays, ClearStays DEF BaseInv, vars, Between
<1>2. ASSUME NEW x \in Clips \cup {Secret}, Copy(x) PROVE BaseInv'
    BY <1>2, BaseCopy
<1>3. CASE WriteConcealed
    BY <1>3, BaseQueue DEF WriteConcealed
<1>4. ASSUME NEW x \in Clips, WriteText(x) PROVE BaseInv'
    BY <1>4, BaseQueue DEF WriteText
<1>5. CASE Interrupt \/ Wake \/ ServeEnds
    <2>1. UNCHANGED <<platform, board, inbox, serving, notices, generation, timers, own, written,
                      watching, owed, raced>> /\ (Between' => Between)
        BY <1>5 DEF Interrupt, Wake, ServeEnds, Between
    <2>2. TypeOK'
        BY <2>1 DEF BaseInv, TypeOK, watching
    <2> QED
        BY <2>1, <2>2, OwedStays, ClearStays DEF BaseInv
<1>6. CASE ApplyWrite \/ Confirm
    BY <1>6, BaseApplyWrite, BaseConfirm
<1>7. CASE ApplyClear \/ Release
    BY <1>7, BaseApplyClear, BaseRelease
<1>8. ASSUME NEW n \in notices, Hear(n) PROVE BaseInv'
    BY <1>8, BaseHear
<1>9. CASE Watcher
    BY <1>9, BaseWatcher
<1>10. ASSUME NEW g \in timers, TimerFires(g) PROVE BaseInv'
    BY <1>10, BaseTimer
<1>11. ASSUME NEW x \in own, Expire(x) PROVE BaseInv'
    <2>1. own' \subseteq own /\ UNCHANGED <<platform, board, inbox, serving, notices, generation,
                      timers, written, watching, owed, raced, writer>>
        BY <1>11 DEF Expire, writing
    <2>2. TypeOK'
        BY <2>1 DEF BaseInv, TypeOK, watching
    <2> QED
        BY <2>1, <2>2, OwedStays, ClearStays DEF BaseInv, Between
<1> QED
    BY <1>1, <1>2, <1>3, <1>4, <1>5, <1>6, <1>7, <1>8, <1>9, <1>10, <1>11
    DEF Next, Person, Daemon, Writer, Server, Clock

LEMMA BaseAlways == Spec => []BaseInv
    BY BaseInit, BaseStep, PTL DEF Spec

(* Whatever else was queued with it, and however the writer's steps fall, the newest clip queued *)
(* is the one the writer takes from its channel (Batch::push, writer_loop).                      *)
THEOREM NewestIsWritten == Spec => []NewestWins
<1>1. BaseInv => NewestWins
    BY DEF BaseInv, OwedIsLast, Writes, NewestWins
<1> QED
    BY <1>1, BaseAlways, PTL

(* A scheduled clear takes from the clipboard what somebody copied there only if it was copied   *)
(* between two of the writer's calls: after it had asked whether the clipboard is still its own, *)
(* or, on Windows, before it read the number of its change (release_selection).                  *)
THEOREM CopiesSpared == Spec => ClearSparesCopies
<1>1. ASSUME BaseInv, [Next]_vars, board.by = "them", board'.by = "nobody"
      PROVE  raced
    <2>1. CASE Release
        <3>1. Between
            BY <2>1 DEF Release, Between
        <3> QED
            BY <1>1, <3>1 DEF BaseInv, ClearInv, CameBetween
    <2>2. ~(board' = board)
        BY <1>1
    <2>3. ASSUME NEW x, NEW by \in {"us", "them"}, Takes(x, by)
          PROVE  FALSE
        BY <1>1, <2>3 DEF Takes
    <2>4. ~ApplyWrite
        BY <2>2, <2>3 DEF ApplyWrite, Applied
    <2> QED
        BY <1>1, <2>1, <2>2, <2>3, <2>4
        DEF Next, Person, Daemon, Writer, Server, Watcher, Clock, vars, Copy, WriteConcealed,
            WriteText, Queue, Interrupt, Wake, Confirm, ApplyClear, ServeEnds, Hear, Look, Report,
            Reconnect, TimerFires, Expire
<1>2. BaseInv /\ [Next]_vars => [board.by = "them" /\ board'.by = "nobody" => raced]_vars
    BY <1>1
<1> QED
    BY <1>2, BaseAlways, PTL DEF Spec, ClearSparesCopies

-----------------------------------------------------------------------------
(* The echo, where a clip in flight is not put there again meanwhile.                            *)

LEMMA EchoInit == Init => EchoInv
<1> SUFFICES ASSUME Init PROVE EchoInv
    OBVIOUS
<1>1. ~\E x \in Clips : Unseen(x) \/ Queueing(x) \/ Reading(x)
    BY ClipboardAssumption DEF Init, Unseen, Queueing, Reading
<1>2. AlwaysSeen /\ NoEcho
    BY DEF Init, AlwaysSeen, NoEcho
<1> QED
    BY <1>1, <1>2 DEF EchoInv, Covered, Once

(* A step that moves no clip along keeps the invariant. *)
LEMMA EchoStays ==
    ASSUME EchoInv, own' = own, lapsed' = lapsed, echoes' = echoes, platform' = platform, AlwaysSeen',
           \A x \in Clips : /\ Queueing(x)' => Queueing(x)
                            /\ Reading(x)' => Reading(x) /\ reading' = reading
                            /\ Unseen(x)' => Unseen(x) /\ board' = board
    PROVE  EchoInv'
    BY DEF EchoInv, Covered, Once, NoEcho

LEMMA EchoCopy ==
    ASSUME ~Repeats, BaseInv, EchoInv, NEW y \in Clips \cup {Secret}, Copy(y)
    PROVE  EchoInv'
<1>1. ~InFlight(y) /\ UNCHANGED <<platform, own, lapsed, seen, reading, echoes, inbox>>
    BY DEF Copy, writing
<1>2. board'.what = y /\ board'.by = "them"
    BY DEF Copy, Takes
<1>3. \A x \in Clips : (Queueing(x)' <=> Queueing(x)) /\ (Reading(x)' <=> Reading(x))
                       /\ (Unseen(x)' => x = y)
    BY <1>1, <1>2 DEF Queueing, Reading, Unseen
<1>4. y \in Clips => ~Queueing(y) /\ ~Reading(y)
    BY <1>1 DEF InFlight, UnderWay, Queueing, Reading
<1>5. Covered'
    BY <1>1, <1>2, <1>3 DEF EchoInv, Covered
<1>6. Once'
    BY <1>2, <1>3, <1>4 DEF EchoInv, Once
<1> QED
    BY <1>1, <1>5, <1>6 DEF EchoInv, AlwaysSeen, NoEcho

LEMMA EchoQueue ==
    ASSUME ~Repeats, BaseInv, EchoInv, NEW y \in Clips \cup {Token}, Queue(y)
    PROVE  EchoInv'
<1>1. ~InFlight(y) /\ UNCHANGED <<platform, board, seen, changed, reading, echoes>>
    BY DEF Queue
<1>2. own' = own \cup {y} /\ lapsed' = lapsed \ {y}
    BY DEF Queue, Remembered
<1>3. inbox' = Append(inbox, Write(y)) /\ Write(y) \in Tasks
    BY TaskKinds DEF Queue
<1>4. /\ DOMAIN inbox' = DOMAIN inbox \cup {Len(inbox) + 1}
      /\ inbox'[Len(inbox) + 1] = Write(y)
      /\ \A i \in DOMAIN inbox : inbox'[i] = inbox[i]
    BY <1>3, Appending DEF BaseInv
<1>5. \A x \in Clips : /\ Queueing(x)' => Queueing(x) \/ x = y
                       /\ Reading(x)' <=> Reading(x)
                       /\ Unseen(x)' <=> Unseen(x)
    BY <1>1, <1>4, TaskKinds DEF Queueing, Reading, Unseen
<1>6. ~Unseen(y) /\ ~Reading(y)
    BY <1>1 DEF InFlight, UnderWay, Unseen, Reading
<1>7. Covered'
    BY <1>1, <1>2, <1>5 DEF EchoInv, Covered
<1>8. Once'
    BY <1>1, <1>5, <1>6 DEF EchoInv, Once
<1> QED
    BY <1>1, <1>7, <1>8 DEF EchoInv, AlwaysSeen, NoEcho

LEMMA EchoTimer ==
    ASSUME BaseInv, EchoInv, NEW g \in timers, TimerFires(g)
    PROVE  EchoInv'
<1>1. UNCHANGED <<platform, board, own, lapsed, watching>>
    BY DEF TimerFires
<1>2. inbox' = Append(inbox, ClearIfUnchanged(g)) /\ ClearIfUnchanged(g) \in Tasks
    BY TaskKinds DEF TimerFires, BaseInv, TypeOK
<1>3. /\ DOMAIN inbox' = DOMAIN inbox \cup {Len(inbox) + 1}
      /\ inbox'[Len(inbox) + 1] = ClearIfUnchanged(g)
      /\ \A i \in DOMAIN inbox : inbox'[i] = inbox[i]
    BY <1>2, Appending DEF BaseInv
<1>4. \A x \in Clips : Queueing(x)' => Queueing(x)
    BY <1>3, TaskKinds DEF Queueing
<1> QED
    BY <1>1, <1>4, EchoStays DEF watching, Reading, Unseen, EchoInv, AlwaysSeen

LEMMA EchoApplyWrite ==
    ASSUME BaseInv, EchoInv, ApplyWrite
    PROVE  EchoInv'
<1>1. Newest(inbox) = owed /\ (owed # Nobody => owed \in Clips \cup {Token} /\ Queueing(owed))
    BY NewestIsOwed DEF BaseInv
<1>2. UNCHANGED <<platform, own, lapsed, reading, echoes>>
    BY DEF ApplyWrite
<1>3. \A x \in Clips : ~Queueing(x)' /\ (Reading(x)' <=> Reading(x))
    BY DEF ApplyWrite, Queueing, Reading
<1>4. CASE Applied(Newest(inbox))
    <2>1. board'.what = owed /\ owed # Nobody /\ seen' = (seen \/ platform = "macos")
        BY <1>1, <1>4 DEF Applied, Takes
    <2>2. \A x \in Clips : Unseen(x)' => x = owed
        BY <2>1 DEF Unseen
    <2>3. Covered'
        BY <1>1, <1>2, <1>3, <2>1, <2>2 DEF EchoInv, Covered
    <2>4. Once'
        BY <1>1, <1>2, <1>3, <2>1, <2>2 DEF EchoInv, Once
    <2> QED
        BY <1>2, <2>1, <2>3, <2>4 DEF EchoInv, AlwaysSeen, NoEcho
<1>5. CASE UNCHANGED <<board, notices, raced, serving, written, seen, changed>>
    BY <1>2, <1>3, <1>5, EchoStays DEF Unseen, EchoInv, AlwaysSeen
<1> QED
    BY <1>4, <1>5 DEF ApplyWrite

LEMMA EchoRelease ==
    ASSUME BaseInv, EchoInv, Release
    PROVE  EchoInv'
<1>1. UNCHANGED <<platform, inbox, own, lapsed, seen, reading, echoes>>
    BY DEF Release
<1>2. \A x \in Clips : (Queueing(x)' <=> Queueing(x)) /\ (Reading(x)' <=> Reading(x))
    BY <1>1 DEF Queueing, Reading
<1>3. CASE Takes(Nobody, "nobody")
    <2>1. board'.what = Nobody
        BY <1>3 DEF Takes
    <2>2. \A x \in Clips : ~Unseen(x)'
        BY <2>1, ClipboardAssumption DEF Unseen
    <2> QED
        BY <1>1, <1>2, <2>2, EchoStays DEF EchoInv, AlwaysSeen
<1>4. CASE UNCHANGED <<board, changed>>
    BY <1>1, <1>2, <1>4, EchoStays DEF Unseen, EchoInv, AlwaysSeen
<1> QED
    BY <1>3, <1>4 DEF Release

(* What the watcher reads it has had its baseline for, and then has looked at. *)
LEMMA EchoLook ==
    ASSUME BaseInv, EchoInv, Look
    PROVE  EchoInv'
<1>1. UNCHANGED <<platform, board, inbox, own, lapsed, echoes>> /\ reading = Nobody /\ changed /\ ~changed'
    BY DEF Look, writing
<1>2. \A x \in Clips : (Queueing(x)' <=> Queueing(x)) /\ ~Unseen(x)'
    BY <1>1 DEF Queueing, Unseen
<1>3. CASE reading' = reading
    BY <1>1, <1>2, <1>3, EchoStays DEF Look, Reading, AlwaysSeen
<1>4. CASE IsNews /\ reading' = [what |-> board.what, by |-> board.by]
    <2>1. seen
        BY <1>4, ClipboardAssumption DEF IsNews, ReportsWayland, PollOnce, EchoInv, AlwaysSeen,
            BaseInv, TypeOK
    <2>2. \A x \in Clips : Reading(x)' => Unseen(x) /\ reading'.by = board.by
        BY <1>1, <1>4, <2>1 DEF Unseen, Reading
    <2>3. Covered'
        BY <1>1, <1>2, <2>2 DEF EchoInv, Covered
    <2>4. Once'
        BY <1>1, <1>2, <2>2 DEF EchoInv, Once
    <2> QED
        BY <1>1, <2>3, <2>4 DEF Look, EchoInv, AlwaysSeen, NoEcho
<1> QED
    BY <1>3, <1>4 DEF Look

(* A report uses up the memory of the clip it reports, which is nowhere else; an own write is    *)
(* remembered, so that it is no copy.                                                            *)
LEMMA EchoReport ==
    ASSUME BaseInv, EchoInv, Report
    PROVE  EchoInv'
<1>1. UNCHANGED <<platform, board, inbox, changed, seen>> /\ reading # Nobody /\ reading' = Nobody
    BY DEF Report, writing
<1>2. \A x \in Clips : (Queueing(x)' <=> Queueing(x)) /\ (Unseen(x)' <=> Unseen(x)) /\ ~Reading(x)'
    BY <1>1 DEF Queueing, Unseen, Reading
<1>3. \A x \in Clips : x \in own \cup lapsed /\ ~Reading(x) => x \in own' \cup lapsed'
    BY <1>1, ClipboardAssumption DEF Report, Ours, Sensitive, Reading
<1>4. Covered'
    BY <1>1, <1>2, <1>3 DEF EchoInv, Covered, Once
<1>5. Once'
    BY <1>2 DEF EchoInv, Once
<1>6. NoEcho'
    <2>1. CASE echoes' = echoes
        BY <2>1 DEF EchoInv, NoEcho
    <2>2. CASE /\ Ours(reading.what) = {}
               /\ echoes' = echoes \cup
                      (IF Counts(reading.what) /\ reading.by = "us"
                       THEN {[what |-> reading.what, late |-> reading.what \in lapsed]} ELSE {})
        <3>1. reading.what \in Clips /\ reading.by = "us" => reading.what \in own \cup lapsed
            BY <1>1 DEF EchoInv, Covered, Reading
        <3>2. reading.what \in Clips => Ours(reading.what) = own \cap {reading.what}
            BY ClipboardAssumption DEF Ours, Sensitive
        <3>3. reading.what \in Clips /\ reading.by = "us" => reading.what \in lapsed
            BY <2>2, <3>1, <3>2
        <3>4. ASSUME NEW e \in echoes' \ echoes
              PROVE  e.late
            <4>1. /\ Counts(reading.what) /\ reading.by = "us"
                  /\ e = [what |-> reading.what, late |-> reading.what \in lapsed]
                BY <2>2, <3>4
            <4>2. reading.what \in lapsed
                BY <3>3, <4>1 DEF Counts
            <4> QED
                BY <4>1, <4>2
        <3> QED
            BY <3>4 DEF EchoInv, NoEcho
    <2> QED
        BY <2>1, <2>2 DEF Report
<1> QED
    BY <1>1, <1>4, <1>5, <1>6 DEF EchoInv, AlwaysSeen

(* A new connection of the watcher has nothing to report, or its first selection to pass over. *)
LEMMA EchoReconnect ==
    ASSUME BaseInv, EchoInv, Reconnect
    PROVE  EchoInv'
<1>1. UNCHANGED <<platform, board, inbox, own, lapsed, echoes>>
    BY DEF Reconnect, writing
<1>2. \A x \in Clips : (Queueing(x)' <=> Queueing(x)) /\ ~Unseen(x)' /\ ~Reading(x)'
    BY <1>1 DEF Reconnect, Queueing, Unseen, Reading
<1>3. AlwaysSeen'
    BY <1>1 DEF Reconnect, AlwaysSeen
<1> QED
    BY <1>1, <1>2, <1>3, EchoStays

(* What is forgotten while it is on its way has lapsed. *)
LEMMA EchoExpire ==
    ASSUME BaseInv, EchoInv, NEW y \in own, Expire(y)
    PROVE  EchoInv'
<1>1. UNCHANGED <<platform, board, inbox, watching>> /\ own' = own \ {y} /\ lapsed \subseteq lapsed'
    BY DEF Expire, writing
<1>2. y \in Clips /\ (Queueing(y) \/ Unseen(y) \/ Reading(y)) => y \in lapsed'
    BY DEF Expire, UnderWay, Queueing, Unseen, Reading
<1>3. \A x \in Clips : /\ Queueing(x)' <=> Queueing(x)
                       /\ Unseen(x)' <=> Unseen(x)
                       /\ Reading(x)' <=> Reading(x)
    BY <1>1 DEF Queueing, Unseen, Reading, watching
<1>4. Covered'
    BY <1>1, <1>2, <1>3 DEF EchoInv, Covered, watching
<1>5. Once'
    BY <1>1, <1>3 DEF EchoInv, Once
<1> QED
    BY <1>1, <1>4, <1>5 DEF EchoInv, AlwaysSeen, NoEcho, watching

LEMMA EchoStep ==
    ASSUME ~Repeats
    PROVE  BaseInv /\ EchoInv /\ [Next]_vars => EchoInv'
<1> SUFFICES ASSUME BaseInv, EchoInv, [Next]_vars PROVE EchoInv'
    OBVIOUS
<1>1. CASE UNCHANGED <<platform, board, inbox, own, lapsed, watching>>
    BY <1>1, EchoStays DEF watching, Queueing, Reading, Unseen, EchoInv, AlwaysSeen
<1>2. ASSUME NEW x \in Clips \cup {Secret}, Copy(x) PROVE EchoInv'
    BY <1>2, EchoCopy
<1>3. CASE WriteConcealed
    BY <1>3, EchoQueue DEF WriteConcealed
<1>4. ASSUME NEW x \in Clips, WriteText(x) PROVE EchoInv'
    BY <1>4, EchoQueue DEF WriteText
<1>5. CASE Interrupt \/ Wake \/ Confirm \/ ApplyClear \/ ServeEnds
    BY <1>1, <1>5 DEF Interrupt, Wake, Confirm, ApplyClear, ServeEnds
<1>6. CASE ApplyWrite
    BY <1>6, EchoApplyWrite
<1>7. CASE Release
    BY <1>7, EchoRelease
<1>8. ASSUME NEW n \in notices, Hear(n) PROVE EchoInv'
    BY <1>1, <1>8 DEF Hear, writing
<1>9. CASE Watcher
    BY <1>9, EchoLook, EchoReport, EchoReconnect DEF Watcher
<1>10. ASSUME NEW g \in timers, TimerFires(g) PROVE EchoInv'
    BY <1>10, EchoTimer
<1>11. ASSUME NEW x \in own, Expire(x) PROVE EchoInv'
    BY <1>11, EchoExpire
<1>12. CASE UNCHANGED vars
    BY <1>1, <1>12 DEF vars, watching
<1> QED
    BY <1>2, <1>3, <1>4, <1>5, <1>6, <1>7, <1>8, <1>9, <1>10, <1>11, <1>12
    DEF Next, Person, Daemon, Writer, Server, Clock

(* A clip this device wrote to its clipboard is reported as copied here, and so bounces between  *)
(* devices, only if the memory of it ran out by the clock first, on any platform, through        *)
(* reconnections and failed writes (OwnWrites, to_observed).                                     *)
THEOREM NeverEchoes ==
    ASSUME ~Repeats
    PROVE  Spec => []NoEcho
<1>1. EchoInv => NoEcho
    BY DEF EchoInv
<1>2. BaseInv /\ EchoInv /\ [Next]_vars => EchoInv'
    BY EchoStep
<1> QED
    BY <1>1, <1>2, BaseAlways, EchoInit, PTL DEF Spec

(***************************************************************************)
(* The reading of a clipboard on Linux, in the model the runs check: a     *)
(* behaviour of it is one of Clipboard, and one of the component that its  *)
(* part says.                                                              *)
(***************************************************************************)
LEMMA PartStarts ==
    ASSUME MCInit
    PROVE  /\ Init
           /\ part = "conversion" => Read!Init
           /\ part = "selection" => Select!Init
BY DEF MCInit

LEMMA PartGoesOn ==
    ASSUME [MCNext]_<<part, vars, both, onX11, onWayland>>
    PROVE  /\ part' = part
           /\ [Next]_vars
           /\ part = "conversion" => [Read!Next]_(Read!vars)
           /\ part = "selection" => [Select!Next]_(Select!vars)
<1>1. CASE UNCHANGED <<part, vars, both, onX11, onWayland>>
    <2>1. UNCHANGED part /\ UNCHANGED vars /\ UNCHANGED <<both, onX11, onWayland>>
        BY <1>1
    <2>2. UNCHANGED Read!vars
        BY <2>1 DEF both, onX11, Read!vars
    <2>3. UNCHANGED Select!vars
        BY <2>1 DEF both, onWayland, Select!vars
    <2> QED
        BY <2>1, <2>2, <2>3
<1>2. CASE MCNext
    BY <1>2 DEF MCNext
<1> QED
    BY <1>1, <1>2

(* What is proved of Clipboard holds in that model too.                    *)
LEMMA ModelIsBridge == MCSpec => Spec
<1>1. MCInit => Init
    BY PartStarts
<1>2. [MCNext]_<<part, vars, both, onX11, onWayland>> => [Next]_vars
    BY PartGoesOn
<1> QED
    BY <1>1, <1>2, PTL DEF MCSpec, Spec

(* Head and tail of a sequence, by position.                               *)
LEMMA SeqEnds ==
    ASSUME NEW S, NEW d \in Seq(S), d # <<>>
    PROVE  /\ 1 \in DOMAIN d /\ Head(d) = d[1] /\ Tail(d) \in Seq(S)
           /\ \A p \in DOMAIN d :
                  p \in Nat /\ p > 0 /\ (p # 1 => p - 1 \in DOMAIN Tail(d) /\ Tail(d)[p - 1] = d[p])
           /\ \A p \in DOMAIN Tail(d) : p \in Nat /\ p > 0 /\ p + 1 \in DOMAIN d /\ Tail(d)[p] = d[p + 1]
<1>1. /\ DOMAIN d = 1 .. Len(d) /\ Len(d) \in Nat \ {0}
      /\ Tail(d) \in Seq(S) /\ DOMAIN Tail(d) = 1 .. Len(d) - 1
      /\ Head(d) = d[1]
      /\ \A p \in 1 .. Len(d) - 1 : Tail(d)[p] = d[p + 1]
    OBVIOUS
<1>2. ASSUME NEW p \in DOMAIN d, p # 1 PROVE p - 1 \in DOMAIN Tail(d) /\ Tail(d)[p - 1] = d[p]
    <2>1. p - 1 \in 1 .. Len(d) - 1 /\ p - 1 + 1 = p
        BY <1>1, <1>2
    <2> QED
        BY <1>1, <2>1
<1> QED
    BY <1>1, <1>2

(* A sequence with one more, by position.                                  *)
LEMMA AppendIs ==
    ASSUME NEW S, NEW d \in Seq(S), NEW f \in S
    PROVE  /\ DOMAIN Append(d, f) = DOMAIN d \cup {Len(d) + 1} /\ Append(d, f)[Len(d) + 1] = f
           /\ \A p \in DOMAIN d : p \in Nat /\ p < Len(d) + 1 /\ Append(d, f)[p] = d[p]
           /\ Len(d) \in Nat
OBVIOUS

(***************************************************************************)
(* The selection of Wayland.  The offers there are are those still to be   *)
(* announced, the one kept and the one read (Alive, Named), so that none   *)
(* is left over; the selection announced last is the newest, and once none *)
(* is to come the offer kept or read is the newest or its reading is over  *)
(* (NewestOffer).                                                          *)
(***************************************************************************)
Closing == {"selection", "primary"}

Notices ==
    [kind : {"offer"}, id : Select!Ids] \cup [kind : {"mime"}, id : Select!Ids, mime : Select!Contents]
        \cup [kind : Closing, id : Select!Ids] \cup {Select!Emptied}

(* Announcements, from the middle of one on.                               *)
Wired(w) ==
    /\ w \in Seq(Notices)
    /\ \A i \in DOMAIN w :
        /\ w[i].kind = "offer" => i + 1 \in DOMAIN w /\ w[i + 1].kind = "mime" /\ w[i + 1].id = w[i].id
        /\ w[i].kind = "mime" =>
            i + 1 \in DOMAIN w /\ w[i + 1].kind \in Closing /\ w[i + 1].id = w[i].id
        /\ w[i].kind \in Closing /\ i + 1 \in DOMAIN w =>
            w[i + 1].kind = "offer" \/ w[i + 1] = Select!Emptied
    /\ \A i, j \in DOMAIN w :
        i < j /\ w[i].kind \in Closing /\ w[i].id \in Select!Ids => w[j].id # w[i].id

SelectTypes ==
    /\ held.n \in 0 .. MaxCopies
    /\ held = [n |-> held.n, kind |-> held.kind]
    /\ held.kind \in Select!Contents \cup {"empty"}
    /\ shown \in 0 .. MaxShown
    /\ live \in [DOMAIN live -> [n : Nat \cup {None}, kind : Select!Contents]]
    /\ offers \in [DOMAIN offers -> SUBSET Select!Contents]
    /\ DOMAIN offers \subseteq DOMAIN live /\ DOMAIN live \subseteq Select!Ids
    /\ pending \in Select!Ids \cup {None, Select!Clear}
    /\ pipe \in Select!Ids \cup {None}
    /\ pipe # None => pending = None
    /\ Wired(wire)

Spare == Cardinality(DOMAIN live) <= held.n + shown + 1

Kept(id) == id \in {pending, pipe}

Named ==
    \A i \in DOMAIN wire : wire[i].id \in Select!Ids =>
        /\ wire[i].id \in DOMAIN live /\ ~Kept(wire[i].id)
        /\ wire[i].kind = "mime" => wire[i].mime = live[wire[i].id].kind

Alive ==
    \A id \in DOMAIN live :
        Kept(id) \/ \E i \in DOMAIN wire : wire[i].kind \in Closing /\ wire[i].id = id

(* What the watcher knows of the offers it was told of.                    *)
Known(id) == id \in DOMAIN offers /\ offers[id] = {live[id].kind}

Formats ==
    /\ \A id \in Select!Ids : Kept(id) => id \in DOMAIN live /\ Known(id)
    /\ wire # <<>> /\ wire[1].kind = "mime" =>
        wire[1].id \in DOMAIN offers /\ offers[wire[1].id] = {}
    /\ wire # <<>> /\ wire[1].kind \in Closing /\ wire[1].id \in Select!Ids => Known(wire[1].id)

(* id is the offer of the selection b, or of nothing when there is none.   *)
IsBoard(id, b, all) ==
    IF b.kind = "empty" THEN id \notin Select!Ids ELSE id \in Select!Ids /\ all[id] = b

Over ==
    held.kind \in {"empty", "files"} \/ held.n = first \/ gaveUp \/ told = held

(* The last selection announced in w.                                      *)
Latest(w, i) == w[i].kind = "selection" /\ \A j \in DOMAIN w : w[j].kind = "selection" => j <= i

NewestOffer ==
    /\ \A i \in DOMAIN wire : Latest(wire, i) => IsBoard(wire[i].id, held, live)
    /\ (\A i \in DOMAIN wire : wire[i].kind # "selection") =>
        /\ pending # None => IsBoard(pending, held, live)
        /\ pipe # None => IsBoard(pipe, held, live)
        /\ pending = None /\ pipe = None => Over

SelectInv == SelectTypes /\ Spare /\ Named /\ Alive /\ Formats /\ NewestOffer

LEMMA NoticeFields ==
    ASSUME Select!SelectionAssumption, NEW e \in Notices
    PROVE  /\ e.kind \in {"offer", "mime"} \cup Closing
           /\ e.kind # "selection" => e.id \in Select!Ids
           /\ e.id \in Select!Ids \/ e = Select!Emptied
           /\ e.kind = "mime" => e.mime \in Select!Contents
           /\ Select!Emptied.kind = "selection" /\ Select!Emptied.id = None /\ None \notin Select!Ids
<1>1. None \notin Select!Ids
    BY DEF Select!SelectionAssumption, Select!Ids
<1>2. Select!Emptied.kind = "selection" /\ Select!Emptied.id = None
    BY DEF Select!Emptied
<1>3. CASE e \in [kind : {"offer"}, id : Select!Ids]
    BY <1>1, <1>2, <1>3 DEF Closing
<1>4. CASE e \in [kind : {"mime"}, id : Select!Ids, mime : Select!Contents]
    BY <1>1, <1>2, <1>4 DEF Closing
<1>5. CASE e \in [kind : Closing, id : Select!Ids]
    BY <1>1, <1>2, <1>5 DEF Closing
<1>6. CASE e = Select!Emptied
    BY <1>1, <1>2, <1>6 DEF Closing
<1> QED
    BY <1>3, <1>4, <1>5, <1>6 DEF Notices

(* What is left once the first event was taken.                            *)
LEMMA WiredTail ==
    ASSUME Select!SelectionAssumption, NEW w, Wired(w), w # <<>>
    PROVE  /\ Wired(Tail(w)) /\ Head(w) = w[1] /\ w[1] \in Notices /\ 1 \in DOMAIN w
           /\ w[1].kind = "offer" =>
                Tail(w) # <<>> /\ Tail(w)[1].kind = "mime" /\ Tail(w)[1].id = w[1].id
           /\ w[1].kind = "mime" =>
                Tail(w) # <<>> /\ Tail(w)[1].kind \in Closing /\ Tail(w)[1].id = w[1].id
           /\ w[1].kind \in Closing /\ Tail(w) # <<>> =>
                Tail(w)[1].kind = "offer" \/ Tail(w)[1] = Select!Emptied
           /\ w[1].kind \in Closing /\ w[1].id \in Select!Ids =>
                \A j \in DOMAIN Tail(w) : Tail(w)[j].id # w[1].id
           /\ \A p \in DOMAIN w :
                  p \in Nat /\ p > 0 /\ (p # 1 => p - 1 \in DOMAIN Tail(w) /\ Tail(w)[p - 1] = w[p])
           /\ \A p \in DOMAIN Tail(w) : p \in Nat /\ p > 0 /\ p + 1 \in DOMAIN w /\ Tail(w)[p] = w[p + 1]
           /\ Tail(w) # <<>> <=> 1 \in DOMAIN Tail(w)
<1>1. /\ 1 \in DOMAIN w /\ Head(w) = w[1] /\ Tail(w) \in Seq(Notices)
      /\ \A p \in DOMAIN w :
             p \in Nat /\ p > 0 /\ (p # 1 => p - 1 \in DOMAIN Tail(w) /\ Tail(w)[p - 1] = w[p])
      /\ \A p \in DOMAIN Tail(w) : p \in Nat /\ p > 0 /\ p + 1 \in DOMAIN w /\ Tail(w)[p] = w[p + 1]
    BY SeqEnds, Zenon DEF Wired
<1>2. Tail(w) # <<>> <=> 1 \in DOMAIN Tail(w)
    <2> DEFINE t == Tail(w)
    <2>1. t \in Seq(Notices)
        BY <1>1
    <2> HIDE DEF t
    <2>2. t # <<>> <=> 1 \in DOMAIN t
        BY <2>1
    <2> QED
        BY <2>2 DEF t
<1>3. w[1] \in Notices
    BY <1>1 DEF Wired
<1> DEFINE t == Tail(w)
<1>4. ASSUME NEW i \in DOMAIN t
      PROVE  /\ t[i].kind = "offer" => i + 1 \in DOMAIN t /\ t[i + 1].kind = "mime" /\ t[i + 1].id = t[i].id
             /\ t[i].kind = "mime" =>
                 i + 1 \in DOMAIN t /\ t[i + 1].kind \in Closing /\ t[i + 1].id = t[i].id
             /\ t[i].kind \in Closing /\ i + 1 \in DOMAIN t =>
                 t[i + 1].kind = "offer" \/ t[i + 1] = Select!Emptied
    <2>1. i \in Nat /\ i > 0 /\ i + 1 \in DOMAIN w /\ t[i] = w[i + 1]
        BY <1>1
    <2>2. i + 1 + 1 \in DOMAIN w => i + 1 \in DOMAIN t /\ t[i + 1] = w[i + 1 + 1]
        <3>1. i + 1 + 1 # 1 /\ i + 1 + 1 - 1 = i + 1
            BY <2>1
        <3> QED
            BY <1>1, <3>1
    <2>3. i + 1 \in DOMAIN t => i + 1 + 1 \in DOMAIN w
        BY <1>1
    <2> HIDE DEF t
    <2> QED
        BY <2>1, <2>2, <2>3 DEF Wired
<1>5. ASSUME NEW i \in DOMAIN t, NEW j \in DOMAIN t, i < j, t[i].kind \in Closing, t[i].id \in Select!Ids
      PROVE  t[j].id # t[i].id
    <2>1. /\ i + 1 \in DOMAIN w /\ t[i] = w[i + 1] /\ j + 1 \in DOMAIN w /\ t[j] = w[j + 1]
          /\ i + 1 < j + 1
        BY <1>1, <1>5
    <2> HIDE DEF t
    <2> QED
        BY <1>5, <2>1 DEF Wired
<1>6. Wired(t)
    BY <1>1, <1>4, <1>5, Zenon DEF Wired
<1>7. /\ w[1].kind = "offer" => t # <<>> /\ t[1].kind = "mime" /\ t[1].id = w[1].id
      /\ w[1].kind = "mime" => t # <<>> /\ t[1].kind \in Closing /\ t[1].id = w[1].id
      /\ w[1].kind \in Closing /\ t # <<>> => t[1].kind = "offer" \/ t[1] = Select!Emptied
    <2>1. 1 + 1 \in DOMAIN w => 1 \in DOMAIN t /\ t[1] = w[1 + 1]
        <3>1. 1 + 1 # 1 /\ 1 + 1 - 1 = 1
            OBVIOUS
        <3> QED
            BY <1>1, <3>1
    <2>2. 1 \in DOMAIN t => 1 + 1 \in DOMAIN w
        BY <1>1
    <2> HIDE DEF t
    <2> QED
        BY <1>1, <1>2, <2>1, <2>2 DEF Wired, t
<1>8. w[1].kind \in Closing /\ w[1].id \in Select!Ids => \A j \in DOMAIN t : t[j].id # w[1].id
    <2> SUFFICES ASSUME w[1].kind \in Closing, w[1].id \in Select!Ids, NEW j \in DOMAIN t
                 PROVE  t[j].id # w[1].id
        OBVIOUS
    <2>1. j + 1 \in DOMAIN w /\ t[j] = w[j + 1] /\ 1 < j + 1
        BY <1>1
    <2> HIDE DEF t
    <2> QED
        BY <1>1, <2>1 DEF Wired
<1> QED
    BY <1>1, <1>2, <1>3, <1>6, <1>7, <1>8, Zenon

(* One sequence after another, by position.                                *)
LEMMA JoinIs ==
    ASSUME NEW S, NEW s \in Seq(S), NEW t \in Seq(S)
    PROVE  /\ s \o t \in Seq(S) /\ Len(s \o t) = Len(s) + Len(t) /\ Len(s) \in Nat /\ Len(t) \in Nat
           /\ DOMAIN (s \o t) = 1 .. Len(s) + Len(t) /\ DOMAIN s = 1 .. Len(s)
           /\ \A i \in 1 .. Len(s) : (s \o t)[i] = s[i]
           /\ \A i \in 1 .. Len(t) : (s \o t)[Len(s) + i] = t[i]
<1>1. s \o t \in Seq(S) /\ Len(s \o t) = Len(s) + Len(t) /\ Len(s) \in Nat /\ Len(t) \in Nat
    OBVIOUS
<1>2. DOMAIN (s \o t) = 1 .. Len(s) + Len(t) /\ DOMAIN s = 1 .. Len(s)
    BY <1>1
<1>3. \A i \in 1 .. Len(s) : (s \o t)[i] = s[i]
    OBVIOUS
<1>4. \A i \in 1 .. Len(t) : (s \o t)[Len(s) + i] = t[i]
    OBVIOUS
<1> QED
    BY <1>1, <1>2, <1>3, <1>4

(* v is w with an announcement after it.                                   *)
Added(w, v, n, id, kind, of) ==
    /\ n \in Nat /\ DOMAIN w = 1 .. n /\ DOMAIN v = 1 .. n + 3
    /\ \A i \in 1 .. n : v[i] = w[i]
    /\ v[n + 1] = [kind |-> "offer", id |-> id]
    /\ v[n + 2] = [kind |-> "mime", id |-> id, mime |-> kind]
    /\ v[n + 3] = [kind |-> of, id |-> id]

LEMMA WiredMore ==
    ASSUME Select!SelectionAssumption, NEW w, Wired(w),
           NEW id \in Select!Ids, NEW kind \in Select!Contents, NEW of \in Closing,
           \A i \in DOMAIN w : w[i].id # id,
           NEW v, v = w \o Select!Announced(id, kind, of), NEW n, n = Len(w)
    PROVE  Wired(v) /\ Added(w, v, n, id, kind, of)
<1> DEFINE t == Select!Announced(id, kind, of)
           a == [kind |-> "offer", id |-> id]
           b == [kind |-> "mime", id |-> id, mime |-> kind]
           c == [kind |-> of, id |-> id]
<1>1. t = <<a, b, c>> /\ a \in Notices /\ b \in Notices /\ c \in Notices
    BY DEF Select!Announced, Notices
<1>2. w \in Seq(Notices) /\ n \in Nat /\ DOMAIN w = 1 .. n
    BY DEF Wired
<1>3. /\ a.kind = "offer" /\ a.id = id /\ b.kind = "mime" /\ b.id = id /\ c.kind = of /\ c.id = id
    OBVIOUS
<1> HIDE DEF a, b, c, t
<1>4. t \in Seq(Notices) /\ Len(t) = 3 /\ t[1] = a /\ t[2] = b /\ t[3] = c
    BY <1>1
<1>5. /\ v \in Seq(Notices) /\ DOMAIN v = 1 .. n + 3
      /\ \A i \in 1 .. n : v[i] = w[i]
      /\ v[n + 1] = a /\ v[n + 2] = b /\ v[n + 3] = c
    <2>1. /\ v \in Seq(Notices) /\ DOMAIN v = 1 .. n + Len(t)
          /\ \A i \in 1 .. n : v[i] = w[i]
          /\ \A i \in 1 .. Len(t) : v[n + i] = t[i]
        <3>1. w \in Seq(Notices) /\ t \in Seq(Notices)
            BY <1>2, <1>4
        <3>2. v = w \o t
            BY DEF t
        <3> QED
            BY <3>1, <3>2, JoinIs
    <2> QED
        BY <1>2, <1>4, <2>1
<1>6. \A i \in 1 .. n + 3 : i \in 1 .. n \/ i = n + 1 \/ i = n + 2 \/ i = n + 3
    BY <1>2
<1>7. ASSUME NEW i \in 1 .. n + 3
      PROVE  /\ v[i].kind = "offer" =>
                 i + 1 \in DOMAIN v /\ v[i + 1].kind = "mime" /\ v[i + 1].id = v[i].id
             /\ v[i].kind = "mime" =>
                 i + 1 \in DOMAIN v /\ v[i + 1].kind \in Closing /\ v[i + 1].id = v[i].id
             /\ v[i].kind \in Closing /\ i + 1 \in DOMAIN v =>
                 v[i + 1].kind = "offer" \/ v[i + 1] = Select!Emptied
    <2>1. CASE i \in 1 .. n
        <3>1. v[i] = w[i] /\ (i + 1 \in 1 .. n => v[i + 1] = w[i + 1])
            BY <1>5, <2>1
        <3>2. i + 1 \in 1 .. n \/ i + 1 = n + 1
            BY <1>2, <2>1
        <3>3. i + 1 \in 1 .. n => i + 1 \in DOMAIN v
            BY <1>2, <1>5
        <3>4. /\ w[i].kind = "offer" =>
                   i + 1 \in 1 .. n /\ w[i + 1].kind = "mime" /\ w[i + 1].id = w[i].id
              /\ w[i].kind = "mime" =>
                   i + 1 \in 1 .. n /\ w[i + 1].kind \in Closing /\ w[i + 1].id = w[i].id
              /\ w[i].kind \in Closing /\ i + 1 \in 1 .. n =>
                   w[i + 1].kind = "offer" \/ w[i + 1] = Select!Emptied
            BY <1>2, <2>1, Zenon DEF Wired
        <3> QED
            BY <1>3, <1>5, <3>1, <3>2, <3>3, <3>4
    <2>2. CASE i = n + 1
        <3>1. i + 1 = n + 2 /\ i + 1 \in 1 .. n + 3
            BY <1>2, <2>2
        <3> QED
            BY <1>3, <1>5, <2>2, <3>1 DEF Closing
    <2>3. CASE i = n + 2
        <3>1. i + 1 = n + 3 /\ i + 1 \in 1 .. n + 3
            BY <1>2, <2>3
        <3> QED
            BY <1>3, <1>5, <2>3, <3>1 DEF Closing
    <2>4. CASE i = n + 3
        <3>1. i + 1 \notin 1 .. n + 3
            BY <1>2, <2>4
        <3> QED
            BY <1>3, <1>5, <2>4, <3>1 DEF Closing
    <2> QED
        BY <1>6, <2>1, <2>2, <2>3, <2>4
<1>8. ASSUME NEW i \in 1 .. n + 3, NEW j \in 1 .. n + 3, i < j, v[i].kind \in Closing,
             v[i].id \in Select!Ids
      PROVE  v[j].id # v[i].id
    <2>1. i \in 1 .. n
        <3>1. i # n + 3
            BY <1>2, <1>8
        <3> QED
            BY <1>3, <1>5, <1>6, <1>8, <3>1 DEF Closing
    <2>2. v[i] = w[i] /\ v[i].id # id
        BY <1>2, <1>5, <2>1
    <2>3. CASE j \in 1 .. n
        <3>1. v[j] = w[j] /\ w[i].kind \in Closing /\ w[i].id \in Select!Ids
            BY <1>5, <1>8, <2>2, <2>3
        <3> QED
            BY <1>2, <1>8, <2>1, <2>2, <2>3, <3>1 DEF Wired
    <2>4. CASE j \notin 1 .. n
        <3>1. v[j].id = id
            BY <1>3, <1>5, <1>6, <2>4
        <3> QED
            BY <2>2, <3>1
    <2> QED
        BY <2>3, <2>4
<1>9. Wired(v)
    BY <1>5, <1>7, <1>8, Zenon DEF Wired
<1> QED
    BY <1>2, <1>5, <1>9 DEF a, b, c, Added

(* v is w with the notice after it that nothing is selected.               *)
Cleared(w, v, n) ==
    /\ n \in Nat /\ DOMAIN w = 1 .. n /\ DOMAIN v = 1 .. n + 1
    /\ \A i \in 1 .. n : v[i] = w[i]
    /\ v[n + 1] = Select!Emptied

LEMMA WiredEmptied ==
    ASSUME Select!SelectionAssumption, NEW w, Wired(w),
           NEW v, v = Append(w, Select!Emptied), NEW n, n = Len(w)
    PROVE  Wired(v) /\ Cleared(w, v, n)
<1> DEFINE e == Select!Emptied
<1>1. e \in Notices /\ e.kind = "selection" /\ e.id = None /\ None \notin Select!Ids
    <2>1. e \in Notices
        BY DEF Notices
    <2> QED
        BY <2>1, NoticeFields
<1> HIDE DEF e
<1>2. w \in Seq(Notices) /\ n \in Nat /\ DOMAIN w = 1 .. n
    BY DEF Wired
<1>3. v \in Seq(Notices) /\ DOMAIN v = 1 .. n + 1 /\ v[n + 1] = e /\ \A i \in 1 .. n : v[i] = w[i]
    <2>1. v = Append(w, e)
        BY DEF e
    <2> QED
        BY <1>1, <1>2, <2>1
<1>4. \A i \in 1 .. n + 1 : i \in 1 .. n \/ i = n + 1
    BY <1>2
<1>5. ASSUME NEW i \in 1 .. n + 1
      PROVE  /\ v[i].kind = "offer" =>
                 i + 1 \in DOMAIN v /\ v[i + 1].kind = "mime" /\ v[i + 1].id = v[i].id
             /\ v[i].kind = "mime" =>
                 i + 1 \in DOMAIN v /\ v[i + 1].kind \in Closing /\ v[i + 1].id = v[i].id
             /\ v[i].kind \in Closing /\ i + 1 \in DOMAIN v =>
                 v[i + 1].kind = "offer" \/ v[i + 1] = Select!Emptied
    <2>1. CASE i \in 1 .. n
        <3>1. v[i] = w[i] /\ (i + 1 \in 1 .. n => v[i + 1] = w[i + 1])
            BY <1>3, <2>1
        <3>2. i + 1 \in 1 .. n \/ i + 1 = n + 1
            BY <1>2, <2>1
        <3>3. i + 1 \in 1 .. n => i + 1 \in DOMAIN v
            BY <1>2, <1>3
        <3>4. /\ w[i].kind = "offer" =>
                   i + 1 \in 1 .. n /\ w[i + 1].kind = "mime" /\ w[i + 1].id = w[i].id
              /\ w[i].kind = "mime" =>
                   i + 1 \in 1 .. n /\ w[i + 1].kind \in Closing /\ w[i + 1].id = w[i].id
              /\ w[i].kind \in Closing /\ i + 1 \in 1 .. n =>
                   w[i + 1].kind = "offer" \/ w[i + 1] = Select!Emptied
            BY <1>2, <2>1, Zenon DEF Wired
        <3> QED
            BY <1>3, <3>1, <3>2, <3>3, <3>4 DEF e
    <2>2. CASE i = n + 1
        <3>1. i + 1 \notin 1 .. n + 1
            BY <1>2, <2>2
        <3> QED
            BY <1>1, <1>3, <2>2, <3>1 DEF Closing
    <2> QED
        BY <1>4, <2>1, <2>2
<1>6. ASSUME NEW i \in 1 .. n + 1, NEW j \in 1 .. n + 1, i < j, v[i].kind \in Closing,
             v[i].id \in Select!Ids
      PROVE  v[j].id # v[i].id
    <2>1. i \in 1 .. n /\ v[i] = w[i]
        BY <1>1, <1>3, <1>4, <1>6
    <2>2. CASE j \in 1 .. n
        BY <1>2, <1>3, <1>6, <2>1, <2>2 DEF Wired
    <2>3. CASE j = n + 1
        BY <1>1, <1>3, <1>6, <2>3
    <2> QED
        BY <1>4, <2>2, <2>3
<1>7. Wired(v)
    BY <1>3, <1>5, <1>6 DEF Wired
<1> QED
    BY <1>2, <1>3, <1>7 DEF e, Cleared

(* The same of the latest selection announced.                             *)
LEMMA LatestTail ==
    ASSUME Select!SelectionAssumption, NEW w, Wired(w), w # <<>>
    PROVE  /\ \A i \in DOMAIN Tail(w) : Latest(Tail(w), i) => i + 1 \in DOMAIN w /\ Latest(w, i + 1)
           /\ (\A i \in DOMAIN Tail(w) : Tail(w)[i].kind # "selection") =>
                  IF w[1].kind = "selection" THEN Latest(w, 1)
                  ELSE \A i \in DOMAIN w : w[i].kind # "selection"
<1> DEFINE t == Tail(w)
<1>1. /\ \A p \in DOMAIN w : p \in Nat /\ p > 0 /\ (p # 1 => p - 1 \in DOMAIN t /\ t[p - 1] = w[p])
      /\ \A p \in DOMAIN t : p \in Nat /\ p > 0 /\ p + 1 \in DOMAIN w /\ t[p] = w[p + 1]
    BY WiredTail
<1> HIDE DEF t
<1>2. ASSUME NEW i \in DOMAIN t, Latest(t, i) PROVE i + 1 \in DOMAIN w /\ Latest(w, i + 1)
    <2>1. i \in Nat /\ i + 1 \in DOMAIN w /\ w[i + 1].kind = "selection"
        BY <1>1, <1>2 DEF Latest
    <2>2. ASSUME NEW j \in DOMAIN w, w[j].kind = "selection" PROVE j <= i + 1
        <3>1. j \in Nat /\ (j # 1 => j - 1 <= i)
            BY <1>1, <1>2, <2>2 DEF Latest
        <3> QED
            BY <2>1, <3>1
    <2> QED
        BY <2>1, <2>2 DEF Latest
<1>3. ASSUME \A i \in DOMAIN t : t[i].kind # "selection", NEW j \in DOMAIN w, w[j].kind = "selection"
      PROVE  j = 1
    BY <1>1, <1>3
<1>4. \A j \in DOMAIN w : j = 1 => j <= 1
    OBVIOUS
<1>5. ASSUME \A i \in DOMAIN t : t[i].kind # "selection"
      PROVE  IF w[1].kind = "selection" THEN Latest(w, 1)
             ELSE \A i \in DOMAIN w : w[i].kind # "selection"
    <2>1. \A j \in DOMAIN w : w[j].kind = "selection" => j = 1
        BY <1>3, <1>5
    <2> QED
        BY <1>4, <2>1 DEF Latest
<1> QED
    BY <1>2, <1>5 DEF t

(* A function with one more, and one less.                                 *)
LEMMA WithIs ==
    ASSUME NEW f, NEW i, NEW v
    PROVE  /\ DOMAIN Select!With(f, i, v) = DOMAIN f \cup {i} /\ Select!With(f, i, v)[i] = v
           /\ \A x \in DOMAIN f : x # i => Select!With(f, i, v)[x] = f[x]
           /\ Select!With(f, i, v) \in [DOMAIN f \cup {i} -> {f[x] : x \in DOMAIN f} \cup {v}]
BY DEF Select!With

LEMMA WithoutIs ==
    ASSUME NEW f, NEW i
    PROVE  /\ DOMAIN Select!Without(f, i) = DOMAIN f \ {i}
           /\ \A x \in DOMAIN f : x # i => Select!Without(f, i)[x] = f[x]
           /\ Select!Without(f, i) \in [DOMAIN f \ {i} -> {f[x] : x \in DOMAIN f}]
BY DEF Select!Without, Select!Restrict

(* There is a number for one offer more.                                   *)
LEMMA FreeIs ==
    ASSUME Select!SelectionAssumption, SelectTypes, Spare,
           held.n < MaxCopies \/ shown < MaxShown
    PROVE  Select!Free \in Select!Ids /\ Select!Free \notin DOMAIN live
<1>1. held.n \in Nat /\ shown \in Nat /\ held.n + shown < MaxCopies + MaxShown
    BY DEF SelectTypes, Select!SelectionAssumption
<1>2. IsFiniteSet(Select!Ids) /\ Cardinality(Select!Ids) = MaxCopies + MaxShown + 1
    <2>1. 1 \in Int /\ MaxCopies + MaxShown + 1 \in Int /\ MaxCopies + MaxShown + 1 >= 1
        BY DEF Select!SelectionAssumption
    <2>2. MaxCopies + MaxShown + 1 - 1 + 1 = MaxCopies + MaxShown + 1
        BY DEF Select!SelectionAssumption
    <2> QED
        BY <2>1, <2>2, FS_Interval DEF Select!Ids
<1>3. IsFiniteSet(DOMAIN live)
    BY <1>2, FS_Subset DEF SelectTypes
<1>4. Cardinality(DOMAIN live) \in Nat
    BY <1>3, FS_CardinalityType
<1>5. Cardinality(DOMAIN live) < Cardinality(Select!Ids)
    BY <1>1, <1>2, <1>4 DEF Spare, Select!SelectionAssumption
<1>6. ~(Select!Ids \subseteq DOMAIN live)
    <2> SUFFICES ASSUME Select!Ids \subseteq DOMAIN live PROVE FALSE
        OBVIOUS
    <2>1. Cardinality(Select!Ids) <= Cardinality(DOMAIN live)
        BY <1>3, FS_Subset
    <2> QED
        BY <1>2, <1>4, <1>5, <2>1 DEF Select!SelectionAssumption
<1>7. PICK i \in Select!Ids : i \notin DOMAIN live
    BY <1>6
<1> QED
    BY <1>7 DEF Select!Free

(* Numbers of offers: one more with one more, none with one less.          *)
LEMMA FewOffers ==
    ASSUME Select!SelectionAssumption, SelectTypes
    PROVE  /\ Cardinality(DOMAIN live) \in Nat
           /\ \A x : Cardinality(DOMAIN live \cup {x}) <= Cardinality(DOMAIN live) + 1
           /\ \A x : Cardinality(DOMAIN live \ {x}) <= Cardinality(DOMAIN live)
           /\ \A x : Cardinality(DOMAIN live \cup {x}) \in Nat /\ Cardinality(DOMAIN live \ {x}) \in Nat
<1>1. IsFiniteSet(Select!Ids)
    BY FS_Interval DEF Select!Ids, Select!SelectionAssumption
<1>2. IsFiniteSet(DOMAIN live)
    BY <1>1, FS_Subset DEF SelectTypes
<1>3. Cardinality(DOMAIN live) \in Nat
    BY <1>2, FS_CardinalityType
<1>4. ASSUME NEW x
      PROVE  /\ IsFiniteSet(DOMAIN live \cup {x})
             /\ Cardinality(DOMAIN live \cup {x}) <= Cardinality(DOMAIN live) + 1
    <2>1. /\ IsFiniteSet(DOMAIN live \cup {x})
          /\ \/ Cardinality(DOMAIN live \cup {x}) = Cardinality(DOMAIN live)
             \/ Cardinality(DOMAIN live \cup {x}) = Cardinality(DOMAIN live) + 1
        BY <1>2, FS_AddElement
    <2> QED
        BY <1>3, <2>1
<1>5. ASSUME NEW x
      PROVE  /\ IsFiniteSet(DOMAIN live \ {x})
             /\ Cardinality(DOMAIN live \ {x}) <= Cardinality(DOMAIN live)
    <2>1. DOMAIN live \ {x} \subseteq DOMAIN live
        OBVIOUS
    <2> QED
        BY <1>2, <2>1, FS_Subset
<1> QED
    BY <1>3, <1>4, <1>5, FS_CardinalityType

(* One more announcement, of a selection or of a highlight.                *)
LEMMA AnnounceStep ==
    ASSUME Select!SelectionAssumption, SelectInv,
           NEW id \in Select!Ids, id \notin DOMAIN live,
           NEW kind \in Select!Contents, NEW of \in Closing,
           NEW value \in [n : Nat \cup {None}, kind : Select!Contents], value.kind = kind,
           wire' = wire \o Select!Announced(id, kind, of),
           live' = Select!With(live, id, value),
           UNCHANGED <<offers, pending, begun, pipe, told, gaveUp, first>>,
           held'.n \in 0 .. MaxCopies, shown' \in 0 .. MaxShown,
           held' = [n |-> held'.n, kind |-> held'.kind],
           held'.kind \in Select!Contents \cup {"empty"},
           held'.n + shown' = held.n + shown + 1,
           IF of = "selection" THEN held' = value ELSE held' = held
    PROVE  SelectInv'
<1> DEFINE n == Len(wire)
<1>1. /\ DOMAIN live' = DOMAIN live \cup {id} /\ live'[id] = value
      /\ \A x \in DOMAIN live : live'[x] = live[x]
    <2>1. /\ DOMAIN Select!With(live, id, value) = DOMAIN live \cup {id}
          /\ Select!With(live, id, value)[id] = value
          /\ \A x \in DOMAIN live : x # id => Select!With(live, id, value)[x] = live[x]
        BY DEF Select!With
    <2> QED
        BY <2>1
<1>2. /\ \A i \in DOMAIN wire : wire[i].id # id
      /\ ~Kept(id)
    BY DEF SelectInv, Named, Formats
<1>3. /\ Wired(wire') /\ n \in Nat /\ DOMAIN wire = 1 .. n /\ DOMAIN wire' = 1 .. n + 3
      /\ \A i \in 1 .. n : wire'[i] = wire[i]
      /\ wire'[n + 1] = [kind |-> "offer", id |-> id]
      /\ wire'[n + 2] = [kind |-> "mime", id |-> id, mime |-> kind]
      /\ wire'[n + 3] = [kind |-> of, id |-> id]
    <2>1. Wired(wire)
        BY DEF SelectInv, SelectTypes
    <2>2. n = Len(wire)
        OBVIOUS
    <2> HIDE DEF n
    <2>3. wire' = wire \o Select!Announced(id, kind, of)
        OBVIOUS
    <2>4. \A i \in DOMAIN wire : wire[i].id # id
        BY <1>2
    <2>5. Wired(wire') /\ Added(wire, wire', n, id, kind, of)
        BY <2>1, <2>2, <2>3, <2>4, WiredMore, Zenon
    <2> QED
        BY <2>5, Zenon DEF Added
<1> HIDE DEF n
<1>0. n \in Nat
    BY <1>3
<1>4. \A i \in 1 .. n + 3 : i \in 1 .. n \/ i = n + 1 \/ i = n + 2 \/ i = n + 3
    BY <1>0
<1>5. /\ 1 .. n \subseteq 1 .. n + 3 /\ n + 1 \in 1 .. n + 3 /\ n + 2 \in 1 .. n + 3 /\ n + 3 \in 1 .. n + 3
    BY <1>0
<1>6. SelectTypes'
    <2>1. live' \in [DOMAIN live' -> [n : Nat \cup {None}, kind : Select!Contents]]
        <3>1. \A x \in DOMAIN live : live[x] \in [n : Nat \cup {None}, kind : Select!Contents]
            BY DEF SelectInv, SelectTypes
        <3>2. live' = [x \in DOMAIN live' |-> live'[x]]
            BY DEF Select!With
        <3>3. \A x \in DOMAIN live' : live'[x] \in [n : Nat \cup {None}, kind : Select!Contents]
            BY <1>1, <3>1
        <3> QED
            BY <3>2, <3>3
    <2>2. DOMAIN offers' \subseteq DOMAIN live' /\ DOMAIN live' \subseteq Select!Ids
        BY <1>1 DEF SelectInv, SelectTypes
    <2> QED
        BY <1>3, <2>1, <2>2 DEF SelectInv, SelectTypes
<1>7. Spare'
    <2>1. Cardinality(DOMAIN live') <= Cardinality(DOMAIN live) + 1
        BY <1>1, FewOffers DEF SelectInv
    <2>2. Cardinality(DOMAIN live') \in Nat /\ Cardinality(DOMAIN live) \in Nat
        BY <1>1, FewOffers DEF SelectInv
    <2>3. held.n \in Nat /\ shown \in Nat /\ held'.n \in Nat /\ shown' \in Nat
        BY DEF SelectInv, SelectTypes, Select!SelectionAssumption
    <2> QED
        BY <2>1, <2>2, <2>3 DEF SelectInv, Spare
<1>8. \A x : Kept(x)' <=> Kept(x)
    BY DEF Kept
<1>9. Named'
    <2> SUFFICES ASSUME NEW i \in DOMAIN wire', wire'[i].id \in Select!Ids
                 PROVE  /\ wire'[i].id \in DOMAIN live' /\ ~Kept(wire'[i].id)
                        /\ wire'[i].kind = "mime" => wire'[i].mime = live'[wire'[i].id].kind
        BY <1>8 DEF Named, Kept
    <2>1. CASE i \in 1 .. n
        <3>1. wire'[i] = wire[i] /\ i \in DOMAIN wire
            BY <1>3, <2>1
        <3>2. /\ wire[i].id \in DOMAIN live /\ ~Kept(wire[i].id)
              /\ wire[i].kind = "mime" => wire[i].mime = live[wire[i].id].kind
            BY <3>1 DEF SelectInv, Named
        <3> QED
            BY <1>1, <3>1, <3>2
    <2>2. CASE i \notin 1 .. n
        <3>1. wire'[i].id = id /\ (wire'[i].kind = "mime" => wire'[i].mime = kind)
            <4>1. i = n + 1 \/ i = n + 2 \/ i = n + 3
                BY <1>3, <1>4, <2>2
            <4>2. of # "mime"
                BY DEF Closing
            <4>3. wire'[i] \in {[kind |-> "offer", id |-> id],
                                [kind |-> "mime", id |-> id, mime |-> kind],
                                [kind |-> of, id |-> id]}
                BY <1>3, <4>1
            <4> QED
                BY <4>2, <4>3
        <3> QED
            BY <1>1, <1>2, <3>1
    <2> QED
        BY <2>1, <2>2
<1>10. Alive'
    <2> SUFFICES ASSUME NEW x \in DOMAIN live'
                 PROVE  Kept(x) \/ \E i \in DOMAIN wire' : wire'[i].kind \in Closing /\ wire'[i].id = x
        BY <1>8 DEF Alive, Kept
    <2>1. CASE x = id
        <3>1. n + 3 \in DOMAIN wire' /\ wire'[n + 3].kind \in Closing /\ wire'[n + 3].id = id
            BY <1>3, <1>5
        <3> QED
            BY <2>1, <3>1
    <2>2. CASE x # id
        <3>1. Kept(x) \/ \E i \in DOMAIN wire : wire[i].kind \in Closing /\ wire[i].id = x
            BY <1>1, <2>2 DEF SelectInv, Alive
        <3> QED
            BY <1>3, <1>5, <3>1
    <2> QED
        BY <2>1, <2>2
<1>11. Formats'
    <2>1. \A x \in DOMAIN live : Known(x)' <=> Known(x)
        BY <1>1 DEF Known
    <2>2. \A x \in Select!Ids : Kept(x) => x \in DOMAIN live' /\ Known(x)'
        BY <1>1, <2>1 DEF SelectInv, Formats
    <2>3. CASE n = 0
        <3>1. wire'[1].kind = "offer"
            BY <1>3, <2>3
        <3> QED
            BY <1>8, <2>2, <3>1 DEF Formats, Closing, Kept
    <2>4. CASE n # 0
        <3>1. 1 \in 1 .. n /\ wire'[1] = wire[1] /\ wire # <<>>
            <4>1. 1 \in 1 .. n
                BY <1>3, <2>4
            <4> QED
                BY <1>3, <4>1
        <3>2. wire[1].id \in Select!Ids => wire[1].id \in DOMAIN live
            BY <1>3, <3>1 DEF SelectInv, Named
        <3> QED
            BY <1>8, <2>1, <2>2, <3>1, <3>2 DEF SelectInv, Formats, Kept
    <2> QED
        BY <2>3, <2>4
<1>12. NewestOffer'
    <2>1. CASE of = "selection"
        <3>1. ASSUME NEW i \in DOMAIN wire', Latest(wire', i) PROVE i = n + 3
            <4>1. n + 3 <= i
                BY <1>3, <1>5, <2>1, <3>1 DEF Latest
            <4> QED
                BY <1>3, <4>1
        <3>2. value = held' /\ held'.kind # "empty"
            BY <2>1 DEF Select!Contents
        <3>3. wire'[n + 3].kind = "selection" /\ n + 3 \in DOMAIN wire' /\ wire'[n + 3].id = id
            BY <1>3, <1>5, <2>1
        <3> QED
            BY <1>1, <3>1, <3>2, <3>3 DEF NewestOffer, IsBoard
    <2>2. CASE of # "selection"
        <3>1. /\ \A i \in DOMAIN wire' : wire'[i].kind = "selection" => i \in 1 .. n
              /\ held' = held
            <4>1. /\ wire'[n + 1].kind # "selection" /\ wire'[n + 2].kind # "selection"
                  /\ wire'[n + 3].kind # "selection"
                BY <1>3, <2>2
            <4> QED
                BY <1>3, <1>4, <2>2, <4>1
        <3>2. \A x \in Select!Ids : x \in DOMAIN live => (IsBoard(x, held', live') <=> IsBoard(x, held, live))
            BY <1>1, <3>1 DEF IsBoard
        <3>3. \A x : x \notin Select!Ids => (IsBoard(x, held', live') <=> IsBoard(x, held, live))
            BY <3>1 DEF IsBoard
        <3>4. \A i \in DOMAIN wire : wire[i].id \in Select!Ids => wire[i].id \in DOMAIN live
            BY DEF SelectInv, Named
        <3>5. ASSUME NEW i \in DOMAIN wire', Latest(wire', i) PROVE IsBoard(wire'[i].id, held', live')
            <4>1. i \in DOMAIN wire /\ wire'[i] = wire[i]
                BY <1>3, <3>1, <3>5 DEF Latest
            <4>2. Latest(wire, i)
                BY <1>3, <1>5, <3>5, <4>1 DEF Latest
            <4>3. IsBoard(wire[i].id, held, live)
                BY <4>1, <4>2 DEF SelectInv, NewestOffer
            <4>4. IsBoard(wire[i].id, held', live')
                <5>1. CASE wire[i].id \in Select!Ids
                    BY <3>2, <3>4, <4>1, <4>3, <5>1
                <5>2. CASE wire[i].id \notin Select!Ids
                    BY <3>3, <4>3, <5>2
                <5> QED
                    BY <5>1, <5>2
            <4> QED
                BY <4>1, <4>4
        <3>6. ASSUME \A i \in DOMAIN wire' : wire'[i].kind # "selection"
              PROVE  /\ pending' # None => IsBoard(pending, held', live')
                     /\ pipe' # None => IsBoard(pipe, held', live')
                     /\ pending' = None /\ pipe' = None => Over'
            <4>1. \A i \in DOMAIN wire : wire[i].kind # "selection"
                BY <1>3, <1>5, <3>6
            <4>2. /\ pending # None => IsBoard(pending, held, live)
                  /\ pipe # None => IsBoard(pipe, held, live)
                  /\ pending = None /\ pipe = None => Over
                BY <4>1 DEF SelectInv, NewestOffer
            <4>3. /\ pending \in Select!Ids => pending \in DOMAIN live
                  /\ pipe \in Select!Ids => pipe \in DOMAIN live
                BY DEF SelectInv, Formats, Kept
            <4>4. /\ pending # None => IsBoard(pending, held', live')
                  /\ pipe # None => IsBoard(pipe, held', live')
                BY <3>2, <3>3, <4>2, <4>3
            <4> QED
                BY <3>1, <4>2, <4>4 DEF Over
        <3> QED
            BY <3>5, <3>6 DEF NewestOffer
    <2> QED
        BY <2>1, <2>2
<1> QED
    BY <1>6, <1>7, <1>9, <1>10, <1>11, <1>12 DEF SelectInv

LEMMA SelectCopyStep ==
    ASSUME Select!SelectionAssumption, SelectInv, Select!Copy PROVE SelectInv'
<1>1. PICK kind \in Select!Contents :
        /\ held' = [n |-> held.n + 1, kind |-> kind]
        /\ live' = Select!With(live, Select!Free, held')
        /\ wire' = wire \o Select!Announced(Select!Free, kind, "selection")
    BY DEF Select!Copy
<1>2. held.n < MaxCopies /\ UNCHANGED <<shown, offers, pending, begun, pipe, told, gaveUp, first>>
    BY DEF Select!Copy
<1>3. Select!Free \in Select!Ids /\ Select!Free \notin DOMAIN live
    BY <1>2, FreeIs DEF SelectInv
<1>4. held.n \in 0 .. MaxCopies /\ shown \in 0 .. MaxShown
    BY DEF SelectInv, SelectTypes
<1>5. /\ held'.n = held.n + 1 /\ held'.kind = kind
      /\ held'.n \in 0 .. MaxCopies /\ held'.n \in Nat /\ shown' \in 0 .. MaxShown
      /\ held'.n + shown' = held.n + shown + 1
    BY <1>1, <1>2, <1>4 DEF Select!SelectionAssumption
<1>6. held' \in [n : Nat \cup {None}, kind : Select!Contents]
    BY <1>1, <1>5
<1>7. held' = [n |-> held'.n, kind |-> held'.kind]
    BY <1>1, <1>5
<1>8. "selection" \in Closing
    BY DEF Closing
<1> QED
    BY <1>1, <1>2, <1>3, <1>5, <1>6, <1>7, <1>8, AnnounceStep

LEMMA SelectHighlightStep ==
    ASSUME Select!SelectionAssumption, SelectInv, Select!Highlight PROVE SelectInv'
<1> DEFINE value == [n |-> None, kind |-> "text"]
<1>1. /\ shown < MaxShown /\ shown' = shown + 1 /\ held' = held
      /\ live' = Select!With(live, Select!Free, value)
      /\ wire' = wire \o Select!Announced(Select!Free, "text", "primary")
      /\ UNCHANGED <<offers, pending, begun, pipe, told, gaveUp, first>>
    BY DEF Select!Highlight
<1>2. Select!Free \in Select!Ids /\ Select!Free \notin DOMAIN live
    BY <1>1, FreeIs DEF SelectInv
<1>3. /\ held.n \in 0 .. MaxCopies /\ shown \in 0 .. MaxShown
      /\ held = [n |-> held.n, kind |-> held.kind]
      /\ held.kind \in Select!Contents \cup {"empty"}
    BY DEF SelectInv, SelectTypes
<1>4. /\ shown' \in 0 .. MaxShown /\ held'.n + shown' = held.n + shown + 1
    <2>1. held.n \in Nat /\ shown \in Nat /\ MaxShown \in Nat /\ shown < MaxShown
        BY <1>1, <1>3 DEF Select!SelectionAssumption
    <2>2. held'.n = held.n /\ shown' = shown + 1
        BY <1>1
    <2> QED
        BY <2>1, <2>2
<1>5. /\ "text" \in Select!Contents /\ "primary" \in Closing /\ "primary" # "selection"
      /\ value \in [n : Nat \cup {None}, kind : Select!Contents] /\ value.kind = "text"
    BY DEF Select!Contents, Closing
<1> HIDE DEF value
<1> QED
    BY <1>1, <1>2, <1>3, <1>4, <1>5, AnnounceStep

LEMMA SelectEndsStep ==
    ASSUME Select!SelectionAssumption, SelectInv, Select!SourceEnds PROVE SelectInv'
<1> DEFINE n == Len(wire)
<1>1. /\ held.n < MaxCopies /\ held' = [n |-> held.n + 1, kind |-> "empty"]
      /\ wire' = Append(wire, Select!Emptied)
      /\ UNCHANGED <<shown, live, offers, pending, begun, pipe, told, gaveUp, first>>
    BY DEF Select!SourceEnds
<1>2. /\ Wired(wire') /\ n \in Nat /\ DOMAIN wire = 1 .. n /\ DOMAIN wire' = 1 .. n + 1
      /\ \A i \in 1 .. n : wire'[i] = wire[i]
      /\ wire'[n + 1] = Select!Emptied
    <2>1. Wired(wire) /\ n = Len(wire)
        BY DEF SelectInv, SelectTypes
    <2> HIDE DEF n
    <2>2. Wired(wire') /\ Cleared(wire, wire', n)
        BY <1>1, <2>1, WiredEmptied, Zenon
    <2> QED
        BY <2>2, Zenon DEF Cleared
<1>3. /\ Select!Emptied.kind = "selection" /\ Select!Emptied.id = None /\ None \notin Select!Ids
    <2>1. Select!Emptied \in Notices
        BY DEF Notices
    <2> QED
        BY <2>1, NoticeFields
<1> HIDE DEF n
<1>4. /\ \A i \in 1 .. n + 1 : i \in 1 .. n \/ i = n + 1
      /\ 1 .. n \subseteq 1 .. n + 1 /\ n + 1 \in 1 .. n + 1
    <2>1. n \in Nat
        BY <1>2
    <2> QED
        BY <2>1
<1>5. SelectTypes'
    <2>1. held.n \in Nat /\ held.n + 1 \in 0 .. MaxCopies
        BY <1>1 DEF SelectInv, SelectTypes, Select!SelectionAssumption
    <2>2. held'.n = held.n + 1 /\ held'.kind = "empty"
        BY <1>1
    <2> QED
        BY <1>1, <1>2, <2>1, <2>2 DEF SelectInv, SelectTypes
<1>6. Spare'
    <2>1. Cardinality(DOMAIN live) \in Nat /\ held.n \in Nat /\ shown \in Nat /\ held'.n = held.n + 1
        BY <1>1, FewOffers DEF SelectInv, SelectTypes, Select!SelectionAssumption
    <2> QED
        BY <1>1, <2>1 DEF SelectInv, Spare
<1>7. Named'
    BY <1>1, <1>2, <1>3, <1>4 DEF SelectInv, Named, Kept
<1>8. Alive'
    BY <1>1, <1>2, <1>4 DEF SelectInv, Alive, Kept
<1>9. Formats'
    <2>1. CASE n = 0
        <3>1. wire'[1] = Select!Emptied
            BY <1>2, <2>1
        <3> QED
            BY <1>1, <1>3, <3>1 DEF SelectInv, Formats, Kept, Known, Closing
    <2>2. CASE n # 0
        <3>1. 1 \in 1 .. n
            BY <1>2, <2>2
        <3>2. wire'[1] = wire[1] /\ wire # <<>>
            BY <1>2, <3>1
        <3> QED
            BY <1>1, <3>2 DEF SelectInv, Formats, Kept, Known
    <2> QED
        BY <2>1, <2>2
<1>10. NewestOffer'
    <2>1. ASSUME NEW i \in DOMAIN wire', Latest(wire', i) PROVE i = n + 1
        <3>1. n + 1 <= i
            BY <1>2, <1>3, <1>4, <2>1 DEF Latest
        <3> QED
            BY <1>2, <3>1
    <2>2. wire'[n + 1].kind = "selection" /\ n + 1 \in DOMAIN wire' /\ wire'[n + 1].id \notin Select!Ids
        BY <1>2, <1>3, <1>4
    <2>3. held'.kind = "empty"
        BY <1>1
    <2> QED
        BY <2>1, <2>2, <2>3 DEF NewestOffer, IsBoard
<1> QED
    BY <1>5, <1>6, <1>7, <1>8, <1>9, <1>10 DEF SelectInv

(* An event is taken, and no offer goes with it.                           *)
LEMMA TakenIs ==
    ASSUME Select!SelectionAssumption, SelectInv, NEW kind, Select!Taken(kind)
    PROVE  /\ pipe = None /\ wire # <<>> /\ Wired(wire) /\ Wired(wire') /\ wire' = Tail(wire)
           /\ Head(wire) = wire[1] /\ wire[1].kind = kind /\ wire[1] \in Notices
           /\ \A i \in DOMAIN wire' : i + 1 \in DOMAIN wire /\ wire'[i] = wire[i + 1]
           /\ \A id : (\E i \in DOMAIN wire : wire[i].kind \in Closing /\ wire[i].id = id) =>
                \/ kind \in Closing /\ wire[1].id = id
                \/ \E i \in DOMAIN wire' : wire'[i].kind \in Closing /\ wire'[i].id = id
<1>1. pipe = None /\ wire # <<>> /\ wire' = Tail(wire) /\ Head(wire).kind = kind
    BY DEF Select!Taken
<1>2. Wired(wire)
    BY DEF SelectInv, SelectTypes
<1>3. /\ Wired(Tail(wire)) /\ Head(wire) = wire[1] /\ wire[1] \in Notices
      /\ \A p \in DOMAIN wire : p # 1 => p - 1 \in DOMAIN Tail(wire) /\ Tail(wire)[p - 1] = wire[p]
      /\ \A p \in DOMAIN Tail(wire) : p + 1 \in DOMAIN wire /\ Tail(wire)[p] = wire[p + 1]
    BY <1>1, <1>2, WiredTail, Zenon
<1> QED
    BY <1>1, <1>2, <1>3

LEMMA SelectDataOfferStep ==
    ASSUME Select!SelectionAssumption, SelectInv, Select!DataOffer PROVE SelectInv'
<1> DEFINE h == wire[1].id
<1>1. /\ Select!Taken("offer") /\ offers' = Select!With(offers, Head(wire).id, {})
      /\ UNCHANGED <<held, shown, live, pending, begun, pipe, told, gaveUp, first>>
    BY DEF Select!DataOffer
<1>2. /\ wire # <<>> /\ Wired(wire) /\ Wired(wire') /\ wire' = Tail(wire) /\ Head(wire) = wire[1]
      /\ wire[1].kind = "offer" /\ wire[1] \in Notices
      /\ \A i \in DOMAIN wire' : i + 1 \in DOMAIN wire /\ wire'[i] = wire[i + 1]
      /\ \A id : (\E i \in DOMAIN wire : wire[i].kind \in Closing /\ wire[i].id = id) =>
           \/ "offer" \in Closing
           \/ \E i \in DOMAIN wire' : wire'[i].kind \in Closing /\ wire'[i].id = id
    BY <1>1, TakenIs
<1>3. /\ wire' # <<>> /\ wire'[1].kind = "mime" /\ wire'[1].id = h /\ 1 \in DOMAIN wire
    BY <1>2, WiredTail
<1>4. h \in Select!Ids /\ h \in DOMAIN live /\ ~Kept(h)
    <2>1. h \in Select!Ids
        BY <1>2, NoticeFields
    <2> QED
        BY <1>3, <2>1 DEF SelectInv, Named
<1> HIDE DEF h
<1>5. /\ DOMAIN offers' = DOMAIN offers \cup {h} /\ offers'[h] = {}
      /\ \A x \in DOMAIN offers : x # h => offers'[x] = offers[x]
      /\ offers' = [x \in DOMAIN offers' |-> offers'[x]]
    BY <1>1, <1>2 DEF Select!With, h
<1>6. SelectTypes'
    <2>1. \A x \in DOMAIN offers' : offers'[x] \in SUBSET Select!Contents
        BY <1>5 DEF SelectInv, SelectTypes
    <2>2. offers' \in [DOMAIN offers' -> SUBSET Select!Contents]
        BY <1>5, <2>1
    <2> QED
        BY <1>1, <1>2, <1>4, <1>5, <2>2 DEF SelectInv, SelectTypes
<1>7. Named'
    BY <1>1, <1>2 DEF SelectInv, Named, Kept
<1>8. Alive'
    BY <1>1, <1>2 DEF SelectInv, Alive, Kept, Closing
<1>9. Formats'
    BY <1>1, <1>3, <1>4, <1>5 DEF SelectInv, Formats, Kept, Known, Closing
<1>10. NewestOffer'
    <2>1. /\ \A i \in DOMAIN wire' : Latest(wire', i) => i + 1 \in DOMAIN wire /\ Latest(wire, i + 1)
          /\ (\A i \in DOMAIN wire' : wire'[i].kind # "selection") =>
                \A i \in DOMAIN wire : wire[i].kind # "selection"
        BY <1>2, LatestTail
    <2> QED
        BY <1>1, <1>2, <2>1 DEF SelectInv, NewestOffer, Over, IsBoard
<1> QED
    BY <1>1, <1>6, <1>7, <1>8, <1>9, <1>10 DEF SelectInv, Spare

LEMMA SelectMimeStep ==
    ASSUME Select!SelectionAssumption, SelectInv, Select!Mime PROVE SelectInv'
<1> DEFINE h == wire[1].id
<1>1. /\ Select!Taken("mime")
      /\ offers' = [offers EXCEPT ![Head(wire).id] = @ \cup {Head(wire).mime}]
      /\ UNCHANGED <<held, shown, live, pending, begun, pipe, told, gaveUp, first>>
    BY DEF Select!Mime
<1>2. /\ wire # <<>> /\ Wired(wire) /\ Wired(wire') /\ wire' = Tail(wire) /\ Head(wire) = wire[1]
      /\ wire[1].kind = "mime" /\ wire[1] \in Notices
      /\ \A i \in DOMAIN wire' : i + 1 \in DOMAIN wire /\ wire'[i] = wire[i + 1]
      /\ \A id : (\E i \in DOMAIN wire : wire[i].kind \in Closing /\ wire[i].id = id) =>
           \/ "mime" \in Closing
           \/ \E i \in DOMAIN wire' : wire'[i].kind \in Closing /\ wire'[i].id = id
    BY <1>1, TakenIs
<1>3. /\ wire' # <<>> /\ wire'[1].kind \in Closing /\ wire'[1].id = h /\ 1 \in DOMAIN wire
    BY <1>2, WiredTail
<1>4. /\ h \in Select!Ids /\ h \in DOMAIN live /\ ~Kept(h)
      /\ wire[1].mime = live[h].kind /\ wire[1].mime \in Select!Contents
      /\ h \in DOMAIN offers /\ offers[h] = {}
    <2>1. h \in Select!Ids /\ wire[1].mime \in Select!Contents
        BY <1>2, NoticeFields
    <2> QED
        BY <1>2, <1>3, <2>1 DEF SelectInv, Named, Formats
<1> HIDE DEF h
<1>5. /\ DOMAIN offers' = DOMAIN offers /\ offers'[h] = {live[h].kind}
      /\ \A x \in DOMAIN offers : x # h => offers'[x] = offers[x]
      /\ offers' = [x \in DOMAIN offers' |-> offers'[x]]
    BY <1>1, <1>2, <1>4 DEF h
<1>6. SelectTypes'
    <2>1. live[h].kind \in Select!Contents
        BY <1>4
    <2>2. \A x \in DOMAIN offers' : offers'[x] \in SUBSET Select!Contents
        BY <1>5, <2>1 DEF SelectInv, SelectTypes
    <2>3. offers' \in [DOMAIN offers' -> SUBSET Select!Contents]
        BY <1>5, <2>2
    <2> QED
        BY <1>1, <1>2, <1>5, <2>3 DEF SelectInv, SelectTypes
<1>7. Named'
    BY <1>1, <1>2 DEF SelectInv, Named, Kept
<1>8. Alive'
    BY <1>1, <1>2 DEF SelectInv, Alive, Kept, Closing
<1>9. Formats'
    BY <1>1, <1>3, <1>4, <1>5 DEF SelectInv, Formats, Kept, Known, Closing
<1>10. NewestOffer'
    <2>1. /\ \A i \in DOMAIN wire' : Latest(wire', i) => i + 1 \in DOMAIN wire /\ Latest(wire, i + 1)
          /\ (\A i \in DOMAIN wire' : wire'[i].kind # "selection") =>
                \A i \in DOMAIN wire : wire[i].kind # "selection"
        BY <1>2, LatestTail
    <2> QED
        BY <1>1, <1>2, <2>1 DEF SelectInv, NewestOffer, Over, IsBoard
<1> QED
    BY <1>1, <1>6, <1>7, <1>8, <1>9, <1>10 DEF SelectInv, Spare

(* offer.destroy, of an offer that is there.                               *)
LEMMA DestroyIs ==
    ASSUME Select!SelectionAssumption, SelectTypes, Spare, NEW id, Select!Destroy(id)
    PROVE  /\ DOMAIN live' = DOMAIN live \ {id} /\ DOMAIN offers' = DOMAIN offers \ {id}
           /\ \A x \in DOMAIN live : x # id => live'[x] = live[x]
           /\ \A x \in DOMAIN offers : x # id => offers'[x] = offers[x]
           /\ live' \in [DOMAIN live' -> [n : Nat \cup {None}, kind : Select!Contents]]
           /\ offers' \in [DOMAIN offers' -> SUBSET Select!Contents]
           /\ DOMAIN offers' \subseteq DOMAIN live' /\ DOMAIN live' \subseteq Select!Ids
           /\ Cardinality(DOMAIN live') <= held.n + shown + 1
<1>1. live' = Select!Without(live, id) /\ offers' = Select!Without(offers, id)
    BY DEF Select!Destroy
<1>2. /\ DOMAIN live' = DOMAIN live \ {id} /\ DOMAIN offers' = DOMAIN offers \ {id}
      /\ \A x \in DOMAIN live : x # id => live'[x] = live[x]
      /\ \A x \in DOMAIN offers : x # id => offers'[x] = offers[x]
      /\ live' = [x \in DOMAIN live' |-> live'[x]] /\ offers' = [x \in DOMAIN offers' |-> offers'[x]]
    BY <1>1 DEF Select!Without, Select!Restrict
<1>3. live' \in [DOMAIN live' -> [n : Nat \cup {None}, kind : Select!Contents]]
    <2>1. \A x \in DOMAIN live' : live'[x] \in [n : Nat \cup {None}, kind : Select!Contents]
        BY <1>2 DEF SelectTypes
    <2> QED
        BY <1>2, <2>1
<1>4. offers' \in [DOMAIN offers' -> SUBSET Select!Contents]
    <2>1. \A x \in DOMAIN offers' : offers'[x] \in SUBSET Select!Contents
        BY <1>2 DEF SelectTypes
    <2> QED
        BY <1>2, <2>1
<1>5. Cardinality(DOMAIN live') <= held.n + shown + 1
    <2>1. /\ Cardinality(DOMAIN live') <= Cardinality(DOMAIN live)
          /\ Cardinality(DOMAIN live') \in Nat /\ Cardinality(DOMAIN live) \in Nat
        BY <1>2, FewOffers
    <2>2. held.n \in Nat /\ shown \in Nat
        BY DEF SelectTypes, Select!SelectionAssumption
    <2> QED
        BY <2>1, <2>2 DEF Spare
<1> QED
    BY <1>2, <1>3, <1>4, <1>5 DEF SelectTypes

(* The offer kept or read is over.                                         *)
LEMMA OfferEnds ==
    ASSUME Select!SelectionAssumption, SelectInv,
           NEW id \in Select!Ids, Kept(id), Select!Destroy(id),
           pending' = None, pipe' = None, UNCHANGED <<held, shown, wire>>,
           IsBoard(id, held, live) => Over'
    PROVE  SelectInv'
<1>1. /\ DOMAIN live' = DOMAIN live \ {id} /\ DOMAIN offers' = DOMAIN offers \ {id}
      /\ \A x \in DOMAIN live : x # id => live'[x] = live[x]
      /\ \A x \in DOMAIN offers : x # id => offers'[x] = offers[x]
      /\ live' \in [DOMAIN live' -> [n : Nat \cup {None}, kind : Select!Contents]]
      /\ offers' \in [DOMAIN offers' -> SUBSET Select!Contents]
      /\ DOMAIN offers' \subseteq DOMAIN live' /\ DOMAIN live' \subseteq Select!Ids
      /\ Cardinality(DOMAIN live') <= held.n + shown + 1
    BY DestroyIs DEF SelectInv
<1>2. None \notin Select!Ids
    BY DEF Select!SelectionAssumption, Select!Ids
<1>3. \A x \in Select!Ids : (Kept(x) <=> x = id) /\ ~Kept(x)'
    BY <1>2 DEF SelectInv, SelectTypes, Kept
<1>4. \A i \in DOMAIN wire : wire[i].id \in Select!Ids => wire[i].id # id /\ wire[i].id \in DOMAIN live
    BY DEF SelectInv, Named
<1>5. SelectTypes' /\ Spare'
    BY <1>1 DEF SelectInv, SelectTypes, Spare
<1>6. Named'
    BY <1>1, <1>3, <1>4 DEF SelectInv, Named, Kept
<1>7. Alive'
    BY <1>1, <1>3 DEF SelectInv, SelectTypes, Alive, Kept
<1>8. Formats'
    <2>1. wire # <<>> => 1 \in DOMAIN wire
        <3>1. wire \in Seq(Notices)
            BY DEF SelectInv, SelectTypes, Wired
        <3> QED
            BY <3>1
    <2> QED
        BY <1>1, <1>3, <1>4, <2>1 DEF SelectInv, Formats, Known, Kept
<1>9. NewestOffer'
    <2>1. \A i \in DOMAIN wire' : Latest(wire', i) => IsBoard(wire'[i].id, held', live')
        <3> SUFFICES ASSUME NEW i \in DOMAIN wire, Latest(wire, i)
                     PROVE  IsBoard(wire[i].id, held, live')
            OBVIOUS
        <3>1. IsBoard(wire[i].id, held, live)
            BY DEF SelectInv, NewestOffer
        <3> QED
            BY <1>1, <1>4, <3>1 DEF IsBoard
    <2>2. ASSUME \A i \in DOMAIN wire : wire[i].kind # "selection" PROVE IsBoard(id, held, live)
        <3>1. /\ pending # None => IsBoard(pending, held, live)
              /\ pipe # None => IsBoard(pipe, held, live)
            BY <2>2 DEF SelectInv, NewestOffer
        <3> QED
            BY <1>2, <3>1 DEF Kept
    <2> QED
        BY <2>1, <2>2 DEF NewestOffer
<1> QED
    BY <1>5, <1>6, <1>7, <1>8, <1>9 DEF SelectInv

LEMMA SelectBaselineStep ==
    ASSUME Select!SelectionAssumption, SelectInv, Select!Baseline PROVE SelectInv'
<1>1. /\ pending \in Select!Ids /\ pending' = None /\ first' = live[pending].n
      /\ pipe = None /\ Select!Destroy(pending) /\ UNCHANGED <<held, shown, wire, pipe>>
    BY DEF Select!Baseline
<1>2. IsBoard(pending, held, live) => Over'
    BY <1>1 DEF IsBoard, Over
<1> QED
    BY <1>1, <1>2, OfferEnds DEF Kept

LEMMA SelectLeaveStep ==
    ASSUME Select!SelectionAssumption, SelectInv, Select!LeaveAlone PROVE SelectInv'
<1>1. /\ pending \in Select!Ids /\ pending' = None /\ ~Select!Carried(pending)
      /\ told' = IF "secret" \in offers[pending] THEN live[pending] ELSE told
      /\ pipe = None /\ Select!Destroy(pending) /\ UNCHANGED <<held, shown, wire, pipe>>
    BY DEF Select!LeaveAlone
<1>2. ASSUME IsBoard(pending, held, live) PROVE Over'
    <2>1. offers[pending] = {live[pending].kind}
        BY <1>1 DEF SelectInv, Formats, Kept, Known
    <2>2. live[pending].kind \in Select!Contents
        BY <1>1 DEF SelectInv, SelectTypes, Formats, Kept
    <2>3. live[pending].kind \in {"secret", "files"}
        BY <1>1, <2>1, <2>2 DEF Select!Carried, Select!Contents
    <2>4. held.kind = "empty" \/ live[pending] = held
        BY <1>2 DEF IsBoard
    <2> QED
        BY <1>1, <2>1, <2>3, <2>4 DEF Over
<1> QED
    BY <1>1, <1>2, OfferEnds DEF Kept

LEMMA SelectReadStep ==
    ASSUME Select!SelectionAssumption, SelectInv, Select!ReadWhole \/ Select!ReadFails PROVE SelectInv'
<1>1. /\ pipe # None /\ pipe' = None /\ Select!Destroy(pipe)
      /\ UNCHANGED <<held, shown, wire, pending, first>>
      /\ told' = live[pipe] \/ gaveUp'
    BY DEF Select!ReadWhole, Select!ReadFails, Select!ReadEnds
<1>2. pipe \in Select!Ids /\ pending = None
    BY <1>1 DEF SelectInv, SelectTypes
<1>3. IsBoard(pipe, held, live) => Over'
    BY <1>1 DEF IsBoard, Over
<1> QED
    BY <1>1, <1>2, <1>3, OfferEnds DEF Kept

(* Nothing is pending any more, or it is what is read.                     *)
LEMMA SelectMoveStep ==
    ASSUME Select!SelectionAssumption, SelectInv, Select!Cleared \/ Select!Receive PROVE SelectInv'
<1>1. /\ pipe = None /\ pending' = None
      /\ UNCHANGED <<held, shown, live, wire, offers, told, gaveUp, first>>
      /\ \/ pending = Select!Clear /\ pipe' = None
         \/ pending \in Select!Ids /\ pipe' = pending
    BY DEF Select!Cleared, Select!Receive
<1>2. None \notin Select!Ids /\ Select!Clear \notin Select!Ids
    BY DEF Select!SelectionAssumption, Select!Ids, Select!Clear
<1>3. \A x \in Select!Ids : Kept(x)' <=> Kept(x)
    BY <1>1, <1>2 DEF Kept
<1>4. SelectTypes' /\ Spare'
    BY <1>1 DEF SelectInv, SelectTypes, Spare
<1>5. Named'
    BY <1>1, <1>3 DEF SelectInv, Named, Kept
<1>6. Alive'
    BY <1>1, <1>3 DEF SelectInv, SelectTypes, Alive, Kept
<1>7. Formats'
    BY <1>1, <1>3 DEF SelectInv, Formats, Known, Kept
<1>8. NewestOffer'
    <2>1. None # Select!Clear
        BY DEF Select!SelectionAssumption, Select!Clear
    <2> QED
        BY <1>1, <1>2, <2>1 DEF SelectInv, NewestOffer, IsBoard, Over
<1> QED
    BY <1>4, <1>5, <1>6, <1>7, <1>8 DEF SelectInv

(* A selection or a highlight was announced whole: a selection takes the   *)
(* place of the one kept, a highlight goes.                                *)
LEMMA SelectAnnouncedStep ==
    ASSUME Select!SelectionAssumption, SelectInv, Select!Selected \/ Select!Primary PROVE SelectInv'
<1> DEFINE h == wire[1].id
           old == IF Select!Selected THEN pending ELSE h
<1>1. /\ Select!Taken("selection") \/ Select!Taken("primary")
      /\ UNCHANGED <<held, shown, pipe, told, gaveUp, first>>
    BY DEF Select!Selected, Select!Primary
<1>2. PICK k \in Closing : Select!Taken(k) /\ (k = "selection" <=> Select!Selected)
    BY DEF Select!Selected, Select!Primary, Closing, Select!Taken
<1>3. /\ pipe = None /\ wire # <<>> /\ Wired(wire) /\ Wired(wire') /\ wire' = Tail(wire)
      /\ Head(wire) = wire[1] /\ wire[1].kind = k /\ wire[1] \in Notices
      /\ \A i \in DOMAIN wire' : i + 1 \in DOMAIN wire /\ wire'[i] = wire[i + 1]
      /\ \A id : (\E i \in DOMAIN wire : wire[i].kind \in Closing /\ wire[i].id = id) =>
           \/ wire[1].id = id
           \/ \E i \in DOMAIN wire' : wire'[i].kind \in Closing /\ wire'[i].id = id
    BY <1>2, TakenIs
<1>4. /\ 1 \in DOMAIN wire
      /\ wire' # <<>> => wire'[1].kind = "offer" \/ wire'[1] = Select!Emptied
      /\ h \in Select!Ids => \A j \in DOMAIN wire' : wire'[j].id # h
    BY <1>3, WiredTail
<1>5. /\ None \notin Select!Ids /\ Select!Clear \notin Select!Ids
      /\ h \in Select!Ids \/ h = None
      /\ k # "selection" => h \in Select!Ids
      /\ Select!Emptied.kind = "selection" /\ Select!Emptied.id = None
    <2>1. Select!Clear \notin Select!Ids
        BY DEF Select!Clear, Select!Ids
    <2> QED
        BY <1>3, <2>1, NoticeFields
<1>6. h \in Select!Ids => h \in DOMAIN live /\ ~Kept(h) /\ Known(h)
    BY <1>2, <1>3, <1>4 DEF SelectInv, Named, Formats
<1> HIDE DEF h
<1>7. pending' = IF k = "selection" THEN IF h = None THEN Select!Clear ELSE h ELSE pending
    BY <1>2, <1>3 DEF Select!Selected, Select!ReplacePending, Select!Primary, h
<1>8. /\ DOMAIN live' = DOMAIN live \ {old} /\ DOMAIN offers' = DOMAIN offers \ {old}
      /\ \A x \in DOMAIN live : x # old => live'[x] = live[x]
      /\ \A x \in DOMAIN offers : x # old => offers'[x] = offers[x]
      /\ live' \in [DOMAIN live' -> [n : Nat \cup {None}, kind : Select!Contents]]
      /\ offers' \in [DOMAIN offers' -> SUBSET Select!Contents]
      /\ DOMAIN offers' \subseteq DOMAIN live' /\ DOMAIN live' \subseteq Select!Ids
      /\ Cardinality(DOMAIN live') <= held.n + shown + 1
    <2>1. CASE Select!Destroy(old)
        <3> HIDE DEF old
        <3> QED
            BY <2>1, DestroyIs DEF SelectInv
    <2>2. CASE ~Select!Destroy(old)
        <3>1. old = pending /\ pending \notin Select!Ids /\ UNCHANGED <<offers, live>>
            BY <1>2, <1>3, <2>2 DEF Select!Selected, Select!ReplacePending, Select!Primary, h
        <3>2. pending \notin DOMAIN live /\ pending \notin DOMAIN offers
            BY <3>1 DEF SelectInv, SelectTypes
        <3> QED
            BY <3>1, <3>2 DEF SelectInv, SelectTypes, Spare
    <2> QED
        BY <2>1, <2>2
<1>9. old = IF k = "selection" THEN pending ELSE h
    BY <1>2
<1> HIDE DEF old
<1>10. \A i \in DOMAIN wire' : wire'[i].id \in Select!Ids =>
           wire'[i].id \in DOMAIN live /\ wire'[i].id # h /\ wire'[i].id # pending /\ wire'[i].id # old
    BY <1>3, <1>4, <1>9 DEF SelectInv, Named, Kept
<1>11. SelectTypes'
    <2>1. pending' \in Select!Ids \cup {None, Select!Clear}
        BY <1>5, <1>7 DEF SelectInv, SelectTypes
    <2> QED
        BY <1>1, <1>3, <1>8, <2>1 DEF SelectInv, SelectTypes
<1>12. Spare'
    BY <1>1, <1>8 DEF Spare
<1>13. Named'
    BY <1>1, <1>3, <1>5, <1>7, <1>8, <1>10 DEF SelectInv, Named, Kept
<1>14. Alive'
    <2> SUFFICES ASSUME NEW id \in DOMAIN live'
                 PROVE  Kept(id)' \/ \E i \in DOMAIN wire' : wire'[i].kind \in Closing /\ wire'[i].id = id
        BY DEF Alive, Kept
    <2>1. id \in DOMAIN live /\ id # old /\ id \in Select!Ids
        BY <1>8
    <2>2. Kept(id) \/ \E i \in DOMAIN wire : wire[i].kind \in Closing /\ wire[i].id = id
        BY <2>1 DEF SelectInv, Alive
    <2>3. CASE Kept(id)
        <3>1. id = pending /\ k # "selection"
            BY <1>3, <1>5, <1>9, <2>1, <2>3 DEF Kept
        <3> QED
            BY <1>7, <3>1 DEF Kept
    <2>4. CASE ~Kept(id)
        <3>1. h = id \/ \E i \in DOMAIN wire' : wire'[i].kind \in Closing /\ wire'[i].id = id
            BY <1>3, <2>2, <2>4 DEF h
        <3>2. h = id => k = "selection" /\ pending' = h
            BY <1>5, <1>7, <1>9, <2>1
        <3> QED
            BY <3>1, <3>2 DEF Kept
    <2> QED
        BY <2>3, <2>4
<1>15. Formats'
    <2>1. ASSUME NEW id \in Select!Ids, Kept(id)' PROVE id \in DOMAIN live' /\ Known(id)'
        <3>1. id = pending'
            BY <1>1, <1>3, <1>5, <2>1 DEF Kept
        <3>2. id \in DOMAIN live /\ Known(id) /\ id # old
            <4>1. CASE k = "selection"
                <5>1. id = h /\ ~Kept(h) /\ old = pending
                    BY <1>5, <1>6, <1>7, <1>9, <2>1, <3>1, <4>1
                <5> QED
                    BY <1>6, <2>1, <5>1 DEF Kept
            <4>2. CASE k # "selection"
                <5>1. id = pending /\ old = h /\ ~Kept(h)
                    BY <1>5, <1>6, <1>7, <1>9, <3>1, <4>2
                <5> QED
                    BY <2>1, <5>1 DEF SelectInv, Formats, Kept
            <4> QED
                BY <4>1, <4>2
        <3> QED
            BY <1>8, <3>2 DEF Known
    <2>2. wire' # <<>> => wire'[1].kind # "mime" /\ (wire'[1].kind \in Closing => wire'[1].id \notin Select!Ids)
        BY <1>4, <1>5 DEF Closing
    <2> QED
        BY <2>1, <2>2 DEF Formats, Kept
<1>16. NewestOffer'
    <2>1. /\ \A i \in DOMAIN wire' : Latest(wire', i) => i + 1 \in DOMAIN wire /\ Latest(wire, i + 1)
          /\ (\A i \in DOMAIN wire' : wire'[i].kind # "selection") =>
                IF k = "selection" THEN Latest(wire, 1)
                ELSE \A i \in DOMAIN wire : wire[i].kind # "selection"
        BY <1>3, LatestTail
    <2>2. ASSUME NEW i \in DOMAIN wire', Latest(wire', i) PROVE IsBoard(wire'[i].id, held', live')
        <3>1. IsBoard(wire'[i].id, held, live)
            BY <1>3, <2>1, <2>2 DEF SelectInv, NewestOffer
        <3> QED
            BY <1>1, <1>8, <1>10, <3>1 DEF IsBoard
    <2>3. ASSUME \A i \in DOMAIN wire' : wire'[i].kind # "selection"
          PROVE  /\ pending' # None => IsBoard(pending', held', live')
                 /\ pipe' # None => IsBoard(pipe', held', live')
                 /\ pending' = None /\ pipe' = None => Over'
        <3>1. CASE k = "selection"
            <4>1. IsBoard(h, held, live)
                BY <1>4, <2>1, <2>3, <3>1 DEF SelectInv, NewestOffer, h
            <4>2. pending' # None
                <5>1. None # Select!Clear
                    BY DEF Select!SelectionAssumption, Select!Clear
                <5> QED
                    BY <1>7, <3>1, <5>1
            <4>3. h \in Select!Ids => h \in DOMAIN live /\ h # old
                BY <1>6, <1>9, <3>1 DEF Kept
            <4>4. IsBoard(pending', held', live')
                BY <1>1, <1>5, <1>7, <1>8, <3>1, <4>1, <4>3 DEF IsBoard
            <4> QED
                BY <1>1, <1>3, <4>2, <4>4
        <3>2. CASE k # "selection"
            <4>1. /\ pending # None => IsBoard(pending, held, live)
                  /\ pending = None /\ pipe = None => Over
                BY <2>1, <2>3, <3>2 DEF SelectInv, NewestOffer
            <4>2. pending \in Select!Ids => pending \in DOMAIN live /\ pending # old
                BY <1>5, <1>6, <1>9, <3>2 DEF SelectInv, Formats, Kept
            <4>3. pending # None => IsBoard(pending, held, live')
                BY <1>8, <4>1, <4>2 DEF IsBoard
            <4> QED
                BY <1>1, <1>3, <1>7, <3>2, <4>1, <4>3 DEF Over
        <3> QED
            BY <3>1, <3>2
    <2> QED
        BY <2>2, <2>3 DEF NewestOffer
<1> QED
    BY <1>11, <1>12, <1>13, <1>14, <1>15, <1>16 DEF SelectInv

LEMMA SelectInit ==
    ASSUME Select!SelectionAssumption, Select!Init PROVE SelectInv
<1>1. PICK kind \in Select!Contents \cup {"empty"} :
        /\ held = [n |-> 0, kind |-> kind]
        /\ live = IF kind = "empty" THEN <<>> ELSE Select!With(<<>>, 1, held)
        /\ wire = IF kind = "empty" THEN <<Select!Emptied>> ELSE Select!Announced(1, kind, "selection")
    BY DEF Select!Init
<1>2. /\ shown = 0 /\ offers = <<>> /\ pending = None /\ pipe = None
      /\ 1 \in Select!Ids /\ None \notin Select!Ids
      /\ 0 \in 0 .. MaxCopies /\ 0 \in 0 .. MaxShown
    BY DEF Select!Init, Select!Ids, Select!SelectionAssumption
<1>3. Wired(<<>>) /\ DOMAIN <<>> = {}
    BY DEF Wired
<1>4. offers \in [DOMAIN offers -> SUBSET Select!Contents] /\ DOMAIN offers = {}
    BY <1>2, <1>3
<1>5. Cardinality({}) = 0 /\ Cardinality({1}) = 1
    BY FS_EmptySet, FS_Singleton
<1>6. CASE kind = "empty"
    <2>1. live = <<>> /\ wire = <<Select!Emptied>>
        BY <1>1, <1>6
    <2>2. /\ Wired(Append(<<>>, Select!Emptied))
          /\ Append(<<>>, Select!Emptied) = wire /\ DOMAIN wire = {1} /\ wire[1] = Select!Emptied
        <3>1. Len(<<>>) = 0 /\ Append(<<>>, Select!Emptied) = wire
            BY <2>1
        <3>2. Wired(wire) /\ Cleared(<<>>, wire, 0)
            BY <1>3, <3>1, WiredEmptied, Zenon
        <3>3. DOMAIN wire = 1 .. 0 + 1 /\ wire[0 + 1] = Select!Emptied
            BY <3>2, Zenon DEF Cleared
        <3> QED
            BY <3>1, <3>2, <3>3
    <2>3. Select!Emptied.id = None /\ Select!Emptied.kind = "selection"
        BY DEF Select!Emptied
    <2>4. live \in [DOMAIN live -> [n : Nat \cup {None}, kind : Select!Contents]] /\ DOMAIN live = {}
        BY <1>3, <2>1
    <2>5. SelectTypes
        BY <1>1, <1>2, <1>4, <1>6, <2>2, <2>4 DEF SelectTypes
    <2>6. Spare
        <3>1. held.n = 0 /\ shown = 0
            BY <1>1, <1>2
        <3> QED
            BY <1>5, <2>4, <3>1 DEF Spare
    <2>7. Named /\ Alive /\ Formats
        BY <1>2, <2>2, <2>3, <2>4 DEF Named, Alive, Formats, Kept
    <2>8. NewestOffer
        BY <1>1, <1>2, <1>6, <2>2, <2>3 DEF NewestOffer, IsBoard
    <2> QED
        BY <2>5, <2>6, <2>7, <2>8 DEF SelectInv
<1>7. CASE kind # "empty"
    <2> DEFINE t == Select!Announced(1, kind, "selection")
    <2>1. /\ kind \in Select!Contents /\ live = Select!With(<<>>, 1, held) /\ wire = t
          /\ "selection" \in Closing
        BY <1>1, <1>7 DEF Closing
    <2>2. /\ DOMAIN live = {1} /\ live[1] = held /\ live = [x \in {1} |-> live[x]]
        BY <1>3, <2>1 DEF Select!With
    <2>3. t = <<[kind |-> "offer", id |-> 1], [kind |-> "mime", id |-> 1, mime |-> kind],
                [kind |-> "selection", id |-> 1]>>
        BY DEF Select!Announced
    <2>4. t = <<>> \o t /\ Len(<<>>) = 0
        BY <2>3
    <2> HIDE DEF t
    <2>5. /\ Wired(wire) /\ DOMAIN wire = 1 .. 3
          /\ wire[1] = [kind |-> "offer", id |-> 1]
          /\ wire[2] = [kind |-> "mime", id |-> 1, mime |-> kind]
          /\ wire[3] = [kind |-> "selection", id |-> 1]
        <3>1. Wired(t) /\ Added(<<>>, t, 0, 1, kind, "selection")
            <4>1. \A i \in DOMAIN <<>> : <<>>[i].id # 1
                BY <1>3
            <4>2. t = <<>> \o Select!Announced(1, kind, "selection")
                BY <2>4 DEF t
            <4> QED
                BY <1>2, <1>3, <2>1, <2>4, <4>1, <4>2, WiredMore, Zenon
        <3> QED
            BY <2>1, <3>1 DEF Added
    <2>6. 1 .. 3 = {1, 2, 3}
        OBVIOUS
    <2>7. live \in [DOMAIN live -> [n : Nat \cup {None}, kind : Select!Contents]]
        <3>1. held \in [n : Nat \cup {None}, kind : Select!Contents]
            BY <1>1, <2>1
        <3> QED
            BY <2>2, <3>1
    <2>8. SelectTypes
        <3>1. /\ held.n \in 0 .. MaxCopies /\ held = [n |-> held.n, kind |-> held.kind]
              /\ held.kind \in Select!Contents \cup {"empty"}
            BY <1>1, <1>2
        <3>2. DOMAIN offers \subseteq DOMAIN live /\ DOMAIN live \subseteq Select!Ids
            BY <1>2, <1>4, <2>2
        <3> QED
            BY <1>2, <1>4, <2>5, <2>7, <3>1, <3>2 DEF SelectTypes
    <2>9. Spare
        BY <1>1, <1>2, <1>5, <2>2 DEF Spare
    <2>10. Named
        <3>1. live[1].kind = kind
            BY <1>1, <2>2
        <3> QED
            BY <1>2, <2>2, <2>5, <2>6, <3>1 DEF Named, Kept
    <2>11. Alive
        BY <2>2, <2>5, <2>6 DEF Alive, Closing
    <2>12. Formats
        BY <1>2, <2>5, <2>6 DEF Formats, Kept, Closing
    <2>13. NewestOffer
        <3>1. \A i \in DOMAIN wire : wire[i].kind = "selection" => i = 3 /\ wire[i].id = 1
            BY <2>5, <2>6
        <3>2. IsBoard(1, held, live)
            BY <1>2, <2>2, <1>1 DEF IsBoard
        <3>3. wire[3].kind = "selection" /\ 3 \in DOMAIN wire
            BY <2>5, <2>6
        <3> QED
            BY <3>1, <3>2, <3>3 DEF NewestOffer, Latest
    <2> QED
        BY <2>8, <2>9, <2>10, <2>11, <2>12, <2>13 DEF SelectInv
<1> QED
    BY <1>6, <1>7

LEMMA SelectStep ==
    ASSUME Select!SelectionAssumption, SelectInv, [Select!Next]_(Select!vars) PROVE SelectInv'
<1>1. CASE Select!Next
    BY <1>1, SelectCopyStep, SelectEndsStep, SelectHighlightStep, SelectDataOfferStep,
       SelectMimeStep, SelectAnnouncedStep, SelectBaselineStep, SelectMoveStep, SelectLeaveStep,
       SelectReadStep DEF Select!Next
<1>2. CASE UNCHANGED Select!vars
    BY <1>2 DEF Select!vars, SelectInv, SelectTypes, Spare, Named, Alive, Formats, NewestOffer, Kept,
                Known, Over
<1> QED
    BY <1>1, <1>2

LEMMA SelectReads ==
    ASSUME Select!SelectionAssumption, SelectInv PROVE Select!NewestIsRead
<1> SUFFICES ASSUME Select!Quiet
             PROVE  /\ live = <<>> /\ offers = <<>>
                    /\ held.n # first /\ held.kind \in {"text", "large", "secret"} /\ ~gaveUp
                        => told = held
    BY DEF Select!NewestIsRead
<1>1. wire = <<>> /\ pending = None /\ pipe = None /\ None \notin Select!Ids
    BY DEF Select!Quiet, Select!SelectionAssumption, Select!Ids
<1>2. DOMAIN wire = {}
    BY <1>1
<1>3. DOMAIN live = {} /\ DOMAIN offers = {}
    BY <1>1, <1>2 DEF SelectInv, SelectTypes, Alive, Kept
<1>4. live = <<>> /\ offers = <<>>
    <2>1. live = [x \in {} |-> live[x]] /\ offers = [x \in {} |-> offers[x]]
        BY <1>3 DEF SelectInv, SelectTypes
    <2> QED
        BY <2>1
<1>5. Over
    BY <1>1, <1>2 DEF SelectInv, NewestOffer
<1> QED
    BY <1>4, <1>5 DEF Over

(***************************************************************************)
(* The conversion of X11.  The reader, the applications and the server are *)
(* together in one of five places, each of which says what is under way;   *)
(* and as long as no copy is to be noticed yet (Fresh), what is under way  *)
(* is of the newest.  ~Late is used where a reader gives up: no answer is  *)
(* under way then.                                                         *)
(***************************************************************************)
Requests == {"TARGETS", "text"}
Mail == Requests \cup {"deleted"}

Happenings == [kind : {"owner", "new"}] \cup [kind : {"answer"}, target : Requests, refused : BOOLEAN]

(* What is among the events of q.                                          *)
Lacks(q, kind) == \A i \in DOMAIN q : q[i].kind # kind

OneNew(q) == \E p \in DOMAIN q : \A r \in DOMAIN q : q[r].kind = "new" <=> r = p

AnswerAt(q, p, target) ==
    /\ p \in DOMAIN q /\ q[p].kind = "answer" /\ q[p].target = target
    /\ \A r \in DOMAIN q :
        (r # p => q[r].kind # "answer") /\ (r > p => q[r].kind = "owner")

(* The first k pieces of the n-th copy, and what is handed over after them.*)
FirstPieces(n, k) == [i \in 1 .. k |-> <<n, i>>]
NextPiece(n, size, k) == IF k < size THEN <<<<n, k + 1>>>> ELSE <<>>
LaterPieces(n, size, k) == [i \in 1 .. size - k + 1 |-> NextPiece(n, size, k + i - 1)]
AfterPiece(n, size, k) == IF k < size THEN LaterPieces(n, size, k + 1) ELSE <<>>

Idle(f) == \A a \in Apps : f[a] = <<>>
Only(f, a, s) == \A b \in Apps : f[b] = IF b = a THEN s ELSE <<>>

(* No copy is to be noticed.                                               *)
Fresh == ~pending /\ Lacks(events, "owner") /\ Lacks(deferred, "owner")

OfNewest(n, size) == n = held.n /\ size = held.size

Right ==
    /\ held.size \in 1 .. Limit => told = Read!Pieces(held)
    /\ held.size > Limit => told = TooLarge

AtRest ==
    /\ phase = "idle" /\ Idle(asked) /\ Idle(feeding) /\ Lacks(events, "answer") /\ out = <<>>
    /\ Fresh /\ gaveUp = None => Right

IsAsked(a) ==
    /\ phase \in Requests /\ Only(asked, a, <<phase>>) /\ Idle(feeding) /\ Lacks(events, "answer")
    /\ prop = None /\ out = <<>>
    /\ Fresh => a = held.app /\ (phase = "text" => held.size > 0)

(* What is in the property when the answer comes.                          *)
HoldsFormats ==
    /\ Idle(feeding)
    /\ \E what \in {"text", "files"} :
        /\ prop = [type |-> "data", data |-> <<what>>]
        /\ Fresh => (what = "text" <=> held.size > 0)

HoldsText(n, size) ==
    /\ Fresh => OfNewest(n, size)
    /\ \/ Idle(feeding) /\ prop = [type |-> "data", data |-> FirstPieces(n, size)]
       \/ /\ prop = [type |-> "INCR", data |-> <<>>]
          /\ \E a \in Apps : Only(feeding, a, LaterPieces(n, size, 0))

IsAnswered(p) ==
    /\ phase \in Requests /\ Idle(asked) /\ out = <<>> /\ AnswerAt(events, p, phase)
    /\ events[p].refused => Idle(feeding) /\ ~Fresh
    /\ ~events[p].refused /\ phase = "TARGETS" => HoldsFormats
    /\ ~events[p].refused /\ phase = "text" => \E n \in Nat, size \in Nat \ {0} : HoldsText(n, size)

Piecewise(n, size, k) ==
    /\ phase = "INCR" /\ Lacks(events, "answer")
    /\ out = FirstPieces(n, k)
    /\ Fresh => OfNewest(n, size)

IsWanted(a, n, size, k) ==
    /\ Piecewise(n, size, k) /\ Lacks(events, "new") /\ prop = None
    /\ Only(asked, a, <<"deleted">>) /\ Only(feeding, a, LaterPieces(n, size, k))

IsThere(a, n, size, k) ==
    /\ Piecewise(n, size, k) /\ OneNew(events)
    /\ prop = [type |-> "data", data |-> NextPiece(n, size, k)]
    /\ Idle(asked) /\ Only(feeding, a, AfterPiece(n, size, k))

ReadTypes ==
    /\ held.n \in Nat /\ held.size \in Nat
    /\ phase # "idle" \/ ~Fresh => held.app \in Apps
    /\ asked \in [Apps -> Seq(Mail)]
    /\ feeding \in [Apps -> Seq(Seq(Nat \X Nat))]
    /\ events \in Seq(Happenings) /\ deferred \in Seq(Happenings)
    /\ pending \in BOOLEAN

Someplace ==
    \/ AtRest
    \/ \E a \in Apps : IsAsked(a)
    \/ \E p \in DOMAIN events : IsAnswered(p)
    \/ \E a \in Apps, n \in Nat, size \in Nat \ {0} : \E k \in 0 .. size :
            IsWanted(a, n, size, k) \/ IsThere(a, n, size, k)

ReadInv == ReadTypes /\ Someplace


(* Events by position, of a queue with one less or one more.               *)
LEMMA EventsTail ==
    ASSUME NEW S, NEW q \in Seq(S), q # <<>>
    PROVE  /\ Head(q) = q[1] /\ 1 \in DOMAIN q /\ Tail(q) \in Seq(S) /\ Head(q) \in S
           /\ \A kind : Lacks(q, kind) <=> Head(q).kind # kind /\ Lacks(Tail(q), kind)
           /\ \A p, t : AnswerAt(q, p, t) /\ p = 1 => Lacks(Tail(q), "answer") /\ Lacks(Tail(q), "new")
           /\ \A p, t : AnswerAt(q, p, t) /\ p # 1 =>
                  Head(q).kind # "answer" /\ AnswerAt(Tail(q), p - 1, t) /\ Tail(q)[p - 1] = q[p]
           /\ OneNew(q) /\ Head(q).kind = "new" => Lacks(Tail(q), "new")
           /\ OneNew(q) /\ Head(q).kind # "new" => OneNew(Tail(q))
<1> DEFINE t == Tail(q)
<1>1. /\ 1 \in DOMAIN q /\ Head(q) = q[1] /\ t \in Seq(S)
      /\ \A p \in DOMAIN q : p \in Nat /\ p > 0 /\ (p # 1 => p - 1 \in DOMAIN t /\ t[p - 1] = q[p])
      /\ \A p \in DOMAIN t : p \in Nat /\ p > 0 /\ p + 1 \in DOMAIN q /\ t[p] = q[p + 1]
    BY SeqEnds, Zenon
<1>2. Head(q) \in S
    BY <1>1
<1> HIDE DEF t
<1>3. \A kind : Lacks(q, kind) <=> Head(q).kind # kind /\ Lacks(t, kind)
    BY <1>1 DEF Lacks
<1>4. ASSUME NEW p, NEW x, AnswerAt(q, p, x), p = 1 PROVE Lacks(t, "answer") /\ Lacks(t, "new")
    <2>1. \A i \in DOMAIN t : i + 1 \in DOMAIN q /\ t[i] = q[i + 1] /\ i + 1 > 1
        BY <1>1
    <2>2. \A i \in DOMAIN t : t[i].kind = "owner"
        BY <1>4, <2>1 DEF AnswerAt
    <2> QED
        BY <2>2 DEF Lacks
<1>5. ASSUME NEW p, NEW x, AnswerAt(q, p, x), p # 1
      PROVE  Head(q).kind # "answer" /\ AnswerAt(t, p - 1, x) /\ t[p - 1] = q[p]
    <2>1. p \in DOMAIN q /\ p - 1 \in DOMAIN t /\ t[p - 1] = q[p] /\ p \in Nat
        BY <1>1, <1>5 DEF AnswerAt
    <2>2. ASSUME NEW r \in DOMAIN t
          PROVE  (r # p - 1 => t[r].kind # "answer") /\ (r > p - 1 => t[r].kind = "owner")
        <3>1. r \in Nat /\ r + 1 \in DOMAIN q /\ t[r] = q[r + 1]
            BY <1>1
        <3>2. (r # p - 1 => r + 1 # p) /\ (r > p - 1 => r + 1 > p)
            BY <2>1, <3>1
        <3> QED
            BY <1>5, <3>1, <3>2 DEF AnswerAt
    <2> QED
        BY <1>1, <1>5, <2>1, <2>2 DEF AnswerAt
<1>6. OneNew(q) /\ Head(q).kind = "new" => Lacks(t, "new")
    <2>1. \A i \in DOMAIN t : i + 1 \in DOMAIN q /\ t[i] = q[i + 1] /\ i + 1 # 1
        BY <1>1
    <2> QED
        BY <1>1, <2>1, Zenon DEF OneNew, Lacks
<1>7. ASSUME OneNew(q), Head(q).kind # "new" PROVE OneNew(t)
    <2>1. PICK p \in DOMAIN q : \A r \in DOMAIN q : q[r].kind = "new" <=> r = p
        BY <1>7 DEF OneNew
    <2>2. p # 1 /\ p \in Nat /\ p - 1 \in DOMAIN t
        BY <1>1, <1>7, <2>1
    <2>3. ASSUME NEW r \in DOMAIN t PROVE t[r].kind = "new" <=> r = p - 1
        <3>1. r \in Nat /\ r + 1 \in DOMAIN q /\ t[r] = q[r + 1]
            BY <1>1
        <3>2. r = p - 1 <=> r + 1 = p
            BY <2>2, <3>1
        <3> QED
            BY <2>1, <3>1, <3>2
    <2> QED
        BY <2>2, <2>3 DEF OneNew
<1> QED
    BY <1>1, <1>2, <1>3, <1>4, <1>5, <1>6, <1>7 DEF t

LEMMA EventsMore ==
    ASSUME NEW S, NEW q \in Seq(S), NEW e \in S
    PROVE  /\ Append(q, e) \in Seq(S) /\ Append(q, e) # <<>>
           /\ \A kind : Lacks(Append(q, e), kind) <=> Lacks(q, kind) /\ e.kind # kind
           /\ \A p, t : AnswerAt(q, p, t) /\ e.kind = "owner" =>
                  AnswerAt(Append(q, e), p, t) /\ Append(q, e)[p] = q[p]
           /\ \A t : Lacks(q, "answer") /\ e.kind = "answer" /\ e.target = t =>
                  AnswerAt(Append(q, e), Len(q) + 1, t) /\ Append(q, e)[Len(q) + 1] = e
           /\ OneNew(q) /\ e.kind # "new" => OneNew(Append(q, e))
           /\ Lacks(q, "new") /\ e.kind = "new" => OneNew(Append(q, e))
<1> DEFINE v == Append(q, e)
           z == Len(q) + 1
<1>1. /\ DOMAIN v = DOMAIN q \cup {z} /\ v[z] = e /\ z \in Nat
      /\ \A p \in DOMAIN q : p \in Nat /\ p < z /\ v[p] = q[p]
    BY AppendIs
<1>2. v \in Seq(S) /\ v # <<>>
    <2>1. v \in Seq(S) /\ Len(v) = Len(q) + 1 /\ Len(q) \in Nat
        OBVIOUS
    <2>2. Len(<<>>) = 0 /\ Len(q) + 1 # 0
        BY <2>1
    <2> QED
        BY <2>1, <2>2
<1> HIDE DEF v, z
<1>3. \A kind : Lacks(v, kind) <=> Lacks(q, kind) /\ e.kind # kind
    BY <1>1 DEF Lacks
<1>4. ASSUME NEW p, NEW x, AnswerAt(q, p, x), e.kind = "owner"
      PROVE  AnswerAt(v, p, x) /\ v[p] = q[p]
    BY <1>1, <1>4 DEF AnswerAt
<1>5. ASSUME NEW x, Lacks(q, "answer"), e.kind = "answer", e.target = x
      PROVE  AnswerAt(v, z, x) /\ v[z] = e
    <2>1. \A r \in DOMAIN v : r = z \/ (r \in DOMAIN q /\ ~(r > z) /\ v[r].kind # "answer")
        BY <1>1, <1>5 DEF Lacks
    <2>2. ~(z > z)
        BY <1>1
    <2> QED
        BY <1>1, <1>5, <2>1, <2>2 DEF AnswerAt
<1>6. ASSUME OneNew(q), e.kind # "new" PROVE OneNew(v)
    <2>1. PICK p \in DOMAIN q : \A r \in DOMAIN q : q[r].kind = "new" <=> r = p
        BY <1>6 DEF OneNew
    <2>2. \A r \in DOMAIN v : v[r].kind = "new" <=> r = p
        BY <1>1, <1>6, <2>1
    <2> QED
        BY <1>1, <2>1, <2>2 DEF OneNew
<1>7. ASSUME Lacks(q, "new"), e.kind = "new" PROVE OneNew(v)
    <2>1. \A r \in DOMAIN v : v[r].kind = "new" <=> r = z
        BY <1>1, <1>7 DEF Lacks
    <2> QED
        BY <1>1, <2>1 DEF OneNew
<1> QED
    BY <1>2, <1>3, <1>4, <1>5, <1>6, <1>7 DEF v, z

LEMMA SeqOf ==
    ASSUME NEW S, NEW m \in Nat, NEW f \in [1 .. m -> S]
    PROVE  f \in Seq(S) /\ Len(f) = m /\ DOMAIN f = 1 .. m
OBVIOUS

(* Pieces, one after the other.                                            *)
LEMMA FirstIs ==
    ASSUME NEW n \in Nat, NEW k \in Nat
    PROVE  /\ FirstPieces(n, k) \in Seq(Nat \X Nat) /\ Len(FirstPieces(n, k)) = k
           /\ \A i \in 1 .. k : FirstPieces(n, k)[i] = <<n, i>>
<1>1. FirstPieces(n, k) \in [1 .. k -> Nat \X Nat]
    BY DEF FirstPieces
<1>2. FirstPieces(n, k) \in Seq(Nat \X Nat) /\ Len(FirstPieces(n, k)) = k
    BY <1>1, SeqOf, Zenon
<1> QED
    BY <1>2 DEF FirstPieces

LEMMA PieceNext ==
    ASSUME NEW n \in Nat, NEW size \in Nat \ {0}, NEW k \in 0 .. size, k < size
    PROVE  FirstPieces(n, k) \o NextPiece(n, size, k) = FirstPieces(n, k + 1)
<1> DEFINE f == FirstPieces(n, k)
           g == FirstPieces(n, k + 1)
           p == <<n, k + 1>>
           s == Append(f, p)
<1>1. NextPiece(n, size, k) = <<p>> /\ p \in Nat \X Nat /\ k \in Nat /\ k + 1 \in Nat
    BY DEF NextPiece
<1>2. /\ f \in Seq(Nat \X Nat) /\ Len(f) = k /\ \A i \in 1 .. k : f[i] = <<n, i>>
      /\ g \in Seq(Nat \X Nat) /\ Len(g) = k + 1 /\ \A i \in 1 .. k + 1 : g[i] = <<n, i>>
    BY <1>1, FirstIs
<1> HIDE DEF f, g
<1>3. /\ s \in Seq(Nat \X Nat) /\ Len(s) = k + 1 /\ s[k + 1] = <<n, k + 1>>
      /\ \A i \in 1 .. k : s[i] = f[i]
    BY <1>1, <1>2
<1>4. \A i \in 1 .. k + 1 : s[i] = g[i]
    <2>1. \A i \in 1 .. k + 1 : i \in 1 .. k \/ i = k + 1
        BY <1>1
    <2> HIDE DEF s
    <2> QED
        BY <1>2, <1>3, <2>1
<1>5. s = g
    <2> HIDE DEF s
    <2> QED
        BY <1>1, <1>2, <1>3, <1>4
<1>6. f \o <<p>> = s
    <2> HIDE DEF p
    <2> QED
        BY <1>1, <1>2 DEF s
<1> HIDE DEF s, p
<1>7. f \o NextPiece(n, size, k) = g
    BY <1>1, <1>5, <1>6, Zenon
<1> QED
    BY <1>7 DEF f, g

LEMMA PiecesGoOn ==
    ASSUME NEW n \in Nat, NEW size \in Nat \ {0}, NEW k \in 0 .. size
    PROVE  /\ FirstPieces(n, 0) = <<>> /\ Len(FirstPieces(n, k)) = k
           /\ FirstPieces(n, k) \in Seq(Nat \X Nat)
           /\ NextPiece(n, size, k) = <<>> <=> k = size
           /\ FirstPieces(n, size) # <<>>
           /\ LaterPieces(n, size, k) \in Seq(Seq(Nat \X Nat)) /\ LaterPieces(n, size, k) # <<>>
           /\ Head(LaterPieces(n, size, k)) = NextPiece(n, size, k)
           /\ Tail(LaterPieces(n, size, k)) = AfterPiece(n, size, k)
<1> DEFINE f == FirstPieces(n, k)
           l == LaterPieces(n, size, k)
<1>1. k \in Nat /\ size \in Nat /\ size > 0 /\ k <= size /\ size - k + 1 \in Nat /\ size - k + 1 >= 1
    OBVIOUS
<1>2. FirstPieces(n, 0) = <<>>
    BY DEF FirstPieces
<1>3. f \in Seq(Nat \X Nat) /\ Len(f) = k
    BY <1>1, FirstIs
<1>4. FirstPieces(n, size) # <<>>
    <2>1. DOMAIN FirstPieces(n, size) = 1 .. size /\ 1 \in 1 .. size
        BY <1>1 DEF FirstPieces
    <2> QED
        BY <2>1
<1>5. NextPiece(n, size, k) = <<>> <=> k = size
    BY <1>1 DEF NextPiece
<1>7. \A j \in 0 .. size : NextPiece(n, size, j) \in Seq(Nat \X Nat)
    <2> SUFFICES ASSUME NEW j \in 0 .. size PROVE NextPiece(n, size, j) \in Seq(Nat \X Nat)
        OBVIOUS
    <2>1. <<n, j + 1>> \in Nat \X Nat
        OBVIOUS
    <2>2. \A x \in Nat \X Nat : <<x>> \in Seq(Nat \X Nat)
        OBVIOUS
    <2>3. <<<<n, j + 1>>>> \in Seq(Nat \X Nat) /\ <<>> \in Seq(Nat \X Nat)
        BY <2>1, <2>2
    <2> QED
        BY <2>3, Zenon DEF NextPiece
<1>8. /\ l \in Seq(Seq(Nat \X Nat)) /\ Len(l) = size - k + 1
      /\ \A i \in 1 .. size - k + 1 : l[i] = NextPiece(n, size, k + i - 1)
    <2>1. \A i \in 1 .. size - k + 1 : k + i - 1 \in 0 .. size
        BY <1>1
    <2>2. l \in [1 .. size - k + 1 -> Seq(Nat \X Nat)]
        BY <1>7, <2>1 DEF LaterPieces
    <2>3. l \in Seq(Seq(Nat \X Nat)) /\ Len(l) = size - k + 1
        <3> DEFINE m == size - k + 1
        <3>1. m \in Nat /\ l \in [1 .. m -> Seq(Nat \X Nat)]
            BY <1>1, <2>2
        <3> HIDE DEF l, m
        <3>2. l \in Seq(Seq(Nat \X Nat)) /\ Len(l) = m
            BY <3>1, SeqOf
        <3> QED
            BY <3>2 DEF m
    <2> QED
        BY <2>3 DEF LaterPieces
<1> HIDE DEF l
<1>9. l # <<>> /\ Head(l) = NextPiece(n, size, k)
    <2>1. 1 \in 1 .. size - k + 1 /\ k + 1 - 1 = k
        BY <1>1
    <2>2. l # <<>> /\ Head(l) = l[1]
        BY <1>1, <1>8
    <2> QED
        BY <1>8, <2>1, <2>2
<1>10. Tail(l) \in Seq(Seq(Nat \X Nat)) /\ Len(Tail(l)) = size - k
       /\ \A i \in 1 .. size - k : Tail(l)[i] = l[i + 1]
    BY <1>1, <1>8, <1>9
<1>11. CASE k < size
    <2> DEFINE m == LaterPieces(n, size, k + 1)
    <2>1. /\ m \in Seq(Seq(Nat \X Nat)) /\ Len(m) = size - k
          /\ \A i \in 1 .. size - k : m[i] = NextPiece(n, size, k + i)
        <3>1. size - (k + 1) + 1 = size - k /\ \A i \in 1 .. size - k : k + 1 + i - 1 = k + i /\ k + i \in 0 .. size
            BY <1>1, <1>11
        <3>2. m = [i \in 1 .. size - k |-> NextPiece(n, size, k + i)]
            BY <3>1 DEF LaterPieces
        <3>3. m \in [1 .. size - k -> Seq(Nat \X Nat)]
            BY <1>7, <3>1, <3>2
        <3>4. size - k \in Nat
            BY <1>1, <1>11
        <3>5. m \in Seq(Seq(Nat \X Nat)) /\ Len(m) = size - k
            BY <3>3, <3>4, SeqOf, Zenon
        <3> HIDE DEF m
        <3> QED
            BY <3>2, <3>5
    <2>2. \A i \in 1 .. size - k : i + 1 \in 1 .. size - k + 1 /\ k + (i + 1) - 1 = k + i
        BY <1>1
    <2>3. \A i \in 1 .. size - k : Tail(l)[i] = m[i]
        <3> HIDE DEF m
        <3> QED
            BY <1>8, <1>10, <2>1, <2>2
    <2>4. Tail(l) = m
        <3> HIDE DEF m
        <3> DEFINE t == Tail(l)
        <3>1. t \in Seq(Seq(Nat \X Nat)) /\ Len(t) = size - k /\ \A i \in 1 .. size - k : t[i] = m[i]
            BY <1>10, <2>3
        <3> HIDE DEF t
        <3>2. t = m
            BY <2>1, <3>1
        <3> QED
            BY <3>2 DEF t
    <2>5. AfterPiece(n, size, k) = m
        BY <1>11, Zenon DEF AfterPiece
    <2> QED
        BY <1>2, <1>3, <1>4, <1>5, <1>8, <1>9, <1>11, <2>4, <2>5 DEF l
<1>12. CASE ~(k < size)
    <2>1. Tail(l) = <<>>
        BY <1>1, <1>10, <1>12
    <2>2. AfterPiece(n, size, k) = <<>>
        BY <1>12, Zenon DEF AfterPiece
    <2> QED
        BY <1>2, <1>3, <1>4, <1>5, <1>8, <1>9, <1>12, <2>1, <2>2 DEF l
<1> QED
    BY <1>11, <1>12

(* What an owner starts with is all there is.                              *)
LEMMA AllPieces ==
    ASSUME held.n \in Nat, held.size \in Nat \ {0}
    PROVE  /\ Read!Pieces(held) = FirstPieces(held.n, held.size)
           /\ Append([i \in 1 .. held.size |-> <<Read!Pieces(held)[i]>>], <<>>)
                  = LaterPieces(held.n, held.size, 0)
<1> DEFINE n == held.n
           size == held.size
           f == [i \in 1 .. size |-> <<Read!Pieces(held)[i]>>]
           l == LaterPieces(n, size, 0)
<1>1. Read!Pieces(held) = FirstPieces(n, size)
    BY DEF Read!Pieces, FirstPieces
<1>2. \A i \in 1 .. size : f[i] = <<<<n, i>>>>
    BY DEF Read!Pieces
<1>3. f \in Seq(Seq(Nat \X Nat)) /\ Len(f) = size
    <2>1. \A i \in 1 .. size : <<n, i>> \in Nat \X Nat
        OBVIOUS
    <2>2. \A i \in 1 .. size : <<<<n, i>>>> \in Seq(Nat \X Nat)
        BY <2>1
    <2>3. f \in [1 .. size -> Seq(Nat \X Nat)]
        BY <1>2, <2>2
    <2> QED
        BY <2>3, SeqOf, Zenon
<1>4. n \in Nat /\ size \in Nat /\ size > 0
    OBVIOUS
<1>5. /\ l \in Seq(Seq(Nat \X Nat)) /\ Len(l) = size + 1
      /\ \A i \in 1 .. size + 1 : l[i] = NextPiece(n, size, i - 1)
    <2> HIDE DEF n, size
    <2>1. size - 0 + 1 = size + 1 /\ 0 \in 0 .. size /\ \A i \in 1 .. size + 1 : 0 + i - 1 = i - 1
        BY <1>4
    <2>2. l \in Seq(Seq(Nat \X Nat))
        BY <1>4, <2>1, PiecesGoOn
    <2>3. l = [i \in 1 .. size + 1 |-> NextPiece(n, size, i - 1)]
        BY <2>1 DEF LaterPieces
    <2> QED
        BY <1>4, <2>2, <2>3
<1> DEFINE s == Append(f, <<>>)
<1>6. s \in Seq(Seq(Nat \X Nat)) /\ Len(s) = size + 1 /\ s[size + 1] = <<>> /\ \A i \in 1 .. size : s[i] = f[i]
    <2> HIDE DEF f, size
    <2>1. <<>> \in Seq(Nat \X Nat)
        OBVIOUS
    <2> QED
        BY <1>3, <1>4, <2>1
<1>7. \A i \in 1 .. size + 1 : s[i] = l[i]
    <2> HIDE DEF f, l, s, n, size
    <2> SUFFICES ASSUME NEW i \in 1 .. size + 1 PROVE s[i] = l[i]
        OBVIOUS
    <2>1. i \in 1 .. size => i - 1 < size /\ i - 1 + 1 = i
        BY <1>4
    <2>2. i \in 1 .. size \/ i = size + 1
        BY <1>4
    <2>3. size + 1 - 1 = size /\ ~(size < size)
        BY <1>4
    <2>4. CASE i \in 1 .. size
        <3>1. l[i] = <<<<n, i>>>>
            BY <1>5, <2>1, <2>4 DEF NextPiece
        <3> QED
            BY <1>2, <1>6, <2>4, <3>1
    <2>5. CASE i = size + 1
        <3>1. NextPiece(n, size, i - 1) = <<>>
            <4>1. ~(i - 1 < size)
                BY <1>4, <2>5
            <4> QED
                BY <4>1, Zenon DEF NextPiece
        <3>2. l[i] = <<>>
            BY <1>5, <3>1
        <3> QED
            BY <1>6, <2>5, <3>2
    <2> QED
        BY <2>2, <2>4, <2>5
<1>8. s = l
    <2> HIDE DEF f, l, s, n, size
    <2> QED
        BY <1>4, <1>5, <1>6, <1>7
<1> QED
    BY <1>1, <1>8

(* One application with something, or none.                                *)
LEMMA OnlyIs ==
    ASSUME NEW S, NEW f \in [Apps -> S], Idle(f)
    PROVE  /\ \A a \in Apps, s \in S :
                  [f EXCEPT ![a] = s] \in [Apps -> S] /\ Only([f EXCEPT ![a] = s], a, s)
           /\ \A a : Only(f, a, <<>>)
    BY DEF Idle, Only

LEMMA OnlyChanges ==
    ASSUME NEW S, NEW f \in [Apps -> S], NEW a \in Apps, NEW s, NEW t \in S, Only(f, a, s)
    PROVE  /\ f[a] = s /\ [f EXCEPT ![a] = t] \in [Apps -> S] /\ Only([f EXCEPT ![a] = t], a, t)
           /\ \A b \in Apps : f[b] # <<>> => b = a
           /\ s = <<>> => Idle(f)
           /\ t = <<>> => Idle([f EXCEPT ![a] = t])
    BY DEF Idle, Only

LEMMA ValueIs ==
    ASSUME Read!ConversionAssumption
    PROVE  \A t \in {"data", "INCR"} :
               /\ \A d \in Seq(Nat \X Nat) : [type |-> t, data |-> d] # None
               /\ \A what \in {"text", "files"} : [type |-> t, data |-> <<what>>] # None
<1> DEFINE S == {"text", "files"} \cup Nat \X Nat
<1>1. \A t \in {"data", "INCR"}, d \in Seq(S) :
          [type |-> t, data |-> d] \in [type : {"data", "INCR"}, data : Seq(S)]
    OBVIOUS
<1>2. \A t \in {"data", "INCR"}, d \in Seq(S) : [type |-> t, data |-> d] # None
    BY <1>1 DEF Read!ConversionAssumption
<1>3. \A d \in Seq(Nat \X Nat) : d \in Seq(S)
    OBVIOUS
<1>4. \A what \in {"text", "files"} : <<what>> \in Seq(S)
    OBVIOUS
<1> HIDE DEF S
<1> QED
    BY <1>2, <1>3, <1>4

(* Nothing to notice means nothing to notice before.                       *)
LEMMA FreshBefore ==
    ASSUME ReadTypes, events # <<>>, events' = Tail(events), UNCHANGED pending,
           \/ UNCHANGED deferred /\ Head(events).kind # "owner"
           \/ deferred' = Append(deferred, Head(events))
    PROVE  Fresh' => Fresh
<1>1. events \in Seq(Happenings) /\ deferred \in Seq(Happenings) /\ Head(events) \in Happenings
    BY EventsTail DEF ReadTypes
<1>2. Lacks(events, "owner") <=> Head(events).kind # "owner" /\ Lacks(Tail(events), "owner")
    BY <1>1, EventsTail
<1>3. Lacks(Append(deferred, Head(events)), "owner") <=>
          Lacks(deferred, "owner") /\ Head(events).kind # "owner"
    BY <1>1, EventsMore
<1> QED
    BY <1>2, <1>3 DEF Fresh

(* What is under way stays so while only events move.                      *)
LEMMA StillThere ==
    ASSUME Someplace, UNCHANGED <<asked, feeding, prop, phase, out, told, gaveUp>>,
           Fresh' => Fresh /\ UNCHANGED held,
           Lacks(events, "answer") => Lacks(events', "answer"),
           Lacks(events, "new") => Lacks(events', "new"),
           phase = "INCR" /\ OneNew(events) => OneNew(events'),
           \A p \in DOMAIN events : AnswerAt(events, p, phase) =>
               \E r \in DOMAIN events' : AnswerAt(events', r, phase) /\ events'[r] = events[p]
    PROVE  Someplace'
<1>1. CASE AtRest
    <2>1. (Fresh /\ gaveUp = None => Right)'
        BY <1>1 DEF AtRest, Right, Read!Pieces
    <2> QED
        BY <1>1, <2>1 DEF AtRest, Someplace
<1>2. CASE \E a \in Apps : IsAsked(a)
    <2>1. PICK a \in Apps : IsAsked(a)
        BY <1>2
    <2>2. IsAsked(a)'
        BY <2>1 DEF IsAsked
    <2> QED
        BY <2>2 DEF Someplace
<1>3. CASE \E p \in DOMAIN events : IsAnswered(p)
    <2>1. PICK p \in DOMAIN events : IsAnswered(p)
        BY <1>3
    <2>2. PICK r \in DOMAIN events' : AnswerAt(events', r, phase) /\ events'[r] = events[p]
        BY <2>1 DEF IsAnswered
    <2>3. HoldsFormats => HoldsFormats'
        BY DEF HoldsFormats
    <2>4. \A n \in Nat, size \in Nat \ {0} : HoldsText(n, size) => HoldsText(n, size)'
        BY DEF HoldsText, OfNewest
    <2>5. IsAnswered(r)'
        BY <2>1, <2>2, <2>3, <2>4 DEF IsAnswered
    <2> QED
        BY <2>5 DEF Someplace
<1>4. CASE \E a \in Apps, n \in Nat, size \in Nat \ {0} : \E k \in 0 .. size :
               IsWanted(a, n, size, k) \/ IsThere(a, n, size, k)
    <2>1. PICK a \in Apps, n \in Nat, size \in Nat \ {0} : \E k \in 0 .. size :
               IsWanted(a, n, size, k) \/ IsThere(a, n, size, k)
        BY <1>4
    <2>2. PICK k \in 0 .. size : IsWanted(a, n, size, k) \/ IsThere(a, n, size, k)
        BY <2>1
    <2>3. Piecewise(n, size, k) => Piecewise(n, size, k)'
        BY DEF Piecewise, OfNewest
    <2>4. IsWanted(a, n, size, k)' \/ IsThere(a, n, size, k)'
        BY <2>2, <2>3 DEF IsWanted, IsThere, Piecewise
    <2> QED
        BY <2>4 DEF Someplace
<1> QED
    BY <1>1, <1>2, <1>3, <1>4 DEF Someplace

LEMMA ReadCopy ==
    ASSUME Read!ConversionAssumption, ReadInv, NEW a \in Apps, Read!Copy(a)
    PROVE  ReadInv'
<1> DEFINE e == [kind |-> "owner"]
<1>1. ReadTypes /\ Someplace /\ events \in Seq(Happenings) /\ e \in Happenings
    BY DEF ReadInv, ReadTypes, Happenings
<1>2. /\ UNCHANGED <<asked, feeding, prop, deferred, pending, phase, out, told, gaveUp>>
      /\ events' = Append(events, e)
    BY DEF Read!Copy, Read!watch
<1>3. held'.n \in Nat /\ held'.size \in Nat /\ held'.app = a
    <2>1. PICK size \in 0 .. Limit + 1, way \in {"whole", "pieces"} :
              held' = [app |-> a, n |-> held.n + 1, size |-> size, way |-> way]
        BY DEF Read!Copy
    <2> QED
        BY <1>1, <2>1 DEF ReadTypes, Read!ConversionAssumption
<1> HIDE DEF e
<1>4. /\ events' \in Seq(Happenings)
      /\ \A kind : Lacks(events', kind) <=> Lacks(events, kind) /\ e.kind # kind
    BY <1>1, <1>2, EventsMore
<1>5. /\ \A p, t : AnswerAt(events, p, t) => AnswerAt(events', p, t) /\ events'[p] = events[p]
      /\ OneNew(events) => OneNew(events')
    <2>1. e.kind = "owner"
        BY DEF e
    <2> QED
        BY <1>1, <1>2, <2>1, EventsMore, Zenon
<1>6. ~Fresh'
    BY <1>4 DEF Fresh, e
<1>7. ReadTypes'
    BY <1>1, <1>2, <1>3, <1>4 DEF ReadTypes
<1>8. \A p \in DOMAIN events : AnswerAt(events, p, phase) =>
          \E r \in DOMAIN events' : AnswerAt(events', r, phase) /\ events'[r] = events[p]
    BY <1>5 DEF AnswerAt
<1>9. /\ Lacks(events, "answer") => Lacks(events', "answer")
      /\ Lacks(events, "new") => Lacks(events', "new")
    BY <1>4 DEF e
<1>10. Someplace'
    BY <1>1, <1>2, <1>5, <1>6, <1>8, <1>9, StillThere
<1> QED
    BY <1>7, <1>10 DEF ReadInv

(* Where the reader may be, by what it waits for.                          *)
LEMMA PlacesAre ==
    ASSUME Someplace
    PROVE  /\ phase = "idle" => AtRest
           /\ phase \in Requests =>
                  (\E a \in Apps : IsAsked(a)) \/ (\E p \in DOMAIN events : IsAnswered(p))
           /\ phase = "INCR" =>
                  \E a \in Apps, n \in Nat, size \in Nat \ {0} : \E k \in 0 .. size :
                      IsWanted(a, n, size, k) \/ IsThere(a, n, size, k)
           /\ phase \in {"idle", "TARGETS", "text", "INCR"}
    BY DEF Someplace, AtRest, IsAsked, IsAnswered, IsWanted, IsThere, Piecewise, Requests

LEMMA ReadNextEvent ==
    ASSUME ReadInv, Read!NextEvent
    PROVE  ReadInv'
<1>1. ReadTypes /\ Someplace /\ events \in Seq(Happenings) /\ deferred \in Seq(Happenings)
    BY DEF ReadInv, ReadTypes
<1>2. /\ phase = "idle" /\ deferred \o events # <<>>
      /\ UNCHANGED <<held, asked, feeding, prop, phase, out, told, gaveUp>>
      /\ pending' = (pending \/ Head(deferred \o events).kind = "owner")
      /\ IF deferred # <<>> THEN deferred' = Tail(deferred) /\ UNCHANGED events
         ELSE events' = Tail(events) /\ UNCHANGED deferred
    BY DEF Read!NextEvent, Read!apps
<1>3. AtRest
    BY <1>1, <1>2, PlacesAre
<1>4. /\ events' \in Seq(Happenings) /\ deferred' \in Seq(Happenings)
      /\ Lacks(events', "answer") /\ (Fresh' <=> Fresh)
    <2>1. CASE deferred # <<>>
        <3>1. Head(deferred \o events) = Head(deferred)
            BY <1>1, <2>1
        <3>2. Lacks(deferred, "owner") <=> Head(deferred).kind # "owner" /\ Lacks(Tail(deferred), "owner")
            BY <1>1, <2>1, EventsTail
        <3>3. Tail(deferred) \in Seq(Happenings)
            BY <1>1, <2>1, EventsTail
        <3> QED
            BY <1>1, <1>2, <1>3, <2>1, <3>1, <3>2, <3>3 DEF Fresh, AtRest
    <2>2. CASE deferred = <<>>
        <3>1. deferred \o events = events
            BY <1>1, <2>2
        <3>2. events # <<>> /\ events' = Tail(events) /\ UNCHANGED deferred
            BY <1>2, <2>2, <3>1
        <3>3. \A kind : Lacks(events, kind) <=> Head(events).kind # kind /\ Lacks(Tail(events), kind)
            BY <1>1, <3>2, EventsTail
        <3>4. Tail(events) \in Seq(Happenings)
            BY <1>1, <3>2, EventsTail
        <3>5. Lacks(events', "answer")
            BY <1>3, <3>2, <3>3 DEF AtRest
        <3>6. Fresh' <=> Fresh
            BY <1>2, <3>1, <3>2, <3>3 DEF Fresh
        <3> QED
            BY <1>1, <3>2, <3>4, <3>5, <3>6
    <2> QED
        BY <2>1, <2>2
<1>5. ReadTypes'
    <2>1. pending' \in BOOLEAN
        BY <1>1, <1>2 DEF ReadTypes
    <2>2. held'.app \in Apps \/ (phase' = "idle" /\ Fresh')
        BY <1>1, <1>2, <1>4 DEF ReadTypes
    <2> QED
        BY <1>1, <1>2, <1>4, <2>1, <2>2 DEF ReadTypes
<1>6. AtRest'
    <2>1. (Fresh /\ gaveUp = None => Right)'
        BY <1>2, <1>3, <1>4 DEF AtRest, Right, Read!Pieces
    <2> QED
        BY <1>2, <1>3, <1>4, <2>1 DEF AtRest
<1> QED
    BY <1>5, <1>6 DEF ReadInv, Someplace

LEMMA ReadAside ==
    ASSUME ReadInv, Read!Aside
    PROVE  ReadInv'
<1> DEFINE h == Head(events)
<1>1. ReadTypes /\ Someplace /\ events \in Seq(Happenings) /\ deferred \in Seq(Happenings)
    BY DEF ReadInv, ReadTypes
<1>2. /\ events # <<>> /\ events' = Tail(events)
      /\ UNCHANGED <<held, asked, feeding, prop, pending, phase, out, told, gaveUp>>
      /\ phase \in Requests \cup {"INCR"}
      /\ \/ phase \in Requests /\ h.kind = "answer" /\ ~Read!Comes /\ UNCHANGED deferred
         \/ phase \in Requests /\ h.kind # "answer" /\ deferred' = Append(deferred, h)
         \/ phase = "INCR" /\ h.kind # "new" /\ deferred' = Append(deferred, h)
    BY DEF Read!Aside, Read!apps, Read!Waiting, Read!Defer, Requests
<1>3. h \in Happenings /\ h = events[1] /\ events' \in Seq(Happenings)
    BY <1>1, <1>2, EventsTail
<1> HIDE DEF h
<1>4. deferred' \in Seq(Happenings)
    <2>1. Append(deferred, h) \in Seq(Happenings)
        BY <1>1, <1>3, EventsMore
    <2> QED
        BY <1>1, <1>2, <2>1
<1>5. Fresh' => Fresh
    BY <1>1, <1>2, FreshBefore DEF h
<1>6. \A kind : Lacks(events, kind) => Lacks(events', kind)
    BY <1>1, <1>2, EventsTail
<1>7. \A p \in DOMAIN events : AnswerAt(events, p, phase) =>
          \E r \in DOMAIN events' : AnswerAt(events', r, phase) /\ events'[r] = events[p]
    <2> SUFFICES ASSUME NEW p \in DOMAIN events, AnswerAt(events, p, phase)
                 PROVE  \E r \in DOMAIN events' : AnswerAt(events', r, phase) /\ events'[r] = events[p]
        OBVIOUS
    <2>1. CASE p = 1
        <3>1. h.kind = "answer" /\ h.target = phase
            BY <1>3, <2>1 DEF AnswerAt
        <3>2. Read!Comes \/ phase = "INCR"
            BY <1>2, <3>1 DEF Read!Comes, Read!Waiting, Read!Answer, Requests, h
        <3>3. phase # "INCR"
            <4>1. phase = "INCR" => Lacks(events, "answer")
                BY <1>1, PlacesAre DEF IsWanted, IsThere, Piecewise
            <4> QED
                BY <2>1, <4>1 DEF AnswerAt, Lacks
        <3> QED
            BY <1>2, <3>1, <3>2, <3>3
    <2>2. CASE p # 1
        <3>1. AnswerAt(events', p - 1, phase) /\ events'[p - 1] = events[p]
            BY <1>1, <1>2, <2>2, EventsTail
        <3> QED
            BY <3>1 DEF AnswerAt
    <2> QED
        BY <2>1, <2>2
<1>8. phase = "INCR" /\ OneNew(events) => OneNew(events')
    BY <1>1, <1>2, EventsTail DEF h, Requests
<1>9. Someplace'
    BY <1>1, <1>2, <1>5, <1>6, <1>7, <1>8, StillThere
<1>10. ReadTypes'
    BY <1>1, <1>2, <1>3, <1>4 DEF ReadTypes, Requests
<1> QED
    BY <1>9, <1>10 DEF ReadInv

(* Deleting the property is noticed by who has more to hand over.          *)
LEMMA DeletedIs ==
    ASSUME ReadTypes
    PROVE  /\ Read!Deleted \in [Apps -> Seq(Mail)]
           /\ Idle(feeding) => Read!Deleted = asked
           /\ \A a \in Apps : \A s : prop # None /\ s # <<>> /\ Idle(asked) /\ Only(feeding, a, s)
                  => Only(Read!Deleted, a, <<"deleted">>)
<1> DEFINE d == Read!Deleted
<1>1. /\ DOMAIN d = Apps
      /\ \A a \in Apps : d[a] = IF prop # None /\ feeding[a] # <<>> THEN Append(asked[a], "deleted")
                                ELSE asked[a]
      /\ d = [a \in Apps |-> d[a]]
    BY DEF Read!Deleted
<1>2. asked \in [Apps -> Seq(Mail)] /\ "deleted" \in Mail
    BY DEF ReadTypes, Mail
<1>3. \A a \in Apps : asked[a] \in Seq(Mail) /\ Append(asked[a], "deleted") \in Seq(Mail)
    BY <1>2
<1>4. \A a \in Apps : d[a] \in Seq(Mail)
    BY <1>1, <1>3, Zenon
<1> HIDE DEF d
<1>5. d \in [Apps -> Seq(Mail)]
    BY <1>1, <1>4
<1>6. ASSUME Idle(feeding) PROVE d = asked
    <2>1. \A a \in Apps : d[a] = asked[a]
        BY <1>1, <1>6 DEF Idle
    <2> QED
        BY <1>2, <1>5, <2>1
<1>7. ASSUME NEW a \in Apps, NEW s, prop # None, s # <<>>, Idle(asked), Only(feeding, a, s)
      PROVE  Only(d, a, <<"deleted">>)
    <2>1. Append(<<>>, "deleted") = <<"deleted">>
        OBVIOUS
    <2>2. \A b \in Apps : asked[b] = <<>> /\ feeding[b] = IF b = a THEN s ELSE <<>>
        BY <1>7 DEF Idle, Only
    <2> QED
        BY <1>1, <1>7, <2>1, <2>2 DEF Only
<1> QED
    BY <1>5, <1>6, <1>7 DEF d

LEMMA AsksIs ==
    ASSUME ReadTypes, Idle(asked), Idle(feeding), held.app \in Apps, NEW t \in Requests, Read!Convert(t)
    PROVE  /\ prop' = None /\ phase' = t /\ asked' \in [Apps -> Seq(Mail)]
           /\ Only(asked', held.app, <<t>>)
<1>1. /\ prop' = None /\ phase' = t
      /\ asked' = [Read!Deleted EXCEPT ![held.app] = Append(@, t)]
    BY DEF Read!Convert
<1>2. Read!Deleted = asked /\ asked \in [Apps -> Seq(Mail)]
    BY DeletedIs DEF ReadTypes
<1>3. asked' = [asked EXCEPT ![held.app] = <<t>>]
    <2>1. asked[held.app] = <<>> /\ Append(<<>>, t) = <<t>>
        BY DEF Idle
    <2>2. asked' = [asked EXCEPT ![held.app] = Append(@, t)]
        BY <1>1, <1>2, Zenon
    <2> QED
        BY <2>1, <2>2
<1>4. <<t>> \in Seq(Mail)
    BY DEF Mail
<1>5. [asked EXCEPT ![held.app] = <<t>>] \in [Apps -> Seq(Mail)]
      /\ Only([asked EXCEPT ![held.app] = <<t>>], held.app, <<t>>)
    <2> DEFINE S == Seq(Mail)
               a == held.app
               v == <<t>>
    <2>1. asked \in [Apps -> S] /\ Idle(asked) /\ a \in Apps /\ v \in S
        BY <1>2, <1>4
    <2> HIDE DEF S, a, v
    <2>2. [asked EXCEPT ![a] = v] \in [Apps -> S] /\ Only([asked EXCEPT ![a] = v], a, v)
        BY <2>1, OnlyIs, Zenon
    <2> QED
        BY <2>2 DEF S, a, v
<1> QED
    BY <1>1, <1>3, <1>5, Zenon

LEMMA ReadStartRead ==
    ASSUME ReadInv, Read!StartRead
    PROVE  ReadInv'
<1>1. ReadTypes /\ Someplace
    BY DEF ReadInv
<1>2. /\ phase = "idle" /\ pending /\ pending' = FALSE /\ Read!Convert("TARGETS")
      /\ UNCHANGED <<held, feeding, events, deferred, out, told>>
    BY DEF Read!StartRead, Read!apps
<1>3. AtRest
    BY <1>1, <1>2, PlacesAre
<1>4. held.app \in Apps
    BY <1>1, <1>2 DEF ReadTypes, Fresh
<1>5. /\ prop' = None /\ phase' = "TARGETS" /\ asked' \in [Apps -> Seq(Mail)]
      /\ Only(asked', held.app, <<"TARGETS">>)
    BY <1>1, <1>2, <1>3, <1>4, AsksIs DEF AtRest, Requests
<1>6. ReadTypes'
    BY <1>1, <1>2, <1>4, <1>5 DEF ReadTypes
<1>7. IsAsked(held.app)'
    BY <1>2, <1>3, <1>5 DEF IsAsked, AtRest, Requests
<1> QED
    BY <1>2, <1>4, <1>6, <1>7 DEF ReadInv, Someplace

(* The answer that comes is the one waited for.                            *)
LEMMA AnswerComes ==
    ASSUME ReadInv, Read!Comes, events' = Tail(events)
    PROVE  /\ IsAnswered(1) /\ events' \in Seq(Happenings) /\ phase \in Requests
           /\ Head(events) = events[1] /\ Lacks(events', "answer") /\ Lacks(events', "new")
           /\ UNCHANGED <<pending, deferred>> => (Fresh' => Fresh)
<1>1. ReadTypes /\ Someplace /\ events \in Seq(Happenings)
    BY DEF ReadInv, ReadTypes
<1>2. events # <<>> /\ Head(events).kind = "answer" /\ phase \in Requests
    BY DEF Read!Comes, Read!Waiting, Read!Answer, Requests
<1>3. /\ Head(events) = events[1] /\ 1 \in DOMAIN events /\ Tail(events) \in Seq(Happenings)
      /\ \A p, t : AnswerAt(events, p, t) /\ p = 1 => Lacks(Tail(events), "answer") /\ Lacks(Tail(events), "new")
    BY <1>1, <1>2, EventsTail
<1>4. IsAnswered(1)
    <2>1. ~\E a \in Apps : IsAsked(a)
        BY <1>2, <1>3 DEF IsAsked, Lacks
    <2>2. PICK p \in DOMAIN events : IsAnswered(p)
        BY <1>1, <1>2, <2>1, PlacesAre
    <2>3. p = 1
        BY <1>2, <1>3, <2>2 DEF IsAnswered, AnswerAt
    <2> QED
        BY <2>2, <2>3
<1>5. Lacks(events', "answer") /\ Lacks(events', "new")
    BY <1>3, <1>4 DEF IsAnswered
<1>6. ASSUME UNCHANGED <<pending, deferred>> PROVE Fresh' => Fresh
    BY <1>1, <1>2, <1>6, FreshBefore
<1> QED
    BY <1>2, <1>3, <1>4, <1>5, <1>6

LEMMA ReadRefused ==
    ASSUME ReadInv, Read!Refused
    PROVE  ReadInv'
<1>1. /\ Read!Comes /\ Head(events).refused /\ events' = Tail(events) /\ phase' = "idle" /\ out' = <<>>
      /\ UNCHANGED <<held, feeding, asked, prop, gaveUp, told, deferred, pending>>
    BY DEF Read!Refused, Read!Ends, Read!apps, Read!Answer
<1>2. /\ IsAnswered(1) /\ events' \in Seq(Happenings) /\ phase \in Requests
      /\ Head(events) = events[1] /\ Lacks(events', "answer")
      /\ Fresh' => Fresh
    BY <1>1, AnswerComes
<1>3. Idle(asked) /\ Idle(feeding) /\ ~Fresh
    BY <1>1, <1>2 DEF IsAnswered
<1>4. AtRest'
    BY <1>1, <1>2, <1>3 DEF AtRest
<1>5. ReadTypes'
    BY <1>1, <1>2 DEF ReadInv, ReadTypes, Requests
<1> QED
    BY <1>4, <1>5 DEF ReadInv, Someplace

LEMMA ReadReadTargets ==
    ASSUME Read!ConversionAssumption, ReadInv, Read!ReadTargets
    PROVE  ReadInv'
<1>1. /\ Read!Comes /\ ~Head(events).refused /\ phase = "TARGETS" /\ events' = Tail(events)
      /\ UNCHANGED <<held, feeding, gaveUp, told, deferred, pending>>
      /\ IF "text" \in Read!Range(Read!Value) THEN Read!Convert("text") /\ UNCHANGED out
         ELSE phase' = "idle" /\ out' = <<>> /\ prop' = None /\ asked' = Read!Deleted
    BY DEF Read!ReadTargets, Read!Ends, Read!apps, Read!Answer
<1>2. /\ IsAnswered(1) /\ events' \in Seq(Happenings)
      /\ Head(events) = events[1] /\ Lacks(events', "answer")
      /\ Fresh' => Fresh
    BY <1>1, AnswerComes
<1>3. Idle(asked) /\ HoldsFormats /\ Idle(feeding) /\ out = <<>>
    BY <1>1, <1>2 DEF IsAnswered, HoldsFormats
<1>4. PICK what \in {"text", "files"} :
          prop = [type |-> "data", data |-> <<what>>] /\ (Fresh => (what = "text" <=> held.size > 0))
    BY <1>3 DEF HoldsFormats
<1>5. "text" \in Read!Range(Read!Value) <=> what = "text"
    <2>1. prop # None
        BY <1>4, ValueIs
    <2>2. Read!Value = <<what>>
        BY <1>4, <2>1 DEF Read!Value
    <2> QED
        BY <2>2 DEF Read!Range
<1>6. ReadTypes /\ held.app \in Apps /\ held.size \in Nat
    BY <1>1 DEF ReadInv, ReadTypes
<1>7. CASE what = "text"
    <2>1. /\ prop' = None /\ phase' = "text" /\ asked' \in [Apps -> Seq(Mail)]
          /\ Only(asked', held.app, <<"text">>)
        BY <1>1, <1>3, <1>5, <1>6, <1>7, AsksIs DEF Requests
    <2>2. Fresh' => held'.size > 0
        BY <1>1, <1>2, <1>4, <1>7
    <2>3. IsAsked(held.app)'
        BY <1>1, <1>2, <1>3, <1>5, <1>7, <2>1, <2>2 DEF IsAsked, Requests
    <2>4. ReadTypes'
        BY <1>1, <1>2, <1>6, <2>1 DEF ReadTypes
    <2> QED
        BY <1>1, <1>6, <2>3, <2>4 DEF ReadInv, Someplace
<1>8. CASE what # "text"
    <2>1. /\ phase' = "idle" /\ out' = <<>> /\ prop' = None /\ asked' = asked
        BY <1>1, <1>3, <1>5, <1>6, <1>8, DeletedIs
    <2>2. Fresh' => Right'
        BY <1>1, <1>2, <1>4, <1>6, <1>8 DEF Right, Read!ConversionAssumption
    <2>3. AtRest'
        BY <1>1, <1>2, <1>3, <2>1, <2>2 DEF AtRest
    <2>4. ReadTypes'
        BY <1>1, <1>2, <1>6, <2>1 DEF ReadTypes
    <2> QED
        BY <2>3, <2>4 DEF ReadInv, Someplace
<1> QED
    BY <1>7, <1>8

LEMMA PiecesFit ==
    \A n \in Nat, size \in Nat \ {0} : \A k \in 0 .. size :
        /\ LaterPieces(n, size, k) # <<>> /\ Len(FirstPieces(n, k)) = k
        /\ FirstPieces(n, 0) = <<>> /\ FirstPieces(n, size) # <<>>
        /\ NextPiece(n, size, k) = <<>> => k = size
<1> SUFFICES ASSUME NEW n \in Nat, NEW size \in Nat \ {0}, NEW k \in 0 .. size
             PROVE  /\ LaterPieces(n, size, k) # <<>> /\ Len(FirstPieces(n, k)) = k
                    /\ FirstPieces(n, 0) = <<>> /\ FirstPieces(n, size) # <<>>
                    /\ NextPiece(n, size, k) = <<>> => k = size
    OBVIOUS
<1>1. k < size => NextPiece(n, size, k) = <<<<n, k + 1>>>>
    BY DEF NextPiece
<1>2. k < size \/ k = size
    OBVIOUS
<1>3. <<<<n, k + 1>>>> # <<>>
    OBVIOUS
<1>4. NextPiece(n, size, k) = <<>> => k = size
    BY <1>1, <1>2, <1>3
<1>5. LaterPieces(n, size, k) # <<>>
    BY PiecesGoOn
<1>6. Len(FirstPieces(n, k)) = k
    BY PiecesGoOn
<1>7. FirstPieces(n, 0) = <<>>
    BY DEF FirstPieces
<1>8. FirstPieces(n, size) # <<>>
    <2>1. DOMAIN FirstPieces(n, size) = 1 .. size /\ 1 \in 1 .. size
        BY DEF FirstPieces
    <2> QED
        BY <2>1
<1> QED
    BY <1>4, <1>5, <1>6, <1>7, <1>8, Zenon

LEMMA PiecesAreValues ==
    ASSUME Read!ConversionAssumption, NEW n \in Nat, NEW size \in Nat \ {0}, NEW k \in 0 .. size
    PROVE  /\ [type |-> "data", data |-> FirstPieces(n, k)] # None
           /\ [type |-> "data", data |-> NextPiece(n, size, k)] # None
           /\ [type |-> "INCR", data |-> <<>>] # None
<1>1. FirstPieces(n, k) \in Seq(Nat \X Nat)
    BY PiecesGoOn
<1>2. NextPiece(n, size, k) \in Seq(Nat \X Nat) /\ <<>> \in Seq(Nat \X Nat)
    <2>1. <<n, k + 1>> \in Nat \X Nat
        OBVIOUS
    <2>2. \A x \in Nat \X Nat : <<x>> \in Seq(Nat \X Nat)
        OBVIOUS
    <2>3. <<<<n, k + 1>>>> \in Seq(Nat \X Nat) /\ <<>> \in Seq(Nat \X Nat)
        BY <2>1, <2>2
    <2> QED
        BY <2>3, Zenon DEF NextPiece
<1>3. "data" \in {"data", "INCR"} /\ "INCR" \in {"data", "INCR"}
    OBVIOUS
<1> QED
    BY <1>1, <1>2, <1>3, ValueIs, Zenon

(* The pieces of the newest copy are what is to be reported.               *)
LEMMA RightIs ==
    ASSUME ReadTypes, NEW n \in Nat, NEW size \in Nat \ {0}, OfNewest(n, size),
           Read!ConversionAssumption
    PROVE  /\ size <= Limit /\ told = FirstPieces(n, size) => Right
           /\ size > Limit /\ told = TooLarge => Right
<1>1. held.n = n /\ held.size = size /\ Limit \in Nat
    BY DEF OfNewest, Read!ConversionAssumption
<1>2. Read!Pieces(held) = FirstPieces(n, size)
    BY <1>1, AllPieces
<1> QED
    BY <1>1, <1>2 DEF Right

LEMMA ReadReadText ==
    ASSUME Read!ConversionAssumption, ReadInv, Read!ReadText
    PROVE  ReadInv'
<1>1. /\ Read!Comes /\ ~Head(events).refused /\ phase = "text" /\ events' = Tail(events)
      /\ prop = None \/ prop.type # "INCR"
      /\ UNCHANGED <<held, feeding, gaveUp, deferred, pending>>
      /\ phase' = "idle" /\ out' = <<>>
      /\ IF Len(Read!Value) > Limit THEN told' = TooLarge /\ UNCHANGED <<prop, asked>>
         ELSE told' = Read!Reported(Read!Value) /\ prop' = None /\ asked' = Read!Deleted
    BY DEF Read!ReadText, Read!Ends, Read!apps, Read!Answer
<1>2. /\ IsAnswered(1) /\ events' \in Seq(Happenings)
      /\ Head(events) = events[1] /\ Lacks(events', "answer")
      /\ Fresh' => Fresh
    BY <1>1, AnswerComes
<1>3. Idle(asked) /\ \E n \in Nat, size \in Nat \ {0} : HoldsText(n, size)
    BY <1>1, <1>2 DEF IsAnswered
<1>4. PICK n \in Nat, size \in Nat \ {0} : HoldsText(n, size)
    BY <1>3
<1>5. size \in 0 .. size /\ 0 \in 0 .. size
    OBVIOUS
<1>6. Idle(feeding) /\ prop = [type |-> "data", data |-> FirstPieces(n, size)] /\ prop # None
    <2>1. prop # [type |-> "INCR", data |-> <<>>]
        BY <1>1, <1>5, PiecesAreValues
    <2> QED
        BY <1>4, <1>5, <2>1, PiecesAreValues DEF HoldsText
<1>7. Read!Value = FirstPieces(n, size) /\ Len(Read!Value) = size /\ Read!Value # <<>>
    <2>1. Read!Value = FirstPieces(n, size)
        BY <1>6 DEF Read!Value
    <2> QED
        BY <1>5, <2>1, PiecesGoOn
<1>8. ReadTypes
    BY DEF ReadInv
<1>9. asked' = asked
    BY <1>1, <1>6, <1>8, DeletedIs
<1>10. ReadTypes'
    BY <1>1, <1>2, <1>8, <1>9 DEF ReadTypes
<1>11. IF size > Limit THEN told' = TooLarge ELSE told' = FirstPieces(n, size)
    BY <1>1, <1>7 DEF Read!Reported
<1>12. ASSUME Fresh' PROVE Right'
    <2>1. held.n = n /\ held.size = size
        BY <1>2, <1>4, <1>12 DEF HoldsText, OfNewest
    <2>2. Read!Pieces(held') = FirstPieces(n, size)
        BY <1>1, <1>8, <2>1, AllPieces DEF ReadTypes
    <2>3. Limit \in Nat
        BY DEF Read!ConversionAssumption
    <2>4. /\ size <= Limit => told' = Read!Pieces(held')
          /\ size > Limit => told' = TooLarge
        BY <1>11, <2>2, <2>3
    <2>5. held'.size = size
        BY <1>1, <2>1
    <2>6. Right' <=> /\ held'.size \in 1 .. Limit => told' = Read!Pieces(held')
                     /\ held'.size > Limit => told' = TooLarge
        BY DEF Right, Read!Pieces
    <2> QED
        BY <2>3, <2>4, <2>5, <2>6
<1>13. AtRest'
    BY <1>1, <1>2, <1>3, <1>6, <1>9, <1>12 DEF AtRest
<1> QED
    BY <1>10, <1>13 DEF ReadInv, Someplace

LEMMA ReadStartIncr ==
    ASSUME Read!ConversionAssumption, ReadInv, Read!StartIncr
    PROVE  ReadInv'
<1>1. /\ Read!Comes /\ ~Head(events).refused /\ phase = "text" /\ events' = Tail(events)
      /\ prop # None /\ prop.type = "INCR"
      /\ UNCHANGED <<held, feeding, gaveUp, told, out, deferred, pending>>
      /\ phase' = "INCR" /\ prop' = None /\ asked' = Read!Deleted
    BY DEF Read!StartIncr, Read!apps, Read!Answer
<1>2. /\ IsAnswered(1) /\ events' \in Seq(Happenings)
      /\ Head(events) = events[1] /\ Lacks(events', "answer") /\ Lacks(events', "new")
      /\ Fresh' => Fresh
    BY <1>1, AnswerComes
<1>3. Idle(asked) /\ out = <<>> /\ \E n \in Nat, size \in Nat \ {0} : HoldsText(n, size)
    BY <1>1, <1>2 DEF IsAnswered
<1>4. PICK n \in Nat, size \in Nat \ {0} : HoldsText(n, size)
    BY <1>3
<1>5. PICK a \in Apps : Only(feeding, a, LaterPieces(n, size, 0))
    <2>1. prop # [type |-> "data", data |-> FirstPieces(n, size)]
        BY <1>1
    <2> QED
        BY <1>4, <2>1 DEF HoldsText
<1>6. 0 \in 0 .. size
    OBVIOUS
<1>7. LaterPieces(n, size, 0) # <<>> /\ FirstPieces(n, 0) = <<>>
    <2>1. LaterPieces(n, size, 0) # <<>>
        BY <1>6, PiecesFit
    <2>2. FirstPieces(n, 0) = <<>>
        BY <1>6, PiecesFit
    <2> QED
        BY <2>1, <2>2
<1>8. ReadTypes
    BY DEF ReadInv
<1>9. asked' \in [Apps -> Seq(Mail)] /\ Only(asked', a, <<"deleted">>)
    BY <1>1, <1>3, <1>5, <1>7, <1>8, DeletedIs
<1>10. ReadTypes'
    BY <1>1, <1>2, <1>8, <1>9 DEF ReadTypes
<1>11. Fresh' => OfNewest(n, size)'
    BY <1>1, <1>2, <1>4 DEF HoldsText, OfNewest
<1>12. IsWanted(a, n, size, 0)'
    BY <1>1, <1>2, <1>3, <1>5, <1>7, <1>9, <1>11 DEF IsWanted, Piecewise
<1> QED
    BY <1>6, <1>10, <1>12 DEF ReadInv, Someplace

LEMMA GivesUpIs ==
    ASSUME Read!ConversionAssumption, ~Late, ReadTypes, NEW why \in {"late", "large"}, Read!GivesUp(why)
    PROVE  /\ phase' = "idle" /\ out' = <<>> /\ UNCHANGED <<deferred, pending>> /\ gaveUp' # None
           /\ asked' \in [Apps -> Seq(Mail)] /\ feeding' \in [Apps -> Seq(Seq(Nat \X Nat))]
           /\ Idle(asked') /\ Idle(feeding')
<1>1. /\ phase' = "idle" /\ out' = <<>> /\ UNCHANGED <<deferred, pending>> /\ gaveUp' = why
      /\ asked' = [a \in Apps |-> <<>>] /\ feeding' = [a \in Apps |-> <<>>]
    BY DEF Read!GivesUp, Read!Ends
<1>2. gaveUp' # None
    BY <1>1 DEF Read!ConversionAssumption
<1>3. <<>> \in Seq(Mail) /\ <<>> \in Seq(Seq(Nat \X Nat))
    OBVIOUS
<1> QED
    BY <1>1, <1>2, <1>3 DEF Idle

LEMMA ReadTimeout ==
    ASSUME Read!ConversionAssumption, ~Late, ReadInv, Read!Timeout
    PROVE  ReadInv'
<1>1. ReadTypes
    BY DEF ReadInv
<1>2. /\ phase # "idle" /\ Lacks(events, "answer") /\ Read!GivesUp("late")
      /\ UNCHANGED <<held, events>>
    BY DEF Read!Timeout, Lacks
<1>3. /\ phase' = "idle" /\ out' = <<>> /\ UNCHANGED <<deferred, pending>> /\ gaveUp' # None
      /\ asked' \in [Apps -> Seq(Mail)] /\ feeding' \in [Apps -> Seq(Seq(Nat \X Nat))]
      /\ Idle(asked') /\ Idle(feeding')
    BY <1>1, <1>2, GivesUpIs
<1>4. ReadTypes'
    BY <1>1, <1>2, <1>3 DEF ReadTypes
<1>5. AtRest'
    BY <1>2, <1>3 DEF AtRest
<1> QED
    BY <1>4, <1>5 DEF ReadInv, Someplace

LEMMA ReadReadPiece ==
    ASSUME Read!ConversionAssumption, ~Late, ReadInv, Read!ReadPiece
    PROVE  ReadInv'
<1>1. /\ phase = "INCR" /\ events # <<>> /\ Head(events).kind = "new" /\ events' = Tail(events)
      /\ UNCHANGED held
    BY DEF Read!ReadPiece
<1>2. ReadTypes /\ Someplace /\ events \in Seq(Happenings)
    BY DEF ReadInv, ReadTypes
<1>3. /\ Head(events) = events[1] /\ 1 \in DOMAIN events /\ Tail(events) \in Seq(Happenings)
      /\ Lacks(events, "answer") => Lacks(Tail(events), "answer")
      /\ OneNew(events) => Lacks(Tail(events), "new")
    BY <1>1, <1>2, EventsTail
<1>4. PICK a \in Apps, n \in Nat, size \in Nat \ {0} : \E k \in 0 .. size :
          IsWanted(a, n, size, k) \/ IsThere(a, n, size, k)
    BY <1>1, <1>2, PlacesAre
<1>5. PICK k \in 0 .. size : IsWanted(a, n, size, k) \/ IsThere(a, n, size, k)
    BY <1>4
<1>6. IsThere(a, n, size, k)
    <2>1. ~Lacks(events, "new")
        BY <1>1, <1>3 DEF Lacks
    <2> QED
        BY <1>5, <2>1 DEF IsWanted
<1> DEFINE more == AfterPiece(n, size, k)
<1>7. /\ out = FirstPieces(n, k) /\ (Fresh => OfNewest(n, size)) /\ Idle(asked)
      /\ prop = [type |-> "data", data |-> NextPiece(n, size, k)]
      /\ Only(feeding, a, more)
      /\ Lacks(events', "answer") /\ Lacks(events', "new")
    BY <1>1, <1>3, <1>6 DEF IsThere, Piecewise
<1> HIDE DEF more
<1>8. prop # None /\ Read!Value = NextPiece(n, size, k)
    <2>1. prop # None
        BY <1>7, PiecesAreValues
    <2> QED
        BY <1>7, <2>1 DEF Read!Value
<1>9. Fresh' => Fresh \/ ~UNCHANGED <<pending, deferred>>
    BY <1>1, <1>2, FreshBefore
<1>10. \/ Len(out) + Len(Read!Value) > Limit /\ Read!GivesUp("large")
       \/ /\ Len(out) + Len(Read!Value) <= Limit
          /\ prop' = None /\ asked' = Read!Deleted
          /\ IF Read!Value = <<>> THEN Read!Ends(Read!Reported(out))
             ELSE out' = out \o Read!Value /\ UNCHANGED <<deferred, pending, phase, told>>
          /\ UNCHANGED <<feeding, gaveUp>>
    BY DEF Read!ReadPiece
<1>11. CASE Read!GivesUp("large")
    <2>1. /\ phase' = "idle" /\ out' = <<>> /\ UNCHANGED <<deferred, pending>> /\ gaveUp' # None
          /\ asked' \in [Apps -> Seq(Mail)] /\ feeding' \in [Apps -> Seq(Seq(Nat \X Nat))]
          /\ Idle(asked') /\ Idle(feeding')
        BY <1>2, <1>11, GivesUpIs
    <2>2. Fresh' => Fresh
        BY <1>9, <2>1
    <2>3. ReadTypes'
        BY <1>1, <1>2, <1>3, <2>1 DEF ReadTypes
    <2>4. AtRest'
        BY <1>7, <2>1 DEF AtRest
    <2> QED
        BY <2>3, <2>4 DEF ReadInv, Someplace
<1>12. CASE /\ Len(out) + Len(Read!Value) <= Limit
            /\ prop' = None /\ asked' = Read!Deleted
            /\ Read!Value = <<>> /\ Read!Ends(Read!Reported(out))
            /\ UNCHANGED <<feeding, gaveUp>>
    <2>1. k = size /\ Len(out) = size /\ out # <<>> /\ out = FirstPieces(n, size)
        <3>1. k = size
            <4>1. NextPiece(n, size, k) = <<>>
                BY <1>8, <1>12
            <4> QED
                BY <4>1, PiecesFit
        <3>2. FirstPieces(n, size) # <<>> /\ Len(FirstPieces(n, k)) = k
            BY PiecesFit
        <3> QED
            BY <1>7, <3>1, <3>2
    <2>2. Idle(feeding)
        <3>1. ~(k < size)
            BY <2>1
        <3>2. more = <<>>
            BY <3>1, Zenon DEF more, AfterPiece
        <3> QED
            BY <1>7, <3>2 DEF Only, Idle
    <2>3. asked' = asked
        BY <1>2, <1>12, <2>2, DeletedIs
    <2>4. /\ phase' = "idle" /\ out' = <<>> /\ told' = FirstPieces(n, size)
          /\ UNCHANGED <<deferred, pending>>
        BY <1>12, <2>1 DEF Read!Ends, Read!Reported
    <2>5. size <= Limit /\ Limit \in Nat
        <3>1. Len(Read!Value) = 0 /\ size + 0 = size /\ Limit \in Nat
            BY <1>12 DEF Read!ConversionAssumption
        <3> QED
            BY <1>12, <2>1, <3>1
    <2>6. ASSUME Fresh' PROVE Right'
        <3>1. held.n = n /\ held.size = size
            BY <1>7, <1>9, <2>4, <2>6 DEF OfNewest
        <3>2. Read!Pieces(held') = FirstPieces(n, size)
            BY <1>1, <3>1, AllPieces
        <3> QED
            BY <1>1, <2>4, <2>5, <3>1, <3>2 DEF Right
    <2>7. AtRest'
        BY <1>7, <1>12, <2>2, <2>3, <2>4, <2>6 DEF AtRest
    <2>8. ReadTypes'
        BY <1>1, <1>2, <1>3, <1>9, <1>12, <2>3, <2>4 DEF ReadTypes
    <2> QED
        BY <2>7, <2>8 DEF ReadInv, Someplace
<1>13. CASE /\ prop' = None /\ asked' = Read!Deleted
            /\ Read!Value # <<>>
            /\ out' = out \o Read!Value /\ UNCHANGED <<deferred, pending, phase, told>>
            /\ UNCHANGED <<feeding, gaveUp>>
    <2>1. k # size
        BY <1>8, <1>13, PiecesGoOn
    <2>2. k < size
        BY <2>1
    <2>3. k + 1 \in 0 .. size /\ out' = FirstPieces(n, k + 1)
        <3>1. k + 1 \in 0 .. size
            BY <2>2
        <3>2. FirstPieces(n, k) \o NextPiece(n, size, k) = FirstPieces(n, k + 1)
            BY <2>2, PieceNext
        <3> QED
            BY <1>7, <1>8, <1>13, <3>1, <3>2
    <2>4. more = LaterPieces(n, size, k + 1) /\ more # <<>>
        <3>1. more = LaterPieces(n, size, k + 1)
            BY <2>2, Zenon DEF more, AfterPiece
        <3>2. LaterPieces(n, size, k + 1) # <<>>
            BY <2>3, PiecesFit
        <3> QED
            BY <3>1, <3>2
    <2>5. asked' \in [Apps -> Seq(Mail)] /\ Only(asked', a, <<"deleted">>)
        BY <1>2, <1>7, <1>8, <1>13, <2>4, DeletedIs
    <2>6. Fresh' => OfNewest(n, size)'
        BY <1>1, <1>7, <1>9, <1>13 DEF OfNewest
    <2>7. IsWanted(a, n, size, k + 1)'
        BY <1>1, <1>7, <1>13, <2>3, <2>4, <2>5, <2>6 DEF IsWanted, Piecewise
    <2>8. ReadTypes'
        BY <1>1, <1>2, <1>3, <1>9, <1>13, <2>5 DEF ReadTypes
    <2> QED
        BY <2>3, <2>7, <2>8 DEF ReadInv, Someplace
<1> QED
    BY <1>10, <1>11, <1>12, <1>13

(* An answer is sent, after the notice of a property if it is in one.      *)
HasSent(q, r, t, no) ==
    \/ r = Append(q, Read!Sent(t, no))
    \/ r = q \o <<[kind |-> "new"], Read!Sent(t, no)>>

LEMMA AnswerSent ==
    ASSUME NEW q \in Seq(Happenings), NEW t \in Requests, NEW no \in BOOLEAN, Lacks(q, "answer"), NEW r,
           HasSent(q, r, t, no)
    PROVE  /\ r \in Seq(Happenings) /\ (Lacks(r, "owner") <=> Lacks(q, "owner"))
           /\ \E p \in DOMAIN r : AnswerAt(r, p, t) /\ r[p].refused = no
<1> DEFINE e == Read!Sent(t, no)
           new == [kind |-> "new"]
<1>1. /\ e \in Happenings /\ e.kind = "answer" /\ e.target = t /\ e.refused = no
      /\ new \in Happenings /\ new.kind = "new"
    BY DEF Read!Sent, Happenings
<1> HIDE DEF e, new
<1>2. ASSUME NEW s \in Seq(Happenings), Lacks(s, "answer"), Lacks(s, "owner") <=> Lacks(q, "owner"),
             r = Append(s, e)
      PROVE  /\ r \in Seq(Happenings) /\ (Lacks(r, "owner") <=> Lacks(q, "owner"))
             /\ \E p \in DOMAIN r : AnswerAt(r, p, t) /\ r[p].refused = no
    <2>1. /\ r \in Seq(Happenings)
          /\ \A kind : Lacks(r, kind) <=> Lacks(s, kind) /\ e.kind # kind
          /\ AnswerAt(r, Len(s) + 1, t) /\ r[Len(s) + 1] = e
        BY <1>1, <1>2, EventsMore
    <2>2. Len(s) + 1 \in DOMAIN r
        BY <2>1 DEF AnswerAt
    <2> QED
        BY <1>1, <1>2, <2>1, <2>2
<1>3. CASE r = Append(q, e)
    BY <1>2, <1>3
<1>4. CASE r = q \o <<new, e>>
    <2> DEFINE s == Append(q, new)
    <2>1. /\ s \in Seq(Happenings) /\ \A kind : Lacks(s, kind) <=> Lacks(q, kind) /\ new.kind # kind
        BY <1>1, EventsMore
    <2>2. r = Append(s, e)
        <3>1. q \o <<new, e>> = Append(Append(q, new), e)
            BY <1>1
        <3> QED
            BY <1>4, <3>1
    <2> HIDE DEF s
    <2> QED
        BY <1>1, <1>2, <2>1, <2>2
<1> QED
    BY <1>3, <1>4 DEF e, new, HasSent

LEMMA ServeAsked ==
    ASSUME Read!ConversionAssumption, ReadInv, NEW a \in Apps, Read!Serve(a), IsAsked(a)
    PROVE  ReadInv'
<1>1. ReadTypes /\ phase \in Requests /\ asked \in [Apps -> Seq(Mail)] /\ events \in Seq(Happenings)
    BY DEF ReadInv, ReadTypes, IsAsked
<1>2. /\ asked[a] = <<phase>> /\ Only(asked, a, <<phase>>) /\ Idle(feeding) /\ Lacks(events, "answer")
      /\ prop = None /\ out = <<>>
      /\ Fresh => a = held.app /\ (phase = "text" => held.size > 0)
    BY DEF IsAsked, Only
<1>3. Head(asked[a]) = phase /\ Tail(asked[a]) = <<>> /\ phase # "deleted"
    BY <1>1, <1>2 DEF Requests
<1>4. asked' \in [Apps -> Seq(Mail)] /\ Idle(asked')
    <2>1. asked' = [asked EXCEPT ![a] = <<>>]
        BY <1>3 DEF Read!Serve
    <2>2. <<>> \in Seq(Mail)
        OBVIOUS
    <2> QED
        BY <1>1, <1>2, <2>1, <2>2, OnlyChanges
<1>5. UNCHANGED <<held, deferred, pending, phase, out, told, gaveUp>>
    BY DEF Read!Serve, Read!watch
<1>6. \/ /\ held.app # a \/ (phase = "text" /\ held.size = 0)
         /\ Read!Refuses(phase) /\ UNCHANGED feeding
      \/ /\ phase = "TARGETS" /\ held.app = a
         /\ Read!Puts("data", IF held.size = 0 THEN <<"files">> ELSE <<"text">>)
         /\ Read!Answers(phase) /\ UNCHANGED feeding
      \/ /\ phase = "text" /\ held.app = a /\ held.size > 0 /\ held.way = "whole"
         /\ Read!Puts("data", Read!Pieces(held))
         /\ Read!Answers(phase) /\ UNCHANGED feeding
      \/ /\ phase = "text" /\ held.app = a /\ held.size > 0 /\ held.way = "pieces"
         /\ Read!Puts("INCR", <<>>)
         /\ feeding' = [feeding EXCEPT ![a] =
                           Append([i \in 1 .. held.size |-> <<Read!Pieces(held)[i]>>], <<>>)]
         /\ Read!Answers(phase)
    BY <1>3 DEF Read!Serve
<1> DEFINE Sends(no) == HasSent(events, events', phase, no)
<1>7. ASSUME NEW no \in BOOLEAN, Sends(no)
      PROVE  /\ events' \in Seq(Happenings) /\ (Fresh' <=> Fresh)
             /\ \E p \in DOMAIN events' : AnswerAt(events', p, phase) /\ events'[p].refused = no
    <2>1. /\ events' \in Seq(Happenings) /\ (Lacks(events', "owner") <=> Lacks(events, "owner"))
          /\ \E p \in DOMAIN events' : AnswerAt(events', p, phase) /\ events'[p].refused = no
        <3>1. HasSent(events, events', phase, no)
            BY <1>7
        <3>2. phase \in Requests /\ events \in Seq(Happenings) /\ Lacks(events, "answer")
            BY <1>1, <1>2
        <3> QED
            BY <3>1, <3>2, AnswerSent
    <2> QED
        BY <1>5, <2>1 DEF Fresh
<1>8. ASSUME NEW no \in BOOLEAN, Sends(no), feeding' \in [Apps -> Seq(Seq(Nat \X Nat))],
             no => Idle(feeding') /\ ~Fresh,
             ~no /\ phase = "TARGETS" => HoldsFormats',
             ~no /\ phase = "text" => \E n \in Nat, size \in Nat \ {0} : HoldsText(n, size)'
      PROVE  ReadInv'
    <2>1. PICK p \in DOMAIN events' : AnswerAt(events', p, phase) /\ events'[p].refused = no
        BY <1>7, <1>8
    <2>2. events' \in Seq(Happenings) /\ (Fresh' <=> Fresh)
        BY <1>7, <1>8
    <2>3. ReadTypes'
        BY <1>1, <1>4, <1>5, <1>8, <2>2 DEF ReadTypes
    <2> HIDE DEF Sends
    <2>4. IsAnswered(p)'
        BY <1>1, <1>2, <1>4, <1>5, <1>8, <2>1, <2>2 DEF IsAnswered
    <2> QED
        BY <2>3, <2>4 DEF ReadInv, Someplace
<1>9. held.n \in Nat /\ held.size \in Nat /\ feeding \in [Apps -> Seq(Seq(Nat \X Nat))]
    BY <1>1 DEF ReadTypes
<1>10. CASE /\ held.app # a \/ (phase = "text" /\ held.size = 0)
            /\ Read!Refuses(phase) /\ UNCHANGED feeding
    <2>1. Sends(TRUE)
        BY <1>10 DEF Read!Refuses, HasSent
    <2>2. ~Fresh
        BY <1>2, <1>10
    <2> HIDE DEF Sends
    <2> QED
        BY <1>2, <1>8, <1>9, <1>10, <2>1, <2>2
<1>11. CASE /\ phase = "TARGETS" /\ held.app = a
            /\ Read!Puts("data", IF held.size = 0 THEN <<"files">> ELSE <<"text">>)
            /\ Read!Answers(phase) /\ UNCHANGED feeding
    <2>1. Sends(FALSE)
        BY <1>11 DEF Read!Answers, HasSent
    <2>2. HoldsFormats'
        <3> DEFINE what == IF held.size = 0 THEN "files" ELSE "text"
        <3>1. what \in {"text", "files"} /\ prop' = [type |-> "data", data |-> <<what>>]
            BY <1>11 DEF Read!Puts
        <3>2. what = "text" <=> held'.size > 0
            BY <1>5, <1>9
        <3> HIDE DEF what
        <3> QED
            BY <1>2, <1>11, <3>1, <3>2 DEF HoldsFormats
    <2> HIDE DEF Sends
    <2> QED
        BY <1>8, <1>9, <1>11, <2>1, <2>2
<1>12. CASE /\ phase = "text" /\ held.app = a /\ held.size > 0 /\ held.way = "whole"
            /\ Read!Puts("data", Read!Pieces(held))
            /\ Read!Answers(phase) /\ UNCHANGED feeding
    <2>1. Sends(FALSE)
        BY <1>12 DEF Read!Answers, HasSent
    <2>2. held.size \in Nat \ {0}
        BY <1>9, <1>12
    <2>3. prop' = [type |-> "data", data |-> FirstPieces(held.n, held.size)]
        BY <1>9, <1>12, <2>2, AllPieces DEF Read!Puts
    <2>4. \E n \in Nat, size \in Nat \ {0} : HoldsText(n, size)'
        <3>1. OfNewest(held.n, held.size)
            BY DEF OfNewest
        <3> QED
            BY <1>2, <1>5, <1>9, <1>12, <2>2, <2>3, <3>1 DEF HoldsText, OfNewest
    <2> HIDE DEF Sends
    <2> QED
        BY <1>8, <1>9, <1>12, <2>1, <2>4
<1>13. CASE /\ phase = "text" /\ held.app = a /\ held.size > 0 /\ held.way = "pieces"
            /\ Read!Puts("INCR", <<>>)
            /\ feeding' = [feeding EXCEPT ![a] =
                              Append([i \in 1 .. held.size |-> <<Read!Pieces(held)[i]>>], <<>>)]
            /\ Read!Answers(phase)
    <2>1. Sends(FALSE)
        BY <1>13 DEF Read!Answers, HasSent
    <2>2. held.size \in Nat \ {0} /\ 0 \in 0 .. held.size
        BY <1>9, <1>13
    <2>3. feeding' = [feeding EXCEPT ![a] = LaterPieces(held.n, held.size, 0)]
        BY <1>9, <1>13, <2>2, AllPieces
    <2>4. LaterPieces(held.n, held.size, 0) \in Seq(Seq(Nat \X Nat))
        BY <1>9, <2>2, PiecesGoOn
    <2>5. /\ feeding' \in [Apps -> Seq(Seq(Nat \X Nat))]
          /\ Only(feeding', a, LaterPieces(held.n, held.size, 0))
        BY <1>2, <1>9, <2>3, <2>4, OnlyIs
    <2>6. \E n \in Nat, size \in Nat \ {0} : HoldsText(n, size)'
        <3>1. OfNewest(held.n, held.size)
            BY DEF OfNewest
        <3>2. prop' = [type |-> "INCR", data |-> <<>>]
            BY <1>13 DEF Read!Puts
        <3> QED
            BY <1>5, <1>9, <2>2, <2>5, <3>1, <3>2 DEF HoldsText, OfNewest
    <2> HIDE DEF Sends
    <2> QED
        BY <1>8, <1>13, <2>1, <2>5, <2>6
<1> QED
    BY <1>6, <1>10, <1>11, <1>12, <1>13

LEMMA ServeWanted ==
    ASSUME Read!ConversionAssumption, ReadInv, NEW a \in Apps, Read!Serve(a),
           NEW n \in Nat, NEW size \in Nat \ {0}, NEW k \in 0 .. size, IsWanted(a, n, size, k)
    PROVE  ReadInv'
<1>1. /\ ReadTypes /\ asked \in [Apps -> Seq(Mail)] /\ feeding \in [Apps -> Seq(Seq(Nat \X Nat))]
      /\ events \in Seq(Happenings)
    BY DEF ReadInv, ReadTypes
<1> DEFINE l == LaterPieces(n, size, k)
           e == [kind |-> "new"]
<1>2. /\ phase = "INCR" /\ Lacks(events, "answer") /\ Lacks(events, "new") /\ out = FirstPieces(n, k)
      /\ Fresh => OfNewest(n, size)
      /\ Only(asked, a, <<"deleted">>) /\ Only(feeding, a, l)
    BY DEF IsWanted, Piecewise
<1>3. asked[a] = <<"deleted">> /\ feeding[a] = l
    BY <1>2 DEF Only
<1>4. l # <<>>
    BY PiecesFit
<1>5. Head(l) = NextPiece(n, size, k)
    BY PiecesGoOn
<1>6. Tail(l) = AfterPiece(n, size, k)
    BY PiecesGoOn
<1>6a. l \in Seq(Seq(Nat \X Nat))
    BY PiecesGoOn
<1> HIDE DEF l
<1>7. Head(asked[a]) = "deleted" /\ Tail(asked[a]) = <<>> /\ "deleted" \notin {"TARGETS", "text"}
    BY <1>3
<1>8. /\ UNCHANGED <<held, deferred, pending, phase, out, told, gaveUp>>
      /\ asked' = [asked EXCEPT ![a] = <<>>]
      /\ feeding' = [feeding EXCEPT ![a] = Tail(l)]
      /\ prop' = [type |-> "data", data |-> Head(l)]
      /\ events' = Append(events, e)
    <2>1. /\ asked' = [asked EXCEPT ![a] = Tail(@)]
          /\ UNCHANGED <<held, deferred, pending, phase, out, told, gaveUp>>
        BY DEF Read!Serve, Read!watch
    <2>2. /\ Read!Puts("data", Head(feeding[a]))
          /\ feeding' = [feeding EXCEPT ![a] = Tail(@)]
          /\ events' = Append(events, e)
        BY <1>3, <1>4, <1>7 DEF Read!Serve
    <2>3. asked' = [asked EXCEPT ![a] = Tail(asked[a])] /\ feeding' = [feeding EXCEPT ![a] = Tail(feeding[a])]
        BY <2>1, <2>2
    <2> QED
        BY <1>3, <1>7, <2>1, <2>2, <2>3 DEF Read!Puts
<1>9. asked' \in [Apps -> Seq(Mail)] /\ Idle(asked')
    <2>1. <<>> \in Seq(Mail)
        OBVIOUS
    <2> QED
        BY <1>1, <1>2, <1>8, <2>1, OnlyChanges
<1>10. feeding' \in [Apps -> Seq(Seq(Nat \X Nat))] /\ Only(feeding', a, Tail(l))
    <2>1. Tail(l) \in Seq(Seq(Nat \X Nat))
        BY <1>4, <1>6a
    <2> QED
        BY <1>1, <1>2, <1>8, <2>1, OnlyChanges
<1>11. e \in Happenings /\ e.kind = "new"
    BY DEF Happenings
<1> HIDE DEF e
<1>12. events' \in Seq(Happenings) /\ Lacks(events', "answer") /\ (Fresh' <=> Fresh)
    <2>1. /\ events' \in Seq(Happenings)
          /\ \A kind : Lacks(events', kind) <=> Lacks(events, kind) /\ e.kind # kind
        BY <1>1, <1>8, <1>11, EventsMore
    <2> QED
        BY <1>2, <1>8, <1>11, <2>1 DEF Fresh
<1>13. OneNew(events')
    BY <1>1, <1>2, <1>8, <1>11, EventsMore
<1>14. Fresh' => OfNewest(n, size)'
    BY <1>2, <1>8, <1>12 DEF OfNewest
<1>15. IsThere(a, n, size, k)'
    <2>1. Piecewise(n, size, k)'
        BY <1>2, <1>8, <1>12, <1>14 DEF Piecewise
    <2> QED
        BY <1>5, <1>6, <1>8, <1>9, <1>10, <1>13, <2>1 DEF IsThere
<1>16. ReadTypes'
    BY <1>1, <1>8, <1>9, <1>10, <1>12 DEF ReadTypes
<1> QED
    BY <1>15, <1>16 DEF ReadInv, Someplace

LEMMA ReadServe ==
    ASSUME Read!ConversionAssumption, ReadInv, NEW a \in Apps, Read!Serve(a)
    PROVE  ReadInv'
<1>1. asked[a] # <<>> /\ Someplace
    BY DEF Read!Serve, ReadInv
<1>2. \A b \in Apps : \A s : Only(asked, b, s) => b = a
    BY <1>1 DEF Only
<1>3. ~Idle(asked)
    BY <1>1 DEF Idle
<1>4. CASE \E b \in Apps : IsAsked(b)
    <2>1. IsAsked(a)
        BY <1>2, <1>4 DEF IsAsked
    <2> QED
        BY <2>1, ServeAsked
<1>5. CASE \E b \in Apps, n \in Nat, size \in Nat \ {0} : \E k \in 0 .. size : IsWanted(b, n, size, k)
    <2>1. PICK b \in Apps, n \in Nat, size \in Nat \ {0} : \E k \in 0 .. size : IsWanted(b, n, size, k)
        BY <1>5
    <2>2. PICK k \in 0 .. size : IsWanted(b, n, size, k)
        BY <2>1
    <2>3. IsWanted(a, n, size, k)
        BY <1>2, <2>2 DEF IsWanted
    <2> QED
        BY <2>3, ServeWanted
<1> QED
    BY <1>1, <1>3, <1>4, <1>5 DEF Someplace, AtRest, IsAnswered, IsThere

LEMMA ReadInit ==
    ASSUME Read!ConversionAssumption, Read!Init
    PROVE  ReadInv
<1>1. <<>> \in Seq(Mail) /\ <<>> \in Seq(Seq(Nat \X Nat)) /\ <<>> \in Seq(Happenings)
    OBVIOUS
<1>2. ReadTypes
    <2>1. Fresh /\ phase = "idle"
        BY DEF Read!Init, Fresh, Lacks
    <2>2. /\ asked \in [Apps -> Seq(Mail)] /\ feeding \in [Apps -> Seq(Seq(Nat \X Nat))]
          /\ events \in Seq(Happenings) /\ deferred \in Seq(Happenings)
        BY <1>1 DEF Read!Init
    <2>3. held.n \in Nat /\ held.size \in Nat /\ pending \in BOOLEAN
        BY DEF Read!Init
    <2> QED
        BY <2>1, <2>2, <2>3 DEF ReadTypes
<1>3. AtRest
    BY DEF Read!Init, Read!ConversionAssumption, AtRest, Idle, Lacks, Right
<1> QED
    BY <1>2, <1>3 DEF ReadInv, Someplace

LEMMA ReadStep ==
    ASSUME Read!ConversionAssumption, ~Late, ReadInv, [Read!Next]_(Read!vars)
    PROVE  ReadInv'
<1>1. CASE UNCHANGED Read!vars
    <2>1. UNCHANGED <<held, asked, feeding, prop, events, deferred, pending, phase, out, told, gaveUp>>
        BY <1>1 DEF Read!vars
    <2>2. ReadTypes' /\ (Fresh' <=> Fresh)
        BY <2>1 DEF ReadInv, ReadTypes, Fresh
    <2>3. \A p \in DOMAIN events : AnswerAt(events, p, phase) =>
              \E r \in DOMAIN events' : AnswerAt(events', r, phase) /\ events'[r] = events[p]
        BY <2>1
    <2>4. Someplace'
        BY <2>1, <2>2, <2>3, StillThere DEF ReadInv
    <2> QED
        BY <2>2, <2>4 DEF ReadInv
<1>2. CASE Read!NextEvent
    BY <1>2, ReadNextEvent
<1>3. CASE Read!StartRead
    BY <1>3, ReadStartRead
<1>4. CASE Read!Refused
    BY <1>4, ReadRefused
<1>5. CASE Read!ReadTargets
    BY <1>5, ReadReadTargets
<1>6. CASE Read!ReadText
    BY <1>6, ReadReadText
<1>7. CASE Read!StartIncr
    BY <1>7, ReadStartIncr
<1>8. CASE Read!ReadPiece
    BY <1>8, ReadReadPiece
<1>9. CASE Read!Aside
    BY <1>9, ReadAside
<1>10. CASE Read!Timeout
    BY <1>10, ReadTimeout
<1>11. CASE \E a \in Apps : Read!Copy(a) \/ Read!Serve(a)
    BY <1>11, ReadCopy, ReadServe
<1> QED
    BY <1>1, <1>2, <1>3, <1>4, <1>5, <1>6, <1>7, <1>8, <1>9, <1>10, <1>11 DEF Read!Next, Read!Reader

LEMMA ReadReads ==
    ASSUME ReadInv
    PROVE  Read!NewestIsRead
<1>1. SUFFICES ASSUME Read!Quiet, gaveUp = None PROVE Right
    BY DEF Read!NewestIsRead, Right
<1>2. Fresh /\ phase = "idle"
    BY <1>1 DEF Read!Quiet, Fresh, Lacks
<1>3. AtRest
    BY <1>2, PlacesAre DEF ReadInv
<1> QED
    BY <1>1, <1>2, <1>3 DEF AtRest

(* linux_wayland.rs and linux_x11.rs, once their events are gone through:  *)
(* what is reported last is the newest copy, whole, for any number of      *)
(* applications and copies, of any length.  ~Late is what X11 needs: an    *)
(* answer that comes after the reader gave up is taken for the next one.   *)
THEOREM NewestCopyIsRead ==
    ASSUME ~Late
    PROVE  /\ Read!Spec => []Read!NewestIsRead
           /\ Select!Spec => []Select!NewestIsRead
           /\ MCSpec => []NewestIsRead
<1>1. Read!Init => ReadInv
    BY ReadInit, ReadingAssumption
<1>2. ReadInv /\ [Read!Next]_(Read!vars) => ReadInv'
    BY ReadStep, ReadingAssumption
<1>3. ReadInv => Read!NewestIsRead
    BY ReadReads
<1>4. Select!Init => SelectInv
    BY SelectInit, ReadingAssumption
<1>5. SelectInv /\ [Select!Next]_(Select!vars) => SelectInv'
    BY SelectStep, ReadingAssumption
<1>6. SelectInv => Select!NewestIsRead
    BY SelectReads, ReadingAssumption
<1>7. Read!Spec => []Read!NewestIsRead
    BY <1>1, <1>2, <1>3, PTL DEF Read!Spec
<1>8. Select!Spec => []Select!NewestIsRead
    BY <1>4, <1>5, <1>6, PTL DEF Select!Spec
<1>9. MCSpec => []NewestIsRead
    <2> DEFINE Inv == /\ part = "conversion" => ReadInv
                      /\ part = "selection" => SelectInv
    <2>1. MCInit => Inv
        BY <1>1, <1>4, PartStarts
    <2>2. Inv /\ [MCNext]_<<part, vars, both, onX11, onWayland>> => Inv'
        BY <1>2, <1>5, PartGoesOn
    <2>3. Inv => NewestIsRead
        BY <1>3, <1>6 DEF NewestIsRead
    <2> QED
        BY <2>1, <2>2, <2>3, PTL DEF MCSpec
<1> QED
    BY <1>7, <1>8, <1>9

=============================================================================
