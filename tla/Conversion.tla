----------------------------- MODULE Conversion -----------------------------
(***************************************************************************)
(* How the watcher of linux_x11.rs reads the clipboard.  Nothing is stored *)
(* in an X server: the application that owns the selection is asked, first *)
(* which formats it has (TARGETS), then for one of them, and puts each     *)
(* answer into a property of the asker's window, a large one in pieces     *)
(* (INCR), of which each is asked for by deleting the one before.  Copies  *)
(* go on while this happens.                                               *)
(*                                                                         *)
(* The applications and the server are what the code expects of them.  An  *)
(* application handles what it receives in order, and refuses what it is   *)
(* asked for once another one owns the selection.                          *)
(***************************************************************************)
EXTENDS Naturals, Sequences, Functions

CONSTANTS
    Apps,           \* applications that copy
    MaxCopies,      \* bound: copies
    Limit,          \* MAX_TEXT_BYTES, in pieces; copies are up to one piece longer
    Late,           \* whether an answer may come after the reader gave up
    TooLarge,       \* what is reported of a text past the limit
    None

ConversionAssumption ==
    /\ MaxCopies \in Nat /\ Limit \in Nat /\ Late \in BOOLEAN
    /\ None \notin {"late", "large"}
    /\ None \notin [type : {"data", "INCR"}, data : Seq({"text", "files"} \cup Nat \X Nat)]

VARIABLES
    board,      \* the owner of the selection, and its copy
    inbox,      \* what each application has not handled: requests and deletions
    feeding,    \* the pieces each application has not handed over
    prop,       \* the property ASLI_SELECTION, or None
    events,     \* events the server has sent to the watcher
    deferred,   \* X11Clipboard::deferred
    pending,    \* pending_since
    phase,      \* "idle", the target waited for, or "INCR"
    out,        \* the pieces read so far
    told,       \* what was reported last
    gaveUp      \* why the last read ended with an error ("late", "large"), or None

vars == <<board, inbox, feeding, prop, events, deferred, pending, phase, out, told, gaveUp>>
apps == <<board, feeding>>
watch == <<deferred, pending, phase, out, told, gaveUp>>

Pieces(copy) == [i \in 1 .. copy.size |-> <<copy.n, i>>]

Init ==
    /\ board = [app |-> None, n |-> 0, size |-> 0, way |-> "whole"]
    /\ inbox = [a \in Apps |-> <<>>]
    /\ feeding = [a \in Apps |-> <<>>]
    /\ prop = None
    /\ events = <<>> /\ deferred = <<>>
    /\ pending = FALSE
    /\ phase = "idle" /\ out = <<>>
    /\ told = None /\ gaveUp = None
-----------------------------------------------------------------------------
(* Somebody copies: a text of some length, or something without text.      *)
Copy(a) ==
    /\ board.n < MaxCopies
    /\ \E size \in 0 .. Limit + 1, way \in {"whole", "pieces"} :
        board' = [app |-> a, n |-> board.n + 1, size |-> size, way |-> way]
    /\ events' = Append(events, [kind |-> "owner"])
    /\ UNCHANGED <<inbox, feeding, prop, watch>>

Puts(type, data) == prop' = [type |-> type, data |-> data]
Sent(target, refused) == [kind |-> "answer", target |-> target, refused |-> refused]

(* The property is written before the answer is sent.                      *)
Answers(target) == events' = events \o <<[kind |-> "new"], Sent(target, FALSE)>>
Refuses(target) == events' = Append(events, Sent(target, TRUE)) /\ UNCHANGED prop

Serve(a) ==
    /\ inbox[a] # <<>>
    /\ inbox' = [inbox EXCEPT ![a] = Tail(@)]
    /\ LET m == Head(inbox[a]) IN
       \/ /\ m = "deleted" /\ feeding[a] # <<>>
          /\ Puts("data", Head(feeding[a]))
          /\ feeding' = [feeding EXCEPT ![a] = Tail(@)]
          /\ events' = Append(events, [kind |-> "new"])
       \/ m = "deleted" /\ feeding[a] = <<>> /\ UNCHANGED <<feeding, prop, events>>
       \/ /\ m # "deleted"
          /\ board.app # a \/ (m = "text" /\ board.size = 0)
          /\ Refuses(m) /\ UNCHANGED feeding
       \/ /\ m = "TARGETS" /\ board.app = a
          /\ Puts("data", IF board.size = 0 THEN <<"files">> ELSE <<"text">>)
          /\ Answers(m) /\ UNCHANGED feeding
       \/ /\ m = "text" /\ board.app = a /\ board.size > 0 /\ board.way = "whole"
          /\ Puts("data", Pieces(board))
          /\ Answers(m) /\ UNCHANGED feeding
       \/ /\ m = "text" /\ board.app = a /\ board.size > 0 /\ board.way = "pieces"
          /\ Puts("INCR", <<>>)
          /\ feeding' = [feeding EXCEPT ![a] =
                            Append([i \in 1 .. board.size |-> <<Pieces(board)[i]>>], <<>>)]
          /\ Answers(m)
    /\ UNCHANGED <<board, watch>>
-----------------------------------------------------------------------------
(* run: an event, those a read put aside first.                            *)
NextEvent ==
    /\ phase = "idle" /\ deferred \o events # <<>>
    /\ pending' = (pending \/ Head(deferred \o events).kind = "owner")
    /\ IF deferred # <<>> THEN deferred' = Tail(deferred) /\ UNCHANGED events
       ELSE events' = Tail(events) /\ UNCHANGED deferred
    /\ UNCHANGED <<apps, inbox, prop, phase, out, told, gaveUp>>

(* delete_property, and the notice of it to who hands over pieces.         *)
Deleted == [a \in Apps |-> IF prop # None /\ feeding[a] # <<>> THEN Append(inbox[a], "deleted")
                           ELSE inbox[a]]

(* convert_and_read, up to its loop.                                       *)
Convert(target) ==
    /\ prop' = None
    /\ inbox' = [Deleted EXCEPT ![board.app] = Append(@, target)]
    /\ phase' = target

(* read_clipboard, once DEBOUNCE has passed, whatever has come since.      *)
StartRead ==
    /\ phase = "idle" /\ pending
    /\ pending' = FALSE
    /\ Convert("TARGETS")
    /\ gaveUp' = None
    /\ UNCHANGED <<apps, events, deferred, out, told>>

(* read_whole_property                                                     *)
Value == IF prop = None THEN <<>> ELSE prop.data

(* What a read ends with: Ok, or Error::Read.                              *)
Ends(reported) ==
    /\ phase' = "idle" /\ out' = <<>>
    /\ told' = reported
    /\ UNCHANGED <<deferred, pending>>

Reported(data) == IF data = <<>> THEN told ELSE data

GivesUp(why) ==
    /\ Ends(told)
    /\ gaveUp' = why
    /\ inbox' = IF Late THEN inbox ELSE [a \in Apps |-> <<>>]
    /\ feeding' = IF Late THEN feeding ELSE [a \in Apps |-> <<>>]
    /\ UNCHANGED prop

(* The answer to what was asked, refused or in the property.               *)
Waiting == phase \in {"TARGETS", "text"}
Answer == Head(events)
Comes == events # <<>> /\ Answer.kind = "answer" /\ Waiting /\ Answer.target = phase

Refused ==
    /\ Comes /\ Answer.refused
    /\ events' = Tail(events)
    /\ Ends(told)
    /\ UNCHANGED <<apps, inbox, prop, gaveUp>>

(* request_targets, and what read_clipboard makes of it.                   *)
ReadTargets ==
    /\ Comes /\ ~Answer.refused /\ phase = "TARGETS"
    /\ events' = Tail(events)
    /\ IF "text" \in Range(Value) THEN Convert("text") /\ UNCHANGED <<told, out, deferred, pending>>
       ELSE Ends(told) /\ prop' = None /\ inbox' = Deleted
    /\ UNCHANGED <<apps, gaveUp>>

ReadText ==
    /\ Comes /\ ~Answer.refused /\ phase = "text"
    /\ prop = None \/ prop.type # "INCR"
    /\ events' = Tail(events)
    /\ IF Len(Value) > Limit THEN Ends(TooLarge) /\ UNCHANGED <<prop, inbox>>
       ELSE Ends(Reported(Value)) /\ prop' = None /\ inbox' = Deleted
    /\ UNCHANGED <<apps, gaveUp>>

(* read_incr: the first piece is asked for, then one after the other.      *)
StartIncr ==
    /\ Comes /\ ~Answer.refused /\ phase = "text" /\ prop # None /\ prop.type = "INCR"
    /\ events' = Tail(events)
    /\ phase' = "INCR"
    /\ prop' = None /\ inbox' = Deleted
    /\ UNCHANGED <<apps, deferred, pending, out, told, gaveUp>>

ReadPiece ==
    /\ phase = "INCR" /\ events # <<>> /\ Head(events).kind = "new"
    /\ events' = Tail(events)
    /\ \/ /\ Len(out) + Len(Value) > Limit
          /\ GivesUp("large")
       \/ /\ Len(out) + Len(Value) <= Limit
          /\ prop' = None /\ inbox' = Deleted
          /\ IF Value = <<>> THEN Ends(Reported(out))
             ELSE out' = out \o Value /\ UNCHANGED <<deferred, pending, phase, told>>
          /\ UNCHANGED <<feeding, gaveUp>>
    /\ UNCHANGED board

(* What is not waited for: an answer to another request is dropped, but    *)
(* not among the pieces; anything else is kept for run.  A mistake: it is  *)
(* not.                                                                    *)
DeferNothing(event) == UNCHANGED deferred

Defer(event) == deferred' = Append(deferred, event)

Aside ==
    /\ events # <<>> /\ events' = Tail(events)
    /\ \/ Waiting /\ Head(events).kind = "answer" /\ ~Comes /\ UNCHANGED deferred
       \/ Waiting /\ Head(events).kind # "answer" /\ Defer(Head(events))
       \/ phase = "INCR" /\ Head(events).kind # "new" /\ Defer(Head(events))
    /\ UNCHANGED <<apps, inbox, prop, pending, phase, out, told, gaveUp>>

(* CONVERT_TIMEOUT, of an answer or of a piece.                            *)
Timeout ==
    /\ phase # "idle"
    /\ Late \/ \A i \in DOMAIN events : events[i].kind # "answer"
    /\ GivesUp("late")
    /\ UNCHANGED <<board, events>>
-----------------------------------------------------------------------------
Reader ==
    \/ NextEvent \/ StartRead \/ Refused \/ ReadTargets \/ ReadText \/ StartIncr \/ ReadPiece
    \/ Aside \/ Timeout

Next == Reader \/ \E a \in Apps : Copy(a) \/ Serve(a)

Spec == Init /\ [][Next]_vars
-----------------------------------------------------------------------------
(* Once the watcher has gone through its events, what it reported last is  *)
(* the newest copy and the whole of it, however many were made while it    *)
(* was reading an earlier one and however it was handed over, unless the   *)
(* owner did not answer in time (convert_and_read, read_incr, defer).      *)
Quiet == phase = "idle" /\ ~pending /\ events = <<>> /\ deferred = <<>>

NewestIsRead ==
    Quiet /\ gaveUp = None =>
        /\ board.size \in 1 .. Limit => told = Pieces(board)
        /\ board.size > Limit => told = TooLarge

-----------------------------------------------------------------------------
(* What is said of the code and not kept by it: TLC refutes it (README,    *)
(* "Where the words and the code part"), and NewestIsRead when Late holds. *)

(* "Something was copied that is larger than this device reads [...]       *)
(* Reported so the person is told, not left wondering why it never         *)
(* arrived" (ClipContent::TooLarge).                                       *)
LargeIsTold == Quiet /\ gaveUp # "late" /\ board.size > Limit => told = TooLarge
=============================================================================
