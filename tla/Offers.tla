------------------------------- MODULE Offers -------------------------------
(***************************************************************************)
(* What the platform backends take from the formats an application offers, *)
(* and what they offer themselves (asli-clipboard, and normalize.rs of     *)
(* asli-core).  A copy is looked at on one device, sent, written to the    *)
(* clipboard of another and looked at there.                               *)
(*                                                                         *)
(* A text is a short sequence of the characters the code tells apart; an   *)
(* image is named by what becomes of it.                                   *)
(***************************************************************************)
EXTENDS Naturals, Sequences

CONSTANT MaxLen     \* characters of a text

VARIABLES
    from, to,       \* the two devices' platforms
    access,         \* whether macOS lets this application read
    registered,     \* the marks Windows gave an id for, on either device
    offer,          \* what the application offers
    stage,          \* "copied", "seen", "sent", "written", "checked"
    event,          \* what the first device's watcher reports
    concealed,      \* whether it is written with the marks
    board,          \* what the second device's clipboard offers
    back            \* what the second device's watcher reports

vars == <<from, to, access, registered, offer, stage, event, concealed, board, back>>

Linux == {"x11", "wayland"}
Platforms == Linux \cup {"windows", "macos"}

Chars == {"c", "blank", "CR", "LF", "NUL", "BOM"}
Texts == UNION {[1 .. n -> Chars] : n \in 0 .. MaxLen}

(* normalize: one byte order mark, one NUL, and every line end.            *)
StripBom(s) == IF s # <<>> /\ s[1] = "BOM" THEN Tail(s) ELSE s
StripNul(s) == IF s # <<>> /\ s[Len(s)] = "NUL" THEN SubSeq(s, 1, Len(s) - 1) ELSE s
OneLineEnd(s) ==
    LET end(i) == CASE s[i] = "LF" /\ i > 1 /\ s[i - 1] = "CR" -> <<>>
                    [] s[i] = "CR" -> <<"LF">>
                    [] OTHER -> <<s[i]>>
        text[i \in 0 .. Len(s)] == IF i = 0 THEN <<>> ELSE text[i - 1] \o end(i)
    IN  text[Len(s)]
(* A mistake: marks and terminators stay.                                  *)
NormalizeEnds(s) == OneLineEnd(s)
Normalize(s) == OneLineEnd(StripNul(StripBom(s)))

(* to_platform                                                             *)
Crlf(s) ==
    LET end(i) == IF s[i] = "LF" THEN <<"CR", "LF">> ELSE <<s[i]>>
        text[i \in 0 .. Len(s)] == IF i = 0 THEN <<>> ELSE text[i - 1] \o end(i)
    IN  text[Len(s)]

IsSyncable(s) == \E i \in DOMAIN s : s[i] \notin {"blank", "LF", "CR"}
-----------------------------------------------------------------------------
(* The marks that ask to be left alone, and the payload of each.           *)
MarksOf(p) == CASE p \in Linux -> {"hint"}
                [] p = "windows" -> {"exclude", "history", "cloud"}
                [] OTHER -> {"concealed", "transient", "autogenerated"}
Payloads(m) == IF m \in {"history", "cloud"}
               THEN {"absent", "zero", "one", "short", "unreadable"}
               ELSE {"absent", "zero"}
Unmarked(p) == [m \in MarksOf(p) |-> "absent"]
MarkedBy(o) == {m \in DOMAIN o.marks : o.marks[m] # "absent"}

(* is_sensitive of each platform, decided before anything is read.         *)
HintPresent(o) == MarkedBy(o) # {}
Nspasteboard(o) == MarkedBy(o) # {}
(* A mistake: a payload that is too short permits.                         *)
DwordPermitsShort(payload) == payload # "zero"
DwordPermits(payload) == payload \in {"one", "unreadable"}
WindowsExcluded(o) ==
    \E m \in MarkedBy(o) \cap registered : m = "exclude" \/ ~DwordPermits(o.marks[m])

Nothing == [kind |-> "none", what |-> <<>>]
SensitiveEvent == [kind |-> "sensitive", what |-> <<>>]

ReadText(o) == LET t == Normalize(o.text)
               IN  IF IsSyncable(t) THEN [kind |-> "text", what |-> t] ELSE Nothing

(* validate_png; an image is <<name>>, with "padding" after it as Windows  *)
(* may hand it back.                                                       *)
ValidatePng(png) == CASE png[1] = "large" -> [kind |-> "too large", what |-> <<>>]
                      [] png[1] = "not a png" -> Nothing
                      [] OTHER -> [kind |-> "image", what |-> png]
TrimAfterIend(png) == <<png[1]>>
DibToPng(dib) == CASE dib = "large" -> [kind |-> "too large", what |-> <<>>]
                   [] dib = "bad" -> Nothing
                   [] OTHER -> [kind |-> "image", what |-> <<"converted">>]

(* read_offer, read_clipboard of linux_x11.rs, read_clipboard of           *)
(* windows.rs, and poll_once with read_text of macos.rs.  Text wins.       *)
ReadWayland(o) ==
    CASE HintPresent(o) -> SensitiveEvent
      [] ~HintPresent(o) /\ "text" \in o.formats -> ReadText(o)
      [] ~HintPresent(o) /\ o.formats \cap {"text", "png"} = {"png"} -> ValidatePng(o.png)
      [] OTHER -> Nothing

ReadX11(o) == ReadWayland(o)

ReadWindows(o) ==
    CASE WindowsExcluded(o) -> SensitiveEvent
      [] ~WindowsExcluded(o) /\ "text" \in o.formats -> ReadText(o)
      [] ~WindowsExcluded(o) /\ o.formats \cap {"text", "png"} = {"png"}
            -> ValidatePng(TrimAfterIend(o.png))
      [] ~WindowsExcluded(o) /\ o.formats \cap {"text", "png", "dib"} = {"dib"} -> DibToPng(o.dib)
      [] OTHER -> Nothing

ReadMacos(o) ==
    CASE ~access -> Nothing
      [] access /\ Nspasteboard(o) -> SensitiveEvent
      [] access /\ ~Nspasteboard(o) /\ "text" \in o.formats -> ReadText(o)
      [] access /\ ~Nspasteboard(o) /\ o.formats \cap {"text", "png"} = {"png"}
            -> ValidatePng(o.png)
      [] OTHER -> Nothing

Read(p, o) == CASE p = "wayland" -> ReadWayland(o)
                [] p = "x11" -> ReadX11(o)
                [] p = "windows" -> ReadWindows(o)
                [] OTHER -> ReadMacos(o)

(* set_text and set_image of each: the formats offered, the text in the    *)
(* platform's convention, and the marks of a concealed write, which        *)
(* Windows refuses when it cannot mark.                                    *)
Plain(p) == [formats |-> {}, text |-> <<>>, png |-> <<"none">>, dib |-> "none",
             marks |-> Unmarked(p)]
Marked(o) == [o EXCEPT !.marks = [m \in DOMAIN o.marks |-> "zero"]]
OfferText(p, t) == [Plain(p) EXCEPT !.formats = {"text"}, !.text = t]
OfferPng(p, png) == [Plain(p) EXCEPT !.formats = {"png"}, !.png = png]

WriteWayland(e) == IF e.kind = "text" THEN OfferText("wayland", e.what) ELSE OfferPng("wayland", e.what)
WriteX11(e) == IF e.kind = "text" THEN OfferText("x11", e.what) ELSE OfferPng("x11", e.what)
WriteMacos(e) == IF e.kind = "text" THEN OfferText("macos", e.what) ELSE OfferPng("macos", e.what)
WriteWindows(e) ==
    IF e.kind = "text"
    THEN OfferText("windows", Append(Crlf(e.what), "NUL"))
    ELSE [OfferPng("windows", Append(e.what, "padding")) EXCEPT
             !.formats = {"png", "dib"}, !.dib = "ok"]

(* mark_concealed, write_exclusion_markers and the hint of the other two.  *)
MarkWindows(o) == [o EXCEPT !.marks = [m \in DOMAIN o.marks |->
                                            IF m \in registered THEN "zero" ELSE "absent"]]
MarkMacos(o) == [o EXCEPT !.marks["concealed"] = "zero"]

Conceal(p, o) == CASE p = "windows" -> MarkWindows(o)
                   [] p = "macos" -> MarkMacos(o)
                   [] OTHER -> Marked(o)
-----------------------------------------------------------------------------
(* Either any text in the first format, or any mix of formats, marks and   *)
(* images.                                                                 *)
TextCopies(p) == {OfferText(p, t) : t \in Texts}
MixedCopies(p) ==
    [formats : SUBSET {"text", "png", "dib", "files"}, text : {<<"c">>},
     png : {<<"ok">>, <<"large">>, <<"not a png">>}, dib : {"ok", "large", "bad"},
     marks : {f \in [MarksOf(p) -> {"absent", "zero", "one", "short", "unreadable"}] :
                 \A m \in MarksOf(p) : f[m] \in Payloads(m)}]

Init ==
    /\ from \in Platforms
    /\ to = from
    /\ access \in (IF from = "macos" THEN BOOLEAN ELSE {TRUE})
    /\ registered \in {{"exclude", "history", "cloud"}, {"history"}}
    /\ offer \in TextCopies(from) \cup MixedCopies(from)
    /\ stage = "copied"
    /\ event = Nothing /\ concealed = FALSE
    /\ board = Plain(from) /\ back = Nothing

(* The watcher of the first device.                                        *)
Look ==
    /\ stage = "copied" /\ stage' = "seen"
    /\ event' = Read(from, offer)
    /\ UNCHANGED <<from, to, access, registered, offer, concealed, board, back>>

(* Session::observe_local: normalised once more on its way out.            *)
Send ==
    /\ stage = "seen" /\ stage' = "sent"
    /\ event.kind \in {"text", "image"}
    /\ event' = IF event.kind = "text" THEN [event EXCEPT !.what = Normalize(event.what)] ELSE event
    /\ to' \in Platforms
    /\ UNCHANGED <<from, access, registered, offer, concealed, board, back>>

(* apply_write at the other device: a received clip, or, for any text, the *)
(* concealed write of write_text_concealed.                                *)
Write ==
    /\ stage = "sent" /\ stage' = "written"
    /\ concealed' \in (IF event.kind = "text" THEN BOOLEAN ELSE {FALSE})
    /\ concealed' /\ to = "windows" => registered # {}
    /\ board' = LET o == CASE to = "wayland" -> WriteWayland(event)
                           [] to = "x11" -> WriteX11(event)
                           [] to = "windows" -> WriteWindows(event)
                           [] OTHER -> WriteMacos(event)
                IN  IF concealed' THEN Conceal(to, o) ELSE o
    /\ UNCHANGED <<from, to, access, registered, offer, event, back>>

(* The watcher there.                                                      *)
Check ==
    /\ stage = "written" /\ stage' = "checked"
    /\ back' = Read(to, board)
    /\ UNCHANGED <<from, to, access, registered, offer, event, concealed, board>>

Next == Look \/ Send \/ Write \/ Check
Spec == Init /\ [][Next]_vars
-----------------------------------------------------------------------------
(* What a device writes for another reads back as the very content that    *)
(* was sent, whatever the two platforms do to line ends, terminators and   *)
(* padding, so its hash is recognised and the clip does not travel again   *)
(* (normalize, to_platform, trim_after_iend).  A text may come with the    *)
(* one byte order mark and the one terminator platforms add.               *)
AsPlatformsDo(t) == StripNul(StripBom(t)) = StripNul(StripNul(StripBom(StripBom(t))))
ReadsBack ==
    /\ stage = "checked" /\ ~concealed /\ (to = "macos" => access)
    /\ AsPlatformsDo(offer.text)
    => back = event

(* Content somebody asked to be left alone, by any platform's convention,  *)
(* or that this application wrote concealed, is never reported with its    *)
(* content.                                                                *)
SaysNo(o) == \E m \in MarkedBy(o) :
    /\ from = "windows" => m \in registered
    /\ o.marks[m] \in {"zero", "short"}
SecretsUnread ==
    /\ stage = "seen" /\ SaysNo(offer) => event.kind \in {"sensitive", "none"}
    /\ stage = "checked" /\ concealed => back.kind \in {"sensitive", "none"}

-----------------------------------------------------------------------------
(* What is said of the code and not kept by it: TLC refutes each of these  *)
(* (README, "Where the words and the code part").                          *)

(* The same of a mark that is there and whose payload cannot be had        *)
(* (dword_permits: a missing payload "is treated as no permission").       *)
UnreadableMeansNo ==
    /\ stage = "seen"
    /\ \E m \in MarkedBy(offer) \cap registered : offer.marks[m] = "unreadable"
    => event.kind \in {"sensitive", "none"}
=============================================================================
