----------------------------- MODULE MCClipboard -----------------------------
(***************************************************************************)
(* A device's clipboard and what its watcher reads of it on Linux, on      *)
(* small instances in one model.  `part` says which one runs: the bridge   *)
(* (Clipboard), which takes what was copied as a value, or how X11's or    *)
(* Wayland's backend comes by that value (Conversion, Selection).  They do *)
(* not interact here.                                                      *)
(***************************************************************************)
EXTENDS Clipboard

CONSTANTS
    Apps, MaxCopies, Limit, Late, TooLarge,     \* Conversion
    MaxShown,                                   \* Selection, which shares MaxCopies
    None

VARIABLES
    part,
    held, pending, told, gaveUp,                            \* both of them
    asked, feeding, prop, events, deferred, phase, out,     \* Conversion
    shown, live, wire, offers, begun, pipe, first           \* Selection

both == <<held, pending, told, gaveUp>>
onX11 == <<asked, feeding, prop, events, deferred, phase, out>>
onWayland == <<shown, live, wire, offers, begun, pipe, first>>

Read == INSTANCE Conversion WITH board <- held, inbox <- asked
Select == INSTANCE Selection WITH board <- held, seen <- begun, reading <- pipe

ASSUME ReadingAssumption == Read!ConversionAssumption /\ Select!SelectionAssumption

(* The variables of a component that does not run.                         *)
NoneHeld == held = None /\ pending = None /\ told = None /\ gaveUp = None
NoX11 ==
    asked = None /\ feeding = None /\ prop = None /\ events = None /\ deferred = None
    /\ phase = None /\ out = None
NoWayland ==
    shown = None /\ live = None /\ wire = None /\ offers = None /\ begun = None
    /\ pipe = None /\ first = None

MCInit ==
    /\ Init
    /\ \/ part = "bridge" /\ NoneHeld /\ NoX11 /\ NoWayland
       \/ part = "conversion" /\ platform = "x11" /\ Read!Init /\ NoWayland
       \/ part = "selection" /\ platform = "wayland" /\ Select!Init /\ NoX11

MCNext ==
    /\ UNCHANGED part
    /\ \/ part = "bridge" /\ Next /\ UNCHANGED <<both, onX11, onWayland>>
       \/ part = "conversion" /\ Read!Next /\ UNCHANGED <<vars, onWayland>>
       \/ part = "selection" /\ Select!Next /\ UNCHANGED <<vars, onX11>>

(* While another part runs the bridge has nothing to do, so its fairness   *)
(* asks nothing of that part.                                              *)
MCSpec == MCInit /\ [][MCNext]_<<part, vars, both, onX11, onWayland>> /\ Fairness

-----------------------------------------------------------------------------
(* Conversion and Selection: once all is read, the newest copy was, and    *)
(* whole, on X11 and on Wayland.                                           *)
NewestIsRead ==
    /\ part = "conversion" => Read!NewestIsRead
    /\ part = "selection" => Select!NewestIsRead
=============================================================================
