------------------------------ MODULE Register ------------------------------
(***************************************************************************)
(* What a file written whole promises its readers: it holds a value        *)
(* somebody saved, passes from one to the next in one step, and a save     *)
(* that does not get that far leaves no trace in it.                       *)
(***************************************************************************)
CONSTANT First      \* the value at the start
VARIABLES value, offered

Init == value = First /\ offered = {}

Commit == value' \in offered /\ offered' \subseteq offered

(* Saves are begun, and given up, without the value changing.              *)
Offer == UNCHANGED value

Next == Commit \/ Offer

Spec == Init /\ [][Next]_<<value, offered>>
=============================================================================
