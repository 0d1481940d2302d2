------------------------------- MODULE MCStart -------------------------------
(***************************************************************************)
(* Joining an account, starting and restarting, and saving the settings,   *)
(* on small instances in one model.  `part` says which one runs; the       *)
(* variables of enrolment and of the launches are kept in the slots s1,    *)
(* s2, ...  They do not interact here.                                     *)
(***************************************************************************)
EXTENDS Settings

CONSTANTS
    Attempts, Near, MaxRequests, MaxClicks, MaxFaults,          \* Enroll
    Launches, Transfers, Rekeys, Together, MaxRestarts          \* Instance

VARIABLES
    part,
    s1, s2, s3, s4, s5, s6, s7, s8

slots == <<s1, s2, s3, s4, s5, s6, s7, s8>>

(* The slots from the n-th on are not used by a component with fewer. *)
After0 ==
    s1 = None /\ s2 = None /\ s3 = None /\ s4 = None /\ s5 = None /\ s6 = None
    /\ s7 = None /\ s8 = None
After6 == s7 = None /\ s8 = None

Join == INSTANCE Enroll WITH
    nearbyOnly <- s1, inv <- s2, join <- s3, talk <- s4, clicks <- s5, faults <- s6
Asli == INSTANCE Instance WITH
    unix <- s1, lock <- s2, launch <- s3, again <- s4, command <- s5, file <- s6,
    read <- s7, restarts <- s8

ASSUME StartAssumption == Join!EnrollAssumption /\ Asli!InstanceAssumption

MCInit ==
    /\ Init
    /\ \/ part = "settings" /\ After0
       \/ part = "enroll" /\ Join!Init /\ After6
       \/ part = "instance" /\ Asli!Init

MCNext ==
    /\ UNCHANGED part
    /\ \/ part = "settings" /\ Next /\ UNCHANGED slots
       \/ part = "enroll" /\ Join!Next /\ UNCHANGED <<vars, s7, s8>>
       \/ part = "instance" /\ Asli!Next /\ UNCHANGED <<vars>>

(* The fairness of each component, while it is the one that runs.  Only    *)
(* one of the two actions under a WF is ever enabled, so it is fairness of *)
(* each; an attempt and a launch of one name share theirs.                 *)
Joins(A) == part = "enroll" /\ A /\ UNCHANGED <<s7, s8>>
Runs(A) == part = "instance" /\ A

JoinEnds(x) == x \in Attempts /\ Join!JoinGivesUp(x)
JoinGoesOn(x) == x \in Attempts /\ (Join!AskerEnds(x) \/ Join!JoinAgain(x))
Starts(x) == x \in Launches /\ Asli!Starting(x)
Ends(x) == x \in Launches /\ s3[x] = "exiting" /\ Asli!Quit(x)

MCFairness ==
    /\ \A x \in Attempts \cup Launches :
           /\ WF_slots(Joins(JoinEnds(x)) \/ Runs(Starts(x)))
           /\ WF_slots(Joins(JoinGoesOn(x)) \/ Runs(Ends(x)))
    /\ WF_slots(Joins(Join!PumpEnds \/ Join!InviteAgain))
    /\ WF_slots(Joins(Join!InviteCloses) \/ Runs(\E c \in Asli!Askers : Asli!Unlock(c)))

MCSpec == MCInit /\ [][MCNext]_<<part, vars, slots>> /\ MCFairness

-----------------------------------------------------------------------------
(* Enroll: the account key reaches the device approved first, or nobody.   *)
OnlyTheApproved == part = "enroll" => Join!OnlyTheApproved

(* Enroll: neither end waits for ever.                                     *)
EveryoneEnds == <>(part = "enroll" => Join!NobodyWaits)

(* Instance: a transfer left for the running Asli is read by it.           *)
NoTransferLost == [][part = "instance" => Asli!TransferKept]_slots

(* Instance: Asli runs again after every restart.                          *)
ComesBack == (part = "instance" /\ Asli!Replacing) ~> (part = "instance" => Asli!UpAgain)
=============================================================================
