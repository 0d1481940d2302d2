------------------------------ MODULE MCGuards ------------------------------
(***************************************************************************)
(* What is let through and what is refused, on small instances in one      *)
(* model: the reservation of sequence numbers, the relay's connection      *)
(* limits and quotas, and the messages of devices as their decoders read   *)
(* them.  `part` says which one runs; the variables of all but the first   *)
(* are kept in the slots s1, s2, ...  They do not interact.                *)
(***************************************************************************)
EXTENDS Sequence

CONSTANTS
    Keys, MaxSockets, MaxConnsGlobal, MaxConnsPerIp, NewConnBurst, Refill, IdleMs,
    RoomIds, RoomBytes, TransferBytes, GlobalBytes, Window, ClipSizes, BulkSizes,
    MaxNow,     \* bound: ticks of the relay's clock, Admission
    MaxDay,     \* and Quotas
    MaxJumps,   \* bound: times the relay's wall clock is set back
    MaxText, MaxField, MaxName, MaxPiece, MaxBlob, MaxAddrs, MaxBoxes,      \* Messages
    PadTo, AnnounceLen, Letters, Numbers,
    None

VARIABLES
    part,
    s1, s2, s3, s4, s5, s6, s7, s8, s9, s10

slots == <<s1, s2, s3, s4, s5, s6, s7, s8, s9, s10>>

(* The slots from the n-th on are not used by a component with fewer. *)
After0 ==
    s1 = None /\ s2 = None /\ s3 = None /\ s4 = None /\ s5 = None /\ s6 = None
    /\ s7 = None /\ s8 = None /\ s9 = None /\ s10 = None
After6 == s7 = None /\ s8 = None /\ s9 = None /\ s10 = None
After9 == s10 = None

Door == INSTANCE Admission WITH
    now <- s1, jumps <- s2, open <- s3, closing <- s4, entries <- s5, ideal <- s6
Day == INSTANCE Quotas WITH
    MaxNow <- MaxDay,
    now <- s1, jumps <- s2, roomQuotas <- s3, roomTransferQuotas <- s4,
    globalTransferQuota <- s5, occupied <- s6, day <- s7, clips <- s8, bulk <- s9
Message == INSTANCE Messages WITH
    kind <- s1, stage <- s2, left <- s3, said <- s4, heard <- s5, body <- s6,
    at <- s7, sig <- s8, envelope <- s9, damage <- s10

MCInit ==
    /\ Init
    /\ \/ part = "sequence" /\ After0
       \/ part = "admission" /\ Door!Init /\ After6
       \/ part = "quotas" /\ Day!Init /\ After9
       \/ part = "messages" /\ Message!Init

MCNext ==
    /\ UNCHANGED part
    /\ \/ part = "sequence" /\ Next /\ UNCHANGED slots
       \/ part = "admission" /\ Door!Next /\ UNCHANGED <<vars, s7, s8, s9, s10>>
       \/ part = "quotas" /\ Day!Next /\ UNCHANGED <<vars, s10>>
       \/ part = "messages" /\ Message!Next /\ UNCHANGED <<vars>>

MCSpec == MCInit /\ [][MCNext]_<<part, vars, slots>>

-----------------------------------------------------------------------------
ASSUME GuardsAssumption ==
    Door!AdmissionAssumption /\ Day!QuotasAssumption /\ Message!MessagesAssumption

(* Admission: a forgotten address gets nothing by it.                      *)
ForgettingMintsNothing == part = "admission" => Door!ForgettingMintsNothing

(* Quotas: no stretch of a day carries more than two allowances of a room. *)
RoomQuotasKept == part = "quotas" => Day!RoomQuotasKept

(* Messages: what an encoder writes is read back, and nothing else is.     *)
HeardIsSaid == part = "messages" => Message!HeardIsSaid
=============================================================================
