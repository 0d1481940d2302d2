------------------------------ MODULE MCDevice ------------------------------
(***************************************************************************)
(* Nine components of a device, each on its own small instance, in one     *)
(* model: `part` says which one runs, and the variables of the one that    *)
(* runs are kept in the slots s1, s2, ...  The components do not interact  *)
(* here; every behaviour is a behaviour of one of them.                    *)
(***************************************************************************)
EXTENDS Naturals, TLC

CONSTANTS
    Senders, MaxImages, MaxPieces, MaxFaults,       \* Images
    Strings, Pictures,                  \* History
    MaxEntries, TextBudget, PictureBudget, Scrap, MaxChanges, MaxKeys,
    MaxLen,                             \* Offers
    Pair, MaxConns, Overlaps,           \* Roster: Pair is its devices
    Devices, Concurrent, MaxCards,      \* Rekey
    MaxAccounts, MaxDrawn, Vanishes, Locked, Zeroed,    \* Secrets
    Urls,                               \* Supervisor
    Base, Cap, RateCap, QuotaCap, Stable, MaxShift,
    Owners, Me, MaxNow,                 \* Replay: Owners is its devices
    MsgIdCapacity, DeviceCapacity, MaxAge, RetainedMaxAge, FutureSkew, MaxSeqJump,
    MaxSeq, MaxFailures, MaxCrashes,
    MaxDials, MaxSent, MaxNews,         \* Handshake
    None

VARIABLES
    part,
    s1, s2, s3, s4, s5, s6, s7, s8, s9, s10, s11, s12, s13, s14, s15, s16, s17,
    s18

slots == <<s1, s2, s3, s4, s5, s6, s7, s8, s9, s10, s11, s12, s13, s14, s15,
          s16, s17, s18>>

(* The slots from the n-th on are not used by a component with fewer. *)
After10 ==
    s11 = None /\ s12 = None /\ s13 = None /\ s14 = None /\ s15 = None /\
    s16 = None /\ s17 = None /\ s18 = None
After11 ==
    s12 = None /\ s13 = None /\ s14 = None /\ s15 = None /\ s16 = None /\
    s17 = None /\ s18 = None
After15 == s16 = None /\ s17 = None /\ s18 = None
After17 == s18 = None

Image == INSTANCE Images WITH
    made <- s3, out <- s1, assembly <- s7, down <- s4, held <- s10,
    last <- s6, shown <- s5, begun <- s8, clean <- s9, faults <- s2
Past == INSTANCE History WITH
    Texts <- Strings,
    running <- s6, mem <- s12, key <- s7, file <- s1, tmp <- s3, job <- s4,
    enabled <- s18, revision <- s8, keep <- s9, account <- s10, moving <- s11,
    drawn <- s5, drawing <- s13, thumbs <- s14, lists <- s15, gone <- s16,
    changes <- s17, faults <- s2
Copied == INSTANCE Offers WITH
    from <- s1, to <- s6, access <- s3, registered <- s4, offer <- s9,
    stage <- s5, event <- s7, concealed <- s8, board <- s2, back <- s10
List == INSTANCE Roster WITH
    Devices <- Pair, owner <- s7, room <- s10, timer <- s12, opened <- s14,
    closed <- s15, conn <- s2, up <- s5, peers <- s6, cards <- s9,
    known <- s8, stored <- s11, heard <- s3, lately <- s13, at <- s4,
    left <- s1
Change == INSTANCE Rekey WITH
    made <- s3, key <- s7, using <- s10, restart <- s11, pending <- s4,
    list <- s14, known <- s8, up <- s5, queue <- s9, out <- s1, inbox <- s6,
    missed <- s12, announced <- s13, faults <- s2, deferred <- s15,
    unsaved <- s16, relisted <- s17
Secret == INSTANCE Secrets WITH
    keychain <- s10, entry <- s2, file <- s1, tmp <- s3, job <- s4,
    used <- s6, current <- s7, doubt <- s8, stray <- s9, drawn <- s5,
    pinned <- s11
Pace == INSTANCE Supervisor WITH
    phase <- s3, configured <- s2, url <- s8, saving <- s4, reconnect <- s5,
    pacing <- s6, upFor <- s7, left <- s1, state <- s9, away <- s10,
    fails <- s11
Guard == INSTANCE Replay WITH
    Devices <- Owners, now <- s9, sealed <- s2, seen <- s1, highest <- s4,
    order <- s5, sink <- s6, saved <- s7, disk <- s8, phase <- s3,
    hand <- s10, asked <- s11, written <- s12, lost <- s13, failures <- s14,
    crashes <- s15
Greet == INSTANCE Handshake WITH
    conn <- s2, relay <- s1, phase <- s3, connId <- s8, limits <- s9,
    peers <- s6, probe <- s7, up <- s5, down <- s4, sends <- s10, news <- s11

ASSUME DeviceAssumption ==
    /\ Guard!ReplayAssumption /\ Pace!SupervisorAssumption
    /\ Secret!SecretsAssumption /\ Change!RekeyAssumption /\ Image!ImagesAssumption
    /\ List!RosterAssumption

MCInit ==
    \/ part = "images" /\ Image!Init /\ After10
    \/ part = "history" /\ Past!Init
    \/ part = "offers" /\ Copied!Init /\ After10
    \/ part = "roster" /\ List!Init /\ After15
    \/ part = "rekey" /\ Change!Init /\ After17
    \/ part = "secrets" /\ Secret!Init /\ After11
    \/ part = "supervisor" /\ Pace!Init /\ After11
    \/ part = "replay" /\ Guard!Init /\ After15
    \/ part = "handshake" /\ Greet!Init /\ After11

MCNext ==
    /\ UNCHANGED part
    /\ \/ part = "images" /\ Image!Next
          /\ UNCHANGED <<s11, s12, s13, s14, s15, s16, s17, s18>>
       \/ part = "history" /\ Past!Next
       \/ part = "offers" /\ Copied!Next
          /\ UNCHANGED <<s11, s12, s13, s14, s15, s16, s17, s18>>
       \/ part = "roster" /\ List!Next /\ UNCHANGED <<s16, s17, s18>>
       \/ part = "rekey" /\ Change!Next /\ UNCHANGED <<s18>>
       \/ part = "secrets" /\ Secret!Next
          /\ UNCHANGED <<s12, s13, s14, s15, s16, s17, s18>>
       \/ part = "supervisor" /\ Pace!Next
          /\ UNCHANGED <<s12, s13, s14, s15, s16, s17, s18>>
       \/ part = "replay" /\ Guard!Next /\ UNCHANGED <<s16, s17, s18>>
       \/ part = "handshake" /\ Greet!Next
          /\ UNCHANGED <<s12, s13, s14, s15, s16, s17, s18>>

MCSpec == MCInit /\ [][MCNext]_<<part, slots>>

(* The devices of a key change are alike.                                  *)
Alike == Permutations(Devices)

-----------------------------------------------------------------------------
(* Each is stated in its component's module, and holds of what the code of *)
(* that component does.                                                    *)

(* Images: whole, in order, and the last one begun (Images.tla).           *)
LastBegunIsShown == part = "images" => Image!LastBegunIsShown

(* History: a start finds a list that was settled, or about to be.         *)
RestartKeepsList == [][part = "history" => Past!RestartKept]_slots

(* Offers: what is written on another platform reads back as it was sent.  *)
ReadsBack == part = "offers" => Copied!ReadsBack

(* Offers: nothing marked to be left alone is read.                        *)
SecretsUnread == part = "offers" => Copied!SecretsUnread

(* Roster: the list of devices is right once things are quiet.             *)
ListIsRight == part = "roster" => List!ListIsRight

(* Rekey: the device that made a key follows those that moved to it.       *)
MakerFollows == part = "rekey" => Change!MakerFollows

(* Rekey: a device left out of a key is sealed no later one.               *)
RemovedStaysOut == part = "rekey" => Change!RemovedStaysOut

(* Secrets: a start uses the keys last stored.                             *)
LoadsLatest == part = "secrets" => Secret!LoadsLatest

(* Secrets: the device key the others pinned is kept.                      *)
DeviceKeyKept == [][part = "secrets" => Secret!PinKept]_slots

(* Supervisor: no attempt comes too soon.                                  *)
NeverTooSoon == [][part = "supervisor" => Pace!InTime]_slots

(* Handshake: what a session holds and sends is about its connection.      *)
AboutThisConnection == part = "handshake" => Greet!AboutThisConnection

(* Replay: a device's clips are written once, in the order it made them.   *)
ClipsInOrder == part = "replay" => Guard!ClipsInOrder
=============================================================================
