------------------------------- MODULE Images -------------------------------
(***************************************************************************)
(* An image crosses the relay in pieces.  Its sender seals it piece by     *)
(* piece (chunk.rs), the relay passes the pieces of one image after the    *)
(* other on each connection (handleChunk in server.ts), and a receiver     *)
(* puts together the pieces of at most one image, whoever sent it          *)
(* (on_chunk in session.rs).                                               *)
(*                                                                         *)
(* A message id is the sender and its sequence number, which stands for    *)
(* the random id drawn per sealing.  One account key and one epoch.        *)
(***************************************************************************)
EXTENDS Naturals, Sequences, FiniteSets, Functions

CONSTANTS
    Senders,        \* devices that copy images
    MaxImages,      \* images they copy in all
    MaxPieces,      \* the largest image a sender accepts (MAX_IMAGE_BYTES), in pieces
    MaxFaults,      \* pieces the relay loses, delays or makes up, and lost connections
    None

Ids == Senders \X Nat
Indices == 0 .. MaxPieces - 1

(* None is neither half an image at the relay nor one at a receiver.       *)
ImagesAssumption ==
    /\ MaxPieces \in Nat
    /\ None \notin [msg : Ids, count : Nat, old : BOOLEAN]
    /\ None \notin [msg : Ids, count : Nat,
                    pieces : UNION {[S -> Ids \X Indices] : S \in SUBSET Indices}]

VARIABLES
    made,       \* number of pieces of every image sealed so far, by message id
    out,        \* per sender, the pieces its connection has not handed over yet
    assembly,   \* per sender, session.assembly at the relay
    down,       \* pieces on their way to the receiver
    held,       \* the receiver's Session::assembly
    last,       \* per sender, the last number the receiver's replay guard accepted
    shown,      \* images the receiver gave to its clipboard, oldest first
    begun,      \* the image whose first piece the relay forwarded last
    clean,      \* nothing was lost, delayed or made up since then
    faults

vars == <<made, out, assembly, down, held, last, shown, begun, clean, faults>>

(* build_chunk_aad: the position a piece is sealed for.  The type code and *)
(* the final flag follow from index and count.                             *)
Aad(msg, idx, count) == <<msg, idx, count>>

(* A frame claims a position and carries a piece sealed for one; `text` is *)
(* what the piece holds.                                                   *)
Frame(msg, idx, count) ==
    [msg |-> msg, idx |-> idx, count |-> count,
     aad |-> Aad(msg, idx, count), text |-> <<msg, idx>>]

Final(f) == f.idx + 1 = f.count

TypeCode(f) == CASE Final(f) -> "clip_end"
                 [] ~Final(f) /\ f.idx = 0 -> "clip_begin"
                 [] OTHER -> "clip_chunk"

(* The pieces the relay has read.                                          *)
Read ==
    {f \in UNION {{Frame(m, i, made[m]) : i \in 0 .. made[m] - 1} : m \in DOMAIN made} :
        \A s \in Senders : f \notin Range(out[s])}

Init ==
    /\ made = << >>
    /\ out = [s \in Senders |-> << >>]
    /\ assembly = [s \in Senders |-> None]
    /\ down = << >>
    /\ held = None
    /\ last = [s \in Senders |-> 0]
    /\ shown = << >>
    /\ begun = None
    /\ clean = TRUE
    /\ faults = 0

(* One image at a time leaves a device: send_local returns once its last   *)
(* piece is written.  One over the limit is refused whole.                 *)
Copy(s) ==
    /\ out[s] = << >>
    /\ Cardinality(DOMAIN made) < MaxImages
    /\ \E n \in 1 .. MaxPieces :
        LET id == <<s, Cardinality({m \in DOMAIN made : m[1] = s}) + 1>> IN
        /\ made' = [m \in DOMAIN made \cup {id} |-> IF m = id THEN n ELSE made[m]]
        /\ out' = [out EXCEPT ![s] = [i \in 1 .. n |-> Frame(id, i - 1, n)]]
    /\ UNCHANGED <<assembly, down, held, last, shown, begun, clean, faults>>

-----------------------------------------------------------------------------
(* The relay.                                                              *)

Fault == /\ faults < MaxFaults
         /\ faults' = faults + 1
         /\ clean' = FALSE

(* An assembly older than CHUNK_ASSEMBLY_TIMEOUT_MS is dropped when the    *)
(* next piece arrives.                                                     *)
Current(s) == IF assembly[s] # None /\ assembly[s].old THEN None ELSE assembly[s]

Starts(s, f) == TypeCode(f) = "clip_begin" \/ Current(s) = None

Assembled(s, f) ==
    IF Starts(s, f) THEN [msg |-> f.msg, count |-> f.count, old |-> FALSE] ELSE Current(s)

(* handleChunk refuses a stream joined in the middle and a piece that does *)
(* not belong to the assembly in progress; the second also ends it.        *)
JoinsMidway(s, f) == Starts(s, f) /\ f.idx # 0

Mismatch(s, f) == LET a == Assembled(s, f) IN a.msg # f.msg \/ a.count # f.count

Forwards(s, f) == ~JoinsMidway(s, f) /\ ~Mismatch(s, f)

HandleChunk(s) ==
    /\ out[s] # << >>
    /\ LET f == Head(out[s]) IN
        /\ assembly' = [assembly EXCEPT ![s] =
              IF JoinsMidway(s, f) THEN Current(s)
              ELSE IF Mismatch(s, f) \/ TypeCode(f) = "clip_end" THEN None
              ELSE Assembled(s, f)]
        /\ down' = IF Forwards(s, f) THEN Append(down, f) ELSE down
        /\ IF Forwards(s, f) /\ f.idx = 0
           THEN begun' = f.msg /\ clean' = TRUE
           ELSE UNCHANGED <<begun, clean>>
    /\ out' = [out EXCEPT ![s] = Tail(@)]
    /\ UNCHANGED <<made, held, last, shown, faults>>

(* Over the connection's rate, before the frame is looked at.              *)
RefuseForRate(s) ==
    /\ out[s] # << >> /\ Fault
    /\ out' = [out EXCEPT ![s] = Tail(@)]
    /\ UNCHANGED <<made, assembly, down, held, last, shown, begun>>

(* chargeBulk refuses a piece that would have been forwarded.              *)
RefuseForQuota(s) ==
    /\ out[s] # << >> /\ Forwards(s, Head(out[s])) /\ Fault
    /\ out' = [out EXCEPT ![s] = Tail(@)]
    /\ assembly' = [assembly EXCEPT ![s] = None]
    /\ UNCHANGED <<made, down, held, last, shown, begun>>

(* Thirty seconds pass between the first piece of an image and the next    *)
(* one the relay reads.                                                    *)
Slow(s) ==
    /\ assembly[s] # None /\ ~assembly[s].old /\ Fault
    /\ assembly' = [assembly EXCEPT ![s].old = TRUE]
    /\ UNCHANGED <<made, out, down, held, last, shown, begun>>

(* A sender's connection is replaced: what it had not sent is gone, and    *)
(* the relay keeps a new session for it.                                   *)
SenderLost(s) ==
    /\ out[s] # << >> /\ Fault
    /\ out' = [out EXCEPT ![s] = << >>]
    /\ assembly' = [assembly EXCEPT ![s] = None]
    /\ UNCHANGED <<made, down, held, last, shown, begun>>

-----------------------------------------------------------------------------
(* The receiver.                                                           *)

(* open_chunk: a piece opens only at the position it was sealed for.       *)
Opens(f) == f.aad = Aad(f.msg, f.idx, f.count)

(* A mistake: the assembly in progress is kept until it is complete.       *)
StartingOverOnlyWhenIdle(f) == held = None

(* A first piece of another message replaces what is being put together;   *)
(* any other piece of another message is ignored.                          *)
StartingOver(f) == held = None \/ held.msg # f.msg

Ignored(f) == StartingOver(f) /\ (f.idx # 0 \/ f.count = 0)

Begun(f) == IF StartingOver(f) THEN [msg |-> f.msg, count |-> f.count, pieces |-> << >>] ELSE held

(* Assembly::accept.                                                       *)
Accepts(a, f) ==
    /\ f.count = a.count
    /\ f.idx < a.count
    /\ f.idx \notin DOMAIN a.pieces
    /\ Cardinality(DOMAIN a.pieces) + 1 <= MaxPieces

WithPiece(a, f) ==
    [a EXCEPT !.pieces = [i \in DOMAIN @ \cup {f.idx} |-> IF i = f.idx THEN f.text ELSE @[i]]]

Complete(a) == Cardinality(DOMAIN a.pieces) = a.count

(* What is inside the pieces names the device and its number: the replay   *)
(* guard takes each number of a device once, upwards.                      *)
Finish(a) ==
    LET from == a.pieces[0][1] IN
    IF from[2] > last[from[1]]
    THEN /\ last' = [last EXCEPT ![from[1]] = from[2]]
         /\ shown' = Append(shown, a.pieces)
    ELSE UNCHANGED <<last, shown>>

OnChunk(f) ==
    IF Ignored(f) THEN UNCHANGED <<held, last, shown>>
    ELSE IF ~Opens(f) \/ ~Accepts(Begun(f), f)
         THEN held' = None /\ UNCHANGED <<last, shown>>
         ELSE LET a == WithPiece(Begun(f), f) IN
              IF Final(f) /\ Complete(a)
              THEN held' = None /\ Finish(a)
              ELSE held' = a /\ UNCHANGED <<last, shown>>

Deliver ==
    /\ down # << >>
    /\ down' = Tail(down)
    /\ OnChunk(Head(down))
    /\ UNCHANGED <<made, out, assembly, begun, clean, faults>>

(* A relay that is not trusted repeats, reorders or relabels what it saw.  *)
MakeUp ==
    /\ Fault
    /\ \E g \in Read, m \in DOMAIN made, i \in Indices, n \in 0 .. MaxPieces :
        OnChunk([g EXCEPT !.msg = m, !.idx = i, !.count = n])
    /\ UNCHANGED <<made, out, assembly, down, begun>>

(* The receiver's connection is replaced; hello_frame drops half an image. *)
HelloFrame ==
    /\ Fault
    /\ down' = << >>
    /\ held' = None
    /\ UNCHANGED <<made, out, assembly, last, shown, begun>>

Next ==
    \/ \E s \in Senders : \/ Copy(s) \/ HandleChunk(s)
                          \/ RefuseForRate(s) \/ RefuseForQuota(s) \/ Slow(s) \/ SenderLost(s)
    \/ Deliver \/ MakeUp \/ HelloFrame

Spec == Init /\ [][Next]_vars

-----------------------------------------------------------------------------
Whole(image) == \E m \in DOMAIN made : image = [i \in 0 .. made[m] - 1 |-> <<m, i>>]
MsgOf(image) == image[0][1]

(* What the receiver shows is an image some device copied, every piece of  *)
(* it in its place, whatever the relay does with the pieces (open_chunk    *)
(* and Assembly::accept).                                                  *)
ShownWhole == \A k \in DOMAIN shown : Whole(shown[k])

(* No image is shown twice or after a later one of the same device (the    *)
(* replay guard).                                                          *)
ShownInOrder ==
    \A j, k \in DOMAIN shown :
        j < k /\ MsgOf(shown[j])[1] = MsgOf(shown[k])[1] =>
            MsgOf(shown[j])[2] < MsgOf(shown[k])[2]

(* Both, and of images that overlap the last one begun is shown: neither   *)
(* half an image nor anything else an earlier fault left behind keeps a    *)
(* later image from being shown (starting_over in on_chunk, handleChunk).  *)
LastBegunIsShown ==
    /\ ShownWhole
    /\ ShownInOrder
    /\ /\ begun # None /\ clean /\ down = << >>
       /\ \A s \in Senders : out[s] = << >>
       => \E k \in DOMAIN shown : MsgOf(shown[k]) = begun

-----------------------------------------------------------------------------
(* What is said of the code and not kept by it: TLC refutes each of these  *)
(* (README, "Where the words and the code part").                          *)

(* An image's first piece that the relay reads starts its assembly: only a *)
(* sender that interleaves two images is refused (handleChunk).            *)
ImageStartsFresh ==
    [][\A s \in Senders :
        /\ out[s] # << >> /\ out'[s] = Tail(out[s]) /\ faults' = faults
        /\ Head(out[s]).idx = 0
        => begun' = Head(out[s]).msg]_vars
=============================================================================
