------------------------------ MODULE Messages ------------------------------
(***************************************************************************)
(* What devices say to one another, as bytes: for every message the fields *)
(* its encoder writes and the fields its decoder reads (asli-crypto), the  *)
(* frame and the seal it travels in, and what refuses it.                  *)
(*                                                                         *)
(* Encoders and decoders are separate functions in the code, and are       *)
(* separate here: Written and Follows are the encoders, Expected and       *)
(* Continues the decoders.  They share the kinds of field there are.       *)
(*                                                                         *)
(* A value is its bytes.  The fixed fields have widths of their own, no    *)
(* two alike, but fewer bytes than in the code.  A signature covers a      *)
(* label, the room and every byte before it, and a seal is opened only     *)
(* with what it was made with: both are records of what they bind.         *)
(***************************************************************************)
EXTENDS Naturals, Sequences

CONSTANTS
    MaxText,        \* MAX_TEXT_BYTES
    MaxField,       \* MAX_FIELD_BYTES, of an announcement
    MaxName,        \* MAX_NAME_BYTES, of a file
    MaxPiece,       \* CHUNK_BYTES
    MaxBlob,        \* a bound on what has none
    MaxAddrs,       \* MAX_WHERE_ADDRS and MAX_DIRECT_ADDRS
    MaxBoxes,       \* MAX_RECIPIENTS
    PadTo,          \* what a frame is padded to a multiple of
    AnnounceLen,    \* PLAINTEXT_LEN, of an announcement
    Letters,        \* the bytes of a text
    Numbers,        \* the last bytes of an id, a key, a number
    None

VARIABLES
    kind,       \* the message
    stage,      \* "write", "sealed", "read", "accepted" or "refused"
    left,       \* fields still to be written, or read
    said,       \* the fields written, with their values
    heard,      \* the fields read, with their values
    body,       \* the bytes
    at,         \* Reader.at
    sig,        \* the signature, None in a message that carries none
    envelope,   \* the sealed frame and the header beside it
    damage      \* what is wrong with the message that was sealed

vars == <<kind, stage, left, said, heard, body, at, sig, envelope, damage>>

-----------------------------------------------------------------------------
(* The kinds of field, each with the field's name in the code.             *)
Field(name, as) == [name |-> name, as |-> as]

Version      == Field("version", "version")
Id(name)     == Field(name, "id")
Key(name)    == Field(name, "key")
Flag(name)   == Field(name, "flag")
U32(name)    == Field(name, "u32")
U64(name)    == Field(name, "u64")
Text(name)   == Field(name, "text")
Blob(name)   == Field(name, "blob")
Label(name)  == Field(name, "label")

(* How many bytes the fields of a fixed length have: a field's type says   *)
(* so, for the encoder and the decoder alike.                              *)
Width ==
    [version |-> 1, flag |-> 1, state |-> 1, content |-> 1, length |-> 1, addrs |-> 1,
     direct |-> 1, boxes |-> 1, u32 |-> 3, pieces |-> 3, u64 |-> 4, id |-> 5, key |-> 6,
     meeting |-> 7, print |-> 8]

(* A number as w bytes, the least significant last.                        *)
Big(w, n) == [i \in 1 .. w |-> IF i = w THEN n ELSE 0]

(* The fields fs, n times over.                                            *)
Times(fs, n) == [i \in 1 .. n * Len(fs) |-> fs[1 + ((i - 1) % Len(fs))]]

-----------------------------------------------------------------------------
(* What the encoders write, field by field.                                *)
Card ==
    <<Version, Id("device_id"), Key("sign_pub"), Key("box_pub"), U64("ts_ms"), Text("conn_id"),
      Text("name"), Text("os")>>
JoinRequest ==
    <<Version, Id("request_id"), Id("device_id"), Key("sign_pub"), Key("box_pub"), U64("ts_ms"),
      Text("name"), Text("os")>>
JoinGrant == <<Version, Id("request_id"), Key("sign_pub"), Key("approver"), Blob("sealed")>>
JoinDecline == <<Version, Id("request_id"), Key("approver")>>
JoinWhere == <<Version, Field("addrs", "addrs")>>
Rekey == <<Version, Id("from_device_id"), U64("ts_ms"), Field("recipients", "boxes")>>
About ==
    <<Version, Id("from_device_id"), Flag("ask"), Text("reply_to"), U32("build"),
      Text("version")>>
Leave == <<Version, Id("from_device_id"), U64("ts_ms")>>
FileOffer ==
    <<Version, Id("offer_id"), Id("from_device_id"), Id("to_device_id"), U64("size"),
      Key("sha256"), Field("chunk_bytes", "pieces"), U64("ts_ms"), Text("reply_to"),
      Field("name", "name"), Field("direct", "direct")>>
FileAnswer ==
    <<Version, Id("offer_id"), Id("from_device_id"), Flag("accepted"), Text("reply_to")>>
FileChunk == <<Version, Id("offer_id"), U32("index"), Field("data", "piece")>>
FileAck == <<Version, Id("offer_id"), U32("received"), Field("state", "state")>>
FileCancel == <<Version, Id("offer_id")>>
Clip ==
    <<Version, Field("content_type", "content"), Field("device_id_len", "length"),
      Id("device_id"), U64("seq"), U64("ts_ms"), Blob("content")>>
Announce ==
    <<Version, Field("device_id_len", "length"), Id("device_id"), U64("ts_ms"), Label("name"),
      Label("os")>>

(* The join code and the old token, shown as base32 with a checksum.       *)
JoinCode == <<Version, Field("meeting_secret", "meeting"), Field("fingerprint", "print")>>
Token    == <<Version, Key("secret")>>

Written ==
    [Card |-> Card, JoinRequest |-> JoinRequest, JoinGrant |-> JoinGrant,
     JoinDecline |-> JoinDecline, JoinWhere |-> JoinWhere, Rekey |-> Rekey, About |-> About,
     Leave |-> Leave, FileOffer |-> FileOffer, FileAnswer |-> FileAnswer,
     FileChunk |-> FileChunk, FileAck |-> FileAck, FileCancel |-> FileCancel,
     Clip |-> Clip, Announce |-> Announce, JoinCode |-> JoinCode, Token |-> Token]

Kinds == DOMAIN Written

(* What an encoder lets through of what it is given, as bytes.             *)
Strings(n) == UNION {[1 .. m -> Letters] : m \in 0 .. n}

Values(f) ==
    CASE f.as = "version" -> {<<1>>}
      [] f.as = "flag"    -> {<<0>>, <<1>>}
      [] f.as = "state"   -> {<<0>>, <<1>>, <<2>>}
      [] f.as = "content" -> {<<1>>, <<2>>}
      [] f.as = "length"  -> {<<Width.id>>}
      [] f.as = "pieces"  -> {Big(Width.pieces, MaxPiece)}
      [] f.as = "addrs"   -> {<<n>> : n \in 1 .. MaxAddrs}
      [] f.as = "direct"  -> {<<n>> : n \in 0 .. MaxAddrs}
      [] f.as = "boxes"   -> {<<n>> : n \in 0 .. MaxBoxes}
      [] f.as = "text"    -> Strings(MaxText)
      [] f.as = "label"   -> Strings(MaxField)
      [] f.as = "name"    -> Strings(MaxName)
      [] f.as = "piece"   -> Strings(MaxPiece)
      [] f.as = "blob"    -> Strings(MaxBlob)
      [] f.as \in {"u32", "u64", "id", "key", "meeting", "print"} ->
             {Big(Width[f.as], n) : n \in Numbers}

(* The width of the length an encoder puts before a field of any length.   *)
Prefix == [text |-> 1, label |-> 1, name |-> 2, blob |-> 3, piece |-> 3]

Bytes(f, v) == IF f.as \in DOMAIN Prefix THEN Big(Prefix[f.as], Len(v)) \o v ELSE v

(* What an encoder writes after a count.                                   *)
Follows(f, v) ==
    CASE f.as = "addrs"  -> Times(<<Text("addr")>>, v[1])
      [] f.as = "direct" -> IF v = <<0>> THEN <<>>
                            ELSE Append(Times(<<Text("addr")>>, v[1]), Blob("sealed_key"))
      [] f.as = "boxes"  -> Times(<<Id("device_id"), Blob("sealed")>>, v[1])
      [] OTHER           -> <<>>

-----------------------------------------------------------------------------
(* What the decoders read, field by field.                                 *)
ReadCard ==
    <<Version, Id("device_id"), Key("sign_pub"), Key("box_pub"), U64("ts_ms"), Text("conn_id"),
      Text("name"), Text("os")>>
ReadJoinRequest ==
    <<Version, Id("request_id"), Id("device_id"), Key("sign_pub"), Key("box_pub"), U64("ts_ms"),
      Text("name"), Text("os")>>
OpenGrant == <<Version, Id("request_id"), Key("sign_pub"), Key("approver"), Blob("sealed")>>
IsDeclineFor == <<Version, Id("request_id"), Key("approver")>>
ReadWhere == <<Version, Field("addrs", "addrs")>>
OpenRekey == <<Version, Id("from_device_id"), U64("ts_ms"), Field("recipients", "boxes")>>
ReadAbout ==
    <<Version, Id("from_device_id"), Flag("ask"), Text("reply_to"), U32("build"),
      Text("version")>>
ReadLeave == <<Version, Id("from_device_id"), U64("ts_ms")>>
ReadOffer ==
    <<Version, Id("offer_id"), Id("from_device_id"), Id("to_device_id"), U64("size"),
      Key("sha256"), Field("chunk_bytes", "pieces"), U64("ts_ms"), Text("reply_to"),
      Field("name", "name"), Field("direct", "direct")>>
ReadAnswer ==
    <<Version, Id("offer_id"), Id("from_device_id"), Flag("accepted"), Text("reply_to")>>
ReadChunk == <<Version, Id("offer_id"), U32("index"), Field("data", "piece")>>
ReadAck == <<Version, Id("offer_id"), U32("received"), Field("state", "state")>>
ReadCancel == <<Version, Id("offer_id")>>
DecodeInner ==
    <<Version, Field("content_type", "content"), Field("device_id_len", "length"),
      Id("device_id"), U64("seq"), U64("ts_ms"), Blob("content")>>
ReadAnnounce ==
    <<Version, Field("device_id_len", "length"), Id("device_id"), U64("ts_ms"), Label("name"),
      Label("os")>>
ParseCode  == <<Version, Field("meeting_secret", "meeting"), Field("fingerprint", "print")>>
ParseToken == <<Version, Key("secret")>>

Expected ==
    [Card |-> ReadCard, JoinRequest |-> ReadJoinRequest, JoinGrant |-> OpenGrant,
     JoinDecline |-> IsDeclineFor, JoinWhere |-> ReadWhere, Rekey |-> OpenRekey,
     About |-> ReadAbout, Leave |-> ReadLeave, FileOffer |-> ReadOffer,
     FileAnswer |-> ReadAnswer, FileChunk |-> ReadChunk, FileAck |-> ReadAck,
     FileCancel |-> ReadCancel, Clip |-> DecodeInner, Announce |-> ReadAnnounce,
     JoinCode |-> ParseCode, Token |-> ParseToken]

(* The width of the length a decoder takes before a field of any length.   *)
ReadPrefix == [text |-> 1, label |-> 1, name |-> 2, blob |-> 3, piece |-> 3]

(* What a decoder accepts for a value.  How many boxes a bundle has, and   *)
(* how long a blob is, it does not ask.                                    *)
Readable(f, v) ==
    /\ f.as = "version" => v = <<1>>
    /\ f.as = "flag" => v[1] \in {0, 1}
    /\ f.as = "state" => v[1] \in {0, 1, 2}
    /\ f.as = "content" => v[1] \in {1, 2}
    /\ f.as = "length" => v[1] = Width.id
    /\ f.as = "pieces" => v \in {Big(Width.pieces, n) : n \in 1 .. MaxPiece}
    /\ f.as = "addrs" => v[1] # 0 /\ v[1] <= MaxAddrs
    /\ f.as = "direct" => v[1] <= MaxAddrs
    /\ f.as = "text" => Len(v) <= MaxText
    /\ f.as = "label" => Len(v) <= MaxField
    /\ f.as = "name" => Len(v) <= MaxName
    /\ f.as = "piece" => Len(v) <= MaxPiece

(* What a decoder reads after a count.  A mistake: the sealed key after    *)
(* the addresses of an offer is left out.                                  *)
NoSealedKey(f, v) ==
    CASE f.as \in {"addrs", "direct"} -> Times(<<Text("addr")>>, v[1])
      [] f.as = "boxes" -> Times(<<Id("device_id"), Blob("sealed")>>, v[1])
      [] OTHER          -> <<>>

Continues(f, v) ==
    CASE f.as = "boxes"  -> Times(<<Id("device_id"), Blob("sealed")>>, v[1])
      [] f.as = "addrs"  -> Times(<<Text("addr")>>, v[1])
      [] f.as = "direct" -> Times(<<Text("addr")>>, v[1])
                            \o (IF v[1] = 0 THEN <<>> ELSE <<Blob("sealed_key")>>)
      [] OTHER           -> <<>>

-----------------------------------------------------------------------------
Codes == {"JoinCode", "Token"}

(* The kinds whose body a device signs; the checksum of a code stands in   *)
(* its place.                                                              *)
Signed ==
    {"Card", "JoinRequest", "JoinGrant", "JoinDecline", "Rekey", "About", "Leave", "FileOffer",
     "FileAnswer"} \cup Codes

(* The type code in the associated data: clips and announcements have one  *)
(* of their own, every other message is a msg with its kind inside.        *)
TypeCode(k) == IF k \in {"Clip", "Announce"} THEN k ELSE "Msg"

(* Kind::code and Kind::from_code, two lists in the code as well.          *)
Code ==
    [Card |-> 1, JoinRequest |-> 2, JoinGrant |-> 3, JoinDecline |-> 4, Rekey |-> 5,
     JoinWhere |-> 6, About |-> 7, Leave |-> 8, FileOffer |-> 16, FileAnswer |-> 17,
     FileChunk |-> 18, FileAck |-> 19, FileCancel |-> 20]

KindOf(c) ==
    CASE c = 1  -> "Card"      [] c = 2  -> "JoinRequest" [] c = 3  -> "JoinGrant"
      [] c = 4  -> "JoinDecline" [] c = 5  -> "Rekey"     [] c = 6  -> "JoinWhere"
      [] c = 7  -> "About"     [] c = 8  -> "Leave"       [] c = 16 -> "FileOffer"
      [] c = 17 -> "FileAnswer" [] c = 18 -> "FileChunk"  [] c = 19 -> "FileAck"
      [] c = 20 -> "FileCancel" [] OTHER  -> "Other"

(* announce.rs has the compiler check that the longest announcement fits.  *)
MessagesAssumption ==
    /\ {MaxText, MaxField, MaxName, MaxBlob, MaxAddrs, MaxBoxes, AnnounceLen} \subseteq Nat
    /\ MaxPiece \in Nat \ {0} /\ PadTo \in Nat \ {0}
    /\ Letters \subseteq Nat /\ Numbers \subseteq Nat
    /\ 2 + Width.id + Width.u64 + 2 * (1 + MaxField) <= AnnounceLen

-----------------------------------------------------------------------------
Init ==
    /\ kind \in Kinds
    /\ stage = "write"
    /\ left = Written[kind]
    /\ said = <<>> /\ heard = <<>>
    /\ body = <<>> /\ at = 0
    /\ sig = None
    /\ envelope = None
    /\ damage = "none"

With(fields, f, v) == Append(fields, [name |-> f.name, value |-> v])

(* Writer: one field.                                                      *)
Write ==
    /\ stage = "write" /\ left # <<>>
    /\ \E v \in Values(Head(left)) :
        /\ body' = body \o Bytes(Head(left), v)
        /\ said' = With(said, Head(left), v)
        /\ left' = Follows(Head(left), v) \o Tail(left)
    /\ UNCHANGED <<kind, stage, heard, at, sig, envelope, damage>>

(* sign_into, sign: the label, the room and the body.                      *)
Sign(bytes) ==
    IF kind \in Signed THEN [label |-> kind, room |-> "ours", covered |-> bytes] ELSE None

(* build_aad, for a frame under this header.                               *)
Aad(header) == [room |-> header.room, id |-> header.id, type |-> header.type]

(* msg::seal: MSG_VERSION, the kind and the length of the body.            *)
FrameHeader(bytes) ==
    IF kind \in DOMAIN Code THEN <<1, Code[kind]>> \o Big(Width.u32, Len(bytes)) ELSE <<>>

Zeros(n) == [i \in 1 .. n |-> 0]

(* msg::seal and encode_inner pad to the next multiple, announce::encode   *)
(* to the one length there is.                                             *)
Padding(n) ==
    IF kind \in Codes THEN 0
    ELSE IF kind # "Announce" THEN (PadTo - (n % PadTo)) % PadTo
    ELSE IF n > AnnounceLen THEN 0 ELSE AnnounceLen - n

Frame(bytes) ==
    LET inner == FrameHeader(bytes) \o bytes
    IN  inner \o Zeros(Padding(Len(inner)))

(* Another build of the program lays the message out a byte shorter or     *)
(* longer than this one does, gives it another version, or pads it with    *)
(* something else.  What is padded cannot be a byte short.                 *)
Damages ==
    {"none", "long", "version", "padding"} \cup
        (IF TypeCode(kind) = "Msg" THEN {"short"} ELSE {})

Damaged(how) ==
    CASE how = "short"   -> SubSeq(body, 1, Len(body) - 1)
      [] how = "long"    -> Append(body, 0)
      [] how = "version" -> [body EXCEPT ![1] = 2]
      [] OTHER           -> body

Filled(how, frame) == IF how = "padding" THEN [frame EXCEPT ![Len(frame)] = 1] ELSE frame

(* The message is signed and sealed.  A code is shown to a person instead. *)
(* seal_typed, msg::seal, clip::seal, announce::seal                       *)
Seal ==
    /\ stage = "write" /\ left = <<>>
    /\ \E how \in Damages :
        /\ how = "padding" => Padding(Len(FrameHeader(body)) + Len(body)) > 0
        /\ body' = Damaged(how)
        /\ damage' = how
    /\ sig' = Sign(body')
    /\ LET header == [room |-> "ours", id |-> 1, type |-> TypeCode(kind)]
       IN  envelope' = [header |-> header, aad |-> Aad(header),
                        frame |-> Filled(damage', Frame(body'))]
    /\ stage' = "sealed"
    /\ UNCHANGED <<kind, left, said, heard, at>>

(* What carries it delivers the frame under another header.                *)
Relabel ==
    /\ stage = "sealed" /\ kind \notin Codes
    /\ envelope.aad = Aad(envelope.header)
    /\ \/ envelope' = [envelope EXCEPT !.header.room = "other"]
       \/ envelope' = [envelope EXCEPT !.header.id = 2]
       \/ \E t \in {"Clip", "Announce", "Msg"} \ {envelope.header.type} :
            envelope' = [envelope EXCEPT !.header.type = t]
    /\ UNCHANGED <<kind, stage, left, said, heard, body, at, sig, damage>>

(* msg::open: where the body of a frame ends, if the frame is one: whole   *)
(* units of padding, the version and the kind, and zeros behind the body.  *)
BodyEnds(frame) ==
    {end \in 2 + Width.u32 .. Len(frame) :
        /\ Len(frame) % PadTo = 0
        /\ frame[1] = 1 /\ KindOf(frame[2]) = kind
        /\ SubSeq(frame, 3, 2 + Width.u32) = Big(Width.u32, end - (2 + Width.u32))
        /\ \A i \in end + 1 .. Len(frame) : frame[i] = 0}

(* The bytes a decoder is given: the body of a msg; all of the others, and *)
(* an announcement has one length only.                                    *)
Opened(frame) ==
    IF kind \in DOMAIN Code THEN {SubSeq(frame, 3 + Width.u32, end) : end \in BodyEnds(frame)}
    ELSE IF kind = "Announce" /\ Len(frame) # AnnounceLen THEN {} ELSE {frame}

Refuse ==
    /\ stage' = "refused"
    /\ UNCHANGED <<left, heard, at>>

(* open_typed, msg::open                                                   *)
Open ==
    /\ stage = "sealed"
    /\ LET bytes == IF kind \in Codes \/ envelope.aad = Aad(envelope.header)
                    THEN Opened(envelope.frame) ELSE {}
       IN  \/ /\ body' \in bytes
              /\ stage' = "read"
              /\ left' = Expected[kind]
              /\ UNCHANGED <<heard, at>>
           \/ bytes = {} /\ Refuse /\ UNCHANGED body
    /\ UNCHANGED <<kind, said, sig, envelope, damage>>

-----------------------------------------------------------------------------
(* Reader: where the value of the next field starts, and where it ends by  *)
(* what its length says, if the bytes are there and it is a value for it.  *)
Start(f) == at + (IF f.as \in DOMAIN ReadPrefix THEN ReadPrefix[f.as] ELSE 0)

Ends(f) ==
    {end \in Start(f) .. Len(body) :
        /\ IF f.as \in DOMAIN ReadPrefix
           THEN SubSeq(body, at + 1, Start(f)) = Big(ReadPrefix[f.as], end - Start(f))
           ELSE end - at = Width[f.as]
        /\ Readable(f, SubSeq(body, Start(f) + 1, end))}

Read ==
    /\ stage = "read" /\ left # <<>>
    /\ LET f == Head(left)
       IN  \/ \E end \in Ends(f) :
                LET v == SubSeq(body, Start(f) + 1, end)
                IN  /\ heard' = With(heard, f, v)
                    /\ left' = Continues(f, v) \o Tail(left)
                    /\ at' = end
                    /\ UNCHANGED stage
           \/ Ends(f) = {} /\ Refuse
    /\ UNCHANGED <<kind, said, body, sig, envelope, damage>>

(* Reader::done and the signature: nothing is left over, and the signature *)
(* is over what was read.  In the padded inner of an announcement zeros    *)
(* may be left, in a clip's anything.                                      *)
Done ==
    /\ stage = "read" /\ left = <<>>
    /\ IF /\ kind = "Announce" => \A i \in at + 1 .. Len(body) : body[i] = 0
          /\ TypeCode(kind) = "Msg" => at = Len(body)
          /\ sig # None => sig = Sign(body)
       THEN stage' = "accepted" /\ UNCHANGED <<left, heard, at>>
       ELSE Refuse
    /\ UNCHANGED <<kind, said, body, sig, envelope, damage>>

Next == Write \/ Seal \/ Relabel \/ Open \/ Read \/ Done

Spec == Init /\ [][Next]_vars

-----------------------------------------------------------------------------
(* What an encoder of this build wrote, the decoder takes apart into the   *)
(* same fields with the same values, and never refuses: encode and decode  *)
(* of each kind agree on the fields, their order, the widths of lengths,   *)
(* what follows a count, and the limits.  A body with a byte missing or    *)
(* left over, of another version, or a frame padded with anything but      *)
(* zeros, is refused, and so is a frame under a header it was not sealed   *)
(* under (Reader::done, version, msg::open, build_aad).  A clip's padding  *)
(* is not looked at, and a zero more is nothing in an announcement's.      *)
HeardIsSaid ==
    /\ damage = "none" /\ (stage # "write" => envelope.aad = Aad(envelope.header)) =>
        /\ stage # "refused"
        /\ stage = "accepted" => heard = said
    /\ stage = "accepted" =>
        /\ \/ damage = "none"
           \/ heard = said /\ (kind = "Clip" \/ (kind = "Announce" /\ damage = "long"))
        /\ kind \in Codes \/ envelope.header = [room |-> "ours", id |-> 1, type |-> TypeCode(kind)]
=============================================================================
