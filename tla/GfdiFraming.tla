------------------------------ MODULE GfdiFraming ------------------------------
(***************************************************************************)
(* A GFDI message on its way through build_frame, the COBS encoder, the    *)
(* wire, the decoder and parse_frame (src/src/gfdi.rs, cobs.rs, crc.rs),   *)
(* with the chunks of multilink.rs that carry it and the messages its      *)
(* payload may be.  Bytes are numbers; a state is a message, which grows   *)
(* byte by byte.                                                           *)
(***************************************************************************)
EXTENDS Cobs, Crc16, GfdiMessages, SequencesExt

CONSTANTS
  MsgTypes,       \* message types sent
  PayloadBytes,   \* bytes their payloads are made of
  MaxPayload,     \* bound on the length of a payload
  Mtus, Handle    \* the MTUs tried, and the handle assigned to GFDI

ASSUME FramingAssumption ==
  /\ MsgTypes \subseteq {type \in Nat : type < 32768}
  /\ PayloadBytes \subseteq {byte \in Nat : byte < 256}
  /\ MaxPayload \in Nat /\ MaxPayload + 6 < 65536   \* the length of a frame has 16 bits
  /\ Mtus \subseteq Nat /\ Handle \in 0 .. 255

VARIABLES msgType, payload
vars == <<msgType, payload>>

Init == msgType \in MsgTypes /\ payload = <<>>

PushByte ==
  /\ Len(payload) < MaxPayload
  /\ \E byte \in PayloadBytes : payload' = Append(payload, byte)
  /\ UNCHANGED msgType

Next == PushByte
Spec == Init /\ [][Next]_vars

-----------------------------------------------------------------------------
BuildFrame(type, data) ==
  LET covered == LittleEndian(2 + 2 + Len(data) + 2, 2) \o LittleEndian(type, 2) \o data
  IN covered \o LittleEndian(Crc(covered), 2)

Rejected == [ok |-> FALSE]
Parsed(type, data) == [ok |-> TRUE, type |-> type, payload |-> data]

(* Mutant: the checksum is not compared. *)
CrcMatchesAlways(frame) == TRUE

CrcMatches(frame) ==
  U16(frame, Len(frame) - 1) = Crc(SubSeq(frame, 1, Len(frame) - 2))

(* The high bit of byte 3 marks a compressed header: a type from 5000 on and *)
(* a transaction id.                                                         *)
MsgType(frame) == IF frame[4] >= 128 THEN frame[3] + 5000 ELSE U16(frame, 3)

ParseFrame(frame) ==
  IF Len(frame) < 6 \/ ~CrcMatches(frame) THEN Rejected
  ELSE Parsed(MsgType(frame), SubSeq(frame, 5, Len(frame) - 2))

ParseCobsFrame(e) ==
  LET decoded == Decode(e) IN
  IF decoded.ok THEN ParseFrame(decoded.out) ELSE Rejected

(* What capture.rs makes of a frame: it stays out of a capture when it       *)
(* carries the device's identity, as an ACK of such a message does, or when  *)
(* it cannot be parsed.                                                      *)
IdentityTypes == {5003, 5004, 5011, 5012, 5024} \cup 5101 .. 5112

(* Mutant: an ACK too short to name a type is taken to carry none. *)
CarriesIdentityNamed(frame) ==
  IF frame.type = 5000
  THEN Len(frame.payload) >= 2 /\ U16(frame.payload, 1) \in IdentityTypes
  ELSE frame.type \in IdentityTypes

CarriesIdentity(frame) ==
  IF frame.type = 5000
  THEN Len(frame.payload) < 2 \/ U16(frame.payload, 1) \in IdentityTypes
  ELSE frame.type \in IdentityTypes

FrameExcluded(e) ==
  LET parsed == ParseCobsFrame(e) IN ~parsed.ok \/ CarriesIdentity(parsed)

Frame == BuildFrame(msgType, payload)
Message == Parsed(msgType, payload)
WrapCobs == <<0>> \o Encode(Frame) \o <<0>>

(* The same message from an R10 that uses the compressed header. *)
Compressed ==
  LET covered == LittleEndian(6 + Len(payload), 2) \o <<msgType - 5000, 129>> \o payload
  IN covered \o LittleEndian(Crc(covered), 2)

-----------------------------------------------------------------------------
(* What the codec cannot carry: a last byte 0, and a zero right after a     *)
(* full block.                                                              *)
ZeroAfterFull(d) ==
  LET from[i \in 1 .. Len(d) + 1] ==
        /\ i <= Len(d)
        /\ \/ Run(d, i) = MaxRun /\ NextBlock(d, i) = i + MaxRun + 1
           \/ from[NextBlock(d, i)]
  IN from[1]

(* Apart from these two, every message built and encoded is parsed back as  *)
(* it was; and never is there a 0x00 between its two delimiters, which a    *)
(* receiver would take for its end (wrap_cobs, encode).                     *)
NoDelimiterInside == LET e == Encode(Frame) IN \A i \in DOMAIN e : e[i] # 0

CarriedBack ==
  /\ NoDelimiterInside
  /\ EndsInZero(Frame) \/ ZeroAfterFull(Frame) \/ ParseCobsFrame(Encode(Frame)) = Message

(* A message that a device encodes by the standard algorithm is parsed back *)
(* as it was, full blocks included (WIRE.md 3.3), unless its CRC has a high *)
(* byte 0.  Of that one decode takes the last byte away, and what is left   *)
(* has a valid checksum again: it is taken for the message without its last *)
(* payload byte, for parse_frame does not look at the length.               *)
StandardCarried ==
  ParseCobsFrame(StandardEncode(Frame)) =
    IF ~EndsInZero(Frame) THEN Message
    ELSE IF payload = <<>> THEN Rejected
    ELSE Parsed(msgType, Front(payload))

(* A flipped bit, even in a COBS code, never makes another message.         *)
Flipped(e, i, bit) ==
  [e EXCEPT ![i] = IF (@ \div 2^bit) % 2 = 1 THEN @ - 2^bit ELSE @ + 2^bit]

FlipsDetected ==
  LET e == StandardEncode(Frame) IN
  \A i \in DOMAIN e, bit \in 0 .. 7 :
    LET damaged == Flipped(e, i, bit) IN
    damaged[i] # 0 => ParseCobsFrame(damaged) \in {Rejected, Message}

(* What bears the identity of the R10: some messages, and the ACK of one. *)
BearsIdentity ==
  \/ msgType \in IdentityTypes
  \/ /\ msgType = 5000
     /\ \/ Len(payload) < 2
        \/ \E type \in IdentityTypes : IsPrefix(LittleEndian(type, 2), payload)

(* A message that bears identity stays out of a capture; any other message *)
(* is recorded, but for some of those that end in 0 (frame_excluded).       *)
IdentityTold(frame) ==
  LET excluded == FrameExcluded(StandardEncode(frame)) IN
  /\ BearsIdentity => excluded
  /\ excluded => BearsIdentity \/ EndsInZero(frame)

(* This is so whatever header the R10 uses, and a message that bears        *)
(* identity stays out of a capture even with a bit flipped on its way.      *)
IdentityExcluded ==
  \A frame \in {Frame, Compressed} :
    LET e == StandardEncode(frame) IN
    /\ IdentityTold(frame)
    /\ BearsIdentity =>
         \A i \in DOMAIN e, bit \in 0 .. 7 :
           LET damaged == Flipped(e, i, bit) IN damaged[i] # 0 => FrameExcluded(damaged)

(* The chunks send_gfdi writes each fit the MTU and begin with the handle,  *)
(* and without it they are the framed message, no byte twice or missing,    *)
(* for every MTU that leaves room for a byte.                               *)
ChunksCarried ==
  \A mtu \in Mtus \ {0, 1} :
    LET chunks == ChunkWithHandle(WrapCobs, Handle, mtu) IN
    /\ \A i \in DOMAIN chunks : HasHandle(chunks[i], Handle) /\ Len(chunks[i]) <= mtu
    /\ FlattenSeq([i \in DOMAIN chunks |-> StripHandle(chunks[i])]) = WrapCobs

(* The answer to REGISTER, which repeats its transaction and service, is    *)
(* read as the R10 wrote it when its status is a known one; a part of it,   *)
(* the command itself and the chunk a message begins with are no answer.    *)
Answer(status) ==
  <<0, 1>> \o SubSeq(BuildRegister(1, 1), 3, 12) \o <<status, Handle, 0>>

AnswerTold ==
  /\ \A status \in 0 .. 255 :
       LET parsed == ParseRegisterResponse(Answer(status)) IN
       IF status > 4 THEN parsed = NoResponse
       ELSE parsed = [ok |-> TRUE, status |-> Statuses[status + 1],
                      handle |-> Handle, flags |-> 0]
  /\ \A cut \in 0 .. 14 : ParseRegisterResponse(SubSeq(Answer(0), 1, cut)) = NoResponse
  /\ ParseRegisterResponse(BuildRegister(1, 1)) = NoResponse
  /\ \A mtu \in Mtus \ {0, 1} :
       ParseRegisterResponse(ChunkWithHandle(WrapCobs, Handle, mtu)[1]) = NoResponse

(* A protobuf message comes out of its request as it went in; of a fragment *)
(* that declares another size than it has, nothing but its own first bytes. *)
RequestCarried ==
  /\ ParseFragHeader(BuildProtobufRequest(msgType, payload)) =
       [ok |-> TRUE, reqId |-> msgType, offset |-> 0, total |-> Len(payload),
        size |-> Len(payload), data |-> payload]
  /\ \A size \in 0 .. MaxPayload + 1 :
       LET d == ParseFragHeader(FragHeader(msgType, 0, size, size) \o payload).data
       IN  IsPrefix(d, payload) /\ Len(d) <= size
           /\ (size <= Len(payload) => Len(d) = size)

(* The three names of a device come out of its 5024 as they went in; if the *)
(* payload is cut off anywhere, the names before the cut still do, and the  *)
(* name that is cut is empty, not a part of it.  The host's own, in its     *)
(* answer, too.                                                             *)
Named(names) ==
  DeviceFields(150, 1000, <<1, 2, 3, 4>>, 100, 500)
    \o Prefixed(names[1]) \o Prefixed(names[2]) \o Prefixed(names[3])

NamesCarried ==
  /\ ParseDeviceInfo(SubSeq(BuildDeviceInfoResponse, 4, Len(BuildDeviceInfoResponse))).names
       = HostNames
  /\ \A i \in 0 .. Len(payload) : \A j \in i .. Len(payload) :
       LET names == <<SubSeq(payload, 1, i), SubSeq(payload, i + 1, j),
                      SubSeq(payload, j + 1, Len(payload))>>
           EndOf(k) == IF k = 0 THEN 12 ELSE IF k = 1 THEN 13 + i
                       ELSE IF k = 2 THEN 14 + j ELSE 15 + Len(payload)
       IN  \A cut \in 12 .. Len(Named(names)) :
             LET parsed == ParseDeviceInfo(SubSeq(Named(names), 1, cut)).names
             IN  \A k \in 1 .. 3 :
                   /\ cut >= EndOf(k) => parsed[k] = names[k]
                   /\ EndOf(k - 1) <= cut /\ cut < EndOf(k) => parsed[k] = <<>>

(* So do the capabilities: those of a bitmap are the bits of the number it  *)
(* stands for, and those the host declares are its one.                     *)
CapabilitiesCarried ==
  /\ \A size \in 0 .. MaxPayload + 1 :
       LET kept == IF size < Len(payload) THEN size ELSE Len(payload) IN
       ParseCapabilities(<<size>> \o payload) =
         {c \in 0 .. 8 * kept - 1 : BitSet(payload[c \div 8 + 1], c % 8)}
  /\ ParseCapabilities(HostCapabilities) = {CapSwingSensor}

HandshakeCarried == NamesCarried /\ CapabilitiesCarried

(* "GFDI frames end with CRC bytes, so this is fine" (cobs.rs, of data that *)
(* ends with 0x00): whatever message is built, it is parsed back.           *)
EveryFrameCarried == ParseCobsFrame(StandardEncode(Frame)) = Message
===============================================================================
