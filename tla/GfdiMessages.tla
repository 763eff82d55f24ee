------------------------------ MODULE GfdiMessages ------------------------------
(***************************************************************************)
(* The payloads src/src/gfdi.rs builds and takes apart: ACK, device        *)
(* information, capabilities, and the header of a protobuf message.  Bytes *)
(* are numbers; names are ASCII, so that from_utf8_lossy keeps them.       *)
(***************************************************************************)
EXTENDS Multilink, FiniteSetsExt

Short == [ok |-> FALSE]

(* build_ack, without its frame. *)
AckPayload(origType, status, data) == LittleEndian(origType, 2) \o <<status>> \o data

-----------------------------------------------------------------------------
(* Mutant: a string cut off is returned as far as it goes. *)
StringAtCut(d, pos) ==
  IF pos > Len(d) THEN [name |-> <<>>, next |-> pos]
  ELSE LET last == IF pos + d[pos] < Len(d) THEN pos + d[pos] ELSE Len(d)
       IN  [name |-> SubSeq(d, pos + 1, last), next |-> last + 1]

(* read_length_prefixed_string; the position moves past the length even     *)
(* when the string is cut off.                                              *)
StringAt(d, pos) ==
  CASE pos > Len(d) -> [name |-> <<>>, next |-> pos]
    [] pos <= Len(d) /\ pos + d[pos] > Len(d) -> [name |-> <<>>, next |-> pos + 1]
    [] OTHER -> [name |-> SubSeq(d, pos + 1, pos + d[pos]), next |-> pos + d[pos] + 1]

ParseDeviceInfo(d) ==
  IF Len(d) < 12 THEN Short
  ELSE LET friendly == StringAt(d, 13)
           device == StringAt(d, friendly.next)
           model == StringAt(d, device.next)
       IN  [ok |-> TRUE, protocol |-> U16(d, 1), product |-> U16(d, 3),
            unit |-> SubSeq(d, 5, 8), software |-> U16(d, 9), maxPacket |-> U16(d, 11),
            names |-> <<friendly.name, device.name, model.name>>]

DeviceFields(protocol, product, unit, software, maxPacket) ==
  LittleEndian(protocol, 2) \o LittleEndian(product, 2) \o unit
    \o LittleEndian(software, 2) \o LittleEndian(maxPacket, 2)

Prefixed(name) == <<Len(name)>> \o name

(* build_device_info_response: the host's own names are "divotmaker",       *)
(* "Linux" and "Desktop", here by their lengths.                            *)
HostNames == <<[i \in 1 .. 10 |-> 100], [i \in 1 .. 5 |-> 76], [i \in 1 .. 7 |-> 68]>>

HostInfo ==
  DeviceFields(150, 65535, <<255, 255, 255, 255>>, 100, 65535)
    \o Prefixed(HostNames[1]) \o Prefixed(HostNames[2]) \o Prefixed(HostNames[3]) \o <<1>>

BuildDeviceInfoResponse == AckPayload(5024, 0, HostInfo)

-----------------------------------------------------------------------------
(* Mutant: the byte of the size counts as one of the bitmap. *)
BitmapShort(d) == SubSeq(d, 2, IF d[1] < Len(d) THEN d[1] ELSE Len(d))

Bitmap(d) == SubSeq(d, 2, IF 1 + d[1] < Len(d) THEN 1 + d[1] ELSE Len(d))

BitSet(byte, bit) == (byte \div 2^bit) % 2 = 1

ParseCapabilities(d) ==
  IF d = <<>> THEN {}
  ELSE {8 * (p[1] - 1) + p[2] : p \in
         {q \in (DOMAIN Bitmap(d)) \X (0 .. 7) : BitSet(Bitmap(d)[q[1]], q[2])}}

CapSwingSensor == 30

(* build_host_capabilities, without its frame. *)
HostCapabilities ==
  <<13>> \o [i \in 1 .. 13 |->
    IF i = CapSwingSensor \div 8 + 1 THEN 2^(CapSwingSensor % 8) ELSE 0]

-----------------------------------------------------------------------------
(* Four bytes as a number; TLC's integers stop short of 2^31. *)
U32(d, i) == U16(d, i) + 65536 * U16(d, i + 2)

(* Mutant: the data begins where the chunk size does. *)
FragDataEarly(d, size) == SubSeq(d, 11, IF 10 + size < Len(d) THEN 10 + size ELSE Len(d))

FragData(d, size) == SubSeq(d, 15, IF 14 + size < Len(d) THEN 14 + size ELSE Len(d))

ParseFragHeader(d) ==
  IF Len(d) < 14 THEN Short
  ELSE [ok |-> TRUE, reqId |-> U16(d, 1), offset |-> U32(d, 3), total |-> U32(d, 7),
        size |-> U32(d, 11), data |-> FragData(d, U32(d, 11))]

(* The header of a whole message, as build_protobuf_request writes it. *)
FragHeader(reqId, offset, total, size) ==
  LittleEndian(reqId, 2) \o LittleEndian(offset, 4)
    \o LittleEndian(total, 4) \o LittleEndian(size, 4)

BuildProtobufRequest(reqId, data) ==
  FragHeader(reqId, 0, Len(data), Len(data)) \o data
===============================================================================
