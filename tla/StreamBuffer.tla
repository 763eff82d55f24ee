----------------------------- MODULE StreamBuffer -----------------------------
(***************************************************************************)
(* Reassembly of COBS frames from BLE notifications: gfdi::StreamBuffer    *)
(* behind the reads of R10Client::poll().  The device sends frames         *)
(* 1, 2, ... one after the other; notifications cut the stream anywhere    *)
(* and may be lost.                                                        *)
(*                                                                         *)
(* A byte is <<n, i>>: the i-th of frame n's content, or for i = 0 one of  *)
(* the two 0x00 around it.  The code tells 0x00 from other bytes and, by   *)
(* its CRC, a frame's own content from anything else; whose frame a 0x00   *)
(* belongs to is seen by the history variable `damaged` alone.             *)
(***************************************************************************)
EXTENDS Naturals, Sequences, FiniteSetsExt

CONSTANTS
  ContentBytes,   \* bytes of a frame's COBS content
  BufferMax,      \* STREAM_BUFFER_MAX
  MaxChunk,       \* most bytes one notification carries
  MaxFrames, MaxLost, MaxRx   \* bounds: frames, losses, chunks not yet read

ASSUME StreamAssumption ==
  /\ ContentBytes \in Nat \ {0}
  /\ BufferMax \in Nat
  /\ MaxChunk \in Nat \ {0}
  /\ MaxFrames \in Nat /\ MaxLost \in Nat /\ MaxRx \in Nat \ {0}

VARIABLES
  sent,      \* the frames the device has sent, in order
  wire,      \* their bytes not yet notified
  rx,        \* chunks notified and not read
  buf,       \* StreamBuffer::buf
  result,    \* how the last poll ended
  got,       \* the frames next_frame has yielded, in order
  lost,      \* how many notifications were lost
  damaged,   \* history: frames that lost a byte
  skewed     \* history: an odd number of 0x00 was lost, or the buffer thrown
             \*   away, so that the pairing may be off

history == <<damaged, skewed>>
vars == <<sent, wire, rx, buf, result, got, lost, history>>

Content(n) == [i \in 1 .. ContentBytes |-> <<n, i>>]
IsZero(byte) == byte[2] = 0
Zeros(s) == {i \in DOMAIN s : IsZero(s[i])}

Init ==
  /\ sent = <<>>
  /\ wire = <<>>
  /\ rx = <<>>
  /\ buf = <<>>
  /\ result = "Nothing"
  /\ got = <<>>
  /\ lost = 0
  /\ damaged = {}
  /\ skewed = FALSE

(* wrap_cobs: a 0x00 on each side. *)
Wrap(n) == <<<<n, 0>>>> \o Content(n) \o <<<<n, 0>>>>

Send ==
  /\ Len(sent) < MaxFrames
  /\ LET n == Len(sent) + 1 IN
       /\ sent' = Append(sent, n)
       /\ wire' = wire \o Wrap(n)
  /\ UNCHANGED <<rx, buf, result, got, lost, history>>

(* The next notification carries the first k bytes of the wire. *)
Cut(k) ==
  /\ k \in 1 .. Len(wire)
  /\ wire' = SubSeq(wire, k + 1, Len(wire))

Chunk(k) == SubSeq(wire, 1, k)

Notify(k) ==
  /\ Len(rx) < MaxRx
  /\ Cut(k)
  /\ rx' = Append(rx, Chunk(k))
  /\ UNCHANGED <<sent, buf, result, got, lost, history>>

Lose(k) ==
  /\ lost < MaxLost
  /\ Cut(k)
  /\ lost' = lost + 1
  /\ damaged' = damaged \cup {wire[i][1] : i \in 1 .. k}
  /\ skewed' = (skewed \/ Cardinality(Zeros(Chunk(k))) % 2 = 1)
  /\ UNCHANGED <<sent, rx, buf, result, got>>

-----------------------------------------------------------------------------
(* poll() reads at most one chunk. *)
ReadChunk == IF rx = <<>> THEN <<>> ELSE Head(rx)
Reads == rx' = IF rx = <<>> THEN <<>> ELSE Tail(rx)

(* Mutant: the buffer may grow past the cap by one chunk. *)
OverflowsLate == Len(buf) > BufferMax

Overflows == Len(buf) + Len(ReadChunk) > BufferMax

(* extend: past the cap everything buffered is thrown away, the chunk too,  *)
(* and the poll ends.                                                       *)
ExtendFails ==
  /\ ReadChunk # <<>>
  /\ Overflows
  /\ Reads
  /\ buf' = <<>>
  /\ result' = "Overflow"
  /\ skewed' = TRUE
  /\ UNCHANGED <<sent, wire, got, lost, damaged>>

Extended == buf \o ReadChunk

(* next_frame takes the 0x00 bytes in pairs.  The closing ones are every    *)
(* second; a pair with nothing between is drained and skipped.              *)

Closing(s) ==
  {j \in Zeros(s) : Cardinality({i \in Zeros(s) : i < j}) % 2 = 1}

Ends(s) == {j \in Closing(s) : ~IsZero(s[j - 1])}

FrameEnd(s) == Min(Ends(s))
FrameStart(s) == Max({i \in Zeros(s) : i < FrameEnd(s)})
FrameContent(s) == SubSeq(s, FrameStart(s) + 1, FrameEnd(s) - 1)

(* Mutants: what is consumed is not drained; all but its last byte is. *)
DrainedNot(s, end) == s
DrainedShort(s, end) == IF end = 0 THEN s ELSE SubSeq(s, end, Len(s))

Drained(s, end) == SubSeq(s, end + 1, Len(s))

(* No complete frame; the empty pairs in front are gone. *)
PollNothing ==
  /\ ReadChunk # <<>> => ~Overflows
  /\ Ends(Extended) = {}
  /\ Reads
  /\ buf' = Drained(Extended, Max(Closing(Extended) \cup {0}))
  /\ result' = "Nothing"
  /\ UNCHANGED <<sent, wire, got, lost, history>>

(* One frame per poll, the oldest.  parse_cobs_frame rejects what is not a *)
(* frame's own content.                                                    *)
PollFrame ==
  /\ ReadChunk # <<>> => ~Overflows
  /\ Ends(Extended) # {}
  /\ Reads
  /\ buf' = Drained(Extended, FrameEnd(Extended))
  /\ LET content == FrameContent(Extended) IN
     \/ /\ content = Content(content[1][1])
        /\ got' = Append(got, content[1][1])
        /\ result' = "Frame"
     \/ /\ content # Content(content[1][1])
        /\ result' = "Corrupt"
        /\ UNCHANGED got
  /\ UNCHANGED <<sent, wire, lost, history>>

Poll == ExtendFails \/ PollNothing \/ PollFrame

Next == Send \/ Poll \/ \E k \in 1 .. MaxChunk : Notify(k) \/ Lose(k)

(* Whatever is sent is notified or lost, and the application keeps polling. *)
Spec ==
  /\ Init
  /\ [][Next]_vars
  /\ WF_vars(\E k \in 1 .. MaxChunk : Notify(k))
  /\ WF_vars(Poll)

-----------------------------------------------------------------------------
(* The variables keep their types, and the buffer stays within its cap. *)
TypeOK ==
  LET Bytes == (1 .. MaxFrames) \X (0 .. ContentBytes) IN
  /\ sent = [i \in 1 .. Len(sent) |-> i]
  /\ wire \in Seq(Bytes)
  /\ \A i \in DOMAIN rx : rx[i] \in Seq(Bytes) /\ Len(rx[i]) \in 1 .. MaxChunk
  /\ buf \in Seq(Bytes) /\ Len(buf) <= BufferMax
  /\ result \in {"Nothing", "Overflow", "Frame", "Corrupt"}
  /\ got \in Seq(1 .. MaxFrames)
  /\ lost \in 0 .. MaxLost
  /\ damaged \subseteq 1 .. MaxFrames
  /\ skewed \in BOOLEAN

(* However the stream is cut, lost notifications and overflows included,    *)
(* next_frame yields no frame twice or out of order, and none that was not  *)
(* sent.                                                                    *)
Feed == INSTANCE OrderedFeed WITH
          Items <- 1 .. MaxFrames, Lossless <- FALSE, offered <- sent, delivered <- got
FramesInOrder == Feed!Safety

Yielded(n) == n \in {got[i] : i \in DOMAIN got}

(* A frame of which no byte was lost is yielded in the end, as long as      *)
(* losses take delimiters in pairs and the cap is not passed.  "The bytes   *)
(* between two 0x00 delimiters form one COBS-encoded frame" (WIRE.md 3.2),  *)
(* but next_frame pairs them from the front of the buffer, so after one     *)
(* lost or extra delimiter it takes the gaps between frames for frames.     *)
PairedYielded ==
  \A n \in 1 .. MaxFrames :
    (Len(sent) >= n) ~> (n \in damaged \/ skewed \/ Yielded(n))
===============================================================================
