-------------------------- MODULE StreamBuffer_proofs --------------------------
(***************************************************************************)
(* Proofs about StreamBuffer, for frames of any length, any cap of the     *)
(* buffer, notifications that cut the stream anywhere, and any losses.     *)
(***************************************************************************)
EXTENDS StreamBuffer, FiniteSetTheorems, SequenceTheorems, TLAPS

Bytes == (1 .. MaxFrames) \X (0 .. ContentBytes)

(* The order in which content bytes are sent; a 0x00 may be anywhere.       *)
Before(a, b) == a[2] > 0 /\ b[2] > 0 => a[1] < b[1] \/ (a[1] = b[1] /\ a[2] < b[2])
InOrder(s) == \A i, j \in DOMAIN s : i < j => Before(s[i], s[j])
Precedes(s, t) == \A i \in DOMAIN s, j \in DOMAIN t : Before(s[i], t[j])

(* Bytes of the first n frames, and 0x00 bytes aside only of frames later   *)
(* than all of those in g.                                                  *)
ToCome(s, n, g) ==
  \A i \in DOMAIN s :
    /\ s[i][1] <= n
    /\ s[i][2] > 0 => \A k \in DOMAIN g : g[k] < s[i][1]

Types ==
  /\ TypeOK
  /\ Len(sent) \in 0 .. MaxFrames
  /\ rx \in Seq(Seq(Bytes))

StreamOrdered ==
  /\ InOrder(buf) /\ InOrder(wire) /\ Precedes(buf, wire)
  /\ \A i \in DOMAIN rx : InOrder(rx[i]) /\ Precedes(buf, rx[i]) /\ Precedes(rx[i], wire)
  /\ \A i, j \in DOMAIN rx : i < j => Precedes(rx[i], rx[j])

StreamToCome ==
  /\ ToCome(buf, Len(sent), got) /\ ToCome(wire, Len(sent), got)
  /\ \A i \in DOMAIN rx : ToCome(rx[i], Len(sent), got)

GotSent == \A k \in DOMAIN got : got[k] <= Len(sent)

(* That no frame is yielded again or late rests on what is still on its way *)
(* from the device to next_frame: content bytes of later frames only, in    *)
(* the order they were sent.                                                *)
IInv == Types /\ StreamOrdered /\ StreamToCome /\ GotSent

-----------------------------------------------------------------------------
(* Parts of a sequence and sequences joined keep the order. *)

Part(t, s, first) ==
  \A i \in DOMAIN t : i \in Nat /\ first + i \in DOMAIN s /\ t[i] = s[first + i]

LEMMA SubSeqPart ==
  ASSUME NEW s \in Seq(Bytes), NEW a \in Nat, NEW b \in Nat, b <= Len(s)
  PROVE  /\ SubSeq(s, a + 1, b) \in Seq(Bytes)
         /\ Len(SubSeq(s, a + 1, b)) = IF a <= b THEN b - a ELSE 0
         /\ Part(SubSeq(s, a + 1, b), s, a)
<1> DEFINE t == SubSeq(s, a + 1, b)
<1>1. \A i \in a + 1 .. b : s[i] \in Bytes
  OBVIOUS
<1>2. /\ t \in Seq(Bytes)
      /\ Len(t) = IF a + 1 <= b THEN b - (a + 1) + 1 ELSE 0
      /\ \A i \in 1 .. b - (a + 1) + 1 : t[i] = s[a + 1 + i - 1]
  BY <1>1, SubSeqProperties
<1> HIDE DEF t
<1>3. Len(t) = IF a <= b THEN b - a ELSE 0
  BY <1>2
<1>4. ASSUME NEW i \in DOMAIN t PROVE i \in Nat /\ a + i \in DOMAIN s /\ t[i] = s[a + i]
  <2>1. i \in 1 .. b - a /\ a + 1 + i - 1 = a + i /\ b - (a + 1) + 1 = b - a
    BY <1>2, <1>3
  <2> QED BY <1>2, <2>1
<1> QED BY <1>2, <1>3, <1>4 DEF Part, t

LEMMA PartKeeps ==
  ASSUME NEW s, NEW t, NEW first \in Nat, Part(t, s, first)
  PROVE  /\ InOrder(s) => InOrder(t)
         /\ \A r : Precedes(r, s) => Precedes(r, t)
         /\ \A r : Precedes(s, r) => Precedes(t, r)
         /\ \A n, g : ToCome(s, n, g) => ToCome(t, n, g)
<1>1. InOrder(s) => InOrder(t)
  <2> SUFFICES ASSUME InOrder(s), NEW i \in DOMAIN t, NEW j \in DOMAIN t, i < j
               PROVE  Before(t[i], t[j])
    BY DEF InOrder
  <2>1. first + i \in DOMAIN s /\ first + j \in DOMAIN s /\ first + i < first + j
        /\ t[i] = s[first + i] /\ t[j] = s[first + j]
    BY DEF Part
  <2> QED BY <2>1 DEF InOrder
<1> QED BY <1>1 DEF Part, Precedes, ToCome

LEMMA Joined ==
  ASSUME NEW s \in Seq(Bytes), NEW t \in Seq(Bytes)
  PROVE  /\ s \o t \in Seq(Bytes) /\ Len(s \o t) = Len(s) + Len(t)
         /\ InOrder(s) /\ InOrder(t) /\ Precedes(s, t) => InOrder(s \o t)
         /\ \A r : Precedes(r, s) /\ Precedes(r, t) => Precedes(r, s \o t)
         /\ \A r : Precedes(s, r) /\ Precedes(t, r) => Precedes(s \o t, r)
         /\ \A n, g : ToCome(s, n, g) /\ ToCome(t, n, g) => ToCome(s \o t, n, g)
<1> DEFINE u == s \o t
<1>1. /\ u \in Seq(Bytes) /\ Len(u) = Len(s) + Len(t) /\ Len(s) \in Nat /\ Len(t) \in Nat
      /\ DOMAIN s = 1 .. Len(s) /\ DOMAIN t = 1 .. Len(t) /\ DOMAIN u = 1 .. Len(s) + Len(t)
      /\ \A i \in 1 .. Len(s) + Len(t) : u[i] = IF i <= Len(s) THEN s[i] ELSE t[i - Len(s)]
  BY ConcatProperties
<1> HIDE DEF u
<1>2. ASSUME NEW i \in DOMAIN u
      PROVE  \/ i \in DOMAIN s /\ u[i] = s[i]
             \/ i > Len(s) /\ i - Len(s) \in DOMAIN t /\ u[i] = t[i - Len(s)]
  BY <1>1
<1>3. ASSUME InOrder(s), InOrder(t), Precedes(s, t) PROVE InOrder(u)
  <2> SUFFICES ASSUME NEW i \in DOMAIN u, NEW j \in DOMAIN u, i < j PROVE Before(u[i], u[j])
    BY DEF InOrder
  <2>1. CASE i \in DOMAIN s /\ j \in DOMAIN s
    BY <1>1, <1>3, <2>1 DEF InOrder
  <2>2. CASE i \in DOMAIN s /\ j \notin DOMAIN s
    <3>1. u[i] = s[i] /\ j - Len(s) \in DOMAIN t /\ u[j] = t[j - Len(s)]
      BY <1>1, <2>2
    <3> QED BY <1>3, <2>2, <3>1 DEF Precedes
  <2>3. CASE i \notin DOMAIN s
    <3>1. /\ i - Len(s) \in DOMAIN t /\ u[i] = t[i - Len(s)]
          /\ j - Len(s) \in DOMAIN t /\ u[j] = t[j - Len(s)]
          /\ i - Len(s) < j - Len(s)
      BY <1>1, <2>3
    <3> QED BY <1>3, <3>1 DEF InOrder
  <2> QED BY <2>1, <2>2, <2>3
<1>4. \A r : Precedes(r, s) /\ Precedes(r, t) => Precedes(r, u)
  BY <1>2 DEF Precedes
<1>5. \A r : Precedes(s, r) /\ Precedes(t, r) => Precedes(u, r)
  BY <1>2 DEF Precedes
<1>6. \A n, g : ToCome(s, n, g) /\ ToCome(t, n, g) => ToCome(u, n, g)
  BY <1>2 DEF ToCome
<1>7. /\ u \in Seq(Bytes) /\ Len(u) = Len(s) + Len(t)
      /\ InOrder(s) /\ InOrder(t) /\ Precedes(s, t) => InOrder(u)
      /\ \A r : Precedes(r, s) /\ Precedes(r, t) => Precedes(r, u)
      /\ \A r : Precedes(s, r) /\ Precedes(t, r) => Precedes(u, r)
      /\ \A n, g : ToCome(s, n, g) /\ ToCome(t, n, g) => ToCome(u, n, g)
  BY <1>1, <1>3, <1>4, <1>5, <1>6
<1> QED BY <1>7 DEF u

LEMMA NothingThere ==
  /\ <<>> \in Seq(Bytes) /\ Len(<<>>) = 0
  /\ InOrder(<<>>) /\ \A n, g : ToCome(<<>>, n, g)
  /\ \A r : Precedes(r, <<>>) /\ Precedes(<<>>, r)
  BY DEF InOrder, ToCome, Precedes

-----------------------------------------------------------------------------
(* Where next_frame finds a frame. *)

LEMMA MinIn ==
  ASSUME NEW S \in SUBSET Nat, S # {}
  PROVE  Min(S) \in S /\ \A y \in S : Min(S) <= y
<1> DEFINE Less == {pair \in Nat \X Nat : pair[1] < pair[2]}
<1>1. PICK m \in S : \A y \in S : ~(<<y, m>> \in Less)
  <2>1. IsWellFoundedOn(Less, Nat)
    BY NatLessThanWellFounded, Zenon DEF OpToRel
  <2> HIDE DEF Less
  <2> QED BY <2>1, WFMin
<1>2. \A y \in S : m <= y
  <2> SUFFICES ASSUME NEW y \in S, ~(m <= y) PROVE FALSE
    OBVIOUS
  <2>1. <<y, m>> \in Less
    OBVIOUS
  <2> QED BY <1>1, <2>1
<1> HIDE DEF Less
<1>3. \E x \in S : \A y \in S : x <= y
  BY <1>2
<1> QED BY <1>3, Zenon DEF Min

LEMMA MaxIn ==
  ASSUME NEW n \in Nat, NEW S \in SUBSET (0 .. n), S # {}
  PROVE  Max(S) \in S /\ \A y \in S : Max(S) >= y
<1> DEFINE T == {n - x : x \in S}
<1>1. T \in SUBSET Nat /\ T # {}
  OBVIOUS
<1>2. Min(T) \in T /\ \A y \in T : Min(T) <= y
  BY <1>1, MinIn
<1>3. PICK x \in S : Min(T) = n - x
  BY <1>2
<1>4. \A y \in S : x >= y
  <2> SUFFICES ASSUME NEW y \in S PROVE x >= y
    OBVIOUS
  <2>1. n - y \in T /\ x \in 0 .. n /\ y \in 0 .. n
    OBVIOUS
  <2>2. n - x <= n - y
    BY <1>2, <1>3, <2>1
  <2> QED BY <2>1, <2>2
<1> HIDE DEF T
<1>5. \E z \in S : \A y \in S : z >= y
  BY <1>4
<1> QED BY <1>5, Zenon DEF Max

LEMMA ZerosIn ==
  ASSUME NEW s \in Seq(Bytes)
  PROVE  Ends(s) \subseteq Closing(s) /\ Closing(s) \subseteq 1 .. Len(s)
         /\ Zeros(s) \subseteq 1 .. Len(s) /\ Len(s) \in Nat
  BY DEF Ends, Closing, Zeros

LEMMA ClosingMax ==
  ASSUME NEW s \in Seq(Bytes)
  PROVE  Max(Closing(s) \cup {0}) \in 0 .. Len(s)
<1>1. Closing(s) \cup {0} \in SUBSET (0 .. Len(s)) /\ Closing(s) \cup {0} # {} /\ Len(s) \in Nat
  BY ZerosIn
<1>2. Max(Closing(s) \cup {0}) \in Closing(s) \cup {0}
  BY <1>1, MaxIn
<1> QED BY <1>1, <1>2

LEMMA FramePlace ==
  ASSUME NEW s \in Seq(Bytes), Ends(s) # {}
  PROVE  /\ FrameEnd(s) \in 1 .. Len(s)
         /\ FrameStart(s) \in 1 .. FrameEnd(s) - 1
         /\ FrameStart(s) + 1 < FrameEnd(s)
<1> DEFINE end == FrameEnd(s)
           Opening == {i \in Zeros(s) : i < end}
<1>1. end \in Ends(s)
  <2>1. Ends(s) \in SUBSET Nat
    BY ZerosIn
  <2> QED BY <2>1, MinIn DEF FrameEnd
<1>2. end \in 1 .. Len(s) /\ Len(s) \in Nat
  BY <1>1, ZerosIn
<1>3. Opening # {}
  <2>1. Cardinality(Opening) % 2 = 1
    BY <1>1 DEF Ends, Closing
  <2>2. Cardinality({}) = 0 /\ 0 % 2 # 1
    BY FS_EmptySet
  <2> HIDE DEF Opening
  <2> QED BY <2>1, <2>2, Zenon
<1>4. Opening \in SUBSET (0 .. end)
  BY <1>2, ZerosIn
<1>5. Max(Opening) \in Opening
  <2>1. end \in Nat
    BY <1>2
  <2> HIDE DEF Opening, end
  <2> QED BY <1>3, <1>4, <2>1, MaxIn
<1>6. FrameStart(s) \in Opening
  BY <1>5 DEF FrameStart
<1>7. FrameStart(s) \in 1 .. end - 1 /\ IsZero(s[FrameStart(s)])
  <2>1. FrameStart(s) \in Zeros(s) /\ FrameStart(s) < end /\ FrameStart(s) \in 1 .. Len(s)
    BY <1>6, ZerosIn
  <2> QED BY <1>2, <2>1 DEF Zeros
<1>8. ~IsZero(s[end - 1])
  BY <1>1 DEF Ends
<1>9. FrameStart(s) # end - 1
  <2> HIDE DEF end
  <2> QED BY <1>7, <1>8, Zenon
<1> HIDE DEF end
<1>10. end \in 1 .. Len(s) /\ FrameStart(s) \in 1 .. end - 1 /\ FrameStart(s) + 1 < end
  BY <1>2, <1>7, <1>9
<1> QED BY <1>10 DEF end

(* Content(n) is never empty, and a frame that has it ends in its last byte.*)
LEMMA ContentPlace ==
  ASSUME NEW s \in Seq(Bytes), Ends(s) # {}, NEW n, FrameContent(s) = Content(n)
  PROVE  /\ FrameEnd(s) - 1 \in DOMAIN s
         /\ s[FrameEnd(s) - 1] = <<n, ContentBytes>>
         /\ n \in 1 .. MaxFrames
<1> DEFINE start == FrameStart(s)
           end == FrameEnd(s)
           t == SubSeq(s, start + 1, end - 1)
<1>1. start \in Nat /\ end - 1 \in Nat /\ end - 1 \in DOMAIN s /\ start < end - 1 /\ end - 1 <= Len(s)
  BY FramePlace
<1>2. Len(t) = end - 1 - start /\ Part(t, s, start) /\ t \in Seq(Bytes)
  <2> HIDE DEF start, end
  <2>1. start <= end - 1
    BY <1>1
  <2> QED BY <1>1, <2>1, SubSeqPart
<1>3. t = Content(n)
  BY DEF FrameContent
<1> HIDE DEF start, end, t
<1>4. Len(t) = ContentBytes /\ ContentBytes \in Nat \ {0} /\ t[ContentBytes] = <<n, ContentBytes>>
  BY <1>3, StreamAssumption DEF Content
<1>5. start + ContentBytes = end - 1 /\ ContentBytes \in DOMAIN t
  BY <1>1, <1>2, <1>4
<1>6. s[end - 1] = <<n, ContentBytes>>
  BY <1>2, <1>4, <1>5 DEF Part
<1>7. n \in 1 .. MaxFrames
  <2>1. t[ContentBytes] \in Bytes
    BY <1>2, <1>5
  <2> QED BY <1>4, <2>1 DEF Bytes
<1> QED BY <1>1, <1>6, <1>7 DEF end

-----------------------------------------------------------------------------
(* The operations of the stream. *)

LEMMA InitIInv == Init => IInv
<1> SUFFICES ASSUME Init PROVE IInv
  OBVIOUS
<1> USE DEF Init
<1>1. Types
  <2>1. sent = [i \in 1 .. Len(sent) |-> i] /\ Len(sent) = 0
    OBVIOUS
  <2>2. wire \in Seq(Bytes) /\ rx \in Seq(Seq(Bytes)) /\ buf \in Seq(Bytes) /\ Len(buf) <= BufferMax
    BY StreamAssumption
  <2>3. got \in Seq(1 .. MaxFrames) /\ \A i \in DOMAIN rx : FALSE
    OBVIOUS
  <2>4. 0 \in 0 .. MaxFrames /\ 0 \in 0 .. MaxLost
    BY StreamAssumption
  <2> QED BY <2>1, <2>2, <2>3, <2>4 DEF Types, TypeOK, Bytes
<1>2. StreamOrdered /\ StreamToCome
  BY NothingThere DEF StreamOrdered, StreamToCome
<1>3. GotSent
  BY DEF GotSent
<1> QED BY <1>1, <1>2, <1>3 DEF IInv

LEMMA WrapFacts ==
  ASSUME NEW n \in 1 .. MaxFrames
  PROVE  /\ Wrap(n) \in Seq(Bytes)
         /\ \A i \in DOMAIN Wrap(n) : Wrap(n)[i][1] = n
         /\ InOrder(Wrap(n))
<1> DEFINE zero == <<<<n, 0>>>>
           content == Content(n)
<1>1. /\ zero \in Seq(Bytes) /\ Len(zero) = 1 /\ zero[1] = <<n, 0>>
      /\ content \in Seq(Bytes)
      /\ \A i \in DOMAIN content : content[i] = <<n, i>> /\ i \in Nat
  BY StreamAssumption DEF Content, Bytes
<1>2. Wrap(n) = (zero \o content) \o zero
  BY DEF Wrap
<1> HIDE DEF zero, content
<1>3. InOrder(content)
  BY <1>1 DEF InOrder, Before
<1>4. InOrder(zero) /\ Precedes(zero, content) /\ Precedes(content, zero) /\ Precedes(zero, zero)
  BY <1>1 DEF InOrder, Precedes, Before
<1>5. /\ zero \o content \in Seq(Bytes) /\ InOrder(zero \o content)
      /\ Precedes(zero \o content, zero)
  BY <1>1, <1>3, <1>4, Joined
<1>6. Wrap(n) \in Seq(Bytes) /\ InOrder(Wrap(n))
  BY <1>1, <1>2, <1>4, <1>5, Joined
<1>7. \A i \in DOMAIN Wrap(n) : Wrap(n)[i][1] = n
  <2> DEFINE Of(s) == \A i \in DOMAIN s : s[i][1] = n
  <2>1. ASSUME NEW s \in Seq(Bytes), NEW t \in Seq(Bytes), Of(s), Of(t) PROVE Of(s \o t)
    BY <2>1
  <2>2. Of(zero) /\ Of(content)
    BY <1>1
  <2> HIDE DEF Of
  <2>3. Of(Wrap(n))
    BY <1>1, <1>2, <1>5, <2>1, <2>2
  <2> QED BY <2>3 DEF Of
<1> QED BY <1>6, <1>7

LEMMA GotNumbers == IInv => \A k \in DOMAIN got : got[k] \in Nat /\ got[k] <= Len(sent)
<1> SUFFICES ASSUME IInv, NEW k \in DOMAIN got PROVE got[k] \in Nat /\ got[k] <= Len(sent)
  OBVIOUS
<1>1. got \in Seq(1 .. MaxFrames)
  BY DEF IInv, Types, TypeOK
<1>2. got[k] \in Nat
  BY ONLY <1>1, k \in DOMAIN got, StreamAssumption
<1>3. got[k] <= Len(sent)
  BY DEF IInv, GotSent
<1> QED BY <1>2, <1>3

LEMMA SendKeeps == IInv /\ Send => IInv'
<1> SUFFICES ASSUME IInv, Send PROVE IInv'
  OBVIOUS
<1> DEFINE n == Len(sent) + 1
<1>1. /\ n \in 1 .. MaxFrames /\ Len(sent) \in Nat
      /\ sent' = Append(sent, n) /\ wire' = wire \o Wrap(n)
      /\ UNCHANGED <<rx, buf, result, got, lost, history>>
  BY StreamAssumption DEF Send, IInv, Types
<1>2. /\ wire \in Seq(Bytes) /\ buf \in Seq(Bytes) /\ rx \in Seq(Seq(Bytes))
      /\ \A i \in DOMAIN rx : rx[i] \in Seq(Bytes)
      /\ got \in Seq(1 .. MaxFrames)
  BY DEF IInv, Types, TypeOK, Bytes
<1>3. sent' = [i \in 1 .. Len(sent') |-> i] /\ Len(sent') = n
  BY <1>1 DEF IInv, Types, TypeOK
<1>4. Wrap(n) \in Seq(Bytes) /\ InOrder(Wrap(n)) /\ \A i \in DOMAIN Wrap(n) : Wrap(n)[i][1] = n
  BY <1>1, WrapFacts
<1>5. ASSUME NEW s \in Seq(Bytes), ToCome(s, Len(sent), got)
      PROVE  Precedes(s, Wrap(n)) /\ ToCome(s, n, got)
  <2>1. \A i \in DOMAIN s : s[i][1] \in Nat /\ s[i][1] < n
    <3>1. \A i \in DOMAIN s : s[i] \in Bytes /\ s[i][1] <= Len(sent)
      BY <1>5 DEF ToCome
    <3>2. \A b \in Bytes : b[1] \in Nat
      BY StreamAssumption DEF Bytes
    <3> QED BY <1>1, <3>1, <3>2
  <2>2. Precedes(s, Wrap(n))
    BY <1>4, <2>1 DEF Precedes, Before
  <2>3. ToCome(s, n, got)
    BY <1>1, <1>5, <2>1 DEF ToCome
  <2> QED BY <2>2, <2>3
<1>6. ToCome(Wrap(n), n, got)
  <2>1. \A k \in DOMAIN got : got[k] \in Nat /\ got[k] < n
    BY <1>1, GotNumbers
  <2> QED BY <1>1, <1>4, <2>1 DEF ToCome
<1> HIDE DEF n
<1>7. /\ wire' \in Seq(Bytes)
      /\ InOrder(wire') /\ ToCome(wire', n, got)
      /\ Precedes(buf, wire') /\ \A i \in DOMAIN rx : Precedes(rx[i], wire')
  <2>1. /\ InOrder(wire) /\ Precedes(buf, wire) /\ \A i \in DOMAIN rx : Precedes(rx[i], wire)
        /\ ToCome(wire, Len(sent), got) /\ ToCome(buf, Len(sent), got)
        /\ \A i \in DOMAIN rx : ToCome(rx[i], Len(sent), got)
    BY DEF IInv, StreamOrdered, StreamToCome
  <2>2. /\ Precedes(wire, Wrap(n)) /\ ToCome(wire, n, got) /\ Precedes(buf, Wrap(n))
        /\ \A i \in DOMAIN rx : Precedes(rx[i], Wrap(n))
    BY <1>2, <1>5, <2>1
  <2>3. wire' \in Seq(Bytes) /\ InOrder(wire') /\ ToCome(wire', n, got)
    BY <1>1, <1>2, <1>4, <1>6, <2>1, <2>2, Joined
  <2>4. \A r : Precedes(r, wire) /\ Precedes(r, Wrap(n)) => Precedes(r, wire')
    BY <1>1, <1>2, <1>4, Joined
  <2> QED BY <2>1, <2>2, <2>3, <2>4
<1>8. Types'
  BY <1>1, <1>3, <1>7 DEF IInv, Types, TypeOK, Bytes, history
<1>9. StreamOrdered'
  BY <1>1, <1>7 DEF IInv, StreamOrdered
<1>10. StreamToCome'
  <2>1. ToCome(buf, n, got) /\ \A i \in DOMAIN rx : ToCome(rx[i], n, got)
    BY <1>2, <1>5 DEF IInv, StreamToCome
  <2> QED BY <1>1, <1>3, <1>7, <2>1 DEF StreamToCome
<1>11. GotSent'
  <2>1. \A k \in DOMAIN got : got[k] <= n
    BY <1>1, GotNumbers DEF n
  <2> QED BY <1>1, <1>3, <2>1 DEF GotSent
<1> QED BY <1>8, <1>9, <1>10, <1>11 DEF IInv

LEMMA CutFacts ==
  ASSUME IInv, NEW k, Cut(k)
  PROVE  /\ k \in Nat \ {0} /\ k <= Len(wire)
         /\ Chunk(k) \in Seq(Bytes) /\ Len(Chunk(k)) = k /\ Part(Chunk(k), wire, 0)
         /\ wire' \in Seq(Bytes) /\ Part(wire', wire, k)
         /\ Precedes(Chunk(k), wire')
<1>1. wire \in Seq(Bytes) /\ InOrder(wire)
  BY DEF IInv, Types, TypeOK, StreamOrdered, Bytes
<1>2. k \in 1 .. Len(wire) /\ wire' = SubSeq(wire, k + 1, Len(wire)) /\ Len(wire) \in Nat
  BY <1>1 DEF Cut
<1>3. wire' \in Seq(Bytes) /\ Part(wire', wire, k)
  BY <1>1, <1>2, SubSeqPart
<1>4. /\ SubSeq(wire, 0 + 1, k) \in Seq(Bytes)
      /\ Len(SubSeq(wire, 0 + 1, k)) = IF 0 <= k THEN k - 0 ELSE 0
      /\ Part(SubSeq(wire, 0 + 1, k), wire, 0)
  BY <1>1, <1>2, SubSeqPart
<1>5. Chunk(k) \in Seq(Bytes) /\ Len(Chunk(k)) = k /\ Part(Chunk(k), wire, 0)
  BY <1>2, <1>4 DEF Chunk
<1>6. Precedes(Chunk(k), wire')
  <2> SUFFICES ASSUME NEW i \in DOMAIN Chunk(k), NEW j \in DOMAIN wire'
               PROVE  Before(Chunk(k)[i], wire'[j])
    BY DEF Precedes
  <2>1. i \in 1 .. k /\ Chunk(k)[i] = wire[0 + i] /\ 0 + i \in DOMAIN wire
    BY <1>2, <1>5 DEF Part
  <2>2. j \in Nat /\ j > 0 /\ wire'[j] = wire[k + j] /\ k + j \in DOMAIN wire
    BY <1>3 DEF Part
  <2>3. 0 + i = i /\ i < k + j
    BY <1>2, <2>1, <2>2
  <2> QED BY <1>1, <2>1, <2>2, <2>3 DEF InOrder
<1> QED BY <1>2, <1>3, <1>5, <1>6

LEMMA NotifyKeeps ==
  ASSUME IInv, NEW k \in 1 .. MaxChunk, Notify(k)
  PROVE  IInv'
<1>1. /\ rx' = Append(rx, Chunk(k))
      /\ UNCHANGED <<sent, buf, result, got, lost, history>> /\ Cut(k)
  BY DEF Notify
<1>2. /\ rx \in Seq(Seq(Bytes)) /\ Len(rx) \in Nat
      /\ InOrder(buf) /\ InOrder(wire) /\ Precedes(buf, wire)
      /\ \A i \in DOMAIN rx : InOrder(rx[i]) /\ Precedes(buf, rx[i]) /\ Precedes(rx[i], wire)
      /\ \A i, j \in DOMAIN rx : i < j => Precedes(rx[i], rx[j])
      /\ ToCome(buf, Len(sent), got) /\ ToCome(wire, Len(sent), got)
      /\ \A i \in DOMAIN rx : ToCome(rx[i], Len(sent), got)
  BY DEF IInv, Types, StreamOrdered, StreamToCome
<1> DEFINE c == Chunk(k)
<1>3. /\ c \in Seq(Bytes) /\ Len(c) = k /\ Part(c, wire, 0)
      /\ wire' \in Seq(Bytes) /\ Part(wire', wire, k) /\ Precedes(c, wire') /\ k \in Nat
  BY <1>1, CutFacts
<1> HIDE DEF c
<1>4. /\ InOrder(c) /\ Precedes(buf, c) /\ \A i \in DOMAIN rx : Precedes(rx[i], c)
      /\ ToCome(c, Len(sent), got)
  BY <1>2, <1>3, PartKeeps
<1>5. /\ InOrder(wire') /\ Precedes(buf, wire') /\ \A i \in DOMAIN rx : Precedes(rx[i], wire')
      /\ ToCome(wire', Len(sent), got)
  BY <1>2, <1>3, PartKeeps
<1>6. /\ rx' \in Seq(Seq(Bytes)) /\ DOMAIN rx' = DOMAIN rx \cup {Len(rx) + 1}
      /\ rx'[Len(rx) + 1] = c
      /\ \A i \in DOMAIN rx : rx'[i] = rx[i] /\ i < Len(rx) + 1
  BY <1>1, <1>2, <1>3, AppendProperties DEF c
<1>7. Types'
  <2>1. \A i \in DOMAIN rx' : rx'[i] \in Seq(Bytes) /\ Len(rx'[i]) \in 1 .. MaxChunk
    <3>1. \A i \in DOMAIN rx : rx[i] \in Seq(Bytes) /\ Len(rx[i]) \in 1 .. MaxChunk
      BY DEF IInv, Types, TypeOK, Bytes
    <3> QED BY <1>3, <1>6, <3>1
  <2> QED BY <1>1, <1>3, <1>6, <2>1 DEF IInv, Types, TypeOK, Bytes, history
<1>8. StreamOrdered'
  <2>1. \A i \in DOMAIN rx' : InOrder(rx'[i]) /\ Precedes(buf, rx'[i]) /\ Precedes(rx'[i], wire')
    BY <1>2, <1>3, <1>4, <1>5, <1>6
  <2>2. ASSUME NEW i \in DOMAIN rx', NEW j \in DOMAIN rx', i < j PROVE Precedes(rx'[i], rx'[j])
    <3>1. i \in DOMAIN rx
      BY <1>2, <1>6, <2>2
    <3> QED BY <1>2, <1>4, <1>6, <2>2, <3>1
  <2> QED BY <1>1, <1>2, <1>5, <2>1, <2>2 DEF StreamOrdered
<1>9. StreamToCome'
  BY <1>1, <1>2, <1>4, <1>5, <1>6 DEF StreamToCome
<1>10. GotSent'
  BY <1>1 DEF IInv, GotSent
<1> QED BY <1>7, <1>8, <1>9, <1>10 DEF IInv

LEMMA LoseKeeps ==
  ASSUME IInv, NEW k \in 1 .. MaxChunk, Lose(k)
  PROVE  IInv'
<1>1. /\ UNCHANGED <<sent, rx, buf, result, got>> /\ Cut(k)
      /\ lost < MaxLost /\ lost' = lost + 1
      /\ damaged' = damaged \cup {wire[i][1] : i \in 1 .. k}
      /\ skewed' = (skewed \/ Cardinality(Zeros(Chunk(k))) % 2 = 1)
  BY DEF Lose
<1>2. wire' \in Seq(Bytes) /\ Part(wire', wire, k) /\ k \in Nat /\ k <= Len(wire)
  BY <1>1, CutFacts
<1>3. /\ InOrder(wire') /\ \A r : Precedes(r, wire) => Precedes(r, wire')
      /\ ToCome(wire', Len(sent), got)
  BY <1>2, PartKeeps DEF IInv, StreamOrdered, StreamToCome
<1>4. Types'
  <2>1. damaged' \subseteq 1 .. MaxFrames
    <3>1. wire \in Seq(Bytes) /\ damaged \subseteq 1 .. MaxFrames
      BY DEF IInv, Types, TypeOK, Bytes
    <3>2. \A i \in 1 .. k : wire[i] \in Bytes
      BY <1>2, <3>1
    <3>3. \A i \in 1 .. k : wire[i][1] \in 1 .. MaxFrames
      BY <3>2 DEF Bytes
    <3> QED BY <1>1, <3>1, <3>3
  <2>2. lost' \in 0 .. MaxLost /\ skewed' \in BOOLEAN
    BY <1>1, StreamAssumption DEF IInv, Types, TypeOK
  <2> QED BY <1>1, <1>2, <2>1, <2>2 DEF IInv, Types, TypeOK, Bytes
<1>5. StreamOrdered'
  BY <1>1, <1>3 DEF IInv, StreamOrdered
<1>6. StreamToCome'
  BY <1>1, <1>3 DEF IInv, StreamToCome
<1>7. GotSent'
  BY <1>1 DEF IInv, GotSent
<1> QED BY <1>4, <1>5, <1>6, <1>7 DEF IInv

-----------------------------------------------------------------------------
(* A poll reads the oldest chunk, if any, and drains the front of what it   *)
(* then has.                                                                *)

LEMMA ReadFacts ==
  ASSUME IInv, Reads
  PROVE  /\ Extended \in Seq(Bytes) /\ Len(Extended) = Len(buf) + Len(ReadChunk)
         /\ InOrder(Extended) /\ ToCome(Extended, Len(sent), got)
         /\ Precedes(Extended, wire)
         /\ rx' \in Seq(Seq(Bytes))
         /\ \A i \in DOMAIN rx' :
              /\ rx'[i] \in Seq(Bytes) /\ Len(rx'[i]) \in 1 .. MaxChunk
              /\ InOrder(rx'[i]) /\ ToCome(rx'[i], Len(sent), got)
              /\ Precedes(Extended, rx'[i]) /\ Precedes(rx'[i], wire)
         /\ \A i, j \in DOMAIN rx' : i < j => Precedes(rx'[i], rx'[j])
<1>1. /\ rx \in Seq(Seq(Bytes)) /\ buf \in Seq(Bytes)
      /\ InOrder(buf) /\ Precedes(buf, wire) /\ ToCome(buf, Len(sent), got)
      /\ \A i, j \in DOMAIN rx : i < j => Precedes(rx[i], rx[j])
  BY DEF IInv, Types, TypeOK, StreamOrdered, StreamToCome, Bytes
<1>2. \A i \in DOMAIN rx :
        /\ rx[i] \in Seq(Bytes) /\ Len(rx[i]) \in 1 .. MaxChunk
        /\ InOrder(rx[i]) /\ ToCome(rx[i], Len(sent), got)
        /\ Precedes(buf, rx[i]) /\ Precedes(rx[i], wire)
  BY DEF IInv, Types, TypeOK, StreamOrdered, StreamToCome, Bytes
<1>3. CASE rx = <<>>
  <2>1. rx' = rx /\ ReadChunk = <<>>
    BY <1>3 DEF Reads, ReadChunk
  <2>2. Extended = buf /\ Len(ReadChunk) = 0
    BY <1>1, <2>1, ConcatEmptySeq DEF Extended
  <2>3. Len(buf) \in Nat
    BY <1>1
  <2> QED BY <1>1, <1>2, <2>1, <2>2, <2>3
<1>4. CASE rx # <<>>
  <2>1. /\ rx' = Tail(rx) /\ ReadChunk = rx[1] /\ 1 \in DOMAIN rx
        /\ rx' \in Seq(Seq(Bytes))
        /\ \A i \in DOMAIN rx' : i + 1 \in DOMAIN rx /\ rx'[i] = rx[i + 1] /\ i \in Nat /\ 1 < i + 1
    BY <1>1, <1>4 DEF Reads, ReadChunk
  <2>2. /\ ReadChunk \in Seq(Bytes) /\ InOrder(ReadChunk) /\ ToCome(ReadChunk, Len(sent), got)
        /\ Precedes(buf, ReadChunk) /\ Precedes(ReadChunk, wire)
    BY <1>2, <2>1
  <2>3. /\ Extended \in Seq(Bytes) /\ Len(Extended) = Len(buf) + Len(ReadChunk)
        /\ InOrder(Extended) /\ ToCome(Extended, Len(sent), got)
        /\ \A r : Precedes(buf, r) /\ Precedes(ReadChunk, r) => Precedes(Extended, r)
    BY <1>1, <2>2, Joined DEF Extended
  <2>4. Precedes(Extended, wire)
    BY <1>1, <2>2, <2>3
  <2>5. ASSUME NEW i \in DOMAIN rx'
        PROVE  /\ rx'[i] \in Seq(Bytes) /\ Len(rx'[i]) \in 1 .. MaxChunk
               /\ InOrder(rx'[i]) /\ ToCome(rx'[i], Len(sent), got)
               /\ Precedes(Extended, rx'[i]) /\ Precedes(rx'[i], wire)
    <3>1. i + 1 \in DOMAIN rx /\ rx'[i] = rx[i + 1] /\ 1 < i + 1
      BY <2>1
    <3>2. Precedes(buf, rx'[i])
      BY <1>2, <3>1
    <3>3. Precedes(ReadChunk, rx'[i])
      BY <1>1, <2>1, <3>1
    <3>4. Precedes(Extended, rx'[i])
      BY <2>3, <3>2, <3>3
    <3> QED BY <1>2, <3>1, <3>4
  <2>6. ASSUME NEW i \in DOMAIN rx', NEW j \in DOMAIN rx', i < j PROVE Precedes(rx'[i], rx'[j])
    <3>1. i + 1 < j + 1 /\ i + 1 \in DOMAIN rx /\ j + 1 \in DOMAIN rx
      BY <2>1, <2>6
    <3> QED BY <1>1, <2>1, <3>1
  <2> QED BY <2>1, <2>3, <2>4, <2>5, <2>6
<1> QED BY <1>3, <1>4

LEMMA ExtendedFits ==
  ASSUME IInv, Reads, ReadChunk # <<>> => ~Overflows
  PROVE  Len(Extended) <= BufferMax
<1>1. Len(buf) \in Nat /\ Len(buf) <= BufferMax /\ Len(Extended) = Len(buf) + Len(ReadChunk)
      /\ BufferMax \in Nat /\ Len(Extended) \in Nat
  BY ReadFacts, StreamAssumption DEF IInv, Types, TypeOK
<1>2. CASE ReadChunk = <<>>
  <2>1. Len(ReadChunk) = 0
    BY <1>2
  <2> QED BY <1>1, <2>1
<1>3. CASE ReadChunk # <<>>
  BY <1>1, <1>3 DEF Overflows
<1> QED BY <1>2, <1>3

LEMMA DrainedFacts ==
  ASSUME IInv, Reads, NEW end \in 0 .. Len(Extended)
  PROVE  /\ Drained(Extended, end) \in Seq(Bytes)
         /\ Len(Drained(Extended, end)) = Len(Extended) - end
         /\ Part(Drained(Extended, end), Extended, end)
<1>1. Extended \in Seq(Bytes) /\ Len(Extended) \in Nat /\ end \in Nat /\ end <= Len(Extended)
  BY ReadFacts
<1> QED BY <1>1, SubSeqPart DEF Drained

(* A poll after which the buffer holds the end of what the poll had, and    *)
(* everything on its way is of later frames than those yielded.             *)
LEMMA PollKeeps ==
  ASSUME IInv, Reads, UNCHANGED <<sent, wire, lost, damaged>>,
         skewed' \in BOOLEAN, result' \in {"Nothing", "Overflow", "Frame", "Corrupt"},
         got' \in Seq(1 .. MaxFrames), GotSent',
         buf' \in Seq(Bytes), Len(buf') <= BufferMax,
         NEW first \in Nat, Part(buf', Extended, first),
         ToCome(buf', Len(sent), got'), ToCome(wire, Len(sent), got'),
         \A i \in DOMAIN rx' : ToCome(rx'[i], Len(sent), got')
  PROVE  IInv'
<1>1. /\ Extended \in Seq(Bytes)
      /\ InOrder(Extended) /\ Precedes(Extended, wire)
      /\ rx' \in Seq(Seq(Bytes))
      /\ \A i \in DOMAIN rx' :
           /\ rx'[i] \in Seq(Bytes) /\ Len(rx'[i]) \in 1 .. MaxChunk
           /\ InOrder(rx'[i])
           /\ Precedes(Extended, rx'[i]) /\ Precedes(rx'[i], wire)
      /\ \A i, j \in DOMAIN rx' : i < j => Precedes(rx'[i], rx'[j])
  BY ReadFacts
<1>2. InOrder(buf') /\ \A r : Precedes(Extended, r) => Precedes(buf', r)
  BY <1>1, PartKeeps
<1>3. Types'
  BY <1>1 DEF IInv, Types, TypeOK, Bytes
<1>4. StreamOrdered'
  BY <1>1, <1>2 DEF IInv, StreamOrdered
<1>5. StreamToCome'
  BY DEF StreamToCome
<1> QED BY <1>3, <1>4, <1>5 DEF IInv

LEMMA ExtendFailsKeeps == IInv /\ ExtendFails => IInv'
<1> SUFFICES ASSUME IInv, ExtendFails PROVE IInv'
  OBVIOUS
<1>1. /\ Reads /\ buf' = <<>> /\ result' = "Overflow" /\ skewed' = TRUE
      /\ UNCHANGED <<sent, wire, got, lost, damaged>>
  BY DEF ExtendFails
<1>2. /\ buf' \in Seq(Bytes) /\ Len(buf') <= BufferMax /\ Part(buf', Extended, 0)
      /\ ToCome(buf', Len(sent), got')
  BY <1>1, NothingThere, StreamAssumption DEF Part
<1>3. got' \in Seq(1 .. MaxFrames) /\ GotSent' /\ ToCome(wire, Len(sent), got')
  BY <1>1 DEF IInv, Types, TypeOK, GotSent, StreamToCome
<1>4. \A i \in DOMAIN rx' : ToCome(rx'[i], Len(sent), got')
  BY <1>1, ReadFacts
<1> QED BY <1>1, <1>2, <1>3, <1>4, PollKeeps

(* A poll that yields no frame, whatever it drains. *)
LEMMA NoFrameKeeps ==
  ASSUME IInv, Reads, ReadChunk # <<>> => ~Overflows, NEW end \in 0 .. Len(Extended),
         buf' = Drained(Extended, end), result' \in {"Nothing", "Corrupt"},
         UNCHANGED <<sent, wire, got, lost, history>>
  PROVE  IInv'
<1>1. /\ buf' \in Seq(Bytes) /\ Len(buf') = Len(Extended) - end /\ Part(buf', Extended, end)
      /\ end \in Nat /\ Len(Extended) \in Nat
  BY DrainedFacts, ReadFacts
<1>2. Len(buf') <= BufferMax
  BY <1>1, ExtendedFits, StreamAssumption
<1>3. ToCome(buf', Len(sent), got')
  BY <1>1, ReadFacts, PartKeeps
<1>4. got' \in Seq(1 .. MaxFrames) /\ GotSent' /\ ToCome(wire, Len(sent), got') /\ skewed' \in BOOLEAN
  BY DEF IInv, Types, TypeOK, GotSent, StreamToCome, history
<1>5. \A i \in DOMAIN rx' : ToCome(rx'[i], Len(sent), got')
  BY ReadFacts
<1> QED BY <1>1, <1>2, <1>3, <1>4, <1>5, PollKeeps DEF history

LEMMA PollNothingKeeps == IInv /\ PollNothing => IInv'
<1> SUFFICES ASSUME IInv, PollNothing PROVE IInv'
  OBVIOUS
<1> DEFINE end == Max(Closing(Extended) \cup {0})
<1>1. /\ Reads /\ (ReadChunk # <<>> => ~Overflows)
      /\ buf' = Drained(Extended, end) /\ result' = "Nothing"
      /\ UNCHANGED <<sent, wire, got, lost, history>>
  BY DEF PollNothing
<1>2. Extended \in Seq(Bytes)
  BY <1>1, ReadFacts
<1>3. end \in 0 .. Len(Extended)
  BY <1>2, ClosingMax
<1> HIDE DEF end
<1> QED BY <1>1, <1>3, NoFrameKeeps

(* What comes after the last byte of frame n is of later frames. *)
LEMMA LaterThan ==
  ASSUME NEW t \in Seq(Bytes), NEW m, NEW n \in Nat, ToCome(t, m, got),
         NEW g, got \in Seq(1 .. MaxFrames), g = Append(got, n),
         \A j \in DOMAIN t : Before(<<n, ContentBytes>>, t[j])
  PROVE  ToCome(t, m, g)
<1> SUFFICES ASSUME NEW i \in DOMAIN t, t[i][2] > 0, NEW k \in DOMAIN g
             PROVE  g[k] < t[i][1]
  BY DEF ToCome
<1>1. t[i] \in Bytes
  OBVIOUS
<1>2. t[i][1] \in Nat /\ t[i][2] \in 0 .. ContentBytes
  BY <1>1, StreamAssumption DEF Bytes
<1>3. n < t[i][1]
  BY <1>2, StreamAssumption DEF Before
<1>4. (k \in DOMAIN got /\ g[k] = got[k]) \/ g[k] = n
  BY AppendProperties
<1>5. \A j \in DOMAIN got : got[j] < t[i][1]
  BY DEF ToCome
<1> QED BY <1>3, <1>4, <1>5

(* The frame next_frame yields is later than every one yielded before, was  *)
(* sent, and its last byte precedes all that is still to be read.           *)
LEMMA FrameFacts ==
  ASSUME IInv, Reads, Ends(Extended) # {}, NEW n, FrameContent(Extended) = Content(n)
  PROVE  /\ n \in 1 .. Len(sent) /\ n \in 1 .. MaxFrames
         /\ \A k \in DOMAIN got : got[k] < n
         /\ \A j \in DOMAIN Extended :
              FrameEnd(Extended) - 1 < j => Before(<<n, ContentBytes>>, Extended[j])
         /\ \A r : Precedes(Extended, r) =>
              \A j \in DOMAIN r : Before(<<n, ContentBytes>>, r[j])
<1>1. Extended \in Seq(Bytes) /\ InOrder(Extended) /\ ToCome(Extended, Len(sent), got)
  BY ReadFacts
<1> DEFINE last == FrameEnd(Extended) - 1
<1>2. last \in DOMAIN Extended /\ Extended[last] = <<n, ContentBytes>> /\ n \in 1 .. MaxFrames
  BY <1>1, ContentPlace
<1> HIDE DEF last
<1>3. <<n, ContentBytes>>[1] = n /\ <<n, ContentBytes>>[2] = ContentBytes
  OBVIOUS
<1>4. n <= Len(sent) /\ \A k \in DOMAIN got : got[k] < n
  BY <1>1, <1>2, <1>3, StreamAssumption DEF ToCome
<1>5. Len(sent) \in Nat
  BY StreamAssumption DEF IInv, Types
<1>6. \A j \in DOMAIN Extended : last < j => Before(<<n, ContentBytes>>, Extended[j])
  BY <1>1, <1>2 DEF InOrder
<1>7. \A r : Precedes(Extended, r) => \A j \in DOMAIN r : Before(<<n, ContentBytes>>, r[j])
  BY <1>2 DEF Precedes
<1> QED BY <1>2, <1>4, <1>5, <1>6, <1>7 DEF last

LEMMA CorruptKeeps ==
  ASSUME IInv, Reads, ReadChunk # <<>> => ~Overflows, Ends(Extended) # {},
         buf' = Drained(Extended, FrameEnd(Extended)), result' = "Corrupt",
         UNCHANGED <<sent, wire, got, lost, history>>
  PROVE  IInv'
<1>1. Extended \in Seq(Bytes)
  BY ReadFacts
<1>2. FrameEnd(Extended) \in 1 .. Len(Extended)
  BY <1>1, FramePlace
<1>3. FrameEnd(Extended) \in 0 .. Len(Extended)
  BY <1>2
<1> QED BY <1>3, NoFrameKeeps

LEMMA FrameKeeps ==
  ASSUME IInv, Reads, ReadChunk # <<>> => ~Overflows, Ends(Extended) # {},
         buf' = Drained(Extended, FrameEnd(Extended)), result' = "Frame",
         NEW n, FrameContent(Extended) = Content(n), got' = Append(got, n),
         UNCHANGED <<sent, wire, lost, history>>
  PROVE  IInv'
<1> DEFINE end == FrameEnd(Extended)
<1>1. /\ Extended \in Seq(Bytes) /\ Precedes(Extended, wire)
      /\ ToCome(Extended, Len(sent), got) /\ ToCome(wire, Len(sent), got)
      /\ \A i \in DOMAIN rx' :
           rx'[i] \in Seq(Bytes) /\ ToCome(rx'[i], Len(sent), got) /\ Precedes(Extended, rx'[i])
      /\ wire \in Seq(Bytes) /\ got \in Seq(1 .. MaxFrames)
  BY ReadFacts DEF IInv, Types, TypeOK, StreamToCome, Bytes
<1>2. end \in 1 .. Len(Extended) /\ Len(Extended) \in Nat
  BY <1>1, FramePlace
<1>3. /\ n \in 1 .. Len(sent) /\ n \in 1 .. MaxFrames
      /\ \A j \in DOMAIN Extended : end - 1 < j => Before(<<n, ContentBytes>>, Extended[j])
      /\ \A r : Precedes(Extended, r) => \A j \in DOMAIN r : Before(<<n, ContentBytes>>, r[j])
  BY FrameFacts
<1> HIDE DEF end
<1>4. end \in 0 .. Len(Extended) /\ end \in Nat /\ n \in Nat
  BY <1>2, <1>3
<1>5. buf' \in Seq(Bytes) /\ Len(buf') = Len(Extended) - end /\ Part(buf', Extended, end)
  BY <1>4, DrainedFacts DEF end
<1>6. Len(buf') <= BufferMax
  BY <1>2, <1>4, <1>5, ExtendedFits, StreamAssumption
<1>7. \A j \in DOMAIN buf' : Before(<<n, ContentBytes>>, buf'[j])
  <2> SUFFICES ASSUME NEW j \in DOMAIN buf' PROVE Before(<<n, ContentBytes>>, buf'[j])
    OBVIOUS
  <2>1. j \in Nat /\ end + j \in DOMAIN Extended /\ buf'[j] = Extended[end + j]
    BY <1>5 DEF Part
  <2>2. end - 1 < end + j
    BY <1>4, <2>1
  <2> QED BY <1>3, <2>1, <2>2
<1>8. ToCome(buf', Len(sent), got)
  BY <1>1, <1>4, <1>5, PartKeeps
<1>9. ToCome(buf', Len(sent), got')
  BY <1>1, <1>4, <1>5, <1>7, <1>8, LaterThan
<1>10. ToCome(wire, Len(sent), got')
  BY <1>1, <1>3, <1>4, LaterThan
<1>11. \A i \in DOMAIN rx' : ToCome(rx'[i], Len(sent), got')
  <2> SUFFICES ASSUME NEW i \in DOMAIN rx' PROVE ToCome(rx'[i], Len(sent), got')
    OBVIOUS
  <2>1. rx'[i] \in Seq(Bytes) /\ ToCome(rx'[i], Len(sent), got)
        /\ \A j \in DOMAIN rx'[i] : Before(<<n, ContentBytes>>, rx'[i][j])
    BY <1>1, <1>3
  <2> QED BY <1>1, <1>4, <2>1, LaterThan
<1>12. got' \in Seq(1 .. MaxFrames) /\ GotSent'
  <2>1. got' \in Seq(1 .. MaxFrames)
    BY <1>1, <1>3
  <2>2. \A k \in DOMAIN got' : got'[k] <= Len(sent)
    <3>1. \A k \in DOMAIN got' : (k \in DOMAIN got /\ got'[k] = got[k]) \/ got'[k] = n
      BY <1>1, <1>4, AppendProperties
    <3>2. n <= Len(sent)
      BY <1>3
    <3> QED BY <3>1, <3>2, GotNumbers
  <2> QED BY <2>1, <2>2 DEF GotSent
<1>13. UNCHANGED <<sent, wire, lost, damaged>> /\ skewed' \in BOOLEAN
  BY DEF history, IInv, Types, TypeOK
<1> QED BY <1>4, <1>5, <1>6, <1>9, <1>10, <1>11, <1>12, <1>13, PollKeeps

LEMMA PollFrameKeeps == IInv /\ PollFrame => IInv'
<1> SUFFICES ASSUME IInv, PollFrame PROVE IInv'
  OBVIOUS
<1> DEFINE n == FrameContent(Extended)[1][1]
<1>1. /\ Reads /\ (ReadChunk # <<>> => ~Overflows) /\ Ends(Extended) # {}
      /\ buf' = Drained(Extended, FrameEnd(Extended))
      /\ UNCHANGED <<sent, wire, lost, history>>
  BY DEF PollFrame
<1>2. \/ FrameContent(Extended) = Content(n) /\ got' = Append(got, n) /\ result' = "Frame"
      \/ result' = "Corrupt" /\ UNCHANGED got
  BY DEF PollFrame
<1> HIDE DEF n
<1>3. CASE FrameContent(Extended) = Content(n) /\ got' = Append(got, n) /\ result' = "Frame"
  BY <1>1, <1>3, FrameKeeps
<1>4. CASE result' = "Corrupt" /\ UNCHANGED got
  BY <1>1, <1>4, CorruptKeeps
<1> QED BY <1>2, <1>3, <1>4

LEMMA StepIInv == IInv /\ [Next]_vars => IInv'
<1> SUFFICES ASSUME IInv, [Next]_vars PROVE IInv'
  OBVIOUS
<1>1. CASE Send
  BY <1>1, SendKeeps
<1>2. ASSUME NEW k \in 1 .. MaxChunk, Notify(k) PROVE IInv'
  BY <1>2, NotifyKeeps
<1>3. ASSUME NEW k \in 1 .. MaxChunk, Lose(k) PROVE IInv'
  BY <1>3, LoseKeeps
<1>4. CASE Poll
  BY <1>4, ExtendFailsKeeps, PollNothingKeeps, PollFrameKeeps DEF Poll
<1>5. CASE UNCHANGED vars
  <2>1. UNCHANGED <<sent, wire, rx, buf, result, got, lost, damaged, skewed>>
    BY <1>5 DEF vars, history
  <2>2. Types'
    BY <2>1 DEF IInv, Types, TypeOK, Bytes
  <2>3. (StreamOrdered /\ StreamToCome /\ GotSent)'
    BY <2>1 DEF IInv, StreamOrdered, StreamToCome, GotSent
  <2> QED BY <2>2, <2>3 DEF IInv
<1> QED BY <1>1, <1>2, <1>3, <1>4, <1>5 DEF Next

LEMMA Invariant == Spec => []IInv
<1>1. Init => IInv
  BY InitIInv
<1>2. IInv /\ [Next]_vars => IInv'
  BY StepIInv
<1> QED BY <1>1, <1>2, PTL DEF Spec

-----------------------------------------------------------------------------
(* StreamBuffer's variables keep their types, and its buffer never passes   *)
(* STREAM_BUFFER_MAX.                                                       *)
THEOREM TypeCorrect == Spec => []TypeOK
<1>1. IInv => TypeOK
  BY DEF IInv, Types
<1> QED BY <1>1, Invariant, PTL

-----------------------------------------------------------------------------
(* next_frame is the ordered feed of OrderedFeed: what the device sends is  *)
(* offered, what next_frame yields is delivered.                            *)

LEMMA FeedInit == Init => Feed!Init
  BY DEF Init, Feed!Init

LEMMA SendOffers == IInv /\ Send => Feed!Next
<1> SUFFICES ASSUME IInv, Send PROVE Feed!Next
  OBVIOUS
<1> DEFINE n == Len(sent) + 1
<1>1. /\ sent = [i \in 1 .. Len(sent) |-> i] /\ Len(sent) \in Nat
      /\ n \in 1 .. MaxFrames /\ sent' = Append(sent, n) /\ UNCHANGED got
  BY StreamAssumption DEF IInv, Types, TypeOK, Send
<1>2. \A i \in DOMAIN sent : sent[i] # n
  BY <1>1
<1>3. Feed!Offer(n)
  <2> HIDE DEF n
  <2> QED BY <1>1, <1>2 DEF Feed!Offer
<1> QED BY <1>1, <1>3 DEF Feed!Next

LEMMA FrameDelivers ==
  ASSUME IInv, Reads, Ends(Extended) # {}, NEW n, FrameContent(Extended) = Content(n),
         got' = Append(got, n), UNCHANGED sent
  PROVE  Feed!Next
<1>1. n \in 1 .. Len(sent) /\ \A k \in DOMAIN got : got[k] < n
  BY FrameFacts
<1>2. sent = [i \in 1 .. Len(sent) |-> i] /\ Len(sent) \in Nat
  BY DEF IInv, Types, TypeOK
<1>3. sent[n] = n /\ n \in DOMAIN sent
  BY <1>1, <1>2
<1>4. \A j \in n .. Len(sent), k \in DOMAIN got : sent[j] # got[k]
  <2> SUFFICES ASSUME NEW j \in n .. Len(sent), NEW k \in DOMAIN got PROVE sent[j] # got[k]
    OBVIOUS
  <2>1. sent[j] = j /\ j >= n
    BY <1>1, <1>2
  <2>2. got[k] < n /\ got[k] \in Nat /\ n \in Nat /\ j \in Nat
    BY <1>1, <1>2, GotNumbers
  <2> QED BY <2>1, <2>2
<1>5. Feed!Deliver(n)
  BY <1>3, <1>4 DEF Feed!Deliver
<1> QED BY <1>3, <1>5 DEF Feed!Next, Feed!Delivers

LEMMA FeedStep == IInv /\ [Next]_vars => [Feed!Next]_(Feed!feed)
<1> SUFFICES ASSUME IInv, [Next]_vars PROVE Feed!Next \/ UNCHANGED Feed!feed
  OBVIOUS
<1>1. CASE Send
  BY <1>1, SendOffers
<1>2. CASE PollFrame
  <2> DEFINE n == FrameContent(Extended)[1][1]
  <2>1. Reads /\ Ends(Extended) # {} /\ UNCHANGED sent
    BY <1>2 DEF PollFrame
  <2>2. \/ FrameContent(Extended) = Content(n) /\ got' = Append(got, n)
        \/ UNCHANGED got
    BY <1>2 DEF PollFrame
  <2> HIDE DEF n
  <2>3. CASE FrameContent(Extended) = Content(n) /\ got' = Append(got, n)
    BY <2>1, <2>3, FrameDelivers
  <2>4. CASE UNCHANGED got
    BY <2>1, <2>4 DEF Feed!feed
  <2> QED BY <2>2, <2>3, <2>4
<1>3. ASSUME NEW k \in 1 .. MaxChunk, Notify(k) \/ Lose(k) PROVE UNCHANGED Feed!feed
  BY <1>3 DEF Notify, Lose, Feed!feed
<1>4. CASE ExtendFails \/ PollNothing
  BY <1>4 DEF ExtendFails, PollNothing, Feed!feed
<1>5. CASE UNCHANGED vars
  BY <1>5 DEF vars, Feed!feed
<1> QED BY <1>1, <1>2, <1>3, <1>4, <1>5 DEF Next, Poll

(* StreamBuffer implements the ordered feed: whatever notifications are     *)
(* lost, however they cut the stream, and however often the cap throws the  *)
(* buffer away, no frame is yielded twice, out of order, or unsent.         *)
THEOREM YieldsInOrder == Spec => FramesInOrder
<1>1. Init => Feed!Init
  BY FeedInit
<1>2. IInv /\ [Next]_vars => [Feed!Next]_(Feed!feed)
  BY FeedStep
<1> QED BY <1>1, <1>2, Invariant, PTL DEF Spec, FramesInOrder, Feed!Safety
===============================================================================
