--------------------------- MODULE R10Session_proofs ---------------------------
(***************************************************************************)
(* Proofs about a session of R10Client with an R10, for any shots, any     *)
(* number of the R10's troubles, any chunks and any bounds.                *)
(***************************************************************************)
EXTENDS R10Session, FiniteSetTheorems, SequenceTheorems, TLAPS

(* A queue of frames in each direction.  Reading bytes into the buffer does *)
(* not change what is inbound.                                              *)
FramesOf(items) == [i \in DOMAIN items |-> items[i].frame]
Inbound == streamBuf \o FramesOf(rx)
Outbound == FramesOf(tx)

(* What the R10 sends in a session, and what the client writes.             *)
SentFrames ==
  {DeviceInfo(FALSE), Configuration, AckOf("Configuration", 0), AckOf("ProtobufRequest", 0),
   Result("SubscribeResult", TRUE), Result("EnvironmentResult", TRUE)}
  \cup {Fit(type) : type \in FitTypes}
  \cup {WakeResult(status) : status \in 0..2}
  \cup {StateChange(state) : state \in DeviceStates}
  \cup {Shot(id) : id \in ShotIds}

Protobufs ==
  {Result("SubscribeResult", TRUE), Result("EnvironmentResult", TRUE)}
  \cup {WakeResult(status) : status \in 0..2}
  \cup {StateChange(state) : state \in DeviceStates}
  \cup {Shot(id) : id \in ShotIds}

RequestsOf(body) == {Request(body, id) : id \in 0 .. ReqIds - 1}

WrittenFrames ==
  {HostCaps}
  \cup {Ack(of) : of \in {"DeviceInfo", "Configuration"} \cup FitTypes \cup Requests}
  \cup RequestsOf("Subscribe") \cup RequestsOf("Wake") \cup RequestsOf("Environment")

SentItems == [handle : {SessionHandle}, frame : SentFrames]
Registered == [handle |-> 0, frame |-> RegisterResponse("Success", SessionHandle)]
Info == [handle |-> SessionHandle, frame |-> DeviceInfo(FALSE)]
EarlyWrites == [handle : {0}, frame : {Register} \cup RequestsOf("Environment")]
SessionWrites == [handle : {SessionHandle}, frame : WrittenFrames]

Types ==
  /\ phase \in Phases
  /\ reqId \in 0 .. ReqIds - 1
  /\ pendingEvent \in {None, "Ready"}
  /\ streamBuf \in Seq(SentFrames)
  /\ tx \in Seq(EarlyWrites \cup SessionWrites)
  /\ unacked \in Seq(Protobufs)
  /\ stage \in {"Off", "Registered", "Identified", "Session", "Subscribed"}
  /\ devState \in DeviceStates
  /\ woken \in BOOLEAN
  /\ wakeFails \in Nat
  /\ faults \in 0 .. MaxWriteFaults

(* Until the register response is read, nothing else can be lost by reading *)
(* it under handle 0: the R10 has sent the device information behind it and *)
(* is told nothing that it would answer.                                    *)
Registration ==
  /\ phase = "Registering" =>
       /\ handle = 0 /\ streamBuf = <<>> /\ unacked = <<>>
       /\ tx \in Seq(EarlyWrites)
       /\ \/ stage = "Off" /\ rx = <<>>
          \/ stage = "Registered" /\ rx = <<Registered, Info>>
  /\ phase # "Registering" =>
       handle = SessionHandle /\ rx \in Seq(SentItems) /\ stage # "Off"
  /\ result.event = "New" => stage = "Off" /\ tx = <<>>

Count(s, S) == Cardinality({i \in DOMAIN s : s[i] \in S})

(* The frames that carry the handshake on, and those that lead to a wake    *)
(* command.                                                                 *)
Underway(S, R) == Count(Inbound, S) + Count(Outbound, R)

InfoSteps == Underway({DeviceInfo(FALSE)}, {Ack("DeviceInfo")})
ConfigSteps == Underway({Configuration}, {HostCaps})
CapsAccepted == AckOf("Configuration", 0)
SubscribeSteps == Underway({CapsAccepted}, RequestsOf("Subscribe"))
SubscribeOk == Result("SubscribeResult", TRUE)
WakeCauses == {StateChange("Standby"), SubscribeOk}
WakeSteps == Underway(WakeCauses, RequestsOf("Wake"))
RegisterSteps == Underway({}, {Register})
Steps == RegisterSteps + InfoSteps + ConfigSteps + SubscribeSteps

Handshake ==
  /\ Steps <= 1
  /\ RegisterSteps > 0 => stage = "Off"
  /\ InfoSteps > 0 => stage = "Registered"
  /\ ConfigSteps > 0 => stage \in {"Identified", "Session"}
  /\ SubscribeSteps > 0 => stage = "Session"
  /\ WakeSteps > 0 => stage \in {"Session", "Subscribed"}

-----------------------------------------------------------------------------
(* Counting the frames of a queue. *)

LEMMA CountFinite ==
  ASSUME NEW T, NEW s \in Seq(T), NEW S
  PROVE  /\ IsFiniteSet({i \in DOMAIN s : s[i] \in S})
         /\ Cardinality({i \in DOMAIN s : s[i] \in S}) \in Nat
<1> DEFINE In == {i \in DOMAIN s : s[i] \in S}
<1>1. IsFiniteSet(1 .. Len(s)) /\ In \subseteq 1 .. Len(s)
  BY FS_Interval
<1>2. IsFiniteSet(In)
  BY <1>1, FS_Subset
<1> QED BY <1>2, FS_CardinalityType

LEMMA CountConcat ==
  ASSUME NEW T, NEW s \in Seq(T), NEW t \in Seq(T), NEW S
  PROVE  /\ Count(s, S) \in Nat
         /\ Count(s \o t, S) = Count(s, S) + Count(t, S)
<1> DEFINE In(r) == {i \in DOMAIN r : r[i] \in S}
           u == s \o t
           shift == [i \in In(t) |-> Len(s) + i]
           Moved == {Len(s) + i : i \in In(t)}
<1>1. /\ u \in Seq(T) /\ Len(u) = Len(s) + Len(t) /\ Len(s) \in Nat /\ Len(t) \in Nat
      /\ DOMAIN s = 1 .. Len(s) /\ DOMAIN t = 1 .. Len(t) /\ DOMAIN u = 1 .. Len(s) + Len(t)
      /\ \A i \in 1 .. Len(s) + Len(t) : u[i] = IF i <= Len(s) THEN s[i] ELSE t[i - Len(s)]
  BY ConcatProperties
<1> HIDE DEF u
<1>2. /\ IsFiniteSet(In(s)) /\ Cardinality(In(s)) \in Nat
      /\ IsFiniteSet(In(t)) /\ Cardinality(In(t)) \in Nat
  BY CountFinite
<1>3. In(u) = In(s) \cup Moved
  <2>1. \A i \in In(u) : i \in In(s) \cup Moved
    <3> SUFFICES ASSUME NEW i \in In(u), ~(i \in In(s)) PROVE i \in Moved
      OBVIOUS
    <3>1. i > Len(s) /\ i - Len(s) \in DOMAIN t /\ t[i - Len(s)] \in S /\ i = Len(s) + (i - Len(s))
      BY <1>1
    <3> QED BY <3>1
  <2>2. \A i \in In(s) : i \in In(u)
    BY <1>1
  <2>3. \A i \in In(t) : Len(s) + i \in In(u)
    <3> SUFFICES ASSUME NEW i \in In(t) PROVE Len(s) + i \in In(u)
      OBVIOUS
    <3>1. Len(s) + i \in DOMAIN u /\ ~(Len(s) + i <= Len(s)) /\ Len(s) + i - Len(s) = i
      BY <1>1
    <3> QED BY <1>1, <3>1
  <2> QED BY <2>1, <2>2, <2>3
<1>4. In(s) \cap Moved = {}
  BY <1>1
<1>5. IsFiniteSet(Moved) /\ Cardinality(Moved) = Cardinality(In(t))
  <2>1. shift \in Bijection(In(t), Moved)
    <3>1. \A i, j \in In(t) : Len(s) + i = Len(s) + j => i = j
      BY <1>1
    <3> QED BY <3>1 DEF Bijection, Injection, Surjection, IsInjective
  <2> QED BY <1>2, <2>1, FS_Bijection DEF ExistsBijection
<1>6. Cardinality(In(u)) = Cardinality(In(s)) + Cardinality(Moved)
  <2> HIDE DEF In, Moved
  <2>1. Cardinality(In(s) \cap Moved) = 0
    BY <1>4, FS_EmptySet
  <2>2. Cardinality(In(s) \cup Moved)
          = Cardinality(In(s)) + Cardinality(Moved) - Cardinality(In(s) \cap Moved)
    BY <1>2, <1>5, FS_Union
  <2> QED BY <1>2, <1>3, <1>5, <2>1, <2>2
<1> QED BY <1>2, <1>5, <1>6 DEF Count, u

LEMMA CountOne ==
  ASSUME NEW x, NEW S
  PROVE  Count(<<x>>, S) = IF x \in S THEN 1 ELSE 0
<1> DEFINE In == {i \in DOMAIN <<x>> : <<x>>[i] \in S}
<1>1. In = IF x \in S THEN {1} ELSE {}
  OBVIOUS
<1>2. Cardinality({1}) = 1 /\ Cardinality({}) = 0
  BY FS_Singleton, FS_EmptySet
<1> HIDE DEF In
<1>3. Cardinality(In) = IF x \in S THEN 1 ELSE 0
  BY <1>1, <1>2
<1> QED BY <1>3 DEF Count, In

LEMMA CountNone ==
  ASSUME NEW S PROVE Count(<<>>, S) = 0
<1>1. {i \in DOMAIN <<>> : <<>>[i] \in S} = {}
  OBVIOUS
<1> QED BY <1>1, FS_EmptySet, Zenon DEF Count

LEMMA CountTail ==
  ASSUME NEW T, NEW s \in Seq(T), s # <<>>, NEW S
  PROVE  Count(s, S) = (IF Head(s) \in S THEN 1 ELSE 0) + Count(Tail(s), S)
<1>1. s = <<Head(s)>> \o Tail(s) /\ <<Head(s)>> \in Seq(T) /\ Tail(s) \in Seq(T)
  OBVIOUS
<1>2. Count(<<Head(s)>> \o Tail(s), S) = Count(<<Head(s)>>, S) + Count(Tail(s), S)
  BY <1>1, CountConcat
<1>3. Count(<<Head(s)>>, S) = IF Head(s) \in S THEN 1 ELSE 0
  BY CountOne
<1> QED BY <1>1, <1>2, <1>3, Zenon

LEMMA CountSome ==
  ASSUME NEW T, NEW s \in Seq(T), NEW S
  PROVE  (Count(s, S) > 0) <=> \E i \in DOMAIN s : s[i] \in S
<1> DEFINE In == {i \in DOMAIN s : s[i] \in S}
<1>1. IsFiniteSet(In) /\ Cardinality(In) \in Nat
  BY CountFinite
<1>2. Cardinality(In) = 0 <=> In = {}
  <2> HIDE DEF In
  <2> QED BY <1>1, FS_EmptySet
<1>3. Count(s, S) = Cardinality(In)
  BY DEF Count
<1>4. In # {} <=> \E i \in DOMAIN s : s[i] \in S
  OBVIOUS
<1> HIDE DEF In
<1> QED BY <1>1, <1>2, <1>3, <1>4

-----------------------------------------------------------------------------
(* The frames of a queue of items. *)

LEMMA FramesOfFacts ==
  ASSUME NEW I, NEW F, \A x \in I : x.frame \in F, NEW s \in Seq(I)
  PROVE  /\ FramesOf(s) \in Seq(F) /\ Len(FramesOf(s)) = Len(s)
         /\ \A i \in DOMAIN s : FramesOf(s)[i] = s[i].frame
         /\ s # <<>> =>
              /\ FramesOf(s) # <<>>
              /\ Head(FramesOf(s)) = Head(s).frame
              /\ FramesOf(Tail(s)) = Tail(FramesOf(s))
<1> DEFINE f == FramesOf(s)
<1>1. Len(s) \in Nat /\ DOMAIN s = 1 .. Len(s) /\ \A i \in 1 .. Len(s) : s[i] \in I
  OBVIOUS
<1>2. f = [i \in 1 .. Len(s) |-> s[i].frame]
  BY <1>1 DEF FramesOf
<1>3. f \in Seq(F) /\ Len(f) = Len(s) /\ \A i \in DOMAIN s : f[i] = s[i].frame
  BY <1>1, <1>2
<1>4. ASSUME s # <<>>
      PROVE  f # <<>> /\ Head(f) = Head(s).frame /\ FramesOf(Tail(s)) = Tail(f)
  <2> DEFINE r == Tail(s)
             g == FramesOf(r)
  <2>1. /\ r \in Seq(I) /\ Len(r) = Len(s) - 1 /\ Len(s) > 0 /\ Head(s) = s[1]
        /\ \A i \in 1 .. Len(r) : r[i] = s[i + 1]
    BY <1>4
  <2> HIDE DEF r
  <2>2. g = [i \in 1 .. Len(r) |-> r[i].frame]
    BY <2>1 DEF FramesOf
  <2>3. g \in Seq(F) /\ Len(g) = Len(r) /\ \A i \in 1 .. Len(r) : g[i] = r[i].frame
    <3>1. \A i \in 1 .. Len(r) : r[i] \in I
      BY <2>1
    <3> QED BY <1>1, <2>1, <2>2, <3>1
  <2> HIDE DEF f, g
  <2>4. /\ f # <<>> /\ Head(f) = f[1] /\ Tail(f) \in Seq(F) /\ Len(Tail(f)) = Len(s) - 1
        /\ \A i \in 1 .. Len(s) - 1 : Tail(f)[i] = f[i + 1]
    BY <1>1, <1>3, <2>1
  <2>5. \A i \in 1 .. Len(s) - 1 : g[i] = Tail(f)[i]
    <3> SUFFICES ASSUME NEW i \in 1 .. Len(s) - 1 PROVE g[i] = Tail(f)[i]
      OBVIOUS
    <3>1. i + 1 \in DOMAIN s
      BY <1>1
    <3> QED BY <1>3, <2>1, <2>3, <2>4, <3>1
  <2>6. g = Tail(f)
    BY <2>1, <2>3, <2>4, <2>5, SeqEqual
  <2>7. Head(f) = Head(s).frame
    BY <1>1, <1>3, <2>1, <2>4
  <2> QED BY <2>4, <2>6, <2>7 DEF g, r
<1> QED BY <1>3, <1>4

LEMMA FramesOfConcat ==
  ASSUME NEW I, NEW s \in Seq(I), NEW t \in Seq(I)
  PROVE  FramesOf(s \o t) = FramesOf(s) \o FramesOf(t)
<1> DEFINE F == {x.frame : x \in I}
           u == s \o t
           f == FramesOf(s)
           g == FramesOf(t)
           h == FramesOf(u)
<1>1. u \in Seq(I) /\ Len(u) = Len(s) + Len(t) /\ Len(s) \in Nat /\ Len(t) \in Nat
      /\ DOMAIN u = 1 .. Len(s) + Len(t) /\ DOMAIN s = 1 .. Len(s) /\ DOMAIN t = 1 .. Len(t)
      /\ \A i \in 1 .. Len(s) + Len(t) : u[i] = IF i <= Len(s) THEN s[i] ELSE t[i - Len(s)]
  BY ConcatProperties
<1>2. \A x \in I : x.frame \in F
  OBVIOUS
<1> HIDE DEF u, F
<1>3. /\ f \in Seq(F) /\ Len(f) = Len(s) /\ \A i \in DOMAIN s : f[i] = s[i].frame
      /\ g \in Seq(F) /\ Len(g) = Len(t) /\ \A i \in DOMAIN t : g[i] = t[i].frame
      /\ h \in Seq(F) /\ Len(h) = Len(u) /\ \A i \in DOMAIN u : h[i] = u[i].frame
  BY <1>1, <1>2, FramesOfFacts
<1> HIDE DEF f, g, h
<1>4. /\ f \o g \in Seq(F) /\ Len(f \o g) = Len(s) + Len(t)
      /\ \A i \in 1 .. Len(s) + Len(t) : (f \o g)[i] = IF i <= Len(s) THEN f[i] ELSE g[i - Len(s)]
  <2>1. f \in Seq(F) /\ g \in Seq(F)
    BY <1>3
  <2>2. f \o g \in Seq(F)
    BY <2>1
  <2>3. /\ Len(f \o g) = Len(f) + Len(g)
        /\ \A i \in 1 .. Len(f) + Len(g) :
             (f \o g)[i] = IF i <= Len(f) THEN f[i] ELSE g[i - Len(f)]
    BY <2>1, ConcatProperties
  <2> QED BY <1>3, <2>2, <2>3
<1>5. \A i \in 1 .. Len(h) : h[i] = (f \o g)[i]
  <2> SUFFICES ASSUME NEW i \in 1 .. Len(h) PROVE h[i] = (f \o g)[i]
    OBVIOUS
  <2>1. i \in DOMAIN u /\ h[i] = u[i].frame
    BY <1>1, <1>3
  <2>2. CASE i <= Len(s)
    BY <1>1, <1>3, <1>4, <2>1, <2>2
  <2>3. CASE i > Len(s)
    <3>1. i - Len(s) \in DOMAIN t /\ u[i] = t[i - Len(s)] /\ (f \o g)[i] = g[i - Len(s)]
      BY <1>1, <1>4, <2>1, <2>3
    <3> QED BY <1>3, <2>1, <3>1
  <2>4. i <= Len(s) \/ i > Len(s)
    BY <1>1, <1>3
  <2> QED BY <2>2, <2>3, <2>4
<1>6. h = f \o g
  BY <1>1, <1>3, <1>4, <1>5, SeqEqual
<1> QED BY <1>6 DEF f, g, h, u

LEMMA TailOfConcat ==
  ASSUME NEW T, NEW s \in Seq(T), NEW t \in Seq(T), s # <<>>
  PROVE  /\ s \o t \in Seq(T) /\ s \o t # <<>>
         /\ Head(s \o t) = Head(s) /\ Tail(s \o t) = Tail(s) \o t
<1> DEFINE first == <<Head(s)>>
           rest == Tail(s) \o t
<1>1. s = first \o Tail(s) /\ first \in Seq(T) /\ Tail(s) \in Seq(T)
  OBVIOUS
<1>2. s \o t = first \o rest
  <2> HIDE DEF first
  <2>1. (first \o Tail(s)) \o t = first \o (Tail(s) \o t)
    BY <1>1, ConcatAssociative
  <2> QED BY <1>1, <2>1, Zenon
<1>3. rest \in Seq(T) /\ s \o t \in Seq(T)
  BY <1>1
<1> HIDE DEF rest
<1>4. first \o rest # <<>> /\ Head(first \o rest) = Head(s) /\ Tail(first \o rest) = rest
  <2>1. Head(s) \in T
    OBVIOUS
  <2> QED BY <1>3, <2>1
<1> QED BY <1>2, <1>3, <1>4, Zenon DEF rest

-----------------------------------------------------------------------------
(* The two queues of a session. *)

Response == RegisterResponse("Success", SessionHandle)
InFrames == SentFrames \cup {Response}
OutFrames == WrittenFrames \cup {Register}
Items == SentItems \cup {Registered}
Writes == EarlyWrites \cup SessionWrites

LEMMA RxItems == Registration => rx \in Seq(Items)
<1> SUFFICES ASSUME Registration PROVE rx \in Seq(Items)
  OBVIOUS
<1>1. CASE phase # "Registering"
  <2>1. rx \in Seq(SentItems)
    BY <1>1 DEF Registration
  <2> QED BY <2>1 DEF Items
<1>2. CASE phase = "Registering"
  <2>1. rx = <<>> \/ rx = <<Registered, Info>>
    BY <1>2 DEF Registration
  <2>2. Registered \in Items /\ Info \in Items
    BY DEF Items, Info, SentItems, SentFrames
  <2>3. <<>> \in Seq(Items) /\ <<Registered, Info>> \in Seq(Items)
    BY <2>2
  <2> QED BY <2>1, <2>3, Zenon
<1> QED BY <1>1, <1>2

LEMMA ItemFrames ==
  /\ \A item \in SentItems : item.frame \in SentFrames
  /\ \A item \in Items : item.frame \in InFrames
  /\ \A item \in EarlyWrites : item.handle = 0 /\ item.frame \in OutFrames
  /\ \A item \in SessionWrites : item.handle = SessionHandle /\ item.frame \in WrittenFrames
  /\ \A item \in Writes : item.frame \in OutFrames
<1>1. \A item \in SentItems : item.frame \in SentFrames
  BY DEF SentItems
<1>2. Registered.frame = Response
  BY DEF Registered, Response
<1>3. \A item \in EarlyWrites : item.handle = 0 /\ item.frame \in OutFrames
  BY DEF EarlyWrites, OutFrames, WrittenFrames
<1>4. \A item \in SessionWrites : item.handle = SessionHandle /\ item.frame \in WrittenFrames
  BY DEF SessionWrites
<1> QED BY <1>1, <1>2, <1>3, <1>4 DEF Items, InFrames, Writes, OutFrames

LEMMA Queues ==
  ASSUME Types, Registration
  PROVE  /\ Inbound \in Seq(InFrames) /\ Outbound \in Seq(OutFrames)
         /\ phase # "Registering" => Inbound \in Seq(SentFrames)
         /\ FramesOf(rx) \in Seq(InFrames) /\ streamBuf \in Seq(InFrames)
<1>1. FramesOf(rx) \in Seq(InFrames)
  BY RxItems, ItemFrames, FramesOfFacts
<1>2. streamBuf \in Seq(SentFrames) /\ streamBuf \in Seq(InFrames)
  BY DEF Types, InFrames
<1>3. Inbound \in Seq(InFrames)
  BY <1>1, <1>2 DEF Inbound
<1>4. Outbound \in Seq(OutFrames)
  <2>1. tx \in Seq(Writes)
    BY DEF Types, Writes
  <2> QED BY <2>1, ItemFrames, FramesOfFacts DEF Outbound
<1>5. ASSUME phase # "Registering" PROVE Inbound \in Seq(SentFrames)
  <2>1. rx \in Seq(SentItems)
    BY <1>5 DEF Registration
  <2>2. FramesOf(rx) \in Seq(SentFrames)
    BY <2>1, ItemFrames, FramesOfFacts
  <2> QED BY <1>2, <2>2 DEF Inbound
<1> QED BY <1>1, <1>2, <1>3, <1>4, <1>5

(* Reading moves frames from the transport to the buffer and loses none.    *)
LEMMA ReadsInOrder ==
  ASSUME Types, Registration, NEW k \in Nat, Readable(k), phase = "Registering" => k = 0
  PROVE  /\ Buffered(k) \in Seq(SentFrames) /\ Unread(k) \in Seq(Items)
         /\ Inbound = Buffered(k) \o FramesOf(Unread(k))
         /\ Buffered(k) = <<>> => streamBuf = <<>>
         /\ phase = "Registering" => Buffered(k) = <<>> /\ Unread(k) = rx
         /\ phase # "Registering" => Unread(k) \in Seq(SentItems)
<1>1. rx \in Seq(Items) /\ streamBuf \in Seq(SentFrames) /\ Len(rx) \in Nat /\ k <= Len(rx)
  BY RxItems DEF Types, Readable
<1>2. CASE k = 0
  <2>1. SubSeq(rx, 1, k) = <<>> /\ Unread(k) = rx
    <3>1. SubSeq(rx, 1, 0) = <<>>
      BY SubSeqEmpty
    <3>2. SubSeq(rx, 1, Len(rx)) = rx
      BY <1>1, SubSeqFull
    <3> QED BY <1>2, <3>1, <3>2 DEF Unread
  <2>2. StripHandle(<<>>) = <<>>
    BY DEF StripHandle
  <2>3. Buffered(k) = streamBuf
    BY <1>1, <2>1, <2>2, ConcatEmptySeq DEF Buffered
  <2> QED BY <1>1, <2>1, <2>3 DEF Inbound, Registration
<1>3. CASE k # 0
  <2> DEFINE items == SubSeq(rx, 1, k)
  <2>1. phase # "Registering" /\ handle = SessionHandle /\ rx \in Seq(SentItems)
    BY <1>3 DEF Registration
  <2>2. /\ items \in Seq(SentItems) /\ Len(items) = k
        /\ Unread(k) \in Seq(SentItems) /\ items \o Unread(k) = rx
    <3>1. \A i \in 1 .. Len(rx) : rx[i] \in SentItems
      BY <2>1
    <3>2. items \in Seq(SentItems) /\ Len(items) = k
      BY <1>1, <1>3, <3>1, SubSeqProperties
    <3>3. Unread(k) \in Seq(SentItems)
      BY <1>1, <1>3, <3>1, SubSeqProperties DEF Unread
    <3>4. 1 \in 1 .. Len(rx) + 1 /\ k \in 1 - 1 .. Len(rx) /\ Len(rx) \in k .. Len(rx)
      BY <1>1
    <3>5. SubSeq(rx, 1, k) \o SubSeq(rx, k + 1, Len(rx)) = SubSeq(rx, 1, Len(rx))
      BY <1>1, <3>4, ConcatAdjacentSubSeq
    <3> QED BY <1>1, <3>2, <3>3, <3>5, SubSeqFull DEF Unread
  <2> HIDE DEF items
  <2>3. StripHandle(items) = FramesOf(items)
    <3>1. items # <<>> /\ items[1].handle = SessionHandle
      <4>1. 1 \in 1 .. Len(items) /\ items[1] \in SentItems
        BY <1>1, <1>3, <2>2
      <4>2. items # <<>>
        BY <4>1
      <4> QED BY <4>1, <4>2 DEF SentItems
    <3>2. \A i \in DOMAIN items : AsData(items[i].frame) = items[i].frame
      <4>1. \A frame \in SentFrames : frame.type # "RegisterResponse"
        BY DEF SentFrames, DeviceInfo, Configuration, AckOf, Result, Fit, WakeResult,
               StateChange, Shot, FitTypes
      <4>2. \A i \in DOMAIN items : items[i].frame \in SentFrames
        BY <2>2, ItemFrames
      <4> QED BY <4>1, <4>2 DEF AsData
    <3>3. Frames(items) = FramesOf(items)
      BY <3>2 DEF Frames, FramesOf
    <3> QED BY <2>1, <3>1, <3>3 DEF StripHandle
  <2>4. /\ FramesOf(items) \in Seq(SentFrames) /\ FramesOf(Unread(k)) \in Seq(SentFrames)
        /\ FramesOf(rx) = FramesOf(items) \o FramesOf(Unread(k))
    <3>1. FramesOf(items \o Unread(k)) = FramesOf(items) \o FramesOf(Unread(k))
      BY <2>2, FramesOfConcat
    <3>2. FramesOf(items) \in Seq(SentFrames) /\ FramesOf(Unread(k)) \in Seq(SentFrames)
      BY <2>2, ItemFrames, FramesOfFacts
    <3> QED BY <2>2, <3>1, <3>2
  <2>5. Buffered(k) = streamBuf \o FramesOf(items)
    BY <2>3 DEF Buffered, items
  <2>6. (streamBuf \o FramesOf(items)) \o FramesOf(Unread(k))
          = streamBuf \o (FramesOf(items) \o FramesOf(Unread(k)))
    BY <1>1, <2>4, ConcatAssociative
  <2>7. Buffered(k) \in Seq(SentFrames)
    BY <1>1, <2>4, <2>5
  <2>8. Unread(k) \in Seq(Items)
    BY <2>2 DEF Items
  <2>9. Inbound = Buffered(k) \o FramesOf(Unread(k))
    BY <2>4, <2>5, <2>6, Zenon DEF Inbound
  <2>10. Buffered(k) = <<>> => streamBuf = <<>>
    <3>1. FramesOf(items) \in Seq(SentFrames) /\ streamBuf \in Seq(SentFrames)
      BY <1>1, <2>4
    <3>2. streamBuf \o FramesOf(items) = <<>> => streamBuf = <<>>
      BY <3>1, ConcatEqualIffEmpty
    <3> QED BY <2>5, <3>2
  <2> QED BY <2>1, <2>2, <2>7, <2>8, <2>9, <2>10
<1> QED BY <1>2, <1>3

-----------------------------------------------------------------------------
(* What the steps do to the queues. *)

LEMMA Dispatched ==
  ASSUME Types, Registration, NEW k \in Nat, NextFrame(k)
  PROVE  /\ phase # "Registering" /\ handle = SessionHandle /\ handle' = handle
         /\ Inbound # <<>> /\ Current(k) = Head(Inbound) /\ Inbound' = Tail(Inbound)
         /\ Current(k) \in SentFrames
         /\ streamBuf' \in Seq(SentFrames) /\ rx' \in Seq(SentItems)
<1>1. /\ Readable(k) /\ (phase = "Registering" => k = 0) /\ Buffered(k) # <<>>
      /\ rx' = Unread(k) /\ streamBuf' = Tail(Buffered(k)) /\ handle' = handle
  BY DEF NextFrame
<1>2. /\ Buffered(k) \in Seq(SentFrames) /\ Unread(k) \in Seq(Items)
      /\ Inbound = Buffered(k) \o FramesOf(Unread(k))
      /\ phase = "Registering" => Buffered(k) = <<>>
      /\ phase # "Registering" => Unread(k) \in Seq(SentItems)
  BY <1>1, ReadsInOrder
<1>3. phase # "Registering"
  BY <1>1, <1>2
<1>4. FramesOf(Unread(k)) \in Seq(SentFrames)
  BY <1>2, <1>3, ItemFrames, FramesOfFacts
<1>5. /\ Inbound # <<>> /\ Head(Inbound) = Head(Buffered(k))
      /\ Tail(Inbound) = Tail(Buffered(k)) \o FramesOf(Unread(k))
  BY <1>1, <1>2, <1>4, TailOfConcat
<1>6. Inbound' = Tail(Inbound)
  BY <1>1, <1>5 DEF Inbound
<1>7. Current(k) = Head(Inbound) /\ Current(k) \in SentFrames /\ streamBuf' \in Seq(SentFrames)
  BY <1>1, <1>2, <1>5 DEF Current
<1> QED BY <1>1, <1>2, <1>3, <1>5, <1>6, <1>7 DEF Registration

LEMMA Idled ==
  ASSUME Types, Registration, NEW k \in Nat, PollIdle(k)
  PROVE  /\ Inbound' = Inbound /\ streamBuf' = streamBuf
         /\ phase = "Registering" => rx' = rx
         /\ phase # "Registering" => rx' \in Seq(SentItems)
<1>1. /\ Readable(k) /\ (phase = "Registering" => k = 0) /\ Buffered(k) = <<>>
      /\ rx' = Unread(k) /\ streamBuf' = streamBuf
  BY DEF PollIdle, session
<1>2. /\ Inbound = Buffered(k) \o FramesOf(Unread(k))
      /\ phase = "Registering" => Unread(k) = rx
      /\ phase # "Registering" => Unread(k) \in Seq(SentItems)
  BY <1>1, ReadsInOrder
<1>3. streamBuf = <<>>
  BY <1>1, ReadsInOrder
<1>4. Inbound' = Inbound
  BY <1>1, <1>2, <1>3 DEF Inbound
<1> QED BY <1>1, <1>2, <1>4

LEMMA DeviceSent ==
  ASSUME Types, Registration, phase # "Registering",
         NEW frames \in Seq(SentFrames), Sends(frames), UNCHANGED streamBuf
  PROVE  /\ Inbound' = Inbound \o frames
         /\ rx' \in Seq(SentItems)
<1> DEFINE items == Under(frames)
<1>1. rx \in Seq(SentItems) /\ streamBuf \in Seq(SentFrames)
  BY DEF Registration, Types
<1>2. items \in Seq(SentItems) /\ FramesOf(items) = frames
  <2>1. frames = [i \in 1 .. Len(frames) |-> frames[i]] /\ Len(frames) \in Nat
        /\ DOMAIN frames = 1 .. Len(frames) /\ \A i \in 1 .. Len(frames) : frames[i] \in SentFrames
    OBVIOUS
  <2>2. items = [i \in 1 .. Len(frames) |-> [handle |-> SessionHandle, frame |-> frames[i]]]
    BY <2>1 DEF Under
  <2>3. \A i \in 1 .. Len(frames) : [handle |-> SessionHandle, frame |-> frames[i]] \in SentItems
    BY <2>1 DEF SentItems
  <2>4. items \in Seq(SentItems)
    BY <2>1, <2>2, <2>3
  <2>5. FramesOf(items) = [i \in 1 .. Len(frames) |-> frames[i]]
    BY <2>1, <2>2 DEF FramesOf
  <2> QED BY <2>1, <2>4, <2>5
<1>3. rx' = rx \o items
  BY DEF Sends
<1> HIDE DEF items
<1>4. FramesOf(rx') = FramesOf(rx) \o frames
  BY <1>1, <1>2, <1>3, FramesOfConcat
<1>5. FramesOf(rx) \in Seq(SentFrames)
  BY <1>1, ItemFrames, FramesOfFacts
<1>6. streamBuf \o (FramesOf(rx) \o frames) = (streamBuf \o FramesOf(rx)) \o frames
  BY <1>1, <1>5, ConcatAssociative
<1>7. Inbound' = Inbound \o frames
  BY <1>4, <1>6 DEF Inbound
<1> QED BY <1>1, <1>2, <1>3, <1>7

LEMMA DeviceTook ==
  ASSUME Types, Registration, tx # <<>>, tx' = Tail(tx)
  PROVE  /\ Outbound # <<>> /\ Head(Outbound) = Head(tx).frame /\ Outbound' = Tail(Outbound)
         /\ Head(tx) \in Writes /\ tx' \in Seq(Writes)
         /\ phase = "Registering" => Head(tx) \in EarlyWrites /\ tx' \in Seq(EarlyWrites)
<1>1. tx \in Seq(Writes)
  BY DEF Types, Writes
<1>2. Outbound # <<>> /\ Head(Outbound) = Head(tx).frame /\ FramesOf(Tail(tx)) = Tail(Outbound)
  BY <1>1, ItemFrames, FramesOfFacts DEF Outbound
<1>3. Outbound' = Tail(Outbound)
  BY <1>2 DEF Outbound
<1>4. Head(tx) \in Writes /\ tx' \in Seq(Writes)
  BY <1>1
<1>5. phase = "Registering" => Head(tx) \in EarlyWrites /\ tx' \in Seq(EarlyWrites)
  BY DEF Registration
<1> QED BY <1>2, <1>3, <1>4, <1>5

LEMMA Taken ==
  ASSUME Types, Registration, NEW frame, Takes(frame)
  PROVE  /\ phase # "Registering" /\ frame \in WrittenFrames
         /\ Outbound # <<>> /\ Head(Outbound) = frame /\ Outbound' = Tail(Outbound)
         /\ tx' \in Seq(Writes)
         /\ UNCHANGED <<clientVars, now, faults, asked, fired>>
<1>1. tx # <<>> /\ tx' = Tail(tx) /\ Head(tx) = [handle |-> SessionHandle, frame |-> frame]
  BY DEF Takes
<1>2. Head(tx).handle = SessionHandle /\ Head(tx).frame = frame /\ SessionHandle # 0
  BY <1>1, ClientAssumption, SessionAssumption
<1>3. Head(tx) \in SessionWrites
  <2>1. Head(tx) \in Writes
    BY <1>1, DeviceTook
  <2> QED BY <1>2, <2>1, ItemFrames DEF Writes
<1>4. phase # "Registering" /\ frame \in WrittenFrames
  BY <1>1, <1>2, <1>3, DeviceTook, ItemFrames
<1> QED BY <1>1, <1>2, <1>4, DeviceTook DEF Takes

(* The client writes replies, or the first of them until a write fails.     *)
Wrote(replies) ==
  \E n \in 0 .. Len(replies) :
    /\ Outbound' = Outbound \o SubSeq(replies, 1, n)
    /\ faults' = 0 => faults = 0 /\ n = Len(replies)

LEMMA ItemsWritten ==
  ASSUME NEW F, NEW frames \in Seq(F), NEW W, tx \in Seq(W),
         \A frame \in F : [handle |-> handle, frame |-> frame] \in W, tx' = Written(frames)
  PROVE  tx' \in Seq(W) /\ Outbound' = Outbound \o frames
<1> DEFINE items == [i \in DOMAIN frames |-> [handle |-> handle, frame |-> frames[i]]]
<1>1. items \in Seq(W) /\ FramesOf(items) = frames
  <2>1. frames = [i \in 1 .. Len(frames) |-> frames[i]] /\ Len(frames) \in Nat
        /\ DOMAIN frames = 1 .. Len(frames) /\ \A i \in 1 .. Len(frames) : frames[i] \in F
    OBVIOUS
  <2>2. items = [i \in 1 .. Len(frames) |-> [handle |-> handle, frame |-> frames[i]]]
    BY <2>1
  <2>3. \A i \in 1 .. Len(frames) : [handle |-> handle, frame |-> frames[i]] \in W
    BY <2>1
  <2>4. items \in Seq(W)
    <3>1. items \in [1 .. Len(frames) -> W]
      BY <2>2, <2>3
    <3> HIDE DEF items
    <3> QED BY <2>1, <3>1
  <2>5. FramesOf(items) = [i \in 1 .. Len(frames) |-> frames[i]]
    BY <2>1, <2>2 DEF FramesOf
  <2> QED BY <2>1, <2>4, <2>5
<1>2. tx' = tx \o items
  BY DEF Written
<1> HIDE DEF items
<1>3. Outbound' = FramesOf(tx \o items)
  BY <1>2 DEF Outbound
<1>4. FramesOf(tx \o items) = FramesOf(tx) \o frames
  BY <1>1, FramesOfConcat
<1> QED BY <1>1, <1>2, <1>3, <1>4 DEF Outbound

(* Frames written one after the other, the last ones perhaps not at all.    *)
LEMMA SomeWritten ==
  ASSUME Types, NEW F, NEW frames \in Seq(F), NEW W, tx \in Seq(W),
         \A frame \in F : [handle |-> handle, frame |-> frame] \in W,
         WriteAll(frames) \/ WriteFails(frames)
  PROVE  /\ tx' \in Seq(W) /\ Wrote(frames) /\ faults' \in 0 .. MaxWriteFaults
         /\ faults' = 0 => faults = 0 /\ WriteAll(frames)
<1>1. Len(frames) \in Nat /\ \A i \in 1 .. Len(frames) : frames[i] \in F
  OBVIOUS
<1>2. CASE WriteAll(frames)
  <2>1. tx' = Written(frames) /\ faults' = faults
    BY <1>2 DEF WriteAll
  <2>2. tx' \in Seq(W) /\ Outbound' = Outbound \o frames
    BY <2>1, ItemsWritten
  <2>3. SubSeq(frames, 1, Len(frames)) = frames
    BY SubSeqFull
  <2>4. Wrote(frames)
    <3>1. Len(frames) \in 0 .. Len(frames) /\ Outbound' = Outbound \o SubSeq(frames, 1, Len(frames))
      BY <1>1, <2>2, <2>3
    <3> QED BY <2>1, <3>1, Zenon DEF Wrote
  <2> QED BY <1>2, <2>1, <2>2, <2>4 DEF Types
<1>3. CASE WriteFails(frames)
  <2>1. faults < MaxWriteFaults /\ faults' = faults + 1
    BY <1>3 DEF WriteFails
  <2>2. PICK n \in 0 .. Len(frames) - 1 : tx' = Written(SubSeq(frames, 1, n))
    BY <1>3 DEF WriteFails
  <2>3. SubSeq(frames, 1, n) \in Seq(F)
    BY <1>1, <2>2, SubSeqProperties
  <2>4. tx' \in Seq(W) /\ Outbound' = Outbound \o SubSeq(frames, 1, n)
    BY <2>2, <2>3, ItemsWritten
  <2>5. faults' \in 0 .. MaxWriteFaults /\ faults' # 0
    BY <2>1, ClientAssumption DEF Types
  <2>6. n \in 0 .. Len(frames)
    BY <1>1, <2>2
  <2>7. Wrote(frames)
    BY <2>4, <2>5, <2>6 DEF Wrote
  <2> QED BY <2>4, <2>5, <2>7
<1> QED BY <1>2, <1>3

LEMMA ClientWrote ==
  ASSUME Types, Registration, phase # "Registering",
         NEW frames \in Seq(WrittenFrames), WriteAll(frames) \/ WriteFails(frames)
  PROVE  /\ tx' \in Seq(Writes) /\ Wrote(frames) /\ faults' \in 0 .. MaxWriteFaults
         /\ faults' = 0 => faults = 0 /\ WriteAll(frames)
<1>1. tx \in Seq(Writes) /\ handle = SessionHandle
  BY DEF Types, Writes, Registration
<1>2. \A frame \in WrittenFrames : [handle |-> handle, frame |-> frame] \in Writes
  BY <1>1 DEF Writes, SessionWrites
<1> QED BY <1>1, <1>2, SomeWritten

-----------------------------------------------------------------------------
(* What a poll that takes up a frame does: the frame heard, the replies     *)
(* written and the phase after it.                                          *)


Heard(frame, replies) ==
  /\ Inbound # <<>> /\ Head(Inbound) = frame /\ Inbound' = Tail(Inbound)
  /\ replies \in Seq(WrittenFrames) /\ Wrote(replies)

KeepsShots == UNCHANGED <<recentShots, reported>>

HearsInfo ==
  /\ Heard(DeviceInfo(FALSE), <<Ack("DeviceInfo")>>)
  /\ phase' \in {phase, "WaitCapabilities"}
  /\ UNCHANGED lastState /\ KeepsShots

HearsConfiguration ==
  /\ Heard(Configuration, <<Ack("Configuration"), HostCaps>>)
  /\ phase' = "WaitCapabilitiesAck" \/ (faults' # 0 /\ phase' = phase)
  /\ UNCHANGED lastState /\ KeepsShots

HearsCaps ==
  /\ \/ /\ phase = "WaitCapabilitiesAck" /\ phase' = "Subscribing"
        /\ Heard(CapsAccepted, <<Request("Subscribe", reqId)>>)
     \/ /\ phase # "WaitCapabilitiesAck" /\ phase' = phase
        /\ Heard(CapsAccepted, <<>>)
  /\ UNCHANGED lastState /\ KeepsShots

HearsSubscribed ==
  /\ \/ /\ phase = "Subscribing" /\ phase' = "WakingUp"
        /\ Heard(SubscribeOk, <<Request("Wake", reqId), Ack("ProtobufResponse")>>)
     \/ /\ phase # "Subscribing" /\ phase' = phase
        /\ Heard(SubscribeOk, <<Ack("ProtobufResponse")>>)
  /\ UNCHANGED lastState /\ KeepsShots

HearsWake(status) ==
  /\ Heard(WakeResult(status), <<Ack("ProtobufResponse")>>)
  /\ phase' = IF phase = "WakingUp" THEN "Active" ELSE phase
  /\ lastState' = WokenState(status) /\ KeepsShots

HearsState(state) ==
  /\ \/ Heard(StateChange(state), <<Ack("ProtobufRequest")>>)
     \/ /\ state = "Standby"
        /\ Heard(StateChange(state), <<Request("Wake", reqId), Ack("ProtobufRequest")>>)
  /\ phase' = phase
  /\ lastState' = state /\ KeepsShots

(* A shot is returned unless it is remembered, or its ACK is not written.   *)
TakesShot(id) ==
  \/ /\ \E old \in Retained : old.id = id
     /\ recentShots' = Retained /\ UNCHANGED reported
  \/ /\ \A old \in Retained : old.id # id
     /\ recentShots' = Retained \cup {[id |-> id, at |-> now]}
     /\ \/ reported' = Append(reported, [id |-> id, at |-> now])
        \/ faults' # 0 /\ UNCHANGED reported

HearsShot(id) ==
  /\ Heard(Shot(id), <<Ack("ProtobufRequest")>>)
  /\ phase' = phase
  /\ UNCHANGED lastState /\ TakesShot(id)

(* Frames that neither carry the handshake on nor tell of the R10's state.  *)
Asides ==
  {AckOf("ProtobufRequest", 0), Result("EnvironmentResult", TRUE)} \cup {Fit(type) : type \in FitTypes}

HearsAside(frame) ==
  /\ \/ frame = AckOf("ProtobufRequest", 0) /\ Heard(frame, <<>>)
     \/ frame = Result("EnvironmentResult", TRUE) /\ Heard(frame, <<Ack("ProtobufResponse")>>)
     \/ frame \in {Fit(type) : type \in FitTypes} /\ Heard(frame, <<Ack(frame.type)>>)
  /\ phase' = phase
  /\ UNCHANGED lastState /\ KeepsShots

Hears ==
  \/ HearsInfo \/ HearsConfiguration \/ HearsCaps \/ HearsSubscribed
  \/ \E status \in 0..2 : HearsWake(status)
  \/ \E state \in DeviceStates : HearsState(state)
  \/ \E id \in ShotIds : HearsShot(id)
  \/ \E frame \in Asides : HearsAside(frame)

LEMMA SentKinds ==
  ASSUME NEW f \in SentFrames
  PROVE  /\ f.type \notin {"Corrupt", "Other"}
         /\ f.type \in FitTypes => f \in {Fit(type) : type \in FitTypes}
         /\ f.type = "DeviceInfo" => f = DeviceInfo(FALSE) /\ ~f.short
         /\ f.type = "Configuration" => f = Configuration
         /\ f.type = "Ack" => f.status = 0 /\ \/ f = CapsAccepted /\ f.of = "Configuration"
                                              \/ f = AckOf("ProtobufRequest", 0) /\ f.of # "Configuration"
         /\ f.type \in Requests =>
              /\ f.body \notin {"Malformed", "Error", "Unknown"}
              /\ f.body = "SubscribeResult" => f = SubscribeOk /\ f.type = "ProtobufResponse"
              /\ f.body = "EnvironmentResult" =>
                   f = Result("EnvironmentResult", TRUE) /\ f.type = "ProtobufResponse"
              /\ f.body = "WakeResult" =>
                   f.status \in 0..2 /\ f = WakeResult(f.status) /\ f.type = "ProtobufResponse"
              /\ f.body = "StateChange" =>
                   f.state \in DeviceStates /\ f = StateChange(f.state) /\ f.type = "ProtobufRequest"
              /\ f.body = "Shot" =>
                   f.id \in ShotIds /\ f = Shot(f.id) /\ f.type = "ProtobufRequest"
<1> USE DEF FitTypes, Requests
<1>1. CASE f = DeviceInfo(FALSE)
  BY <1>1 DEF DeviceInfo
<1>2. CASE f = Configuration
  BY <1>2 DEF Configuration
<1>3. CASE f = CapsAccepted
  <2>1. f.type = "Ack" /\ f.of = "Configuration" /\ f.status = 0
    BY <1>3 DEF CapsAccepted, AckOf
  <2> QED BY <1>3, <2>1
<1>4. CASE f = AckOf("ProtobufRequest", 0)
  <2>1. f.type = "Ack" /\ f.of # "Configuration" /\ f.status = 0
    BY <1>4 DEF AckOf
  <2> QED BY <1>4, <2>1
<1>5. CASE f = SubscribeOk
  <2>1. f.type = "ProtobufResponse" /\ f.body = "SubscribeResult"
    BY <1>5 DEF SubscribeOk, Result
  <2> QED BY <1>5, <2>1
<1>6. CASE f = Result("EnvironmentResult", TRUE)
  <2>1. f.type = "ProtobufResponse" /\ f.body = "EnvironmentResult"
    BY <1>6 DEF Result
  <2> QED BY <1>6, <2>1
<1>7. CASE f \in {Fit(type) : type \in FitTypes}
  <2>1. f.type \in FitTypes
    BY <1>7 DEF Fit
  <2> QED BY <1>7, <2>1
<1>8. CASE \E status \in 0..2 : f = WakeResult(status)
  BY <1>8 DEF WakeResult
<1>9. CASE \E state \in DeviceStates : f = StateChange(state)
  BY <1>9 DEF StateChange
<1>10. CASE \E id \in ShotIds : f = Shot(id)
  BY <1>10 DEF Shot
<1>11. \/ f \in {DeviceInfo(FALSE), Configuration, CapsAccepted, AckOf("ProtobufRequest", 0),
                SubscribeOk, Result("EnvironmentResult", TRUE)}
       \/ f \in {Fit(type) : type \in FitTypes}
       \/ \E status \in 0..2 : f = WakeResult(status)
       \/ \E state \in DeviceStates : f = StateChange(state)
       \/ \E id \in ShotIds : f = Shot(id)
  BY DEF SentFrames, CapsAccepted, SubscribeOk
<1> QED BY <1>1, <1>2, <1>3, <1>4, <1>5, <1>6, <1>7, <1>8, <1>9, <1>10, <1>11

(* What holds of the other variables after such a poll. *)
AfterPoll ==
  /\ phase # "Registering" /\ phase' \in Phases \ {"Registering"} /\ handle' = SessionHandle
  /\ tx' \in Seq(Writes) /\ streamBuf' \in Seq(SentFrames) /\ rx' \in Seq(SentItems)
  /\ reqId' \in 0 .. ReqIds - 1 /\ pendingEvent' \in {None, "Ready"}
  /\ faults' \in 0 .. MaxWriteFaults /\ result'.event # "New" /\ now' = now

LEMMA Replied ==
  ASSUME Types, Registration, NEW k \in Nat, NextFrame(k),
         NEW frames \in Seq(WrittenFrames), WriteAll(frames) \/ WriteFails(frames)
  PROVE  /\ Heard(Current(k), frames) /\ tx' \in Seq(Writes) /\ faults' \in 0 .. MaxWriteFaults
         /\ faults' = 0 => faults = 0 /\ WriteAll(frames)
<1>1. /\ phase # "Registering" /\ Inbound # <<>>
      /\ Current(k) = Head(Inbound) /\ Inbound' = Tail(Inbound)
  BY Dispatched
<1>2. /\ tx' \in Seq(Writes) /\ Wrote(frames) /\ faults' \in 0 .. MaxWriteFaults
      /\ faults' = 0 => faults = 0 /\ WriteAll(frames)
  BY <1>1, ClientWrote
<1> QED BY <1>1, <1>2 DEF Heard

LEMMA Unanswered ==
  ASSUME Types, Registration, NEW k \in Nat, NextFrame(k), UNCHANGED <<tx, faults>>
  PROVE  Heard(Current(k), <<>>) /\ tx' \in Seq(Writes) /\ faults' \in 0 .. MaxWriteFaults
<1>1. /\ Inbound # <<>> /\ Current(k) = Head(Inbound) /\ Inbound' = Tail(Inbound)
  BY Dispatched
<1>2. Outbound' = Outbound /\ Outbound \in Seq(OutFrames)
  BY Queues DEF Outbound
<1>3. <<>> \in Seq(WrittenFrames) /\ Len(<<>>) = 0 /\ SubSeq(<<>>, 1, 0) = <<>>
  BY SubSeqEmpty
<1>4. Wrote(<<>>)
  <2>1. Outbound' = Outbound \o SubSeq(<<>>, 1, 0) /\ 0 \in 0 .. Len(<<>>)
    BY <1>2, <1>3, ConcatEmptySeq
  <2> QED BY <1>3, <2>1, Zenon DEF Wrote
<1> QED BY <1>1, <1>3, <1>4 DEF Heard, Types, Writes

LEMMA Acks ==
  /\ \A of \in {"DeviceInfo", "Configuration"} \cup FitTypes \cup Requests : Ack(of) \in WrittenFrames
  /\ HostCaps \in WrittenFrames
  /\ \A body \in {"Subscribe", "Wake", "Environment"}, id \in 0 .. ReqIds - 1 :
       Request(body, id) \in WrittenFrames
BY DEF WrittenFrames, RequestsOf

LEMMA NextId == Types /\ NextReqId => reqId' \in 0 .. ReqIds - 1
<1>1. \A n \in Nat : n % ReqIds \in 0 .. ReqIds - 1
  BY ClientAssumption
<1>2. Types => reqId + 1 \in Nat
  BY ClientAssumption DEF Types
<1> QED BY <1>1, <1>2 DEF NextReqId

LEMMA Pair == \A x, y : Append(<<x>>, y) = <<x, y>>
<1> SUFFICES ASSUME NEW x, NEW y PROVE Append(<<x>>, y) = <<x, y>>
  OBVIOUS
<1>1. <<x>> \in Seq({x, y}) /\ <<x, y>> \in Seq({x, y}) /\ Len(<<x>>) = 1 /\ Len(<<x, y>>) = 2
  OBVIOUS
<1>2. /\ Append(<<x>>, y) \in Seq({x, y}) /\ Len(Append(<<x>>, y)) = 2
      /\ Append(<<x>>, y)[1] = x /\ Append(<<x>>, y)[2] = y
  BY <1>1, AppendProperties
<1>3. \A i \in 1 .. 2 : Append(<<x>>, y)[i] = <<x, y>>[i]
  BY <1>2
<1> QED BY <1>1, <1>2, <1>3, SeqEqual

(* The poll acknowledges the frame after the requests, if any, it writes.   *)
LEMMA Acknowledged ==
  ASSUME Types, Registration, NEW k \in Nat, NextFrame(k),
         NEW event, AckAndReturn(k, <<>>, event), Current(k).type \in Requests
  PROVE  /\ Heard(Current(k), <<Ack(Current(k).type)>>)
         /\ tx' \in Seq(Writes) /\ faults' \in 0 .. MaxWriteFaults
         /\ result' = event \/ result'.event = "Err"
<1> DEFINE ack == Ack(Current(k).type)
<1>1. Append(<<>>, ack) = <<ack>>
  OBVIOUS
<1>2. ack \in WrittenFrames
  BY Acks
<1> HIDE DEF ack
<1>3. (WriteAll(<<ack>>) /\ result' = event) \/ WriteFails(<<ack>>)
  BY <1>1 DEF AckAndReturn, ack
<1>4. result' = event \/ result'.event = "Err"
  BY <1>3 DEF WriteFails, Failed
<1>5. <<ack>> \in Seq(WrittenFrames)
  BY <1>2
<1> QED BY <1>3, <1>4, <1>5, Replied DEF ack

LEMMA RequestedAndAcknowledged ==
  ASSUME Types, Registration, NEW k \in Nat, NextFrame(k), NEW event,
         AckAndReturn(k, <<SendsRequest("Wake")>>, event), Current(k).type \in Requests
  PROVE  /\ Heard(Current(k), <<Request("Wake", reqId), Ack(Current(k).type)>>)
         /\ tx' \in Seq(Writes) /\ faults' \in 0 .. MaxWriteFaults
         /\ result' = event \/ result'.event = "Err"
<1> DEFINE ack == Ack(Current(k).type)
           wake == Request("Wake", reqId)
<1>1. Append(<<wake>>, ack) = <<wake, ack>>
  BY Pair
<1>2. ack \in WrittenFrames /\ wake \in WrittenFrames
  BY Acks DEF Types
<1> HIDE DEF ack
<1>3. (WriteAll(<<wake, ack>>) /\ result' = event) \/ WriteFails(<<wake, ack>>)
  BY <1>1 DEF AckAndReturn, SendsRequest, ack
<1> HIDE DEF wake
<1>4. result' = event \/ result'.event = "Err"
  BY <1>3 DEF WriteFails, Failed
<1>5. <<wake, ack>> \in Seq(WrittenFrames)
  BY <1>2
<1> QED BY <1>3, <1>4, <1>5, Replied DEF ack, wake

LEMMA InfoHeard ==
  ASSUME Types, Registration, NEW k \in Nat, HandleDeviceInfo(k) PROVE AfterPoll /\ HearsInfo
<1>1. NextFrame(k) /\ Current(k).type = "DeviceInfo"
      /\ UNCHANGED <<reqId, recentShots, lastState, pendingEvent, reported>>
  BY DEF HandleDeviceInfo
<1>2. /\ phase # "Registering" /\ handle' = SessionHandle /\ Current(k) \in SentFrames
      /\ streamBuf' \in Seq(SentFrames) /\ rx' \in Seq(SentItems) /\ now' = now
  BY <1>1, Dispatched DEF NextFrame
<1>3. Current(k) = DeviceInfo(FALSE) /\ ~Current(k).short
  BY <1>1, <1>2, SentKinds
<1> DEFINE ack == <<Ack("DeviceInfo")>>
<1>4. \/ WriteAll(ack) /\ phase' = "WaitCapabilities" /\ result' = Nothing
      \/ WriteFails(ack) /\ phase' = phase
  BY <1>3 DEF HandleDeviceInfo
<1>5. ack \in Seq(WrittenFrames)
  BY Acks
<1> HIDE DEF ack
<1>6. /\ Heard(Current(k), ack) /\ tx' \in Seq(Writes) /\ faults' \in 0 .. MaxWriteFaults
  BY <1>1, <1>4, <1>5, Replied
<1>7. result'.event # "New"
  BY <1>4 DEF WriteFails, Failed, Nothing, Event
<1>8. phase' \in {phase, "WaitCapabilities"} /\ phase' \in Phases \ {"Registering"}
  BY <1>2, <1>4 DEF Types, Phases
<1>9. HearsInfo
  BY <1>1, <1>3, <1>6, <1>8 DEF HearsInfo, KeepsShots, ack
<1> QED BY <1>1, <1>2, <1>6, <1>7, <1>8, <1>9 DEF AfterPoll, Types

LEMMA ConfigurationHeard ==
  ASSUME Types, Registration, NEW k \in Nat, HandleConfiguration(k)
  PROVE  AfterPoll /\ HearsConfiguration
<1>1. NextFrame(k) /\ Current(k).type = "Configuration"
      /\ UNCHANGED <<reqId, recentShots, lastState, pendingEvent, reported>>
  BY DEF HandleConfiguration
<1>2. /\ phase # "Registering" /\ handle' = SessionHandle /\ Current(k) \in SentFrames
      /\ streamBuf' \in Seq(SentFrames) /\ rx' \in Seq(SentItems) /\ now' = now
  BY <1>1, Dispatched DEF NextFrame
<1>3. Current(k) = Configuration
  BY <1>1, <1>2, SentKinds
<1> DEFINE replies == <<Ack("Configuration"), HostCaps>>
<1>4. \/ WriteAll(replies) /\ phase' = "WaitCapabilitiesAck" /\ result' = Nothing
      \/ WriteFails(replies) /\ phase' = phase
  BY DEF HandleConfiguration
<1>5. replies \in Seq(WrittenFrames)
  BY Acks
<1> HIDE DEF replies
<1>6. /\ Heard(Current(k), replies) /\ tx' \in Seq(Writes) /\ faults' \in 0 .. MaxWriteFaults
  BY <1>1, <1>4, <1>5, Replied
<1>7. result'.event # "New"
  BY <1>4 DEF WriteFails, Failed, Nothing, Event
<1>8. /\ phase' = "WaitCapabilitiesAck" \/ (faults' # 0 /\ phase' = phase)
      /\ phase' \in Phases \ {"Registering"}
  <2>1. WriteFails(replies) => faults' # 0
    BY ClientAssumption DEF WriteFails, Types
  <2> QED BY <1>2, <1>4, <2>1 DEF Types, Phases
<1>9. HearsConfiguration
  BY <1>1, <1>3, <1>6, <1>8 DEF HearsConfiguration, KeepsShots, replies
<1> QED BY <1>1, <1>2, <1>6, <1>7, <1>8, <1>9 DEF AfterPoll, Types

LEMMA CapsHeard ==
  ASSUME Types, Registration, NEW k \in Nat, HandleAck(k)
  PROVE  AfterPoll /\ (HearsCaps \/ \E frame \in Asides : HearsAside(frame))
<1>1. /\ NextFrame(k) /\ Current(k).type = "Ack"
      /\ UNCHANGED <<recentShots, lastState, pendingEvent, reported>>
  BY DEF HandleAck
<1>2. /\ phase # "Registering" /\ handle' = SessionHandle /\ Current(k) \in SentFrames
      /\ streamBuf' \in Seq(SentFrames) /\ rx' \in Seq(SentItems) /\ now' = now
  BY <1>1, Dispatched DEF NextFrame
<1>3. /\ Current(k).status = 0
      /\ \/ Current(k) = CapsAccepted /\ Current(k).of = "Configuration"
         \/ Current(k) = AckOf("ProtobufRequest", 0) /\ Current(k).of # "Configuration"
  BY <1>1, <1>2, SentKinds
<1>4. CASE ~EndsHandshake(Current(k))
  <2>1. result' = Nothing /\ UNCHANGED <<phase, reqId, tx, faults>>
    BY <1>3, <1>4 DEF HandleAck
  <2>2. Heard(Current(k), <<>>) /\ tx' \in Seq(Writes) /\ faults' \in 0 .. MaxWriteFaults
    BY <1>1, <2>1, Unanswered
  <2>3. ASSUME Current(k) = CapsAccepted /\ Current(k).of = "Configuration" PROVE HearsCaps
    <3>1. phase # "WaitCapabilitiesAck"
      BY <1>4, <2>3 DEF EndsHandshake
    <3> QED BY <1>1, <2>1, <2>2, <2>3, <3>1 DEF HearsCaps, KeepsShots
  <2>4. ASSUME Current(k) = AckOf("ProtobufRequest", 0)
        PROVE  \E frame \in Asides : HearsAside(frame)
    <3>1. Current(k) \in Asides
      BY <2>4 DEF Asides
    <3> QED BY <1>1, <2>1, <2>2, <2>4, <3>1 DEF HearsAside, KeepsShots
  <2>5. HearsCaps \/ \E frame \in Asides : HearsAside(frame)
    BY <1>3, <2>3, <2>4
  <2>6. result'.event # "New"
    BY <2>1 DEF Nothing, Event
  <2> QED BY <1>1, <1>2, <2>1, <2>2, <2>5, <2>6 DEF AfterPoll, Types
<1>5. CASE EndsHandshake(Current(k))
  <2>1. phase = "WaitCapabilitiesAck" /\ Current(k) = CapsAccepted
    BY <1>3, <1>5 DEF EndsHandshake
  <2> DEFINE request == <<Request("Subscribe", reqId)>>
  <2>2. /\ phase' = "Subscribing" /\ NextReqId
        /\ \/ WriteAll(request) /\ result' = Event("HandshakeComplete")
           \/ WriteFails(request)
    BY <1>3, <1>5 DEF HandleAck, SendsRequest
  <2>3. request \in Seq(WrittenFrames)
    BY Acks DEF Types
  <2> HIDE DEF request
  <2>4. Heard(Current(k), request) /\ tx' \in Seq(Writes) /\ faults' \in 0 .. MaxWriteFaults
    BY <1>1, <2>2, <2>3, Replied
  <2>5. HearsCaps
    BY <1>1, <2>1, <2>2, <2>4 DEF HearsCaps, KeepsShots, request
  <2>6. result'.event # "New"
    BY <2>2 DEF WriteFails, Failed, Event
  <2>7. reqId' \in 0 .. ReqIds - 1
    BY <2>2, NextId
  <2> QED BY <1>1, <1>2, <2>2, <2>4, <2>5, <2>6, <2>7 DEF AfterPoll, Types, Phases
<1> QED BY <1>4, <1>5

LEMMA ProtobufHeard ==
  ASSUME Types, Registration, NEW k \in Nat, NEW body, Protobuf(k, body)
  PROVE  /\ NextFrame(k) /\ Current(k).type \in Requests /\ Current(k).body = body
         /\ phase # "Registering" /\ handle' = SessionHandle /\ Current(k) \in SentFrames
         /\ streamBuf' \in Seq(SentFrames) /\ rx' \in Seq(SentItems) /\ now' = now
<1>1. NextFrame(k) /\ Current(k).type \in Requests /\ Current(k).body = body
  BY DEF Protobuf
<1> QED BY <1>1, Dispatched DEF NextFrame

LEMMA SubscribedHeard ==
  ASSUME Types, Registration, NEW k \in Nat, HandleSubscribeResult(k)
  PROVE  AfterPoll /\ HearsSubscribed
<1> DEFINE event == [event |-> "Subscribed", success |-> Current(k).success]
<1>1. /\ Protobuf(k, "SubscribeResult")
      /\ UNCHANGED <<recentShots, lastState, pendingEvent, reported>>
  BY DEF HandleSubscribeResult
<1>2. /\ NextFrame(k) /\ Current(k).type \in Requests /\ Current(k).body = "SubscribeResult"
      /\ phase # "Registering" /\ handle' = SessionHandle /\ Current(k) \in SentFrames
      /\ streamBuf' \in Seq(SentFrames) /\ rx' \in Seq(SentItems) /\ now' = now
  BY <1>1, ProtobufHeard
<1>3. Current(k) = SubscribeOk /\ Current(k).type = "ProtobufResponse"
  BY <1>2, SentKinds
<1>4. event.event # "New"
  OBVIOUS
<1>5. \/ /\ phase = "Subscribing" /\ phase' = "WakingUp" /\ NextReqId
         /\ AckAndReturn(k, <<SendsRequest("Wake")>>, event)
      \/ /\ phase # "Subscribing" /\ UNCHANGED <<phase, reqId>>
         /\ AckAndReturn(k, <<>>, event)
  BY DEF HandleSubscribeResult
<1> HIDE DEF event
<1>6. CASE /\ phase = "Subscribing" /\ phase' = "WakingUp" /\ NextReqId
           /\ AckAndReturn(k, <<SendsRequest("Wake")>>, event)
  <2>1. /\ Heard(Current(k), <<Request("Wake", reqId), Ack(Current(k).type)>>)
        /\ tx' \in Seq(Writes) /\ faults' \in 0 .. MaxWriteFaults
        /\ result' = event \/ result'.event = "Err"
    BY <1>2, <1>6, RequestedAndAcknowledged
  <2>2. HearsSubscribed
    BY <1>1, <1>3, <1>6, <2>1 DEF HearsSubscribed, KeepsShots
  <2>3. reqId' \in 0 .. ReqIds - 1 /\ result'.event # "New"
    BY <1>4, <1>6, <2>1, NextId
  <2> QED BY <1>1, <1>2, <1>6, <2>1, <2>2, <2>3 DEF AfterPoll, Types, Phases
<1>7. CASE /\ phase # "Subscribing" /\ UNCHANGED <<phase, reqId>>
           /\ AckAndReturn(k, <<>>, event)
  <2>1. /\ Heard(Current(k), <<Ack(Current(k).type)>>)
        /\ tx' \in Seq(Writes) /\ faults' \in 0 .. MaxWriteFaults
        /\ result' = event \/ result'.event = "Err"
    BY <1>2, <1>7, Acknowledged
  <2>2. HearsSubscribed
    BY <1>1, <1>3, <1>7, <2>1 DEF HearsSubscribed, KeepsShots
  <2>3. result'.event # "New"
    BY <1>4, <2>1
  <2> QED BY <1>1, <1>2, <1>7, <2>1, <2>2, <2>3 DEF AfterPoll, Types, Phases
<1> QED BY <1>5, <1>6, <1>7

LEMMA WakeHeard ==
  ASSUME Types, Registration, NEW k \in Nat, HandleWakeResult(k)
  PROVE  AfterPoll /\ \E status \in 0..2 : HearsWake(status)
<1> DEFINE status == Current(k).status
<1>1. /\ Protobuf(k, "WakeResult")
      /\ phase' = IF phase = "WakingUp" THEN "Active" ELSE phase
      /\ lastState' = WokenState(status)
      /\ pendingEvent' = IF status = 1 THEN "Ready" ELSE None
      /\ AckAndReturn(k, <<>>, WakeEvent(status))
      /\ UNCHANGED <<reqId, recentShots, reported>>
  BY DEF HandleWakeResult
<1>2. /\ NextFrame(k) /\ Current(k).type \in Requests /\ Current(k).body = "WakeResult"
      /\ phase # "Registering" /\ handle' = SessionHandle /\ Current(k) \in SentFrames
      /\ streamBuf' \in Seq(SentFrames) /\ rx' \in Seq(SentItems) /\ now' = now
  BY <1>1, ProtobufHeard
<1>3. status \in 0..2 /\ Current(k) = WakeResult(status) /\ Current(k).type = "ProtobufResponse"
  BY <1>2, SentKinds
<1> HIDE DEF status
<1>4. /\ Heard(Current(k), <<Ack(Current(k).type)>>)
      /\ tx' \in Seq(Writes) /\ faults' \in 0 .. MaxWriteFaults
      /\ result' = WakeEvent(status) \/ result'.event = "Err"
  BY <1>1, <1>2, Acknowledged
<1>5. result'.event # "New"
  BY <1>4 DEF WakeEvent
<1>6. HearsWake(status)
  BY <1>1, <1>3, <1>4 DEF HearsWake, KeepsShots
<1>7. phase' \in Phases \ {"Registering"} /\ pendingEvent' \in {None, "Ready"}
  BY <1>1, <1>2 DEF Types, Phases
<1> QED BY <1>1, <1>2, <1>3, <1>4, <1>5, <1>6, <1>7 DEF AfterPoll, Types

LEMMA StateHeard ==
  ASSUME Types, Registration, NEW k \in Nat, HandleStateChange(k)
  PROVE  AfterPoll /\ \E state \in DeviceStates : HearsState(state)
<1> DEFINE state == Current(k).state
           told == [event |-> "StateChange", state |-> state]
<1>1. /\ Protobuf(k, "StateChange") /\ lastState' = state
      /\ UNCHANGED <<phase, recentShots, pendingEvent, reported>>
  BY DEF HandleStateChange
<1>2. /\ NextFrame(k) /\ Current(k).type \in Requests /\ Current(k).body = "StateChange"
      /\ phase # "Registering" /\ handle' = SessionHandle /\ Current(k) \in SentFrames
      /\ streamBuf' \in Seq(SentFrames) /\ rx' \in Seq(SentItems) /\ now' = now
  BY <1>1, ProtobufHeard
<1>3. /\ state \in DeviceStates /\ Current(k) = StateChange(state)
      /\ Current(k).type = "ProtobufRequest"
  BY <1>2, SentKinds
<1>4. \A event \in {Nothing, Event("Ready"), told} : event.event # "New"
  BY DEF Nothing, Event
<1>5. \/ /\ state = "Standby" /\ NextReqId
         /\ AckAndReturn(k, <<SendsRequest("Wake")>>, told)
      \/ /\ UNCHANGED reqId
         /\ \E event \in {Nothing, Event("Ready"), told} : AckAndReturn(k, <<>>, event)
  BY DEF HandleStateChange, Rearms
<1> HIDE DEF state, told
<1>6. CASE /\ state = "Standby" /\ NextReqId
           /\ AckAndReturn(k, <<SendsRequest("Wake")>>, told)
  <2>1. /\ Heard(Current(k), <<Request("Wake", reqId), Ack(Current(k).type)>>)
        /\ tx' \in Seq(Writes) /\ faults' \in 0 .. MaxWriteFaults
        /\ result' = told \/ result'.event = "Err"
    BY <1>2, <1>6, RequestedAndAcknowledged
  <2>2. HearsState(state)
    BY <1>1, <1>3, <1>6, <2>1 DEF HearsState, KeepsShots
  <2>3. reqId' \in 0 .. ReqIds - 1 /\ result'.event # "New"
    BY <1>4, <1>6, <2>1, NextId
  <2> QED BY <1>1, <1>2, <1>3, <1>6, <2>1, <2>2, <2>3 DEF AfterPoll, Types, Phases
<1>7. ASSUME UNCHANGED reqId,
             NEW event \in {Nothing, Event("Ready"), told}, AckAndReturn(k, <<>>, event)
      PROVE  AfterPoll /\ \E s \in DeviceStates : HearsState(s)
  <2>1. /\ Heard(Current(k), <<Ack(Current(k).type)>>)
        /\ tx' \in Seq(Writes) /\ faults' \in 0 .. MaxWriteFaults
        /\ result' = event \/ result'.event = "Err"
    BY <1>2, <1>7, Acknowledged
  <2>2. HearsState(state)
    BY <1>1, <1>3, <2>1 DEF HearsState, KeepsShots
  <2>3. result'.event # "New"
    BY <1>4, <2>1
  <2> QED BY <1>1, <1>2, <1>3, <1>7, <2>1, <2>2, <2>3 DEF AfterPoll, Types, Phases
<1> QED BY <1>5, <1>6, <1>7

LEMMA ShotHeard ==
  ASSUME Types, Registration, NEW k \in Nat, HandleNewShot(k) \/ HandleRepeatedShot(k)
  PROVE  /\ AfterPoll
         /\ Current(k).id \in ShotIds /\ HearsShot(Current(k).id)
<1> DEFINE id == Current(k).id
           ack == <<Ack(Current(k).type)>>
<1>1. /\ Protobuf(k, "Shot")
      /\ UNCHANGED <<phase, reqId, lastState, pendingEvent>>
  BY DEF HandleNewShot, HandleRepeatedShot
<1>2. /\ NextFrame(k) /\ Current(k).type \in Requests /\ Current(k).body = "Shot"
      /\ phase # "Registering" /\ handle' = SessionHandle /\ Current(k) \in SentFrames
      /\ streamBuf' \in Seq(SentFrames) /\ rx' \in Seq(SentItems) /\ now' = now
  BY <1>1, ProtobufHeard
<1>3. id \in ShotIds /\ Current(k) = Shot(id) /\ Current(k).type = "ProtobufRequest"
  BY <1>2, SentKinds
<1>4. WriteAll(ack) \/ WriteFails(ack)
  <2>1. Append(<<>>, Ack(Current(k).type)) = ack
    OBVIOUS
  <2> QED BY <2>1 DEF HandleNewShot, HandleRepeatedShot, AckAndReturn
<1>5. ack \in Seq(WrittenFrames)
  <2>1. Ack(Current(k).type) \in WrittenFrames
    BY <1>2, Acks
  <2> QED BY <2>1
<1>6. result'.event # "New"
  BY DEF HandleNewShot, HandleRepeatedShot, AckAndReturn, WriteFails, Failed, Nothing, Event
<1> HIDE DEF ack
<1>7. Heard(Current(k), ack) /\ tx' \in Seq(Writes) /\ faults' \in 0 .. MaxWriteFaults
  BY <1>2, <1>4, <1>5, Replied
<1>8. HearsShot(id)
  <2>1. TakesShot(id)
    <3>1. \A frames : WriteFails(frames) => faults' # 0
      BY DEF WriteFails, Types
    <3> QED BY <3>1 DEF TakesShot, HandleNewShot, HandleRepeatedShot, AfterRepeat
  <2> QED BY <1>1, <1>3, <1>7, <2>1 DEF HearsShot, ack
<1> QED BY <1>1, <1>2, <1>3, <1>6, <1>7, <1>8 DEF AfterPoll, Types

LEMMA AsideHeard ==
  ASSUME Types, Registration, NEW k \in Nat, HandleReport(k) \/ HandleFit(k)
  PROVE  AfterPoll /\ \E frame \in Asides : HearsAside(frame)
<1> DEFINE ack == <<Ack(Current(k).type)>>
<1>1. /\ NextFrame(k)
      /\ UNCHANGED <<phase, reqId, recentShots, lastState, pendingEvent, reported>>
  BY DEF HandleReport, HandleFit
<1>2. /\ phase # "Registering" /\ handle' = SessionHandle /\ Current(k) \in SentFrames
      /\ streamBuf' \in Seq(SentFrames) /\ rx' \in Seq(SentItems) /\ now' = now
  BY <1>1, Dispatched DEF NextFrame
<1>3. CASE HandleReport(k)
  <2>1. /\ Current(k).type \in Requests
        /\ Current(k).body \in {"EnvironmentResult", "Error", "Unknown"}
        /\ AckAndReturn(k, <<>>, ReportEvent(Current(k)))
    BY <1>3 DEF HandleReport
  <2>2. Current(k) = Result("EnvironmentResult", TRUE) /\ Current(k).type = "ProtobufResponse"
        /\ Current(k).body = "EnvironmentResult"
    BY <1>2, <2>1, SentKinds
  <2>3. /\ Heard(Current(k), ack) /\ tx' \in Seq(Writes) /\ faults' \in 0 .. MaxWriteFaults
        /\ result' = ReportEvent(Current(k)) \/ result'.event = "Err"
    BY <1>1, <2>1, Acknowledged
  <2>4. result'.event # "New"
    <3>1. ReportEvent(Current(k)).event = "EnvironmentResult"
      BY <2>2 DEF ReportEvent
    <3> QED BY <2>3, <3>1
  <2>5. Current(k) \in Asides /\ HearsAside(Current(k))
    BY <1>1, <2>2, <2>3 DEF HearsAside, KeepsShots, Asides
  <2> QED BY <1>1, <1>2, <2>3, <2>4, <2>5 DEF AfterPoll, Types
<1>4. CASE HandleFit(k)
  <2>1. Current(k).type \in FitTypes /\ ((WriteAll(ack) /\ result' = Nothing) \/ WriteFails(ack))
    BY <1>4 DEF HandleFit
  <2>2. Current(k) \in {Fit(type) : type \in FitTypes}
    BY <1>2, <2>1, SentKinds
  <2>3. ack \in Seq(WrittenFrames)
    <3>1. Ack(Current(k).type) \in WrittenFrames
      BY <2>1, Acks
    <3> QED BY <3>1
  <2>4. result'.event # "New"
    BY <2>1 DEF WriteFails, Failed, Nothing, Event
  <2> HIDE DEF ack
  <2>5. Heard(Current(k), ack) /\ tx' \in Seq(Writes) /\ faults' \in 0 .. MaxWriteFaults
    BY <1>1, <2>1, <2>3, Replied
  <2>6. Current(k) \in Asides /\ HearsAside(Current(k))
    BY <1>1, <2>2, <2>5 DEF HearsAside, KeepsShots, Asides, ack
  <2> QED BY <1>1, <1>2, <2>4, <2>5, <2>6 DEF AfterPoll, Types
<1> QED BY <1>3, <1>4

(* These are all the frames a session's poll takes up. *)
LEMMA FrameHeard ==
  ASSUME Types, Registration, NEW k \in Nat, Dispatch(k) PROVE AfterPoll /\ Hears
<1>1. ~(HandleCorrupt(k) \/ HandleOther(k) \/ HandleMalformed(k))
  <2>1. ASSUME NextFrame(k), Current(k).type \in {"Corrupt", "Other"} PROVE FALSE
    BY <2>1, Dispatched, SentKinds
  <2>2. ASSUME Protobuf(k, "Malformed") PROVE FALSE
    <3>1. Current(k) \in SentFrames /\ Current(k).type \in Requests /\ Current(k).body = "Malformed"
      BY <2>2, ProtobufHeard
    <3> QED BY <3>1, SentKinds
  <2> QED BY <2>1, <2>2 DEF HandleCorrupt, HandleOther, HandleMalformed
<1>2. CASE HandleDeviceInfo(k)
  BY <1>2, InfoHeard DEF Hears
<1>3. CASE HandleConfiguration(k)
  BY <1>3, ConfigurationHeard DEF Hears
<1>4. CASE HandleAck(k)
  BY <1>4, CapsHeard DEF Hears
<1>5. CASE HandleSubscribeResult(k)
  BY <1>5, SubscribedHeard DEF Hears
<1>6. CASE HandleWakeResult(k)
  BY <1>6, WakeHeard DEF Hears
<1>7. CASE HandleStateChange(k)
  BY <1>7, StateHeard DEF Hears
<1>8. CASE HandleNewShot(k) \/ HandleRepeatedShot(k)
  BY <1>8, ShotHeard DEF Hears
<1>9. CASE HandleReport(k) \/ HandleFit(k)
  BY <1>9, AsideHeard DEF Hears
<1> QED BY <1>1, <1>2, <1>3, <1>4, <1>5, <1>6, <1>7, <1>8, <1>9 DEF Dispatch

-----------------------------------------------------------------------------
(* What the steps do to the counts. *)

Answered(frame, sends) ==
  /\ Outbound # <<>> /\ Head(Outbound) = frame /\ Outbound' = Tail(Outbound)
  /\ sends \in Seq(InFrames) /\ Inbound' = Inbound \o sends

Pushed(frames) == Outbound' = Outbound /\ frames \in Seq(SentFrames) /\ Inbound' = Inbound \o frames

One(x, S) == IF x \in S THEN 1 ELSE 0

LEMMA CountTwo ==
  ASSUME NEW x, NEW y, NEW S
  PROVE  Count(<<x, y>>, S) = One(x, S) + One(y, S)
<1> DEFINE T == {x, y}
<1>1. x \in T /\ y \in T
  OBVIOUS
<1> HIDE DEF T
<1>2. <<x>> \in Seq(T) /\ <<y>> \in Seq(T)
  BY <1>1
<1>3. <<x, y>> = <<x>> \o <<y>>
  BY <1>2, <1>1, Pair, AppendIsConcat
<1>4. Count(<<x>> \o <<y>>, S) = Count(<<x>>, S) + Count(<<y>>, S)
  BY <1>2, CountConcat
<1>5. Count(<<x>>, S) = One(x, S) /\ Count(<<y>>, S) = One(y, S)
  BY CountOne DEF One
<1> QED BY <1>3, <1>4, <1>5

LEMMA UnderwayNat ==
  ASSUME Types, Registration, NEW S, NEW R
  PROVE  Count(Inbound, S) \in Nat /\ Count(Outbound, R) \in Nat /\ Underway(S, R) \in Nat
<1>1. Inbound \in Seq(InFrames) /\ Outbound \in Seq(OutFrames)
  BY Queues
<1>2. Count(Inbound, S) \in Nat /\ Count(Outbound, R) \in Nat
  BY <1>1, CountConcat
<1> QED BY <1>2 DEF Underway

LEMMA WroteCount ==
  ASSUME Types, Registration, NEW frames \in Seq(WrittenFrames), Wrote(frames), NEW R
  PROVE  /\ Count(frames, R) \in Nat /\ Count(Outbound', R) \in Nat
         /\ Count(Outbound', R) <= Count(Outbound, R) + Count(frames, R)
         /\ faults' = 0 => Count(Outbound', R) = Count(Outbound, R) + Count(frames, R)
<1>1. PICK n \in 0 .. Len(frames) : /\ Outbound' = Outbound \o SubSeq(frames, 1, n)
                                    /\ faults' = 0 => n = Len(frames)
  BY DEF Wrote
<1> DEFINE T == OutFrames
           first == SubSeq(frames, 1, n)
           rest == SubSeq(frames, n + 1, Len(frames))
<1>2. /\ Len(frames) \in Nat /\ frames \in Seq(T)
      /\ \A i \in 1 .. Len(frames) : frames[i] \in T
  BY DEF OutFrames
<1> HIDE DEF T
<1>3. first \in Seq(T) /\ rest \in Seq(T)
  BY <1>1, <1>2, SubSeqProperties
<1>4. first \o rest = frames
  <2>1. 1 \in 1 .. Len(frames) + 1 /\ n \in 1 - 1 .. Len(frames) /\ Len(frames) \in n .. Len(frames)
    BY <1>1, <1>2
  <2>2. SubSeq(frames, 1, n) \o SubSeq(frames, n + 1, Len(frames)) = SubSeq(frames, 1, Len(frames))
    BY <1>2, <2>1, ConcatAdjacentSubSeq
  <2> QED BY <1>2, <2>2, SubSeqFull
<1>5. faults' = 0 => first = frames
  BY <1>1, <1>2, SubSeqFull
<1>6. Outbound \in Seq(T)
  BY Queues DEF T
<1> HIDE DEF first, rest
<1>7. /\ Count(first, R) \in Nat /\ Count(rest, R) \in Nat /\ Count(frames, R) \in Nat
      /\ Count(frames, R) = Count(first, R) + Count(rest, R)
  <2>1. Count(first \o rest, R) = Count(first, R) + Count(rest, R)
    BY <1>3, CountConcat
  <2> QED BY <1>2, <1>3, <1>4, <2>1, CountConcat
<1>8. Count(Outbound, R) \in Nat /\ Count(Outbound \o first, R) = Count(Outbound, R) + Count(first, R)
  BY <1>3, <1>6, CountConcat
<1>9. Count(Outbound', R) = Count(Outbound, R) + Count(first, R)
  BY <1>1, <1>8 DEF first
<1> QED BY <1>5, <1>7, <1>8, <1>9

(* A frame heard is gone, and the replies are on their way. *)
LEMMA HeardCount ==
  ASSUME Types, Registration, NEW frame, NEW replies, Heard(frame, replies), NEW S, NEW R
  PROVE  /\ Underway(S, R) \in Nat /\ Underway(S, R)' \in Nat /\ Count(replies, R) \in Nat
         /\ Underway(S, R)' + One(frame, S) <= Underway(S, R) + Count(replies, R)
         /\ faults' = 0 => Underway(S, R)' + One(frame, S) = Underway(S, R) + Count(replies, R)
<1>1. /\ Inbound \in Seq(InFrames) /\ Inbound # <<>> /\ Head(Inbound) = frame
      /\ Inbound' = Tail(Inbound) /\ replies \in Seq(WrittenFrames) /\ Wrote(replies)
  BY Queues DEF Heard
<1>2. Count(Inbound, S) = One(frame, S) + Count(Inbound', S)
  BY <1>1, CountTail DEF One
<1>3. Count(Inbound', S) \in Nat
  <2>1. Inbound' \in Seq(InFrames)
    BY <1>1
  <2> QED BY <2>1, CountConcat
<1>4. /\ Count(replies, R) \in Nat /\ Count(Outbound', R) \in Nat
      /\ Count(Outbound', R) <= Count(Outbound, R) + Count(replies, R)
      /\ faults' = 0 => Count(Outbound', R) = Count(Outbound, R) + Count(replies, R)
  BY <1>1, WroteCount
<1>5. Count(Outbound, R) \in Nat /\ One(frame, S) \in Nat
  BY UnderwayNat DEF One
<1>6. Underway(S, R)' = Count(Inbound', S) + Count(Outbound', R)
  BY DEF Underway
<1>7. Underway(S, R) = Count(Inbound, S) + Count(Outbound, R)
  BY DEF Underway
<1> QED BY <1>2, <1>3, <1>4, <1>5, <1>6, <1>7

(* A frame taken is gone, and the answers are on their way. *)
LEMMA AnsweredCount ==
  ASSUME Types, Registration, NEW frame, NEW sends, Answered(frame, sends), NEW S, NEW R
  PROVE  /\ Underway(S, R) \in Nat /\ Underway(S, R)' \in Nat /\ Count(sends, S) \in Nat
         /\ Underway(S, R)' + One(frame, R) = Underway(S, R) + Count(sends, S)
<1>1. /\ Inbound \in Seq(InFrames) /\ Outbound \in Seq(OutFrames) /\ sends \in Seq(InFrames)
      /\ Outbound # <<>> /\ Head(Outbound) = frame /\ Outbound' = Tail(Outbound)
      /\ Inbound' = Inbound \o sends
  BY Queues DEF Answered, InFrames
<1>2. Count(Outbound, R) = One(frame, R) + Count(Outbound', R)
  BY <1>1, CountTail DEF One
<1>3. Count(Outbound', R) \in Nat /\ One(frame, R) \in Nat
  <2>1. Outbound' \in Seq(OutFrames)
    BY <1>1
  <2> QED BY <2>1, CountConcat DEF One
<1>4. Count(Inbound', S) = Count(Inbound, S) + Count(sends, S)
  BY <1>1, CountConcat
<1>5. Count(Inbound, S) \in Nat /\ Count(sends, S) \in Nat
  BY <1>1, CountConcat
<1>6. Underway(S, R)' = Count(Inbound', S) + Count(Outbound', R)
  BY DEF Underway
<1>7. Underway(S, R) = Count(Inbound, S) + Count(Outbound, R)
  BY DEF Underway
<1> QED BY <1>2, <1>3, <1>4, <1>5, <1>6, <1>7

LEMMA PushedCount ==
  ASSUME Types, Registration, NEW frames, Pushed(frames), NEW S, NEW R
  PROVE  /\ Underway(S, R) \in Nat /\ Underway(S, R)' \in Nat /\ Count(frames, S) \in Nat
         /\ Underway(S, R)' = Underway(S, R) + Count(frames, S)
<1>1. /\ Inbound \in Seq(InFrames) /\ Outbound \in Seq(OutFrames) /\ frames \in Seq(InFrames)
      /\ Outbound' = Outbound /\ Inbound' = Inbound \o frames
  BY Queues DEF Pushed, InFrames
<1>2. Count(Inbound', S) = Count(Inbound, S) + Count(frames, S)
  BY <1>1, CountConcat
<1>3. Count(Inbound, S) \in Nat /\ Count(frames, S) \in Nat /\ Count(Outbound, R) \in Nat
  BY <1>1, CountConcat
<1>4. Underway(S, R)' = Count(Inbound', S) + Count(Outbound', R)
  BY DEF Underway
<1>5. Underway(S, R) = Count(Inbound, S) + Count(Outbound, R)
  BY DEF Underway
<1> QED BY <1>1, <1>2, <1>3, <1>4, <1>5

(* The application's request. *)
LEMMA WrittenCount ==
  ASSUME Types, Registration, Inbound' = Inbound, NEW frames \in Seq(WrittenFrames), Wrote(frames),
         NEW S, NEW R
  PROVE  /\ Underway(S, R) \in Nat /\ Underway(S, R)' \in Nat /\ Count(frames, R) \in Nat
         /\ Underway(S, R)' <= Underway(S, R) + Count(frames, R)
         /\ faults' = 0 => Underway(S, R)' = Underway(S, R) + Count(frames, R)
<1>1. /\ Count(frames, R) \in Nat /\ Count(Outbound', R) \in Nat
      /\ Count(Outbound', R) <= Count(Outbound, R) + Count(frames, R)
      /\ faults' = 0 => Count(Outbound', R) = Count(Outbound, R) + Count(frames, R)
  BY WroteCount
<1>2. Count(Inbound, S) \in Nat /\ Count(Outbound, R) \in Nat
  BY UnderwayNat
<1>3. Underway(S, R)' = Count(Inbound, S) + Count(Outbound', R)
  BY DEF Underway
<1>4. Underway(S, R) = Count(Inbound, S) + Count(Outbound, R)
  BY DEF Underway
<1> QED BY <1>1, <1>2, <1>3, <1>4

(* The same for the five steps that are counted. *)
Counted ==
  /\ InfoSteps \in Nat /\ ConfigSteps \in Nat /\ SubscribeSteps \in Nat
  /\ WakeSteps \in Nat /\ RegisterSteps \in Nat

LEMMA HeardSteps ==
  ASSUME Types, Registration, NEW frame, NEW replies, Heard(frame, replies)
  PROVE  /\ Counted /\ Counted'
         /\ InfoSteps' + One(frame, {DeviceInfo(FALSE)}) <= InfoSteps + Count(replies, {Ack("DeviceInfo")})
         /\ ConfigSteps' + One(frame, {Configuration}) <= ConfigSteps + Count(replies, {HostCaps})
         /\ SubscribeSteps' + One(frame, {CapsAccepted})
              <= SubscribeSteps + Count(replies, RequestsOf("Subscribe"))
         /\ WakeSteps' + One(frame, WakeCauses) <= WakeSteps + Count(replies, RequestsOf("Wake"))
         /\ RegisterSteps' <= RegisterSteps + Count(replies, {Register})
<1>1. /\ InfoSteps \in Nat /\ InfoSteps' \in Nat
      /\ InfoSteps' + One(frame, {DeviceInfo(FALSE)}) <= InfoSteps + Count(replies, {Ack("DeviceInfo")})
  BY HeardCount DEF InfoSteps
<1>2. /\ ConfigSteps \in Nat /\ ConfigSteps' \in Nat
      /\ ConfigSteps' + One(frame, {Configuration}) <= ConfigSteps + Count(replies, {HostCaps})
  BY HeardCount DEF ConfigSteps
<1>3. /\ SubscribeSteps \in Nat /\ SubscribeSteps' \in Nat
      /\ SubscribeSteps' + One(frame, {CapsAccepted})
           <= SubscribeSteps + Count(replies, RequestsOf("Subscribe"))
  BY HeardCount DEF SubscribeSteps
<1>4. /\ WakeSteps \in Nat /\ WakeSteps' \in Nat
      /\ WakeSteps' + One(frame, WakeCauses) <= WakeSteps + Count(replies, RequestsOf("Wake"))
  BY HeardCount DEF WakeSteps
<1>5. /\ RegisterSteps \in Nat /\ RegisterSteps' \in Nat
      /\ RegisterSteps' + One(frame, {}) <= RegisterSteps + Count(replies, {Register})
  BY HeardCount DEF RegisterSteps
<1>6. One(frame, {}) = 0
  BY DEF One
<1> QED BY <1>1, <1>2, <1>3, <1>4, <1>5, <1>6 DEF Counted

LEMMA AnsweredSteps ==
  ASSUME Types, Registration, NEW frame, NEW sends, Answered(frame, sends)
  PROVE  /\ Counted /\ Counted'
         /\ InfoSteps' + One(frame, {Ack("DeviceInfo")}) = InfoSteps + Count(sends, {DeviceInfo(FALSE)})
         /\ ConfigSteps' + One(frame, {HostCaps}) = ConfigSteps + Count(sends, {Configuration})
         /\ SubscribeSteps' + One(frame, RequestsOf("Subscribe"))
              = SubscribeSteps + Count(sends, {CapsAccepted})
         /\ WakeSteps' + One(frame, RequestsOf("Wake")) = WakeSteps + Count(sends, WakeCauses)
         /\ RegisterSteps' + One(frame, {Register}) = RegisterSteps + Count(sends, {})
<1>1. /\ InfoSteps \in Nat /\ InfoSteps' \in Nat
      /\ InfoSteps' + One(frame, {Ack("DeviceInfo")}) = InfoSteps + Count(sends, {DeviceInfo(FALSE)})
  BY AnsweredCount DEF InfoSteps
<1>2. /\ ConfigSteps \in Nat /\ ConfigSteps' \in Nat
      /\ ConfigSteps' + One(frame, {HostCaps}) = ConfigSteps + Count(sends, {Configuration})
  BY AnsweredCount DEF ConfigSteps
<1>3. /\ SubscribeSteps \in Nat /\ SubscribeSteps' \in Nat
      /\ SubscribeSteps' + One(frame, RequestsOf("Subscribe"))
           = SubscribeSteps + Count(sends, {CapsAccepted})
  BY AnsweredCount DEF SubscribeSteps
<1>4. /\ WakeSteps \in Nat /\ WakeSteps' \in Nat
      /\ WakeSteps' + One(frame, RequestsOf("Wake")) = WakeSteps + Count(sends, WakeCauses)
  BY AnsweredCount DEF WakeSteps
<1>5. /\ RegisterSteps \in Nat /\ RegisterSteps' \in Nat
      /\ RegisterSteps' + One(frame, {Register}) = RegisterSteps + Count(sends, {})
  BY AnsweredCount DEF RegisterSteps
<1> QED BY <1>1, <1>2, <1>3, <1>4, <1>5 DEF Counted

LEMMA PushedSteps ==
  ASSUME Types, Registration, NEW frames, Pushed(frames)
  PROVE  /\ Counted /\ Counted'
         /\ InfoSteps' = InfoSteps + Count(frames, {DeviceInfo(FALSE)})
         /\ ConfigSteps' = ConfigSteps + Count(frames, {Configuration})
         /\ SubscribeSteps' = SubscribeSteps + Count(frames, {CapsAccepted})
         /\ WakeSteps' = WakeSteps + Count(frames, WakeCauses)
         /\ RegisterSteps' = RegisterSteps + Count(frames, {})
<1>1. /\ InfoSteps \in Nat /\ InfoSteps' \in Nat
      /\ InfoSteps' = InfoSteps + Count(frames, {DeviceInfo(FALSE)})
  BY PushedCount DEF InfoSteps
<1>2. /\ ConfigSteps \in Nat /\ ConfigSteps' \in Nat
      /\ ConfigSteps' = ConfigSteps + Count(frames, {Configuration})
  BY PushedCount DEF ConfigSteps
<1>3. /\ SubscribeSteps \in Nat /\ SubscribeSteps' \in Nat
      /\ SubscribeSteps' = SubscribeSteps + Count(frames, {CapsAccepted})
  BY PushedCount DEF SubscribeSteps
<1>4. /\ WakeSteps \in Nat /\ WakeSteps' \in Nat
      /\ WakeSteps' = WakeSteps + Count(frames, WakeCauses)
  BY PushedCount DEF WakeSteps
<1>5. /\ RegisterSteps \in Nat /\ RegisterSteps' \in Nat
      /\ RegisterSteps' = RegisterSteps + Count(frames, {})
  BY PushedCount DEF RegisterSteps
<1> QED BY <1>1, <1>2, <1>3, <1>4, <1>5 DEF Counted

LEMMA WrittenSteps ==
  ASSUME Types, Registration, Inbound' = Inbound, NEW frames \in Seq(WrittenFrames), Wrote(frames)
  PROVE  /\ Counted /\ Counted'
         /\ InfoSteps' <= InfoSteps + Count(frames, {Ack("DeviceInfo")})
         /\ ConfigSteps' <= ConfigSteps + Count(frames, {HostCaps})
         /\ SubscribeSteps' <= SubscribeSteps + Count(frames, RequestsOf("Subscribe"))
         /\ WakeSteps' <= WakeSteps + Count(frames, RequestsOf("Wake"))
         /\ RegisterSteps' <= RegisterSteps + Count(frames, {Register})
<1>1. /\ InfoSteps \in Nat /\ InfoSteps' \in Nat
      /\ InfoSteps' <= InfoSteps + Count(frames, {Ack("DeviceInfo")})
  BY WrittenCount DEF InfoSteps
<1>2. /\ ConfigSteps \in Nat /\ ConfigSteps' \in Nat
      /\ ConfigSteps' <= ConfigSteps + Count(frames, {HostCaps})
  BY WrittenCount DEF ConfigSteps
<1>3. /\ SubscribeSteps \in Nat /\ SubscribeSteps' \in Nat
      /\ SubscribeSteps' <= SubscribeSteps + Count(frames, RequestsOf("Subscribe"))
  BY WrittenCount DEF SubscribeSteps
<1>4. /\ WakeSteps \in Nat /\ WakeSteps' \in Nat
      /\ WakeSteps' <= WakeSteps + Count(frames, RequestsOf("Wake"))
  BY WrittenCount DEF WakeSteps
<1>5. /\ RegisterSteps \in Nat /\ RegisterSteps' \in Nat
      /\ RegisterSteps' <= RegisterSteps + Count(frames, {Register})
  BY WrittenCount DEF RegisterSteps
<1> QED BY <1>1, <1>2, <1>3, <1>4, <1>5 DEF Counted

(* Which frames are counted. *)
LEMMA WrittenKinds ==
  /\ \A of : /\ One(Ack(of), {HostCaps}) = 0 /\ One(Ack(of), RequestsOf("Subscribe")) = 0
             /\ One(Ack(of), RequestsOf("Wake")) = 0 /\ One(Ack(of), {Register}) = 0
             /\ One(Ack(of), {Ack("DeviceInfo")}) = IF of = "DeviceInfo" THEN 1 ELSE 0
  /\ /\ One(HostCaps, {HostCaps}) = 1 /\ One(HostCaps, {Ack("DeviceInfo")}) = 0
     /\ One(HostCaps, RequestsOf("Subscribe")) = 0 /\ One(HostCaps, RequestsOf("Wake")) = 0
     /\ One(HostCaps, {Register}) = 0
  /\ One(Register, {Register}) = 1
  /\ \A body, id :
       /\ One(Request(body, id), {Ack("DeviceInfo")}) = 0 /\ One(Request(body, id), {HostCaps}) = 0
       /\ One(Request(body, id), {Register}) = 0
       /\ \A other \in {"Subscribe", "Wake"} :
            One(Request(body, id), RequestsOf(other))
              = IF id \in 0 .. ReqIds - 1 /\ body = other THEN 1 ELSE 0
<1>1. \A of : /\ Ack(of) \notin {HostCaps} /\ Ack(of) \notin {Register}
              /\ \A body : Ack(of) \notin RequestsOf(body)
              /\ Ack(of) \in {Ack("DeviceInfo")} <=> of = "DeviceInfo"
  <2>1. \A of : Ack(of).type = "Ack" /\ Ack(of).of = of
    BY DEF Ack
  <2>2. HostCaps.type # "Ack" /\ Register.type # "Ack" /\ \A body, id : Request(body, id).type # "Ack"
    BY DEF HostCaps, Register, Request
  <2> QED BY <2>1, <2>2 DEF RequestsOf
<1>2. /\ HostCaps \notin {Ack("DeviceInfo")} /\ HostCaps \notin {Register}
      /\ \A body : HostCaps \notin RequestsOf(body)
  <2>1. HostCaps.type = "Configuration" /\ Ack("DeviceInfo").type = "Ack" /\ Register.type = "Register"
        /\ \A body, id : Request(body, id).type = "ProtobufRequest"
    BY DEF HostCaps, Ack, Register, Request
  <2> QED BY <2>1 DEF RequestsOf
<1>3. \A body, id :
        /\ Request(body, id) \notin {Ack("DeviceInfo")} /\ Request(body, id) \notin {HostCaps}
        /\ Request(body, id) \notin {Register}
        /\ \A other : Request(body, id) \in RequestsOf(other) <=> (id \in 0 .. ReqIds - 1 /\ body = other)
  <2>1. \A body, id : /\ Request(body, id).type = "ProtobufRequest"
                      /\ Request(body, id).body = body /\ Request(body, id).id = id
    BY DEF Request
  <2>2. HostCaps.type # "ProtobufRequest" /\ Ack("DeviceInfo").type # "ProtobufRequest"
        /\ Register.type # "ProtobufRequest"
    BY DEF HostCaps, Ack, Register
  <2> QED BY <2>1, <2>2 DEF RequestsOf
<1> QED BY <1>1, <1>2, <1>3 DEF One

Causes == {DeviceInfo(FALSE), Configuration, CapsAccepted} \cup WakeCauses

LEMMA CausesKinds ==
  /\ \A f : f.type \notin {"DeviceInfo", "Configuration", "Ack"} \cup Requests => f \notin Causes
  /\ AckOf("ProtobufRequest", 0) \notin Causes
  /\ \A f : f.type \in Requests /\ f.body \notin {"StateChange", "SubscribeResult"} => f \notin Causes
  /\ \A state : state # "Standby" => StateChange(state) \notin Causes
  /\ DeviceInfo(FALSE) # Configuration /\ DeviceInfo(FALSE) # CapsAccepted
  /\ Configuration # CapsAccepted
  /\ DeviceInfo(FALSE) \notin WakeCauses /\ Configuration \notin WakeCauses
  /\ CapsAccepted \notin WakeCauses
<1>1. DeviceInfo(FALSE).type = "DeviceInfo" /\ Configuration.type = "Configuration"
  BY DEF DeviceInfo, Configuration
<1>2. /\ CapsAccepted.type = "Ack" /\ CapsAccepted.of = "Configuration"
      /\ AckOf("ProtobufRequest", 0).type = "Ack" /\ AckOf("ProtobufRequest", 0).of = "ProtobufRequest"
  BY DEF CapsAccepted, AckOf
<1>3. SubscribeOk.type = "ProtobufResponse" /\ SubscribeOk.body = "SubscribeResult"
  BY DEF SubscribeOk, Result
<1>4. \A state : /\ StateChange(state).type = "ProtobufRequest"
                 /\ StateChange(state).body = "StateChange" /\ StateChange(state).state = state
  BY DEF StateChange
<1>5. \A f : f \in WakeCauses =>
        f.type \in Requests /\ f.body \in {"StateChange", "SubscribeResult"}
  BY <1>3, <1>4 DEF WakeCauses, Requests
<1>6. \A f \in Causes : \/ f.type = "DeviceInfo" \/ f.type = "Configuration"
                        \/ f.type = "Ack" /\ f.of = "Configuration"
                        \/ f.type \in Requests /\ f.body \in {"StateChange", "SubscribeResult"}
  BY <1>1, <1>2, <1>5 DEF Causes
<1>7. AckOf("ProtobufRequest", 0) \notin Causes
  BY <1>2, <1>6 DEF Requests
<1>8. \A f : f.type \in Requests /\ f.body \notin {"StateChange", "SubscribeResult"} => f \notin Causes
  BY <1>6 DEF Requests
<1>9. ASSUME NEW state, state # "Standby" PROVE StateChange(state) \notin Causes
  <2>1. StateChange(state) # DeviceInfo(FALSE) /\ StateChange(state) # Configuration
        /\ StateChange(state) # CapsAccepted /\ StateChange(state) # SubscribeOk
    BY <1>1, <1>2, <1>3, <1>4
  <2>2. StateChange(state) # StateChange("Standby")
    BY <1>4, <1>9
  <2> QED BY <2>1, <2>2 DEF Causes, WakeCauses
<1> QED BY <1>1, <1>2, <1>5, <1>6, <1>7, <1>8, <1>9 DEF Requests

LEMMA NotCaused ==
  ASSUME NEW f, f \notin Causes
  PROVE  /\ One(f, {DeviceInfo(FALSE)}) = 0 /\ One(f, {Configuration}) = 0
         /\ One(f, {CapsAccepted}) = 0 /\ One(f, WakeCauses) = 0 /\ One(f, {}) = 0
BY DEF One, Causes

-----------------------------------------------------------------------------
(* The steps of the handshake. *)

LEMMA HandshakeOf ==
  ASSUME Handshake, Counted, stage \in {"Off", "Registered", "Identified", "Session", "Subscribed"}
  PROVE  /\ Steps = RegisterSteps + InfoSteps + ConfigSteps + SubscribeSteps
         /\ stage = "Off" => InfoSteps = 0 /\ ConfigSteps = 0 /\ SubscribeSteps = 0 /\ WakeSteps = 0
         /\ stage = "Registered" =>
              RegisterSteps = 0 /\ ConfigSteps = 0 /\ SubscribeSteps = 0 /\ WakeSteps = 0
         /\ stage = "Identified" =>
              RegisterSteps = 0 /\ InfoSteps = 0 /\ SubscribeSteps = 0 /\ WakeSteps = 0
         /\ stage = "Session" => RegisterSteps = 0 /\ InfoSteps = 0
         /\ stage = "Subscribed" =>
              RegisterSteps = 0 /\ InfoSteps = 0 /\ ConfigSteps = 0 /\ SubscribeSteps = 0
BY DEF Handshake, Counted, Steps

LEMMA KeptBySteps ==
  ASSUME Handshake, stage' = stage, Counted, Counted',
         InfoSteps' <= InfoSteps, ConfigSteps' <= ConfigSteps, SubscribeSteps' <= SubscribeSteps,
         WakeSteps' <= WakeSteps, RegisterSteps' <= RegisterSteps
  PROVE  Handshake'
<1>1. Steps' = RegisterSteps' + InfoSteps' + ConfigSteps' + SubscribeSteps'
  BY DEF Steps
<1>2. Steps = RegisterSteps + InfoSteps + ConfigSteps + SubscribeSteps
  BY DEF Steps
<1>3. Steps' <= 1
  <2>1. RegisterSteps + InfoSteps + ConfigSteps + SubscribeSteps <= 1
    BY <1>2 DEF Handshake
  <2>2. \A a, b, c, d, e, f, g, h \in Nat :
          a <= e /\ b <= f /\ c <= g /\ d <= h /\ e + f + g + h <= 1 => a + b + c + d <= 1
    OBVIOUS
  <2>3. RegisterSteps' + InfoSteps' + ConfigSteps' + SubscribeSteps' <= 1
    BY <2>1, <2>2 DEF Counted
  <2> QED BY <1>1, <2>3
<1>4. /\ RegisterSteps' > 0 => RegisterSteps > 0
      /\ InfoSteps' > 0 => InfoSteps > 0
      /\ ConfigSteps' > 0 => ConfigSteps > 0
      /\ SubscribeSteps' > 0 => SubscribeSteps > 0
      /\ WakeSteps' > 0 => WakeSteps > 0
  BY DEF Counted
<1> QED BY <1>3, <1>4 DEF Handshake

(* A frame heard carries the handshake on by the reply to it at most. *)
CarriedOn(frame, replies) ==
  /\ Count(replies, {Ack("DeviceInfo")}) <= One(frame, {DeviceInfo(FALSE)})
  /\ Count(replies, {HostCaps}) <= One(frame, {Configuration})
  /\ Count(replies, RequestsOf("Subscribe")) <= One(frame, {CapsAccepted})
  /\ Count(replies, RequestsOf("Wake")) <= One(frame, WakeCauses)
  /\ Count(replies, {Register}) = 0

LEMMA HeardKeeps ==
  ASSUME Types, Registration, Handshake, stage' = stage,
         NEW frame, NEW replies, Heard(frame, replies), CarriedOn(frame, replies)
  PROVE  Handshake'
<1>1. \A S : One(frame, S) \in Nat /\ Count(replies, S) \in Nat
  BY HeardCount DEF One
<1>2. /\ Counted /\ Counted'
      /\ InfoSteps' + One(frame, {DeviceInfo(FALSE)}) <= InfoSteps + Count(replies, {Ack("DeviceInfo")})
      /\ ConfigSteps' + One(frame, {Configuration}) <= ConfigSteps + Count(replies, {HostCaps})
      /\ SubscribeSteps' + One(frame, {CapsAccepted})
           <= SubscribeSteps + Count(replies, RequestsOf("Subscribe"))
      /\ WakeSteps' + One(frame, WakeCauses) <= WakeSteps + Count(replies, RequestsOf("Wake"))
      /\ RegisterSteps' <= RegisterSteps + Count(replies, {Register})
  BY HeardSteps
<1>3. InfoSteps' <= InfoSteps
  BY <1>1, <1>2 DEF Counted, CarriedOn
<1>4. ConfigSteps' <= ConfigSteps
  BY <1>1, <1>2 DEF Counted, CarriedOn
<1>5. SubscribeSteps' <= SubscribeSteps
  BY <1>1, <1>2 DEF Counted, CarriedOn
<1>6. WakeSteps' <= WakeSteps
  BY <1>1, <1>2 DEF Counted, CarriedOn
<1>7. RegisterSteps' <= RegisterSteps
  BY <1>1, <1>2 DEF Counted, CarriedOn
<1> QED BY <1>2, <1>3, <1>4, <1>5, <1>6, <1>7, KeptBySteps

LEMMA Ones ==
  /\ \A x, S : One(x, S) \in Nat
  /\ \A x, S : x \in S => One(x, S) = 1
  /\ \A S : Count(<<>>, S) = 0
  /\ \A x, S : Count(<<x>>, S) = One(x, S)
  /\ \A x, y, S : Count(<<x, y>>, S) = One(x, S) + One(y, S)
BY CountNone, CountOne, CountTwo DEF One

LEMMA RepliesCarryOn ==
  /\ \A frame : CarriedOn(frame, <<>>)
  /\ \A frame, of : of # "DeviceInfo" => CarriedOn(frame, <<Ack(of)>>)
  /\ CarriedOn(DeviceInfo(FALSE), <<Ack("DeviceInfo")>>)
  /\ CarriedOn(Configuration, <<Ack("Configuration"), HostCaps>>)
  /\ \A id \in 0 .. ReqIds - 1 : CarriedOn(CapsAccepted, <<Request("Subscribe", id)>>)
  /\ \A frame \in WakeCauses, id \in 0 .. ReqIds - 1 : \A of :
       of # "DeviceInfo" => CarriedOn(frame, <<Request("Wake", id), Ack(of)>>)
<1> DEFINE Replies(replies, info, caps, subscribe, wake) ==
             /\ Count(replies, {Ack("DeviceInfo")}) = info
             /\ Count(replies, {HostCaps}) = caps
             /\ Count(replies, RequestsOf("Subscribe")) = subscribe
             /\ Count(replies, RequestsOf("Wake")) = wake
             /\ Count(replies, {Register}) = 0
           Written1(w, info, caps, subscribe, wake) ==
             /\ One(w, {Ack("DeviceInfo")}) = info
             /\ One(w, {HostCaps}) = caps
             /\ One(w, RequestsOf("Subscribe")) = subscribe
             /\ One(w, RequestsOf("Wake")) = wake
             /\ One(w, {Register}) = 0
<1>1. \A frame, S : 0 <= One(frame, S) /\ (frame \in S => 1 <= One(frame, S))
  BY DEF One
<1>2. \A frame, replies :
        /\ Replies(replies, 0, 0, 0, 0) => CarriedOn(frame, replies)
        /\ Replies(replies, 1, 0, 0, 0) /\ frame = DeviceInfo(FALSE) => CarriedOn(frame, replies)
        /\ Replies(replies, 0, 1, 0, 0) /\ frame = Configuration => CarriedOn(frame, replies)
        /\ Replies(replies, 0, 0, 1, 0) /\ frame = CapsAccepted => CarriedOn(frame, replies)
        /\ Replies(replies, 0, 0, 0, 1) /\ frame \in WakeCauses => CarriedOn(frame, replies)
  BY <1>1 DEF CarriedOn
<1>3. /\ \A of : of # "DeviceInfo" => Written1(Ack(of), 0, 0, 0, 0)
      /\ Written1(Ack("DeviceInfo"), 1, 0, 0, 0)
      /\ Written1(HostCaps, 0, 1, 0, 0)
      /\ \A id \in 0 .. ReqIds - 1 : /\ Written1(Request("Subscribe", id), 0, 0, 1, 0)
                                     /\ Written1(Request("Wake", id), 0, 0, 0, 1)
  BY WrittenKinds
<1>4. /\ Replies(<<>>, 0, 0, 0, 0)
      /\ \A w, a, b, c, d : Written1(w, a, b, c, d) => Replies(<<w>>, a, b, c, d)
      /\ \A v, w : Written1(v, 0, 0, 0, 0) /\ Written1(w, 0, 1, 0, 0) => Replies(<<v, w>>, 0, 1, 0, 0)
      /\ \A v, w : Written1(v, 0, 0, 0, 1) /\ Written1(w, 0, 0, 0, 0) => Replies(<<v, w>>, 0, 0, 0, 1)
  <2>1. Replies(<<>>, 0, 0, 0, 0)
    BY Ones
  <2>2. \A w, a, b, c, d : Written1(w, a, b, c, d) => Replies(<<w>>, a, b, c, d)
    BY Ones
  <2>3. ASSUME NEW v, NEW w, Written1(v, 0, 0, 0, 0), Written1(w, 0, 1, 0, 0)
        PROVE  Replies(<<v, w>>, 0, 1, 0, 0)
    <3>1. \A S : Count(<<v, w>>, S) = One(v, S) + One(w, S)
      BY Ones
    <3>2. 0 + 1 = 1 /\ 0 + 0 = 0
      OBVIOUS
    <3> QED BY <2>3, <3>1, <3>2
  <2>4. ASSUME NEW v, NEW w, Written1(v, 0, 0, 0, 1), Written1(w, 0, 0, 0, 0)
        PROVE  Replies(<<v, w>>, 0, 0, 0, 1)
    <3>1. \A S : Count(<<v, w>>, S) = One(v, S) + One(w, S)
      BY Ones
    <3> QED BY <2>4, <3>1
  <2> QED BY <2>1, <2>2, <2>3, <2>4
<1> HIDE DEF Replies, Written1
<1>5. CarriedOn(Configuration, <<Ack("Configuration"), HostCaps>>)
  BY <1>2, <1>3, <1>4
<1>6. ASSUME NEW frame \in WakeCauses, NEW id \in 0 .. ReqIds - 1, NEW of, of # "DeviceInfo"
      PROVE  CarriedOn(frame, <<Request("Wake", id), Ack(of)>>)
  BY <1>2, <1>3, <1>4, <1>6
<1> QED BY <1>2, <1>3, <1>4, <1>5, <1>6

LEMMA HearsCarriedOn ==
  ASSUME Types, Hears PROVE \E frame, replies : Heard(frame, replies) /\ CarriedOn(frame, replies)
<1>1. reqId \in 0 .. ReqIds - 1
  BY DEF Types
<1>2. ASSUME NEW frame, \/ Heard(frame, <<>>)
                        \/ Heard(frame, <<Ack("ProtobufRequest")>>)
                        \/ Heard(frame, <<Ack("ProtobufResponse")>>)
      PROVE  \E f, replies : Heard(f, replies) /\ CarriedOn(f, replies)
  BY <1>2, RepliesCarryOn
<1>3. ASSUME NEW frame \in WakeCauses, NEW of \in Requests,
             Heard(frame, <<Request("Wake", reqId), Ack(of)>>)
      PROVE  \E f, replies : Heard(f, replies) /\ CarriedOn(f, replies)
  BY <1>1, <1>3, RepliesCarryOn DEF Requests
<1>4. CASE HearsInfo
  BY <1>4, RepliesCarryOn DEF HearsInfo
<1>5. CASE HearsConfiguration
  BY <1>5, RepliesCarryOn DEF HearsConfiguration
<1>6. CASE HearsCaps
  BY <1>1, <1>2, <1>6, RepliesCarryOn DEF HearsCaps
<1>7. CASE HearsSubscribed
  BY <1>2, <1>3, <1>7 DEF HearsSubscribed, WakeCauses, Requests
<1>8. CASE \E status \in 0..2 : HearsWake(status)
  BY <1>2, <1>8 DEF HearsWake
<1>9. CASE \E state \in DeviceStates : HearsState(state)
  BY <1>2, <1>3, <1>9 DEF HearsState, WakeCauses, Requests
<1>10. CASE \E id \in ShotIds : HearsShot(id)
  BY <1>2, <1>10 DEF HearsShot
<1>11. CASE \E frame \in Asides : HearsAside(frame)
  <2>1. PICK frame \in Asides : HearsAside(frame)
    BY <1>11
  <2>2. CASE frame \in {Fit(type) : type \in FitTypes} /\ Heard(frame, <<Ack(frame.type)>>)
    <3>1. frame.type # "DeviceInfo"
      BY <2>2 DEF Fit, FitTypes
    <3> QED BY <2>2, <3>1, RepliesCarryOn
  <2> QED BY <1>2, <2>1, <2>2 DEF HearsAside
<1> QED BY <1>4, <1>5, <1>6, <1>7, <1>8, <1>9, <1>10, <1>11 DEF Hears

LEMMA HeardHandshake ==
  ASSUME Types, Registration, Handshake, Hears, stage' = stage PROVE Handshake'
BY HearsCarriedOn, HeardKeeps

-----------------------------------------------------------------------------
(* The other steps of the client. *)

Rests == Inbound' = Inbound /\ Outbound' = Outbound

LEMMA FramesOfItems ==
  /\ FramesOf(<<>>) = <<>>
  /\ \A x : FramesOf(<<x>>) = <<x.frame>>
  /\ \A x, y : FramesOf(<<x, y>>) = <<x.frame, y.frame>>
BY DEF FramesOf

LEMMA AfterPollKeeps ==
  ASSUME Types, AfterPoll, Registration, UNCHANGED device PROVE Types' /\ Registration'
<1>1. Types'
  BY DEF Types, AfterPoll, device, Writes
<1>2. Registration'
  BY DEF Registration, AfterPoll, device
<1> QED BY <1>1, <1>2

LEMMA RegisteringQueues ==
  ASSUME Types, Registration, phase = "Registering"
  PROVE  /\ stage = "Off" => Inbound = <<>>
         /\ result.event = "New" => Outbound = <<>>
<1>1. FramesOf(<<>>) = <<>>
  BY FramesOfItems
<1>2. <<>> \o <<>> = <<>>
  OBVIOUS
<1> QED BY <1>1, <1>2 DEF Registration, Inbound, Outbound

LEMMA Starts ==
  ASSUME Types, Registration, Start, UNCHANGED device
  PROVE  /\ Types' /\ Registration'
         /\ phase = "Registering" /\ stage = "Off" /\ Inbound = <<>> /\ Outbound = <<>>
         /\ Inbound' = Inbound /\ Outbound' = <<Register>>
         /\ UNCHANGED <<phase, lastState, reported, recentShots, now, faults>>
<1> DEFINE item == [handle |-> 0, frame |-> Register]
<1>1. /\ result.event = "New" /\ tx = <<>> /\ tx' = Append(tx, item) /\ result'.event # "New"
      /\ phase = "Registering" /\ phase' = "Registering" /\ stage = "Off"
      /\ UNCHANGED <<handle, streamBuf, reqId, recentShots, lastState, pendingEvent,
                     rx, now, faults, reported>>
  BY DEF Start, Registration, Nothing, Event
<1>2. item \in EarlyWrites /\ item.frame = Register
  BY DEF EarlyWrites
<1> HIDE DEF item
<1>3. tx' = <<item>> /\ tx' \in Seq(EarlyWrites) /\ tx' \in Seq(Writes)
  BY <1>1, <1>2 DEF Writes
<1>4. Outbound' = <<Register>>
  BY <1>2, <1>3 DEF Outbound, FramesOf
<1>5. Inbound = <<>> /\ Outbound = <<>> /\ Inbound' = Inbound
  BY <1>1, RegisteringQueues DEF Inbound
<1>6. Types'
  BY <1>1, <1>3 DEF Types, Writes, device
<1>7. Registration'
  BY <1>1, <1>3 DEF Registration, device
<1> QED BY <1>1, <1>4, <1>5, <1>6, <1>7

LEMMA Registers ==
  ASSUME Types, Registration, PollRegister, UNCHANGED device
  PROVE  /\ Types' /\ Registration' /\ phase = "Registering"
         /\ Heard(Response, <<>>) /\ Inbound' = <<DeviceInfo(FALSE)>>
         /\ phase' = "WaitDeviceInfo"
         /\ UNCHANGED <<lastState, reported, recentShots, now, faults>>
<1>1. phase = "Registering" /\ Readable(1) /\ rx' = Unread(1)
      /\ UNCHANGED <<reqId, recentShots, lastState, pendingEvent, tx, now, faults, reported>>
  BY DEF PollRegister
<1>2. rx = <<Registered, Info>> /\ stage = "Registered"
  <2>1. 1 <= Len(rx)
    BY <1>1 DEF Readable
  <2>2. rx # <<>>
    BY <2>1
  <2> QED BY <1>1, <2>2 DEF Registration
<1>3. Head(rx) = Registered /\ rx' = <<Info>>
  <2>1. \A a, b : Head(<<a, b>>) = a /\ Len(<<a, b>>) = 2 /\ SubSeq(<<a, b>>, 2, 2) = <<b>>
    <3> TAKE a, b
    <3> DEFINE T == {a, b}
               s == <<a, b>>
    <3>1. /\ s \in Seq(T) /\ Len(s) = 2 /\ s[2] = b /\ Head(s) = a
          /\ b \in T
      OBVIOUS
    <3> HIDE DEF T, s
    <3>2. \A i \in 1 .. Len(s) : s[i] \in T
      BY <3>1
    <3>3. SubSeq(s, 2, 2) = [i \in 1 .. (2 - 2 + 1) |-> s[2 + i - 1]]
      BY <3>1
    <3>4. SubSeq(s, 2, 2) \in Seq(T) /\ Len(SubSeq(s, 2, 2)) = 1 /\ SubSeq(s, 2, 2)[1] = b
      BY <3>1, <3>2, SubSeqProperties
    <3>5. SubSeq(s, 2, 2) = <<b>>
      <4>1. <<b>> \in Seq(T) /\ Len(<<b>>) = 1 /\ <<b>>[1] = b
        BY <3>1
      <4> DEFINE r == SubSeq(s, 2, 2)
                 t == <<b>>
      <4>2. \A i \in 1 .. Len(r) : r[i] = t[i]
        BY <3>4, <4>1
      <4> HIDE DEF r, t
      <4>3. r = t
        BY <3>4, <4>1, <4>2, SeqEqual DEF r, t
      <4> QED BY <4>3 DEF r, t
    <3> QED BY <3>1, <3>5 DEF s
  <2>2. rx' = SubSeq(rx, 2, 2)
    BY <1>1, <1>2, <2>1 DEF Unread
  <2> QED BY <1>2, <2>1, <2>2
<1>4. /\ Registered.frame = Response /\ Response.type = "RegisterResponse"
      /\ Response.status = "Success" /\ Response.handle = SessionHandle
  BY DEF Registered, Response, RegisterResponse
<1>5. /\ handle' = SessionHandle /\ phase' = "WaitDeviceInfo" /\ result'.event = "Registered"
      /\ streamBuf' = streamBuf
  BY <1>3, <1>4 DEF PollRegister
<1>6. Inbound = <<Response, DeviceInfo(FALSE)>> /\ Inbound' = <<DeviceInfo(FALSE)>>
  <2>1. Info.frame = DeviceInfo(FALSE)
    BY DEF Info
  <2>2. /\ FramesOf(<<Info>>) = <<DeviceInfo(FALSE)>>
        /\ FramesOf(<<Registered, Info>>) = <<Response, DeviceInfo(FALSE)>>
    BY <1>4, <2>1, FramesOfItems, Zenon
  <2>3. streamBuf = <<>> /\ streamBuf' = <<>>
    BY <1>1, <1>5 DEF Registration
  <2>4. \A a, b : <<>> \o <<a>> = <<a>> /\ <<>> \o <<a, b>> = <<a, b>>
    OBVIOUS
  <2> QED BY <1>2, <1>3, <2>2, <2>3, <2>4 DEF Inbound
<1>7. Heard(Response, <<>>)
  <2>1. Inbound # <<>> /\ Head(Inbound) = Response /\ Inbound' = Tail(Inbound)
    <3>1. \A a, b : <<a, b>> # <<>> /\ Head(<<a, b>>) = a /\ Tail(<<a, b>>) = <<b>>
      OBVIOUS
    <3> QED BY <1>6, <3>1, Zenon
  <2>2. Outbound' = Outbound /\ Outbound \in Seq(OutFrames)
    BY <1>1, Queues DEF Outbound
  <2>3. <<>> \in Seq(WrittenFrames) /\ Len(<<>>) = 0 /\ SubSeq(<<>>, 1, 0) = <<>>
    BY SubSeqEmpty
  <2>4. Outbound' = Outbound \o SubSeq(<<>>, 1, 0) /\ 0 \in 0 .. Len(<<>>)
    BY <2>2, <2>3, ConcatEmptySeq
  <2>5. Wrote(<<>>)
    BY <1>1, <2>3, <2>4, Zenon DEF Wrote
  <2> QED BY <2>1, <2>3, <2>5 DEF Heard
<1>8. rx' \in Seq(SentItems)
  <2>1. Info \in SentItems
    BY DEF Info, SentItems, SentFrames
  <2> QED BY <1>3, <2>1
<1>9. Types'
  BY <1>1, <1>5 DEF Types, Phases, device
<1>10. Registration'
  BY <1>2, <1>5, <1>8 DEF Registration, device
<1> QED BY <1>1, <1>5, <1>6, <1>7, <1>9, <1>10

LEMMA Pauses ==
  ASSUME Types, Registration, UNCHANGED device,
         PollPending \/ (\E k \in 0..MaxChunkFrames : PollIdle(k))
  PROVE  /\ Types' /\ Registration' /\ Rests
         /\ UNCHANGED <<phase, lastState, reported, recentShots, now, faults>>
<1>1. CASE PollPending
  <2>1. /\ pendingEvent = "Ready" /\ result'.event = "Ready" /\ pendingEvent' = None
        /\ UNCHANGED <<phase, handle, streamBuf, reqId, recentShots, lastState,
                       rx, tx, now, faults, reported>>
    BY <1>1 DEF PollPending, Types, Event
  <2>2. Types' /\ Registration'
    BY <2>1 DEF Types, Registration, device
  <2> QED BY <2>1, <2>2 DEF Rests, Inbound, Outbound
<1>2. ASSUME NEW k \in 0..MaxChunkFrames, PollIdle(k)
      PROVE  /\ Types' /\ Registration' /\ Rests
             /\ UNCHANGED <<phase, lastState, reported, recentShots, now, faults>>
  <2>1. k \in Nat
    BY ClientAssumption
  <2>2. /\ Inbound' = Inbound /\ (phase = "Registering" => rx' = rx)
        /\ phase # "Registering" => rx' \in Seq(SentItems)
    BY <1>2, <2>1, Idled
  <2>3. result'.event # "New" /\ UNCHANGED <<session, tx, now, faults, reported>>
    BY <1>2 DEF PollIdle, Nothing, Event
  <2>4. Types'
    BY <2>3 DEF Types, session, device
  <2>5. Registration'
    BY <2>2, <2>3 DEF Registration, session, device
  <2> QED BY <2>2, <2>3, <2>4, <2>5 DEF Rests, Outbound, session
<1> QED BY <1>1, <1>2

LEMMA Asks ==
  ASSUME Types, Registration, AskEnvironment
  PROVE  /\ Types' /\ Registration' /\ Inbound' = Inbound
         /\ <<Request("Environment", reqId)>> \in Seq(WrittenFrames)
         /\ Wrote(<<Request("Environment", reqId)>>)
         /\ UNCHANGED <<device, phase, lastState, reported, recentShots, now>>
<1> DEFINE request == Request("Environment", reqId)
<1>1. /\ result.event # "New" /\ NextReqId
      /\ (WriteAll(<<request>>) /\ result' = result) \/ WriteFails(<<request>>)
      /\ UNCHANGED <<phase, handle, streamBuf, recentShots, lastState, pendingEvent, rx, now,
                     reported, device>>
  BY DEF AskEnvironment, SendEnvironment, SendsRequest
<1>2. request \in RequestsOf("Environment") /\ request \in WrittenFrames
  BY DEF Types, RequestsOf, WrittenFrames
<1> HIDE DEF request
<1>3. <<request>> \in Seq(RequestsOf("Environment")) /\ <<request>> \in Seq(WrittenFrames)
  BY <1>2
<1>4. /\ \A frame \in RequestsOf("Environment") : [handle |-> 0, frame |-> frame] \in EarlyWrites
      /\ \A frame \in RequestsOf("Environment") :
           [handle |-> SessionHandle, frame |-> frame] \in SessionWrites
  BY DEF EarlyWrites, SessionWrites, WrittenFrames
<1>5. result'.event # "New"
  BY <1>1 DEF WriteFails, Failed
<1>6. CASE phase = "Registering"
  <2>1. handle = 0 /\ tx \in Seq(EarlyWrites)
    BY <1>6 DEF Registration
  <2>2. tx' \in Seq(EarlyWrites) /\ Wrote(<<request>>) /\ faults' \in 0 .. MaxWriteFaults
    BY <1>1, <1>3, <1>4, <2>1, SomeWritten
  <2>3. tx' \in Seq(EarlyWrites \cup SessionWrites)
    BY <2>2
  <2>4. Types'
    BY <1>1, <2>2, <2>3, NextId DEF Types, device
  <2>5. Registration'
    BY <1>1, <1>5, <2>2 DEF Registration, device
  <2> QED BY <1>1, <1>3, <2>2, <2>4, <2>5 DEF Inbound, request
<1>7. CASE phase # "Registering"
  <2>1. tx' \in Seq(Writes) /\ Wrote(<<request>>) /\ faults' \in 0 .. MaxWriteFaults
    BY <1>1, <1>3, <1>7, ClientWrote
  <2>2. Types'
    BY <1>1, <2>1, NextId DEF Types, device, Writes
  <2>3. Registration'
    BY <1>1, <1>5, <1>7 DEF Registration, device
  <2> QED BY <1>1, <1>3, <2>1, <2>2, <2>3 DEF Inbound, request
<1> QED BY <1>6, <1>7

-----------------------------------------------------------------------------
(* The steps of the R10. *)

LEMMA DeviceKeeps ==
  ASSUME Types, Registration, phase # "Registering", UNCHANGED <<clientVars, faults>>,
         tx' \in Seq(Writes), rx' \in Seq(SentItems), unacked' \in Seq(Protobufs),
         stage' \in {"Registered", "Identified", "Session", "Subscribed"},
         devState' \in DeviceStates, woken' \in BOOLEAN, wakeFails' \in Nat
  PROVE  Types' /\ Registration'
<1>1. Types'
  BY DEF Types, Writes, clientVars, session
<1>2. Registration'
  BY DEF Registration, clientVars, session
<1> QED BY <1>1, <1>2

LEMMA TakenAnswered ==
  ASSUME Types, Registration, NEW frame, Takes(frame),
         NEW sends \in Seq(SentFrames), Sends(sends)
  PROVE  /\ Answered(frame, sends) /\ phase # "Registering" /\ frame \in WrittenFrames
         /\ tx' \in Seq(Writes) /\ rx' \in Seq(SentItems)
         /\ UNCHANGED <<clientVars, now, faults, asked, fired>>
<1>1. /\ phase # "Registering" /\ frame \in WrittenFrames
      /\ Outbound # <<>> /\ Head(Outbound) = frame /\ Outbound' = Tail(Outbound)
      /\ tx' \in Seq(Writes) /\ UNCHANGED <<clientVars, now, faults, asked, fired>>
  BY Taken
<1>2. Inbound' = Inbound \o sends /\ rx' \in Seq(SentItems)
  BY <1>1, DeviceSent DEF clientVars, session
<1>3. sends \in Seq(InFrames)
  BY DEF InFrames
<1> QED BY <1>1, <1>2, <1>3 DEF Answered

LEMMA TakenSilently ==
  ASSUME Types, Registration, NEW frame, Takes(frame), rx' = rx
  PROVE  /\ Answered(frame, <<>>) /\ phase # "Registering" /\ frame \in WrittenFrames
         /\ tx' \in Seq(Writes) /\ rx' \in Seq(SentItems)
         /\ UNCHANGED <<clientVars, now, faults, asked, fired>>
<1>1. /\ phase # "Registering" /\ frame \in WrittenFrames
      /\ Outbound # <<>> /\ Head(Outbound) = frame /\ Outbound' = Tail(Outbound)
      /\ tx' \in Seq(Writes) /\ UNCHANGED <<clientVars, now, faults, asked, fired>>
  BY Taken
<1>2. Inbound' = Inbound
  BY <1>1 DEF Inbound, clientVars, session
<1>3. Inbound \o <<>> = Inbound /\ <<>> \in Seq(InFrames)
  BY Queues, ConcatEmptySeq
<1> QED BY <1>1, <1>2, <1>3 DEF Answered, Registration

LEMMA SentOnes ==
  /\ \A type \in FitTypes : Fit(type) \in SentFrames
  /\ Configuration \in SentFrames /\ CapsAccepted \in SentFrames
  /\ AckOf("ProtobufRequest", 0) \in SentFrames /\ SubscribeOk \in SentFrames
  /\ Result("EnvironmentResult", TRUE) \in SentFrames
  /\ \A status \in 0..2 : WakeResult(status) \in SentFrames
  /\ \A state \in DeviceStates : StateChange(state) \in SentFrames
  /\ \A id \in ShotIds : Shot(id) \in SentFrames
BY DEF SentFrames, CapsAccepted, SubscribeOk

LEMMA ProtobufKinds ==
  /\ SubscribeOk \in Protobufs /\ Result("EnvironmentResult", TRUE) \in Protobufs
  /\ \A status \in 0..2 : WakeResult(status) \in Protobufs
  /\ \A state \in DeviceStates : StateChange(state) \in Protobufs
  /\ \A id \in ShotIds : Shot(id) \in Protobufs
BY DEF Protobufs, SubscribeOk

LEMMA ProtobufSeqs ==
  /\ \A f \in Protobufs : <<f>> \in Seq(Protobufs)
  /\ \A f, g \in Protobufs : <<f, g>> \in Seq(Protobufs)
OBVIOUS

LEMMA SentSeqs ==
  /\ \A f \in SentFrames : <<f>> \in Seq(SentFrames)
  /\ \A f, g \in SentFrames : <<f, g>> \in Seq(SentFrames)
OBVIOUS

LEMMA HandshakeFrom ==
  ASSUME Counted', SubscribeSteps' + ConfigSteps' <= 1, InfoSteps' <= 1, RegisterSteps' = 0,
         \/ stage' = "Registered" /\ ConfigSteps' = 0 /\ SubscribeSteps' = 0 /\ WakeSteps' = 0
         \/ stage' = "Identified" /\ InfoSteps' = 0 /\ SubscribeSteps' = 0 /\ WakeSteps' = 0
         \/ stage' = "Session" /\ InfoSteps' = 0
         \/ stage' = "Subscribed" /\ InfoSteps' = 0 /\ ConfigSteps' = 0 /\ SubscribeSteps' = 0
  PROVE  Handshake'
<1>1. \A a, b, c \in Nat : a + b <= 1 /\ c <= 1 /\ (c = 0 \/ (a = 0 /\ b = 0)) => 0 + c + b + a <= 1
  OBVIOUS
<1>2. RegisterSteps' + InfoSteps' + ConfigSteps' + SubscribeSteps' <= 1
  BY <1>1 DEF Counted
<1>3. Steps' <= 1
  BY <1>2 DEF Steps
<1>4. \A n \in Nat : n > 0 <=> n # 0
  OBVIOUS
<1> QED BY <1>3, <1>4 DEF Handshake, Counted

(* Answers that carry nothing on. *)
LEMMA AnswersKeep ==
  ASSUME Types, Registration, Handshake, stage' = stage, NEW frame, NEW sends,
         Answered(frame, sends),
         /\ Count(sends, {DeviceInfo(FALSE)}) = 0 /\ Count(sends, {Configuration}) = 0
         /\ Count(sends, {CapsAccepted}) = 0 /\ Count(sends, WakeCauses) = 0
         /\ Count(sends, {}) = 0
  PROVE  Handshake'
<1>1. \A S : One(frame, S) \in Nat
  BY DEF One
<1>2. \A a, b, c \in Nat : a + b = c + 0 => a <= c
  OBVIOUS
<1>3. /\ Counted /\ Counted'
      /\ InfoSteps' + One(frame, {Ack("DeviceInfo")}) = InfoSteps + 0
      /\ ConfigSteps' + One(frame, {HostCaps}) = ConfigSteps + 0
      /\ SubscribeSteps' + One(frame, RequestsOf("Subscribe")) = SubscribeSteps + 0
      /\ WakeSteps' + One(frame, RequestsOf("Wake")) = WakeSteps + 0
      /\ RegisterSteps' + One(frame, {Register}) = RegisterSteps + 0
  BY AnsweredSteps
<1> QED BY <1>1, <1>2, <1>3, KeptBySteps DEF Counted

LEMMA Uncaused ==
  /\ \A S : Count(<<>>, S) = 0
  /\ \A f : f \notin Causes =>
       /\ Count(<<f>>, {DeviceInfo(FALSE)}) = 0 /\ Count(<<f>>, {Configuration}) = 0
       /\ Count(<<f>>, {CapsAccepted}) = 0 /\ Count(<<f>>, WakeCauses) = 0
       /\ Count(<<f>>, {}) = 0
  /\ \A f, g : f \notin Causes /\ g \notin Causes =>
       /\ Count(<<f, g>>, {DeviceInfo(FALSE)}) = 0 /\ Count(<<f, g>>, {Configuration}) = 0
       /\ Count(<<f, g>>, {CapsAccepted}) = 0 /\ Count(<<f, g>>, WakeCauses) = 0
       /\ Count(<<f, g>>, {}) = 0
<1> DEFINE Sets == {{DeviceInfo(FALSE)}, {Configuration}, {CapsAccepted}, WakeCauses, {}}
<1>1. \A f : f \notin Causes => \A S \in Sets : One(f, S) = 0
  BY NotCaused
<1>2. \A f : f \notin Causes => \A S \in Sets : Count(<<f>>, S) = 0
  BY <1>1, CountOne DEF One
<1>3. \A f, g : f \notin Causes /\ g \notin Causes => \A S \in Sets : Count(<<f, g>>, S) = 0
  <2> HIDE DEF Sets
  <2>1. \A f, g, S : One(f, S) = 0 /\ One(g, S) = 0 => Count(<<f, g>>, S) = 0
    BY CountTwo
  <2> QED BY <1>1, <2>1
<1>4. \A S : Count(<<>>, S) = 0
  BY CountNone
<1> QED BY <1>2, <1>3, <1>4

LEMMA Sums ==
  \A a, b \in Nat :
    /\ a + b = 0 + 0 => a = 0
    /\ a + b = 0 + 1 => a <= 1
    /\ a + b = 1 + 0 => a <= 1
    /\ a + 1 = b + 0 => b > 0 /\ a <= b
    /\ a + 1 = b + 0 /\ b <= 1 => a = 0
    /\ a + 1 = b + 1 => a = b
    /\ a = 0 /\ b <= 1 => a + b <= 1 /\ b + a <= 1
    /\ a = 0 => a <= 1
OBVIOUS

LEMMA AtMostOne ==
  ASSUME Handshake, Counted
  PROVE  /\ InfoSteps <= 1 /\ RegisterSteps <= 1 /\ ConfigSteps <= 1 /\ SubscribeSteps <= 1
         /\ SubscribeSteps + ConfigSteps <= 1
<1>1. RegisterSteps + InfoSteps + ConfigSteps + SubscribeSteps <= 1
  BY DEF Handshake, Steps
<1>2. \A a, b, c, d \in Nat :
        a + b + c + d <= 1 => b <= 1 /\ a <= 1 /\ c <= 1 /\ d <= 1 /\ d + c <= 1
  OBVIOUS
<1> QED BY <1>1, <1>2 DEF Counted

LEMMA RegisterTaken ==
  ASSUME Types, Registration, Handshake, DeviceRegister
  PROVE  /\ Types' /\ Registration' /\ Handshake'
         /\ Answered(Register, <<Response, DeviceInfo(FALSE)>>) /\ phase = "Registering"
         /\ stage = "Off" /\ stage' = "Registered"
         /\ UNCHANGED <<clientVars, now, faults, devState, woken, unacked, fired, wakeFails>>
<1>1. /\ tx # <<>> /\ Head(tx).frame = Register /\ tx' = Tail(tx) /\ stage' = "Registered"
      /\ UNCHANGED <<clientVars, now, faults, asked, devState, woken, unacked, fired, troubles, wakeFails>>
  BY DEF DeviceRegister
<1>2. /\ Outbound # <<>> /\ Head(Outbound) = Register /\ Outbound' = Tail(Outbound)
      /\ Head(tx) \in Writes /\ tx' \in Seq(Writes)
      /\ phase = "Registering" => tx' \in Seq(EarlyWrites)
  BY <1>1, DeviceTook
<1>3. Outbound \in Seq(OutFrames) /\ Count(Outbound, {Register}) \in Nat
  BY Queues, UnderwayNat
<1>4. stage = "Off"
  <2>1. \E i \in DOMAIN Outbound : Outbound[i] \in {Register}
    <3>1. 1 \in DOMAIN Outbound /\ Outbound[1] = Register
      BY <1>2, <1>3
    <3> QED BY <3>1
  <2>2. Count(Outbound, {Register}) > 0
    BY <1>3, <2>1, CountSome
  <2>3. RegisterSteps > 0
    BY <2>2, UnderwayNat DEF RegisterSteps, Underway
  <2> QED BY <2>3 DEF Handshake
<1>5. phase = "Registering" /\ handle = 0 /\ streamBuf = <<>> /\ unacked = <<>> /\ rx = <<>>
  BY <1>4 DEF Registration
<1>6. rx' = <<Registered, Info>>
  <2>1. Under(<<DeviceInfo(FALSE)>>) = <<Info>>
    <3>1. \A x : Under(<<x>>) = <<[handle |-> SessionHandle, frame |-> x]>>
      BY DEF Under
    <3> QED BY <3>1 DEF Info
  <2>2. rx' = Append(<<>>, Registered) \o <<Info>>
    BY <1>5, <2>1 DEF DeviceRegister, Registered
  <2>3. \A a, b : Append(<<>>, a) \o <<b>> = <<a, b>>
    <3> TAKE a, b
    <3>1. Append(<<>>, a) = <<a>> /\ <<a>> \in Seq({a, b}) /\ b \in {a, b}
      OBVIOUS
    <3> QED BY <3>1, Pair, AppendIsConcat
  <2> QED BY <2>2, <2>3
<1>7. Types'
  BY <1>1, <1>2 DEF Types, Writes, clientVars, session
<1>8. Registration'
  BY <1>1, <1>2, <1>4, <1>5, <1>6 DEF Registration, clientVars, session
<1>9. Inbound = <<>> /\ Inbound' = <<Response, DeviceInfo(FALSE)>>
  <2>1. Info.frame = DeviceInfo(FALSE) /\ Registered.frame = Response
    BY DEF Info, Registered, Response
  <2>2. FramesOf(rx') = <<Response, DeviceInfo(FALSE)>>
    BY <1>6, <2>1, FramesOfItems, Zenon
  <2>3. \A a, b : <<>> \o <<a, b>> = <<a, b>>
    OBVIOUS
  <2>4. streamBuf' = <<>>
    BY <1>1, <1>5 DEF clientVars, session
  <2> QED BY <1>4, <1>5, <2>2, <2>3, <2>4, RegisteringQueues DEF Inbound
<1>10. Answered(Register, <<Response, DeviceInfo(FALSE)>>)
  <2>1. <<Response, DeviceInfo(FALSE)>> \in Seq(InFrames)
    <3>1. Response \in InFrames /\ DeviceInfo(FALSE) \in InFrames
      BY DEF InFrames, SentFrames
    <3>2. \A x, y \in InFrames : <<x, y>> \in Seq(InFrames)
      OBVIOUS
    <3> QED BY <3>1, <3>2, Zenon
  <2>2. \A a, b : <<>> \o <<a, b>> = <<a, b>>
    OBVIOUS
  <2> QED BY <1>2, <1>9, <2>1, <2>2 DEF Answered
<1>11. Handshake'
  <2> DEFINE sends == <<Response, DeviceInfo(FALSE)>>
  <2>1. Response \notin Causes
    <3>1. Response.type = "RegisterResponse"
      BY DEF Response, RegisterResponse
    <3> QED BY <3>1, CausesKinds DEF Requests
  <2>2. /\ One(DeviceInfo(FALSE), {DeviceInfo(FALSE)}) = 1 /\ One(DeviceInfo(FALSE), {Configuration}) = 0
        /\ One(DeviceInfo(FALSE), {CapsAccepted}) = 0 /\ One(DeviceInfo(FALSE), WakeCauses) = 0
        /\ One(DeviceInfo(FALSE), {}) = 0
    BY CausesKinds DEF One
  <2>3. /\ Count(sends, {DeviceInfo(FALSE)}) = 1 /\ Count(sends, {Configuration}) = 0
        /\ Count(sends, {CapsAccepted}) = 0 /\ Count(sends, WakeCauses) = 0
        /\ Count(sends, {}) = 0
    <3>1. \A S : Count(sends, S) = One(Response, S) + One(DeviceInfo(FALSE), S)
      BY CountTwo
    <3>2. 0 + 0 = 0 /\ 0 + 1 = 1
      OBVIOUS
    <3> QED BY <2>1, <2>2, <3>1, <3>2, NotCaused
  <2>4. One(Register, {Register}) = 1 /\ \A S : One(Register, S) \in Nat
    BY DEF One
  <2> HIDE DEF sends
  <2>5. /\ Counted /\ Counted'
        /\ InfoSteps' + One(Register, {Ack("DeviceInfo")}) = InfoSteps + 1
        /\ ConfigSteps' + One(Register, {HostCaps}) = ConfigSteps + 0
        /\ SubscribeSteps' + One(Register, RequestsOf("Subscribe")) = SubscribeSteps + 0
        /\ WakeSteps' + One(Register, RequestsOf("Wake")) = WakeSteps + 0
        /\ RegisterSteps' + 1 = RegisterSteps + 0
    BY <1>10, <2>3, <2>4, AnsweredSteps DEF sends
  <2>6. InfoSteps = 0 /\ ConfigSteps = 0 /\ SubscribeSteps = 0 /\ WakeSteps = 0 /\ RegisterSteps <= 1
    BY <1>4, <2>5, HandshakeOf, AtMostOne
  <2>8. /\ InfoSteps' <= 1 /\ ConfigSteps' = 0 /\ SubscribeSteps' = 0 /\ WakeSteps' = 0
        /\ RegisterSteps' = 0
    BY <2>4, <2>5, <2>6, Sums DEF Counted
  <2>9. SubscribeSteps' + ConfigSteps' <= 1
    BY <2>8
  <2> QED BY <1>1, <2>5, <2>8, <2>9, HandshakeFrom
<1> QED BY <1>1, <1>4, <1>5, <1>7, <1>8, <1>10, <1>11

LEMMA InfoTaken ==
  ASSUME Types, Registration, Handshake, DeviceInfoAcked
  PROVE  /\ Types' /\ Registration' /\ Handshake'
         /\ \E fit \in {<<>>, <<Fit("FitDefinition"), Fit("FitData")>>} :
              Answered(Ack("DeviceInfo"), Append(fit, Configuration))
         /\ phase # "Registering" /\ stage = "Registered" /\ stage' = "Identified"
         /\ UNCHANGED <<clientVars, now, faults, fired, devState, woken, unacked, wakeFails>>
<1> DEFINE ack == Ack("DeviceInfo")
<1>1. Takes(ack) /\ stage' = "Identified" /\ UNCHANGED <<devState, woken, unacked, troubles, wakeFails>>
  BY DEF DeviceInfoAcked
<1>2. PICK fit \in {<<>>, <<Fit("FitDefinition"), Fit("FitData")>>} :
        Sends(Append(fit, Configuration))
  BY DEF DeviceInfoAcked
<1>3. fit \in Seq(SentFrames) /\ \A S \in {{DeviceInfo(FALSE)}, {CapsAccepted}, WakeCauses, {Configuration}, {}} :
                                   Count(fit, S) = 0
  <2>1. \A type \in FitTypes : Fit(type) \in SentFrames /\ Fit(type) \notin Causes
    <3>1. \A type \in FitTypes : Fit(type).type \notin {"DeviceInfo", "Configuration", "Ack"} \cup Requests
      BY DEF Fit, FitTypes, Requests
    <3> QED BY <3>1, SentOnes, CausesKinds
  <2>2. fit = <<>> \/ (fit = <<Fit("FitDefinition"), Fit("FitData")>>
                        /\ Fit("FitDefinition") \in SentFrames \ Causes /\ Fit("FitData") \in SentFrames \ Causes)
    BY <2>1 DEF FitTypes
  <2>3. <<>> \in Seq(SentFrames)
    OBVIOUS
  <2> QED BY <2>2, <2>3, SentSeqs, Uncaused
<1> DEFINE sends == Append(fit, Configuration)
<1>4. sends \in Seq(SentFrames) /\ sends = fit \o <<Configuration>>
  BY <1>3, SentOnes, AppendProperties, AppendIsConcat
<1>5. \A S : Count(sends, S) = Count(fit, S) + One(Configuration, S)
  <2>1. <<Configuration>> \in Seq(SentFrames)
    BY SentOnes
  <2>2. ASSUME NEW S
        PROVE  Count(fit \o <<Configuration>>, S) = Count(fit, S) + Count(<<Configuration>>, S)
    <3> DEFINE t == <<Configuration>>
    <3>1. fit \in Seq(SentFrames) /\ t \in Seq(SentFrames)
      BY <1>3, <2>1
    <3> HIDE DEF t
    <3>2. Count(fit \o t, S) = Count(fit, S) + Count(t, S)
      BY <3>1, CountConcat
    <3> QED BY <3>2 DEF t
  <2> QED BY <1>4, <2>2, CountOne DEF One
<1>6. /\ One(Configuration, {Configuration}) = 1 /\ One(Configuration, {DeviceInfo(FALSE)}) = 0
      /\ One(Configuration, {CapsAccepted}) = 0 /\ One(Configuration, WakeCauses) = 0
      /\ One(Configuration, {}) = 0
  BY CausesKinds DEF One
<1>7. /\ Count(sends, {DeviceInfo(FALSE)}) = 0 /\ Count(sends, {Configuration}) = 1
      /\ Count(sends, {CapsAccepted}) = 0 /\ Count(sends, WakeCauses) = 0 /\ Count(sends, {}) = 0
  <2>1. 0 + 0 = 0 /\ 0 + 1 = 1
    OBVIOUS
  <2> QED BY <1>3, <1>5, <1>6, <2>1
<1> HIDE DEF sends, ack
<1>8. /\ Answered(ack, sends) /\ phase # "Registering"
      /\ tx' \in Seq(Writes) /\ rx' \in Seq(SentItems)
      /\ UNCHANGED <<clientVars, now, faults, asked, fired>>
  BY <1>1, <1>2, <1>4, TakenAnswered DEF sends
<1>9. Types' /\ Registration'
  BY <1>1, <1>8, DeviceKeeps DEF Types
<1>10. One(ack, {Ack("DeviceInfo")}) = 1 /\ \A S : One(ack, S) \in Nat
  BY DEF One, ack
<1>11. /\ Counted /\ Counted'
       /\ InfoSteps' + 1 = InfoSteps + 0
       /\ ConfigSteps' + One(ack, {HostCaps}) = ConfigSteps + 1
       /\ SubscribeSteps' + One(ack, RequestsOf("Subscribe")) = SubscribeSteps + 0
       /\ WakeSteps' + One(ack, RequestsOf("Wake")) = WakeSteps + 0
       /\ RegisterSteps' + One(ack, {Register}) = RegisterSteps + 0
  BY <1>7, <1>8, <1>10, AnsweredSteps
<1>12. stage = "Registered" /\ InfoSteps <= 1
  <2>1. InfoSteps > 0
    BY <1>11, Sums DEF Counted
  <2>2. stage = "Registered"
    BY <2>1 DEF Handshake
  <2> QED BY <1>11, <2>2, AtMostOne
<1>13. ConfigSteps = 0 /\ SubscribeSteps = 0 /\ WakeSteps = 0 /\ RegisterSteps = 0
  BY <1>11, <1>12, HandshakeOf
<1>15. InfoSteps' = 0 /\ ConfigSteps' <= 1 /\ SubscribeSteps' = 0 /\ WakeSteps' = 0 /\ RegisterSteps' = 0
  BY <1>10, <1>11, <1>12, <1>13, Sums DEF Counted
<1>16. SubscribeSteps' + ConfigSteps' <= 1 /\ InfoSteps' <= 1
  BY <1>11, <1>15, Sums DEF Counted
<1>17. Handshake'
  BY <1>1, <1>11, <1>15, <1>16, HandshakeFrom
<1> QED BY <1>1, <1>8, <1>9, <1>12, <1>17 DEF sends, ack

LEMMA AckTaken ==
  ASSUME Types, Registration, Handshake, DeviceAcked
  PROVE  /\ Types' /\ Registration' /\ Handshake'
         /\ \/ \E type \in FitTypes \cup {"Configuration"} : Answered(Ack(type), <<>>) /\ unacked' = unacked
            \/ \E type \in Requests :
                 /\ Answered(Ack(type), <<>>)
                 /\ unacked' = IF unacked = <<>> THEN <<>> ELSE Tail(unacked)
         /\ phase # "Registering"
         /\ UNCHANGED <<clientVars, now, faults, fired, stage, devState, woken, wakeFails>>
<1>1. UNCHANGED <<rx, stage, devState, woken, troubles, wakeFails>>
  BY DEF DeviceAcked
<1>2. \/ \E type \in FitTypes \cup {"Configuration"} : Takes(Ack(type)) /\ unacked' = unacked
      \/ \E type \in Requests :
           /\ Takes(Ack(type))
           /\ unacked' = IF unacked = <<>> THEN <<>> ELSE Tail(unacked)
  BY DEF DeviceAcked
<1>3. PICK type : /\ Takes(Ack(type))
                  /\ unacked' \in {unacked, IF unacked = <<>> THEN <<>> ELSE Tail(unacked)}
  BY <1>2
<1>4. /\ Answered(Ack(type), <<>>) /\ phase # "Registering"
      /\ tx' \in Seq(Writes) /\ rx' \in Seq(SentItems)
      /\ UNCHANGED <<clientVars, now, faults, asked, fired>>
  BY <1>1, <1>3, TakenSilently
<1>5. unacked' \in Seq(Protobufs)
  <2>1. unacked \in Seq(Protobufs)
    BY DEF Types
  <2>2. unacked # <<>> => Tail(unacked) \in Seq(Protobufs)
    BY <2>1
  <2> QED BY <1>3, <2>1, <2>2
<1>6. Types' /\ Registration'
  BY <1>1, <1>4, <1>5, DeviceKeeps DEF Types, Registration
<1>7. Handshake'
  BY <1>1, <1>4, Uncaused, AnswersKeep
<1>8. \A kind : Takes(Ack(kind)) => Answered(Ack(kind), <<>>)
  BY <1>1, TakenSilently
<1> QED BY <1>1, <1>2, <1>4, <1>6, <1>7, <1>8

LEMMA CapsTaken ==
  ASSUME Types, Registration, Handshake, DeviceConfigured
  PROVE  /\ Types' /\ Registration' /\ Handshake'
         /\ Answered(HostCaps, <<CapsAccepted>>)
         /\ phase # "Registering"
         /\ stage \in {"Identified", "Session"} /\ stage' = "Session"
         /\ UNCHANGED <<clientVars, now, faults, fired, devState, woken, unacked, wakeFails>>
<1> DEFINE sends == <<CapsAccepted>>
<1>1. Takes(HostCaps) /\ stage' = "Session" /\ Sends(sends)
      /\ UNCHANGED <<devState, woken, unacked, troubles, wakeFails>>
  BY DEF DeviceConfigured, CapsAccepted
<1>2. sends \in Seq(SentFrames)
  BY SentOnes, SentSeqs
<1>3. /\ Count(sends, {DeviceInfo(FALSE)}) = 0 /\ Count(sends, {Configuration}) = 0
      /\ Count(sends, {CapsAccepted}) = 1 /\ Count(sends, WakeCauses) = 0 /\ Count(sends, {}) = 0
  <2>1. /\ CapsAccepted \notin {DeviceInfo(FALSE)} /\ CapsAccepted \notin {Configuration}
        /\ CapsAccepted \in {CapsAccepted} /\ CapsAccepted \notin WakeCauses /\ CapsAccepted \notin {}
    BY CausesKinds
  <2> QED BY <2>1, CountOne
<1> HIDE DEF sends
<1>4. /\ Answered(HostCaps, sends) /\ phase # "Registering"
      /\ tx' \in Seq(Writes) /\ rx' \in Seq(SentItems)
      /\ UNCHANGED <<clientVars, now, faults, asked, fired>>
  BY <1>1, <1>2, TakenAnswered
<1>5. Types' /\ Registration'
  BY <1>1, <1>4, DeviceKeeps DEF Types
<1>6. One(HostCaps, {HostCaps}) = 1 /\ \A S : One(HostCaps, S) \in Nat
  BY DEF One
<1>7. /\ Counted /\ Counted'
      /\ InfoSteps' + One(HostCaps, {Ack("DeviceInfo")}) = InfoSteps + 0
      /\ ConfigSteps' + 1 = ConfigSteps + 0
      /\ SubscribeSteps' + One(HostCaps, RequestsOf("Subscribe")) = SubscribeSteps + 1
      /\ RegisterSteps' + One(HostCaps, {Register}) = RegisterSteps + 0
  BY <1>3, <1>4, <1>6, AnsweredSteps
<1>8. /\ ConfigSteps > 0 /\ ConfigSteps <= 1
      /\ InfoSteps = 0 /\ SubscribeSteps = 0 /\ RegisterSteps = 0
      /\ stage \in {"Identified", "Session"}
  <2>1. ConfigSteps > 0
    BY <1>7, Sums DEF Counted
  <2>2. ConfigSteps <= 1 /\ SubscribeSteps + ConfigSteps <= 1
    BY <1>7, AtMostOne
  <2>3. SubscribeSteps = 0
    <3>1. \A a, b \in Nat : b > 0 /\ a + b <= 1 => a = 0
      OBVIOUS
    <3> QED BY <1>7, <2>1, <2>2, <3>1 DEF Counted
  <2>4. stage \in {"Identified", "Session"}
    BY <2>1 DEF Handshake
  <2> QED BY <1>7, <2>1, <2>2, <2>3, <2>4, HandshakeOf
<1>9. InfoSteps' = 0 /\ ConfigSteps' = 0 /\ SubscribeSteps' <= 1 /\ RegisterSteps' = 0
  BY <1>6, <1>7, <1>8, Sums DEF Counted
<1>10. SubscribeSteps' + ConfigSteps' <= 1 /\ InfoSteps' <= 1
  BY <1>7, <1>9, Sums DEF Counted
<1>11. Handshake'
  BY <1>1, <1>7, <1>9, <1>10, HandshakeFrom
<1> QED BY <1>1, <1>4, <1>5, <1>8, <1>11 DEF sends

LEMMA SubscribeTaken ==
  ASSUME Types, Registration, Handshake, DeviceSubscribe
  PROVE  /\ Types' /\ Registration' /\ Handshake'
         /\ \E id \in 0 .. ReqIds - 1 : Answered(Request("Subscribe", id), <<SubscribeOk>>)
         /\ phase # "Registering"
         /\ stage = "Session" /\ stage' = "Subscribed" /\ woken' = FALSE
         /\ unacked' = unacked \o <<SubscribeOk>>
         /\ UNCHANGED <<clientVars, now, faults, fired, devState, wakeFails>>
<1> DEFINE sends == <<SubscribeOk>>
<1>1. TakesRequest("Subscribe") /\ stage' = "Subscribed" /\ woken' = FALSE
      /\ Sends(sends) /\ unacked' = unacked \o sends
      /\ UNCHANGED <<devState, troubles, wakeFails>>
  BY DEF DeviceSubscribe, SendsOwed, SubscribeOk
<1>2. PICK id \in 0 .. ReqIds - 1 : Takes(Request("Subscribe", id))
  BY <1>1 DEF TakesRequest
<1>3. sends \in Seq(SentFrames)
  BY SentOnes, SentSeqs
<1>4. /\ Count(sends, {DeviceInfo(FALSE)}) = 0 /\ Count(sends, {Configuration}) = 0
      /\ Count(sends, {CapsAccepted}) = 0 /\ Count(sends, {}) = 0
  <2>1. SubscribeOk \in WakeCauses
    BY DEF WakeCauses
  <2>2. /\ SubscribeOk \notin {DeviceInfo(FALSE)} /\ SubscribeOk \notin {Configuration}
        /\ SubscribeOk \notin {CapsAccepted} /\ SubscribeOk \notin {}
    BY <2>1, CausesKinds
  <2> QED BY <2>2, CountOne
<1> HIDE DEF sends
<1> DEFINE request == Request("Subscribe", id)
<1>5. One(request, RequestsOf("Subscribe")) = 1 /\ \A S : One(request, S) \in Nat
  BY DEF One, RequestsOf
<1> HIDE DEF request
<1>6. /\ Answered(request, sends) /\ phase # "Registering"
      /\ tx' \in Seq(Writes) /\ rx' \in Seq(SentItems)
      /\ UNCHANGED <<clientVars, now, faults, asked, fired>>
  BY <1>1, <1>2, <1>3, TakenAnswered DEF request
<1>7. unacked' \in Seq(Protobufs)
  <2>1. sends \in Seq(Protobufs)
    BY ProtobufKinds, ProtobufSeqs DEF sends
  <2> QED BY <1>1, <2>1 DEF Types
<1>8. Types' /\ Registration'
  BY <1>1, <1>6, <1>7, DeviceKeeps DEF Types
<1>9. /\ Counted /\ Counted'
      /\ InfoSteps' + One(request, {Ack("DeviceInfo")}) = InfoSteps + 0
      /\ ConfigSteps' + One(request, {HostCaps}) = ConfigSteps + 0
      /\ SubscribeSteps' + 1 = SubscribeSteps + 0
      /\ RegisterSteps' + One(request, {Register}) = RegisterSteps + 0
  BY <1>4, <1>5, <1>6, AnsweredSteps
<1>10. stage = "Session" /\ SubscribeSteps > 0 /\ SubscribeSteps <= 1
       /\ InfoSteps = 0 /\ ConfigSteps = 0 /\ RegisterSteps = 0
  <2>1. SubscribeSteps > 0
    BY <1>9, Sums DEF Counted
  <2>2. SubscribeSteps <= 1 /\ SubscribeSteps + ConfigSteps <= 1
    BY <1>9, AtMostOne
  <2>3. ConfigSteps = 0
    <3>1. \A a, b \in Nat : b > 0 /\ b + a <= 1 => a = 0
      OBVIOUS
    <3> QED BY <1>9, <2>1, <2>2, <3>1 DEF Counted
  <2>4. stage = "Session"
    BY <2>1 DEF Handshake
  <2> QED BY <1>9, <2>1, <2>2, <2>3, <2>4, HandshakeOf
<1>11. InfoSteps' = 0 /\ ConfigSteps' = 0 /\ SubscribeSteps' = 0 /\ RegisterSteps' = 0
  BY <1>5, <1>9, <1>10, Sums DEF Counted
<1>12. SubscribeSteps' + ConfigSteps' <= 1 /\ InfoSteps' <= 1
  BY <1>9, <1>11, Sums DEF Counted
<1>13. Handshake'
  BY <1>1, <1>9, <1>11, <1>12, HandshakeFrom
<1> QED BY <1>1, <1>6, <1>8, <1>10, <1>13 DEF sends, request

WakeAnswered(sends) ==
  \/ /\ devState = "Standby" /\ devState' = "Waiting" /\ woken' = TRUE
     /\ sends = <<WakeResult(0), StateChange("Waiting")>> /\ UNCHANGED wakeFails
  \/ /\ devState # "Standby" /\ devState' = devState /\ woken' = TRUE
     /\ sends = <<WakeResult(1)>> /\ UNCHANGED wakeFails
  \/ /\ devState = "Standby" /\ devState' = devState /\ woken' = woken
     /\ sends = <<WakeResult(2)>> /\ wakeFails' = wakeFails + 1

LEMMA WakeTaken ==
  ASSUME Types, Registration, Handshake, DeviceWake
  PROVE  /\ Types' /\ Registration' /\ Handshake' /\ phase # "Registering"
         /\ \E id \in 0 .. ReqIds - 1, sends \in Seq(SentFrames) :
              /\ Answered(Request("Wake", id), sends) /\ WakeAnswered(sends)
              /\ unacked' = unacked \o sends
         /\ UNCHANGED <<clientVars, now, faults, fired, stage>>
<1>1. TakesRequest("Wake") /\ stage' = stage
  BY DEF DeviceWake
<1>2. PICK id \in 0 .. ReqIds - 1 : Takes(Request("Wake", id))
  BY <1>1 DEF TakesRequest
<1>3. PICK sends : Sends(sends) /\ unacked' = unacked \o sends /\ WakeAnswered(sends)
  BY DEF DeviceWake, SendsOwed, WakeAnswered
<1>4. /\ sends \in Seq(SentFrames)
      /\ Count(sends, {DeviceInfo(FALSE)}) = 0 /\ Count(sends, {Configuration}) = 0
      /\ Count(sends, {CapsAccepted}) = 0 /\ Count(sends, WakeCauses) = 0 /\ Count(sends, {}) = 0
  <2>1. \A status \in 0..2 : WakeResult(status) \in SentFrames /\ WakeResult(status) \notin Causes
    <3>1. \A status : WakeResult(status).type \in Requests /\ WakeResult(status).body = "WakeResult"
      BY DEF WakeResult, Requests
    <3> QED BY <3>1, SentOnes, CausesKinds
  <2>2. StateChange("Waiting") \in SentFrames /\ StateChange("Waiting") \notin Causes
    BY SentOnes, CausesKinds DEF DeviceStates
  <2>3. \/ sends = <<WakeResult(0), StateChange("Waiting")>>
        \/ sends = <<WakeResult(1)>> \/ sends = <<WakeResult(2)>>
    BY <1>3 DEF WakeAnswered
  <2>4. 0 \in 0..2 /\ 1 \in 0..2 /\ 2 \in 0..2
    OBVIOUS
  <2> QED BY <2>1, <2>2, <2>3, <2>4, SentSeqs, Uncaused
<1>5. /\ Answered(Request("Wake", id), sends) /\ phase # "Registering"
      /\ tx' \in Seq(Writes) /\ rx' \in Seq(SentItems)
      /\ UNCHANGED <<clientVars, now, faults, asked, fired>>
  BY <1>2, <1>3, <1>4, TakenAnswered
<1>6. unacked' \in Seq(Protobufs)
  <2>1. sends \in Seq(Protobufs)
    <3>1. 0 \in 0..2 /\ 1 \in 0..2 /\ 2 \in 0..2 /\ "Waiting" \in DeviceStates
      BY DEF DeviceStates
    <3> QED BY <1>3, <3>1, ProtobufKinds, ProtobufSeqs DEF WakeAnswered
  <2> QED BY <1>3, <2>1 DEF Types
<1>7. devState' \in DeviceStates /\ woken' \in BOOLEAN /\ wakeFails' \in Nat
  <2>1. devState' \in DeviceStates /\ wakeFails' \in Nat
    BY <1>3 DEF WakeAnswered, Types, DeviceStates
  <2>2. woken' \in BOOLEAN
    <3>1. woken \in BOOLEAN
      BY DEF Types
    <3>2. woken' = TRUE \/ woken' = woken
      BY <1>3, Zenon DEF WakeAnswered
    <3> QED BY <3>1, <3>2, Zenon
  <2> QED BY <2>1, <2>2
<1>8. Types' /\ Registration'
  BY <1>1, <1>5, <1>6, <1>7, DeviceKeeps DEF Types, Registration
<1>9. Handshake'
  BY <1>1, <1>4, <1>5, AnswersKeep
<1> QED BY <1>1, <1>3, <1>4, <1>5, <1>8, <1>9

EnvironmentAnswer == <<AckOf("ProtobufRequest", 0), Result("EnvironmentResult", TRUE)>>

LEMMA EnvironmentTaken ==
  ASSUME Types, Registration, Handshake, DeviceEnvironment
  PROVE  /\ Types' /\ Registration' /\ Handshake' /\ phase # "Registering"
         /\ \E id \in 0 .. ReqIds - 1 : Answered(Request("Environment", id), EnvironmentAnswer)
         /\ unacked' = unacked \o <<Result("EnvironmentResult", TRUE)>>
         /\ UNCHANGED <<clientVars, now, faults, fired, stage, devState, woken, wakeFails>>
<1> DEFINE sends == EnvironmentAnswer
           answer == Result("EnvironmentResult", TRUE)
<1>1. /\ TakesRequest("Environment") /\ Sends(sends) /\ unacked' = Append(unacked, answer)
      /\ UNCHANGED <<stage, devState, woken, troubles, wakeFails>>
  BY DEF DeviceEnvironment, Sends, EnvironmentAnswer
<1>2. PICK id \in 0 .. ReqIds - 1 : Takes(Request("Environment", id))
  BY <1>1 DEF TakesRequest
<1>3. answer \in SentFrames /\ answer \notin Causes
  <2>1. answer.type \in Requests /\ answer.body = "EnvironmentResult"
    BY DEF Result, Requests
  <2> QED BY <2>1, SentOnes, CausesKinds
<1> HIDE DEF answer
<1>4. /\ sends \in Seq(SentFrames)
      /\ Count(sends, {DeviceInfo(FALSE)}) = 0 /\ Count(sends, {Configuration}) = 0
      /\ Count(sends, {CapsAccepted}) = 0 /\ Count(sends, WakeCauses) = 0 /\ Count(sends, {}) = 0
  <2>1. AckOf("ProtobufRequest", 0) \in SentFrames /\ AckOf("ProtobufRequest", 0) \notin Causes
    BY SentOnes, CausesKinds
  <2>2. sends = <<AckOf("ProtobufRequest", 0), answer>>
    BY DEF EnvironmentAnswer, answer
  <2> HIDE DEF sends
  <2> QED BY <1>3, <2>1, <2>2, SentSeqs, Uncaused
<1> HIDE DEF sends
<1>5. /\ Answered(Request("Environment", id), sends) /\ phase # "Registering"
      /\ tx' \in Seq(Writes) /\ rx' \in Seq(SentItems)
      /\ UNCHANGED <<clientVars, now, faults, asked, fired>>
  BY <1>1, <1>2, <1>4, TakenAnswered
<1>6. unacked' \in Seq(Protobufs) /\ unacked' = unacked \o <<answer>>
  <2>1. unacked \in Seq(Protobufs) /\ answer \in Protobufs
    BY ProtobufKinds DEF Types, answer
  <2> QED BY <1>1, <2>1, AppendProperties, AppendIsConcat
<1>7. Types' /\ Registration'
  BY <1>1, <1>5, <1>6, DeviceKeeps DEF Types, Registration
<1>8. Handshake'
  BY <1>1, <1>4, <1>5, AnswersKeep
<1> QED BY <1>1, <1>2, <1>5, <1>6, <1>7, <1>8 DEF sends, answer

(* A request written before the register response was read.                 *)
LEMMA EarlyIgnored ==
  ASSUME Types, Registration, Handshake, DeviceIgnores
  PROVE  /\ Types' /\ Registration' /\ Handshake'
         /\ \E id \in 0 .. ReqIds - 1 : Answered(Request("Environment", id), <<>>)
         /\ UNCHANGED <<clientVars, now, faults, device>>
<1> DEFINE frame == Head(tx).frame
<1>1. /\ tx # <<>> /\ frame # Register /\ Head(tx).handle # SessionHandle /\ tx' = Tail(tx)
      /\ UNCHANGED <<clientVars, rx, now, faults, asked, device>>
  BY DEF DeviceIgnores
<1>2. /\ Outbound # <<>> /\ Head(Outbound) = frame /\ Outbound' = Tail(Outbound)
      /\ Head(tx) \in Writes /\ tx' \in Seq(Writes)
      /\ phase = "Registering" => tx' \in Seq(EarlyWrites)
  BY <1>1, DeviceTook
<1>3. \E id \in 0 .. ReqIds - 1 : frame = Request("Environment", id)
  <2>1. Head(tx) \in EarlyWrites
    BY <1>1, <1>2, ItemFrames DEF Writes
  <2> QED BY <1>1, <2>1 DEF EarlyWrites, RequestsOf
<1> HIDE DEF frame
<1>4. Types'
  BY <1>1, <1>2 DEF Types, Writes, clientVars, session, device
<1>5. Registration'
  BY <1>1, <1>2 DEF Registration, clientVars, session, device
<1>6. Inbound' = Inbound
  BY <1>1 DEF Inbound, clientVars, session
<1>7. Inbound \o <<>> = Inbound /\ <<>> \in Seq(InFrames)
  BY Queues, ConcatEmptySeq
<1>8. Answered(frame, <<>>)
  BY <1>2, <1>6, <1>7 DEF Answered
<1>9. Handshake'
  BY <1>1, <1>8, Uncaused, AnswersKeep DEF device
<1> QED BY <1>1, <1>3, <1>4, <1>5, <1>8, <1>9

(* What the R10 sends of itself. *)
LEMMA Sent ==
  ASSUME Types, Registration, phase # "Registering", NEW frames \in Seq(SentFrames), Sends(frames),
         UNCHANGED <<clientVars, tx, now, faults>>
  PROVE  Pushed(frames) /\ tx' \in Seq(Writes) /\ rx' \in Seq(SentItems)
<1>1. Inbound' = Inbound \o frames /\ rx' \in Seq(SentItems)
  BY DeviceSent DEF clientVars, session
<1> QED BY <1>1 DEF Pushed, Types, Writes, Outbound

LEMMA PushesKeep ==
  ASSUME Types, Registration, Handshake, stage' = stage, NEW frames, Pushed(frames),
         /\ Count(frames, {DeviceInfo(FALSE)}) = 0 /\ Count(frames, {Configuration}) = 0
         /\ Count(frames, {CapsAccepted}) = 0 /\ Count(frames, {}) = 0,
         Count(frames, WakeCauses) = 0 \/ stage = "Subscribed"
  PROVE  Handshake'
<1>1. \A a \in Nat : a + 0 = a /\ a <= a
  OBVIOUS
<1>2. /\ Counted /\ Counted'
      /\ InfoSteps' = InfoSteps /\ ConfigSteps' = ConfigSteps
      /\ SubscribeSteps' = SubscribeSteps /\ RegisterSteps' = RegisterSteps
      /\ Count(frames, WakeCauses) = 0 => WakeSteps' = WakeSteps
  BY <1>1, PushedSteps DEF Counted
<1>3. CASE Count(frames, WakeCauses) = 0
  BY <1>1, <1>2, <1>3, KeptBySteps DEF Counted
<1>4. CASE stage = "Subscribed"
  <2>1. InfoSteps' = 0 /\ ConfigSteps' = 0 /\ SubscribeSteps' = 0 /\ RegisterSteps' = 0
    BY <1>2, <1>4, HandshakeOf
  <2>2. SubscribeSteps' + ConfigSteps' <= 1 /\ InfoSteps' <= 1
    BY <1>2, <2>1, Sums DEF Counted
  <2> QED BY <1>2, <1>4, <2>1, <2>2, HandshakeFrom
<1> QED BY <1>3, <1>4

(* Alerts and a shot sent again, as the steps Swing, Measure, FallAsleep    *)
(* and ReplayShot send them.                                                *)
Alerted(frames) ==
  /\ Pushed(frames) /\ phase # "Registering" /\ unacked' = unacked \o frames
  /\ UNCHANGED <<clientVars, now, faults, stage, woken, wakeFails>>

LEMMA AlertsSent ==
  ASSUME Types, Registration, Handshake, phase # "Registering",
         NEW frames \in Seq(SentFrames), frames \in Seq(Protobufs), SendsOwed(frames),
         devState' \in DeviceStates,
         UNCHANGED <<clientVars, tx, now, faults, stage, woken, wakeFails>>,
         /\ Count(frames, {DeviceInfo(FALSE)}) = 0 /\ Count(frames, {Configuration}) = 0
         /\ Count(frames, {CapsAccepted}) = 0 /\ Count(frames, {}) = 0,
         Count(frames, WakeCauses) = 0 \/ stage = "Subscribed"
  PROVE  Types' /\ Registration' /\ Handshake' /\ Alerted(frames)
<1>1. Sends(frames) /\ unacked' = unacked \o frames
  BY DEF SendsOwed
<1>2. Pushed(frames) /\ tx' \in Seq(Writes) /\ rx' \in Seq(SentItems)
  BY <1>1, Sent
<1>3. unacked' \in Seq(Protobufs)
  BY <1>1 DEF Types
<1>4. Types' /\ Registration'
  BY <1>2, <1>3, DeviceKeeps DEF Types, Registration
<1>5. Handshake'
  BY <1>2, PushesKeep
<1> QED BY <1>1, <1>2, <1>4, <1>5 DEF Alerted

LEMMA ShotKinds ==
  \A id \in ShotIds : Shot(id) \in SentFrames /\ Shot(id) \notin Causes
<1>1. \A id : Shot(id).type \in Requests /\ Shot(id).body = "Shot"
  BY DEF Shot, Requests
<1> QED BY <1>1, SentOnes, CausesKinds

LEMMA ShotFrames ==
  ASSUME NEW f \in Protobufs, f.body = "Shot" PROVE \E id \in ShotIds : f = Shot(id)
BY DEF Protobufs, Result, WakeResult, StateChange

LEMMA Swings ==
  ASSUME Types, Registration, Handshake, Swing
  PROVE  /\ Types' /\ Registration' /\ Handshake'
         /\ devState = "Waiting" /\ stage = "Subscribed" /\ (woken \/ EarlySwing)
         /\ Alerted(<<StateChange("Recording")>>) /\ devState' = "Recording" /\ fired' = fired
<1> DEFINE frames == <<StateChange("Recording")>>
<1>1. /\ stage = "Subscribed" /\ devState = "Waiting" /\ devState' = "Recording" /\ fired' = fired
      /\ (woken \/ EarlySwing) /\ SendsOwed(frames)
      /\ UNCHANGED <<clientVars, tx, now, faults, asked, stage, woken, wakeFails>>
  BY DEF Swing, Monitors, Alerts
<1>2. phase # "Registering" /\ devState' \in DeviceStates
  BY <1>1 DEF Registration, DeviceStates
<1>3. /\ frames \in Seq(SentFrames) /\ frames \in Seq(Protobufs)
      /\ Count(frames, {DeviceInfo(FALSE)}) = 0 /\ Count(frames, {Configuration}) = 0
      /\ Count(frames, {CapsAccepted}) = 0 /\ Count(frames, {}) = 0
      /\ Count(frames, WakeCauses) = 0
  <2>1. StateChange("Recording") \in SentFrames /\ StateChange("Recording") \in Protobufs
        /\ StateChange("Recording") \notin Causes
    BY SentOnes, ProtobufKinds, CausesKinds DEF DeviceStates
  <2> QED BY <2>1, SentSeqs, ProtobufSeqs, Uncaused
<1> HIDE DEF frames
<1>4. Types' /\ Registration' /\ Handshake' /\ Alerted(frames)
  BY <1>1, <1>2, <1>3, AlertsSent
<1> QED BY <1>1, <1>4 DEF frames

LEMMA Measures ==
  ASSUME Types, Registration, Handshake, Measure
  PROVE  /\ Types' /\ Registration' /\ Handshake'
         /\ devState = "Recording" /\ devState' = "Waiting"
         /\ \E id \in ShotIds :
              /\ \A i \in DOMAIN fired : fired[i] # id
              /\ fired' = Append(fired, id)
              /\ Alerted(<<Shot(id), StateChange("Waiting")>>)
<1>1. /\ stage = "Subscribed" /\ devState = "Recording" /\ devState' = "Waiting"
      /\ UNCHANGED <<clientVars, tx, now, faults, asked, stage, woken, wakeFails>>
  BY DEF Measure, Monitors, Alerts
<1>2. PICK id \in ShotIds : /\ \A i \in DOMAIN fired : fired[i] # id
                            /\ fired' = Append(fired, id)
                            /\ SendsOwed(<<Shot(id), StateChange("Waiting")>>)
  BY DEF Measure, Alerts
<1> DEFINE frames == <<Shot(id), StateChange("Waiting")>>
<1>3. phase # "Registering" /\ devState' \in DeviceStates
  BY <1>1 DEF Registration, DeviceStates
<1>4. /\ frames \in Seq(SentFrames) /\ frames \in Seq(Protobufs)
      /\ Count(frames, {DeviceInfo(FALSE)}) = 0 /\ Count(frames, {Configuration}) = 0
      /\ Count(frames, {CapsAccepted}) = 0 /\ Count(frames, {}) = 0
      /\ Count(frames, WakeCauses) = 0
  <2>1. StateChange("Waiting") \in SentFrames /\ StateChange("Waiting") \in Protobufs
        /\ StateChange("Waiting") \notin Causes
    BY SentOnes, ProtobufKinds, CausesKinds DEF DeviceStates
  <2>2. Shot(id) \in SentFrames /\ Shot(id) \in Protobufs /\ Shot(id) \notin Causes
    BY ShotKinds, ProtobufKinds
  <2> QED BY <2>1, <2>2, SentSeqs, ProtobufSeqs, Uncaused
<1>5. SendsOwed(frames)
  BY <1>2
<1> HIDE DEF frames
<1>6. Types' /\ Registration' /\ Handshake' /\ Alerted(frames)
  BY <1>1, <1>3, <1>4, <1>5, AlertsSent
<1> QED BY <1>1, <1>2, <1>6 DEF frames

LEMMA FallsAsleep ==
  ASSUME Types, Registration, Handshake, FallAsleep
  PROVE  /\ Types' /\ Registration' /\ Handshake'
         /\ devState = "Waiting" /\ stage = "Subscribed" /\ (woken \/ EarlySwing)
         /\ Alerted(<<StateChange("Standby")>>) /\ devState' = "Standby" /\ fired' = fired
<1> DEFINE frames == <<StateChange("Standby")>>
<1>1. /\ stage = "Subscribed" /\ devState = "Waiting" /\ devState' = "Standby" /\ fired' = fired
      /\ (woken \/ EarlySwing) /\ SendsOwed(frames)
      /\ UNCHANGED <<clientVars, tx, now, faults, asked, stage, woken, wakeFails>>
  BY DEF FallAsleep, Monitors, Alerts
<1>2. phase # "Registering" /\ devState' \in DeviceStates
  BY <1>1 DEF Registration, DeviceStates
<1>3. /\ frames \in Seq(SentFrames) /\ frames \in Seq(Protobufs)
      /\ Count(frames, {DeviceInfo(FALSE)}) = 0 /\ Count(frames, {Configuration}) = 0
      /\ Count(frames, {CapsAccepted}) = 0 /\ Count(frames, {}) = 0
  <2>1. StateChange("Standby") \in SentFrames /\ StateChange("Standby") \in Protobufs
        /\ StateChange("Standby") \in WakeCauses
    BY SentOnes, ProtobufKinds DEF DeviceStates, WakeCauses
  <2>2. /\ StateChange("Standby") \notin {DeviceInfo(FALSE)}
        /\ StateChange("Standby") \notin {Configuration}
        /\ StateChange("Standby") \notin {CapsAccepted} /\ StateChange("Standby") \notin {}
    BY <2>1, CausesKinds
  <2> QED BY <2>1, <2>2, SentSeqs, ProtobufSeqs, CountOne
<1> HIDE DEF frames
<1>4. Types' /\ Registration' /\ Handshake' /\ Alerted(frames)
  BY <1>1, <1>2, <1>3, AlertsSent
<1> QED BY <1>1, <1>4 DEF frames

LEMMA Replays ==
  ASSUME Types, Registration, Handshake, ReplayShot
  PROVE  /\ Types' /\ Registration' /\ Handshake' /\ fired' = fired /\ devState' = devState
         /\ \E id \in ShotIds, i \in DOMAIN unacked : unacked[i] = Shot(id) /\ Alerted(<<Shot(id)>>)
<1>1. PICK i \in DOMAIN unacked : unacked[i].body = "Shot" /\ SendsOwed(<<unacked[i]>>)
  BY DEF ReplayShot
<1>2. UNCHANGED <<clientVars, tx, now, faults, asked, stage, devState, woken, fired, wakeFails>>
  BY DEF ReplayShot
<1>3. unacked[i] \in Protobufs /\ unacked # <<>>
  BY DEF Types
<1>4. PICK id \in ShotIds : unacked[i] = Shot(id)
  BY <1>1, <1>3, ShotFrames
<1>5. phase # "Registering" /\ devState' \in DeviceStates
  BY <1>2, <1>3 DEF Registration, Types
<1> DEFINE frames == <<Shot(id)>>
<1>6. /\ frames \in Seq(SentFrames) /\ frames \in Seq(Protobufs)
      /\ Count(frames, {DeviceInfo(FALSE)}) = 0 /\ Count(frames, {Configuration}) = 0
      /\ Count(frames, {CapsAccepted}) = 0 /\ Count(frames, {}) = 0
      /\ Count(frames, WakeCauses) = 0
  BY ShotKinds, ProtobufKinds, SentSeqs, ProtobufSeqs, Uncaused
<1>7. SendsOwed(frames)
  BY <1>1, <1>4
<1> HIDE DEF frames
<1>8. Types' /\ Registration' /\ Handshake' /\ Alerted(frames)
  BY <1>2, <1>5, <1>6, <1>7, AlertsSent
<1> QED BY <1>2, <1>4, <1>8 DEF frames

LEMMA Restarts ==
  ASSUME Types, Registration, Handshake, Restart
  PROVE  /\ Types' /\ Registration' /\ Handshake'
         /\ Pushed(<<Configuration>>) /\ phase # "Registering"
         /\ stage = "Subscribed" /\ stage' = "Session" /\ devState # "Recording"
         /\ UNCHANGED <<clientVars, now, faults, devState, woken, unacked, fired, wakeFails>>
<1> DEFINE frames == <<Configuration>>
<1>1. /\ stage = "Subscribed" /\ stage' = "Session" /\ devState # "Recording" /\ Sends(frames)
      /\ UNCHANGED <<clientVars, tx, now, faults, asked, devState, woken, unacked, fired, wakeFails>>
  BY DEF Restart
<1>2. phase # "Registering"
  BY <1>1 DEF Registration
<1>3. frames \in Seq(SentFrames)
  BY SentOnes, SentSeqs
<1>4. /\ Count(frames, {DeviceInfo(FALSE)}) = 0 /\ Count(frames, {Configuration}) = 1
      /\ Count(frames, {CapsAccepted}) = 0 /\ Count(frames, {}) = 0
  <2>1. /\ Configuration \notin {DeviceInfo(FALSE)} /\ Configuration \in {Configuration}
        /\ Configuration \notin {CapsAccepted} /\ Configuration \notin {}
    BY CausesKinds
  <2> QED BY <2>1, CountOne
<1> HIDE DEF frames
<1>5. Pushed(frames) /\ tx' \in Seq(Writes) /\ rx' \in Seq(SentItems)
  BY <1>1, <1>2, <1>3, Sent
<1>6. Types' /\ Registration'
  BY <1>1, <1>2, <1>5, DeviceKeeps DEF Types
<1>7. /\ Counted /\ Counted'
      /\ InfoSteps' = InfoSteps + 0 /\ ConfigSteps' = ConfigSteps + 1
      /\ SubscribeSteps' = SubscribeSteps + 0 /\ RegisterSteps' = RegisterSteps + 0
  BY <1>4, <1>5, PushedSteps
<1>8. InfoSteps = 0 /\ ConfigSteps = 0 /\ SubscribeSteps = 0 /\ RegisterSteps = 0
  BY <1>1, <1>7, HandshakeOf
<1>9. InfoSteps' = 0 /\ ConfigSteps' = 1 /\ SubscribeSteps' = 0 /\ RegisterSteps' = 0
  BY <1>7, <1>8
<1>10. SubscribeSteps' + ConfigSteps' <= 1 /\ InfoSteps' <= 1
  BY <1>9
<1>11. Handshake'
  BY <1>1, <1>7, <1>9, <1>10, HandshakeFrom
<1> QED BY <1>1, <1>2, <1>5, <1>6, <1>11 DEF frames

-----------------------------------------------------------------------------
(* The session keeps what has been said. *)

LEMMA StartHandshake ==
  ASSUME Types, Registration, Handshake, Start, UNCHANGED device PROVE Handshake'
<1>1. stage' = "Off" /\ Inbound' = <<>> /\ Outbound' = <<Register>>
  BY Starts DEF device
<1>2. /\ Register \in {Register} /\ Register \notin {Ack("DeviceInfo")} /\ Register \notin {HostCaps}
      /\ \A body : Register \notin RequestsOf(body)
  BY DEF Register, Ack, HostCaps, RequestsOf, Request
<1>3. \A S : /\ Count(Inbound', S) = 0
             /\ Count(Outbound', S) = IF Register \in S THEN 1 ELSE 0
  BY <1>1, CountNone, CountOne
<1>4. InfoSteps' = 0 + 0
  BY <1>2, <1>3 DEF InfoSteps, Underway
<1>5. ConfigSteps' = 0 + 0
  BY <1>2, <1>3 DEF ConfigSteps, Underway
<1>6. SubscribeSteps' = 0 + 0
  BY <1>2, <1>3 DEF SubscribeSteps, Underway
<1>7. WakeSteps' = 0 + 0
  BY <1>2, <1>3 DEF WakeSteps, Underway
<1>8. RegisterSteps' = 0 + 1
  BY <1>2, <1>3 DEF RegisterSteps, Underway
<1>9. Steps' = RegisterSteps' + InfoSteps' + ConfigSteps' + SubscribeSteps'
  BY DEF Steps
<1>10. Steps' <= 1
  BY <1>4, <1>5, <1>6, <1>8, <1>9
<1>11. ~(InfoSteps' > 0) /\ ~(ConfigSteps' > 0) /\ ~(SubscribeSteps' > 0) /\ ~(WakeSteps' > 0)
  BY <1>4, <1>5, <1>6, <1>7
<1> QED BY <1>1, <1>10, <1>11 DEF Handshake

LEMMA PauseHandshake == ASSUME Types, Registration, Handshake, Rests, stage' = stage PROVE Handshake'
<1>1. \A S, R : Underway(S, R)' = Underway(S, R)
  BY DEF Underway, Rests
<1>2. /\ InfoSteps' = InfoSteps /\ ConfigSteps' = ConfigSteps /\ SubscribeSteps' = SubscribeSteps
      /\ WakeSteps' = WakeSteps /\ RegisterSteps' = RegisterSteps
  BY <1>1 DEF InfoSteps, ConfigSteps, SubscribeSteps, WakeSteps, RegisterSteps
<1>3. Steps' = Steps
  BY <1>2 DEF Steps
<1> QED BY <1>2, <1>3 DEF Handshake

LEMMA AskHandshake ==
  ASSUME Types, Registration, Handshake, AskEnvironment PROVE Handshake'
<1> DEFINE frames == <<Request("Environment", reqId)>>
<1>1. /\ Inbound' = Inbound /\ frames \in Seq(WrittenFrames) /\ Wrote(frames) /\ stage' = stage
  BY Asks DEF device
<1>2. \A S : Count(frames, S) = One(Request("Environment", reqId), S)
  BY CountOne DEF One
<1>3. /\ Count(frames, {Ack("DeviceInfo")}) = 0 /\ Count(frames, {HostCaps}) = 0
      /\ Count(frames, RequestsOf("Subscribe")) = 0 /\ Count(frames, RequestsOf("Wake")) = 0
      /\ Count(frames, {Register}) = 0
  BY <1>2, WrittenKinds
<1> HIDE DEF frames
<1>4. /\ Counted /\ Counted'
      /\ InfoSteps' <= InfoSteps + 0 /\ ConfigSteps' <= ConfigSteps + 0
      /\ SubscribeSteps' <= SubscribeSteps + 0 /\ WakeSteps' <= WakeSteps + 0
      /\ RegisterSteps' <= RegisterSteps + 0
  BY <1>1, <1>3, WrittenSteps
<1>5. \A n \in Nat : n + 0 = n
  OBVIOUS
<1> QED BY <1>1, <1>4, <1>5, KeptBySteps DEF Counted

LEMMA ClientKeeps ==
  ASSUME Types, Registration, Handshake, ClientStep PROVE Types' /\ Registration' /\ Handshake'
<1>1. UNCHANGED device /\ (Start \/ Poll)
  BY DEF ClientStep
<1>2. stage' = stage
  BY <1>1 DEF device
<1>3. CASE Start
  BY <1>1, <1>3, Starts, StartHandshake
<1>4. CASE PollRegister
  <2>1. Types' /\ Registration' /\ Heard(Response, <<>>)
    BY <1>1, <1>4, Registers
  <2> QED BY <1>2, <2>1, RepliesCarryOn, HeardKeeps
<1>5. CASE PollPending \/ (\E k \in 0..MaxChunkFrames : PollIdle(k))
  BY <1>1, <1>2, <1>5, Pauses, PauseHandshake
<1>6. CASE \E k \in 0..MaxChunkFrames : Dispatch(k)
  <2>1. PICK k \in 0..MaxChunkFrames : Dispatch(k)
    BY <1>6
  <2>2. k \in Nat
    BY ClientAssumption
  <2>3. AfterPoll /\ Hears
    BY <2>1, <2>2, FrameHeard
  <2> QED BY <1>1, <1>2, <2>3, AfterPollKeeps, HeardHandshake
<1> QED BY <1>1, <1>3, <1>4, <1>5, <1>6 DEF Poll

LEMMA DeviceReplyKeeps ==
  ASSUME Types, Registration, Handshake, DeviceReply PROVE Types' /\ Registration' /\ Handshake'
<1>1. CASE DeviceRegister
  BY <1>1, RegisterTaken
<1>2. CASE DeviceIgnores
  BY <1>2, EarlyIgnored
<1>3. CASE DeviceInfoAcked
  BY <1>3, InfoTaken
<1>4. CASE DeviceAcked
  BY <1>4, AckTaken
<1>5. CASE DeviceConfigured
  BY <1>5, CapsTaken
<1>6. CASE DeviceSubscribe
  BY <1>6, SubscribeTaken
<1>7. CASE DeviceWake
  BY <1>7, WakeTaken
<1>8. CASE DeviceEnvironment
  BY <1>8, EnvironmentTaken
<1> QED BY <1>1, <1>2, <1>3, <1>4, <1>5, <1>6, <1>7, <1>8 DEF DeviceReply

LEMMA StutterKeeps ==
  ASSUME Types, Registration, Handshake, UNCHANGED sessionVars
  PROVE  Types' /\ Registration' /\ Handshake' /\ Rests
<1>1. Rests
  BY DEF Rests, Inbound, Outbound, sessionVars, vars, clientVars, session
<1>2. Types' /\ Registration'
  BY DEF Types, Registration, sessionVars, vars, clientVars, session, device
<1>3. Handshake'
  BY <1>1, PauseHandshake DEF sessionVars, device
<1> QED BY <1>1, <1>2, <1>3

LEMMA StepKeeps ==
  ASSUME Types, Registration, Handshake, [SessionNext]_sessionVars
  PROVE  Types' /\ Registration' /\ Handshake'
<1>1. CASE ClientStep
  BY <1>1, ClientKeeps
<1>2. CASE AskEnvironment
  BY <1>2, Asks, AskHandshake
<1>3. CASE DeviceReply
  BY <1>3, DeviceReplyKeeps
<1>4. CASE Swing
  BY <1>4, Swings
<1>5. CASE Measure
  BY <1>5, Measures
<1>6. CASE FallAsleep
  BY <1>6, FallsAsleep
<1>7. CASE ReplayShot
  BY <1>7, Replays
<1>8. CASE Restart
  BY <1>8, Restarts
<1>9. CASE UNCHANGED sessionVars
  BY <1>9, StutterKeeps
<1> QED BY <1>1, <1>2, <1>3, <1>4, <1>5, <1>6, <1>7, <1>8, <1>9 DEF SessionNext

LEMMA Begins ==
  ASSUME SessionInit
  PROVE  /\ Types /\ Registration /\ Handshake
         /\ Inbound = <<>> /\ Outbound = <<>>
<1>1. /\ phase = "Registering" /\ handle = 0 /\ streamBuf = <<>> /\ reqId = 1 % ReqIds
      /\ pendingEvent = None /\ rx = <<>> /\ tx = <<>> /\ faults = 0
      /\ stage = "Off" /\ devState \in AttachStates /\ woken = FALSE /\ unacked = <<>>
      /\ wakeFails = 0
  BY DEF SessionInit, Init
<1>2. reqId \in 0 .. ReqIds - 1
  BY <1>1, ClientAssumption
<1>3. Types
  <2>1. \A T : <<>> \in Seq(T)
    OBVIOUS
  <2>2. faults \in 0 .. MaxWriteFaults
    BY <1>1, ClientAssumption
  <2>3. devState \in DeviceStates
    BY <1>1, SessionAssumption
  <2> QED BY <1>1, <1>2, <2>1, <2>2, <2>3 DEF Types, Phases
<1>4. Registration
  BY <1>1 DEF Registration
<1>5. Inbound = <<>> /\ Outbound = <<>>
  <2>1. <<>> \o <<>> = <<>>
    OBVIOUS
  <2> QED BY <1>1, <2>1, FramesOfItems DEF Inbound, Outbound
<1>6. \A S, R : Underway(S, R) = 0
  <2>1. 0 + 0 = 0
    OBVIOUS
  <2> QED BY <1>5, <2>1, CountNone DEF Underway
<1>7. /\ InfoSteps = 0 /\ ConfigSteps = 0 /\ SubscribeSteps = 0 /\ WakeSteps = 0 /\ RegisterSteps = 0
  BY <1>6 DEF InfoSteps, ConfigSteps, SubscribeSteps, WakeSteps, RegisterSteps
<1>8. Handshake
  BY <1>7 DEF Handshake, Steps
<1> QED BY <1>3, <1>4, <1>5, <1>8

LEMMA HandshakeFirst == ASSUME Types, Registration, Handshake PROVE SessionAfterHandshake
<1> SUFFICES ASSUME NEW i \in DOMAIN tx,
                    NEW body \in {"Subscribe", "Wake"}, tx[i].frame \in RequestsOf(body)
             PROVE  stage \in {"Session", "Subscribed"}
  BY DEF SessionAfterHandshake, RequestsOf
<1>1. tx \in Seq(Writes) /\ Outbound \in Seq(OutFrames)
  BY Queues DEF Types, Writes
<1>2. /\ Len(Outbound) = Len(tx) /\ \A j \in DOMAIN tx : Outbound[j] = tx[j].frame
  BY <1>1, ItemFrames, FramesOfFacts DEF Outbound
<1>3. \E j \in DOMAIN Outbound : Outbound[j] \in RequestsOf(body)
  BY <1>1, <1>2
<1>4. Count(Outbound, RequestsOf(body)) > 0
  BY <1>1, <1>3, CountSome
<1>5. CASE body = "Subscribe"
  <2>1. SubscribeSteps > 0
    BY <1>4, <1>5, UnderwayNat DEF SubscribeSteps, Underway
  <2> QED BY <2>1 DEF Handshake
<1>6. CASE body = "Wake"
  <2>1. WakeSteps > 0
    BY <1>4, <1>6, UnderwayNat DEF WakeSteps, Underway
  <2> QED BY <2>1 DEF Handshake
<1> QED BY <1>5, <1>6

(* The subscribe and wake requests are written only after the R10 has       *)
(* accepted the host's capabilities: handle_ack takes no other frame for    *)
(* that acceptance, whatever is sent again, comes late or cannot be         *)
(* written, and in a session begun anew (handle_ack, handle_protobuf).      *)
THEOREM RequestsAfterHandshake == SessionSpec => []SessionAfterHandshake
<1> DEFINE IInv == Types /\ Registration /\ Handshake
<1>1. SessionInit => IInv
  BY Begins
<1>2. IInv /\ [SessionNext]_sessionVars => IInv'
  BY StepKeeps
<1>3. IInv => SessionAfterHandshake
  BY HandshakeFirst
<1> HIDE DEF IInv
<1> QED BY <1>1, <1>2, <1>3, PTL DEF SessionSpec

-----------------------------------------------------------------------------
(* The ACKs owed. *)

AckWrites == {Ack(of) : of \in Requests}

(* Each protobuf frame the R10 awaits an ACK for is still to be read, or    *)
(* its ACK is still to be taken; an ACK that could not be written is lost.  *)
AcksOwed == faults = 0 => Len(unacked) = Underway(Protobufs, AckWrites)

LEMMA CountAll == ASSUME NEW S, NEW s \in Seq(S) PROVE Count(s, S) = Len(s)
<1>1. {i \in DOMAIN s : s[i] \in S} = 1 .. Len(s) /\ Len(s) \in Nat
  OBVIOUS
<1>2. \A n \in Nat : Cardinality(1 .. n) = n
  <2> SUFFICES ASSUME NEW n \in Nat PROVE Cardinality(1 .. n) = n
    OBVIOUS
  <2>1. Cardinality(1 .. n) = IF 1 > n THEN 0 ELSE n - 1 + 1
    BY FS_Interval
  <2> QED BY <2>1
<1> QED BY <1>1, <1>2 DEF Count

LEMMA OwedKinds ==
  /\ \A of : One(Ack(of), AckWrites) = IF of \in Requests THEN 1 ELSE 0
  /\ One(HostCaps, AckWrites) = 0 /\ One(Register, AckWrites) = 0
  /\ \A body, id : One(Request(body, id), AckWrites) = 0
  /\ \A f \in Protobufs : One(f, Protobufs) = 1
  /\ One(DeviceInfo(FALSE), Protobufs) = 0 /\ One(Configuration, Protobufs) = 0
  /\ One(CapsAccepted, Protobufs) = 0 /\ One(AckOf("ProtobufRequest", 0), Protobufs) = 0
  /\ One(Response, Protobufs) = 0
  /\ \A type \in FitTypes : One(Fit(type), Protobufs) = 0
<1>1. \A w \in AckWrites : w.type = "Ack" /\ w.of \in Requests
  BY DEF AckWrites, Ack
<1>2. \A of : Ack(of) \in AckWrites <=> of \in Requests
  <2>1. \A of : Ack(of).of = of
    BY DEF Ack
  <2> QED BY <1>1, <2>1 DEF AckWrites
<1>3. HostCaps.type # "Ack" /\ Register.type # "Ack" /\ \A body, id : Request(body, id).type # "Ack"
  BY DEF HostCaps, Register, Request
<1>4. \A f \in Protobufs : f.type \in Requests
  BY DEF Protobufs, Result, WakeResult, StateChange, Shot, Requests
<1>5. /\ DeviceInfo(FALSE).type \notin Requests /\ Configuration.type \notin Requests
      /\ CapsAccepted.type \notin Requests /\ AckOf("ProtobufRequest", 0).type \notin Requests
      /\ Response.type \notin Requests
  BY DEF DeviceInfo, Configuration, CapsAccepted, AckOf, Response, RegisterResponse, Requests
<1>6. \A type \in FitTypes : Fit(type).type \notin Requests
  BY DEF Fit, FitTypes, Requests
<1> QED BY <1>1, <1>2, <1>3, <1>4, <1>5, <1>6 DEF One

Balanced(frame, replies) == Count(replies, AckWrites) = One(frame, Protobufs)

LEMMA HeardOwed ==
  ASSUME Types, Registration, AcksOwed, unacked' = unacked,
         NEW frame, NEW replies, Heard(frame, replies), Balanced(frame, replies)
  PROVE  AcksOwed'
<1> SUFFICES ASSUME faults' = 0 PROVE Len(unacked') = Underway(Protobufs, AckWrites)'
  BY DEF AcksOwed
<1>1. faults = 0
  BY DEF Heard, Wrote
<1>2. /\ Underway(Protobufs, AckWrites) \in Nat /\ Underway(Protobufs, AckWrites)' \in Nat
      /\ One(frame, Protobufs) \in Nat
      /\ Underway(Protobufs, AckWrites)' + One(frame, Protobufs)
           = Underway(Protobufs, AckWrites) + One(frame, Protobufs)
  BY HeardCount DEF Balanced, One
<1>3. \A a, b, c \in Nat : a + c = b + c => a = b
  OBVIOUS
<1>4. Underway(Protobufs, AckWrites)' = Underway(Protobufs, AckWrites)
  BY <1>2, <1>3
<1> QED BY <1>1, <1>4 DEF AcksOwed

LEMMA RepliesBalance ==
  /\ \A frame : One(frame, Protobufs) = 0 =>
       /\ Balanced(frame, <<>>) /\ Balanced(frame, <<HostCaps>>)
       /\ \A of : of \notin Requests => Balanced(frame, <<Ack(of)>>)
       /\ \A body, id : Balanced(frame, <<Request(body, id)>>)
       /\ \A of : of \notin Requests => Balanced(frame, <<Ack(of), HostCaps>>)
  /\ \A frame \in Protobufs, of \in Requests :
       /\ Balanced(frame, <<Ack(of)>>)
       /\ \A body, id : Balanced(frame, <<Request(body, id), Ack(of)>>)
<1>1. \A w : Count(<<w>>, AckWrites) = One(w, AckWrites)
  BY Ones
<1>2. \A v, w : Count(<<v, w>>, AckWrites) = One(v, AckWrites) + One(w, AckWrites)
  BY Ones
<1>3. Count(<<>>, AckWrites) = 0 /\ 0 + 0 = 0 /\ 0 + 1 = 1
  BY Ones
<1> QED BY <1>1, <1>2, <1>3, OwedKinds DEF Balanced

LEMMA HearsOwed ==
  ASSUME Types, Registration, AcksOwed, Hears, unacked' = unacked PROVE AcksOwed'
<1>1. SUFFICES \E frame, replies : Heard(frame, replies) /\ Balanced(frame, replies)
  BY HeardOwed
<1>2. ASSUME NEW frame \in Protobufs, NEW of \in Requests,
             Heard(frame, <<Ack(of)>>) \/ \E id : Heard(frame, <<Request("Wake", id), Ack(of)>>)
      PROVE  \E f, replies : Heard(f, replies) /\ Balanced(f, replies)
  BY <1>2, RepliesBalance
<1>3. "ProtobufRequest" \in Requests /\ "ProtobufResponse" \in Requests
      /\ "DeviceInfo" \notin Requests /\ "Configuration" \notin Requests
  BY DEF Requests
<1>4. CASE HearsInfo
  BY <1>3, <1>4, RepliesBalance, OwedKinds DEF HearsInfo
<1>5. CASE HearsConfiguration
  BY <1>3, <1>5, RepliesBalance, OwedKinds DEF HearsConfiguration
<1>6. CASE HearsCaps
  BY <1>6, RepliesBalance, OwedKinds DEF HearsCaps
<1>7. CASE HearsSubscribed
  BY <1>2, <1>3, <1>7, ProtobufKinds DEF HearsSubscribed
<1>8. CASE \E status \in 0..2 : HearsWake(status)
  BY <1>2, <1>3, <1>8, ProtobufKinds DEF HearsWake
<1>9. CASE \E state \in DeviceStates : HearsState(state)
  BY <1>2, <1>3, <1>9, ProtobufKinds DEF HearsState
<1>10. CASE \E id \in ShotIds : HearsShot(id)
  BY <1>2, <1>3, <1>10, ProtobufKinds DEF HearsShot
<1>11. CASE \E frame \in Asides : HearsAside(frame)
  <2>1. PICK frame \in Asides : HearsAside(frame)
    BY <1>11
  <2>2. CASE frame = AckOf("ProtobufRequest", 0) /\ Heard(frame, <<>>)
    BY <2>2, RepliesBalance, OwedKinds
  <2>3. CASE frame = Result("EnvironmentResult", TRUE) /\ Heard(frame, <<Ack("ProtobufResponse")>>)
    BY <1>2, <1>3, <2>3, ProtobufKinds
  <2>4. CASE frame \in {Fit(type) : type \in FitTypes} /\ Heard(frame, <<Ack(frame.type)>>)
    <3>1. frame.type \notin Requests /\ One(frame, Protobufs) = 0
      BY <2>4, OwedKinds DEF Fit, FitTypes, Requests
    <3> QED BY <2>4, <3>1, RepliesBalance
  <2> QED BY <2>1, <2>2, <2>3, <2>4 DEF HearsAside
<1> QED BY <1>4, <1>5, <1>6, <1>7, <1>8, <1>9, <1>10, <1>11 DEF Hears

(* A frame taken that is no ACK, and answers that are owed one. *)
LEMMA AnsweredOwed ==
  ASSUME Types, Registration, AcksOwed, faults' = faults, NEW frame, One(frame, AckWrites) = 0,
         NEW sends, Answered(frame, sends),
         NEW owed \in Seq(Protobufs), unacked' = unacked \o owed,
         Count(sends, Protobufs) = Len(owed)
  PROVE  AcksOwed'
<1> SUFFICES ASSUME faults = 0 PROVE Len(unacked') = Underway(Protobufs, AckWrites)'
  BY DEF AcksOwed
<1>1. /\ Underway(Protobufs, AckWrites)' \in Nat
      /\ Underway(Protobufs, AckWrites)' + 0 = Underway(Protobufs, AckWrites) + Len(owed)
  BY AnsweredCount
<1>2. Len(unacked') = Len(unacked) + Len(owed)
  BY DEF Types
<1> QED BY <1>1, <1>2 DEF AcksOwed

LEMMA AlertedOwed ==
  ASSUME Types, Registration, AcksOwed, NEW frames \in Seq(Protobufs), Alerted(frames)
  PROVE  AcksOwed'
<1> SUFFICES ASSUME faults = 0 PROVE Len(unacked') = Underway(Protobufs, AckWrites)'
  BY DEF AcksOwed, Alerted
<1>1. Underway(Protobufs, AckWrites)' = Underway(Protobufs, AckWrites) + Len(frames)
  BY PushedCount, CountAll DEF Alerted
<1>2. Len(unacked') = Len(unacked) + Len(frames)
  BY DEF Types, Alerted
<1> QED BY <1>1, <1>2 DEF AcksOwed

LEMMA InfoAnswerOwes ==
  ASSUME NEW fit \in {<<>>, <<Fit("FitDefinition"), Fit("FitData")>>}
  PROVE  Count(Append(fit, Configuration), Protobufs) = 0
<1> DEFINE a == Fit("FitDefinition")
           b == Fit("FitData")
<1>1. One(a, Protobufs) = 0 /\ One(b, Protobufs) = 0 /\ One(Configuration, Protobufs) = 0
  BY OwedKinds DEF FitTypes
<1>2. a \in SentFrames /\ b \in SentFrames /\ Configuration \in SentFrames
  BY SentOnes DEF FitTypes
<1> HIDE DEF a, b
<1>3. CASE fit = <<>>
  <2>1. Append(<<>>, Configuration) = <<Configuration>>
    OBVIOUS
  <2> QED BY <1>1, <1>3, <2>1, Ones, Zenon
<1>4. CASE fit = <<a, b>>
  <2> DEFINE s == <<a, b>>
             t == <<Configuration>>
  <2>1. s \in Seq(SentFrames) /\ t \in Seq(SentFrames)
    BY <1>2, SentSeqs
  <2>2. Append(s, Configuration) = s \o t
    BY <1>2, <2>1, AppendIsConcat
  <2>3. Count(s, Protobufs) = 0 /\ Count(t, Protobufs) = 0
    <3>1. Count(s, Protobufs) = One(a, Protobufs) + One(b, Protobufs)
      BY Ones
    <3>2. Count(t, Protobufs) = One(Configuration, Protobufs)
      BY Ones
    <3> QED BY <1>1, <3>1, <3>2
  <2> HIDE DEF s, t
  <2>4. Count(s \o t, Protobufs) = Count(s, Protobufs) + Count(t, Protobufs)
    BY <2>1, CountConcat
  <2>5. Count(Append(s, Configuration), Protobufs) = 0
    BY <2>2, <2>3, <2>4
  <2> QED BY <1>4, <2>5 DEF s
<1> QED BY <1>3, <1>4 DEF a, b

LEMMA OneOwed ==
  /\ Len(<<>>) = 0
  /\ \A f \in Protobufs : /\ <<f>> \in Seq(Protobufs) /\ Len(<<f>>) = 1
                          /\ Count(<<f>>, Protobufs) = 1
<1>1. \A f \in Protobufs : Count(<<f>>, Protobufs) = One(f, Protobufs)
  BY Ones
<1> QED BY <1>1, ProtobufSeqs, OwedKinds

(* An ACK taken strikes off the oldest frame.                               *)
LEMMA AckTakenOwed ==
  ASSUME Types, Registration, Handshake, AcksOwed, DeviceAcked PROVE AcksOwed'
<1> SUFFICES ASSUME faults' = 0 PROVE Len(unacked') = Underway(Protobufs, AckWrites)'
  BY DEF AcksOwed
<1>1. faults = 0 /\ Len(unacked) = Underway(Protobufs, AckWrites) /\ unacked \in Seq(Protobufs)
  BY AckTaken DEF AcksOwed, Types
<1>2. CASE \E type \in FitTypes \cup {"Configuration"} : Answered(Ack(type), <<>>) /\ unacked' = unacked
  <2>1. PICK type \in FitTypes \cup {"Configuration"} : Answered(Ack(type), <<>>) /\ unacked' = unacked
    BY <1>2
  <2>2. One(Ack(type), AckWrites) = 0
    <3>1. type \notin Requests
      BY DEF FitTypes, Requests
    <3> QED BY <3>1, OwedKinds
  <2>3. Count(<<>>, Protobufs) = 0
    BY Ones
  <2>4. /\ Underway(Protobufs, AckWrites) \in Nat /\ Underway(Protobufs, AckWrites)' \in Nat
        /\ Underway(Protobufs, AckWrites)' + 0 = Underway(Protobufs, AckWrites) + 0
    BY <2>1, <2>2, <2>3, AnsweredCount
  <2> QED BY <1>1, <2>1, <2>4
<1>3. CASE \E type \in Requests :
             /\ Answered(Ack(type), <<>>)
             /\ unacked' = IF unacked = <<>> THEN <<>> ELSE Tail(unacked)
  <2>1. PICK type \in Requests : /\ Answered(Ack(type), <<>>)
                                 /\ unacked' = IF unacked = <<>> THEN <<>> ELSE Tail(unacked)
    BY <1>3
  <2>2. One(Ack(type), AckWrites) = 1 /\ Count(<<>>, Protobufs) = 0
    BY OwedKinds, Ones
  <2>3. /\ Underway(Protobufs, AckWrites) \in Nat /\ Underway(Protobufs, AckWrites)' \in Nat
        /\ Underway(Protobufs, AckWrites)' + 1 = Underway(Protobufs, AckWrites) + 0
    BY <2>1, <2>2, AnsweredCount
  <2>4. unacked # <<>> /\ Len(Tail(unacked)) = Len(unacked) - 1
    BY <1>1, <2>3
  <2> QED BY <1>1, <2>1, <2>3, <2>4
<1> QED BY <1>2, <1>3, AckTaken

LEMMA RequestsUnanswered ==
  /\ One(Register, AckWrites) = 0 /\ One(HostCaps, AckWrites) = 0
  /\ \A body, id : One(Request(body, id), AckWrites) = 0
BY OwedKinds

LEMMA DeviceReplyOwed ==
  ASSUME Types, Registration, Handshake, AcksOwed, DeviceReply PROVE AcksOwed'
<1>1. \A u \in Seq(Protobufs) : u = u \o <<>>
  OBVIOUS
<1>2. unacked = unacked \o <<>> /\ <<>> \in Seq(Protobufs) /\ Len(<<>>) = 0
  BY <1>1, OneOwed DEF Types
<1>3. CASE DeviceRegister
  <2> DEFINE sends == <<Response, DeviceInfo(FALSE)>>
  <2>1. Answered(Register, sends) /\ UNCHANGED <<unacked, faults>>
    BY <1>3, RegisterTaken
  <2>2. Count(sends, Protobufs) = 0
    <3>1. Count(sends, Protobufs) = One(Response, Protobufs) + One(DeviceInfo(FALSE), Protobufs)
      BY CountTwo, Zenon
    <3>2. One(Response, Protobufs) = 0 /\ One(DeviceInfo(FALSE), Protobufs) = 0
      BY OwedKinds
    <3>3. 0 + 0 = 0
      OBVIOUS
    <3> QED BY <3>1, <3>2, <3>3, Zenon
  <2> HIDE DEF sends
  <2> QED BY <1>2, <2>1, <2>2, RequestsUnanswered, AnsweredOwed
<1>4. CASE DeviceIgnores
  <2>1. PICK id : Answered(Request("Environment", id), <<>>)
    BY <1>4, EarlyIgnored
  <2>2. UNCHANGED <<unacked, faults>>
    BY <1>4, EarlyIgnored DEF device
  <2>3. Count(<<>>, Protobufs) = 0
    BY Ones
  <2> QED BY <1>2, <2>1, <2>2, <2>3, RequestsUnanswered, AnsweredOwed
<1>5. CASE DeviceInfoAcked
  <2>1. PICK fit \in {<<>>, <<Fit("FitDefinition"), Fit("FitData")>>} :
          Answered(Ack("DeviceInfo"), Append(fit, Configuration))
    BY <1>5, InfoTaken
  <2>2. UNCHANGED <<unacked, faults>>
    BY <1>5, InfoTaken
  <2>3. One(Ack("DeviceInfo"), AckWrites) = 0
    BY OwedKinds DEF Requests
  <2> QED BY <1>2, <2>1, <2>2, <2>3, InfoAnswerOwes, AnsweredOwed
<1>6. CASE DeviceAcked
  BY <1>6, AckTakenOwed
<1>7. CASE DeviceConfigured
  <2> DEFINE sends == <<CapsAccepted>>
  <2>1. Answered(HostCaps, sends) /\ UNCHANGED <<unacked, faults>>
    BY <1>7, CapsTaken
  <2>2. Count(sends, Protobufs) = 0
    <3>1. Count(sends, Protobufs) = One(CapsAccepted, Protobufs)
      BY Ones
    <3> QED BY <3>1, OwedKinds
  <2> HIDE DEF sends
  <2> QED BY <1>2, <2>1, <2>2, RequestsUnanswered, AnsweredOwed
<1>8. CASE DeviceSubscribe
  <2> DEFINE sends == <<SubscribeOk>>
  <2>1. PICK id : Answered(Request("Subscribe", id), sends)
    BY <1>8, SubscribeTaken
  <2>2. unacked' = unacked \o sends /\ faults' = faults
    BY <1>8, SubscribeTaken
  <2>3. sends \in Seq(Protobufs) /\ Count(sends, Protobufs) = Len(sends)
    BY ProtobufKinds, OneOwed
  <2> HIDE DEF sends
  <2> QED BY <2>1, <2>2, <2>3, RequestsUnanswered, AnsweredOwed
<1>9. CASE DeviceWake
  <2>1. PICK id \in 0 .. ReqIds - 1, sends \in Seq(SentFrames) :
          /\ Answered(Request("Wake", id), sends) /\ WakeAnswered(sends)
          /\ unacked' = unacked \o sends
    BY <1>9, WakeTaken
  <2>2. faults' = faults
    BY <1>9, WakeTaken
  <2>3. sends \in Seq(Protobufs)
    <3>1. 0 \in 0..2 /\ 1 \in 0..2 /\ 2 \in 0..2 /\ "Waiting" \in DeviceStates
      BY DEF DeviceStates
    <3> QED BY <2>1, <3>1, ProtobufKinds, ProtobufSeqs DEF WakeAnswered
  <2> QED BY <2>1, <2>2, <2>3, CountAll, RequestsUnanswered, AnsweredOwed
<1>10. CASE DeviceEnvironment
  <2> DEFINE answer == Result("EnvironmentResult", TRUE)
  <2>1. PICK id : Answered(Request("Environment", id), EnvironmentAnswer)
    BY <1>10, EnvironmentTaken
  <2>2. unacked' = unacked \o <<answer>> /\ faults' = faults
    BY <1>10, EnvironmentTaken
  <2>3. answer \in Protobufs
    BY ProtobufKinds
  <2>4. Count(EnvironmentAnswer, Protobufs) = 1
    <3>1. One(AckOf("ProtobufRequest", 0), Protobufs) = 0 /\ One(answer, Protobufs) = 1
      BY <2>3, OwedKinds
    <3> HIDE DEF answer
    <3>2. Count(<<AckOf("ProtobufRequest", 0), answer>>, Protobufs)
            = One(AckOf("ProtobufRequest", 0), Protobufs) + One(answer, Protobufs)
      BY Ones
    <3>3. Count(<<AckOf("ProtobufRequest", 0), answer>>, Protobufs) = 1
      BY <3>1, <3>2
    <3> QED BY <3>3, Zenon DEF EnvironmentAnswer, answer
  <2> HIDE DEF answer
  <2>5. <<answer>> \in Seq(Protobufs) /\ Len(<<answer>>) = 1
    BY <2>3, OneOwed
  <2> QED BY <2>1, <2>2, <2>4, <2>5, RequestsUnanswered, AnsweredOwed
<1> QED BY <1>3, <1>4, <1>5, <1>6, <1>7, <1>8, <1>9, <1>10 DEF DeviceReply

LEMMA RestsOwed == ASSUME AcksOwed, Rests, UNCHANGED <<unacked, faults>> PROVE AcksOwed'
<1>1. Underway(Protobufs, AckWrites)' = Underway(Protobufs, AckWrites)
  BY DEF Underway, Rests
<1> QED BY <1>1 DEF AcksOwed

LEMMA ClientOwed ==
  ASSUME Types, Registration, Handshake, AcksOwed, ClientStep PROVE AcksOwed'
<1>1. UNCHANGED device /\ unacked' = unacked /\ (Start \/ Poll)
  BY DEF ClientStep, device
<1>2. CASE Start
  <2>1. Inbound' = <<>> /\ Outbound' = <<Register>> /\ unacked' = <<>>
    BY <1>1, <1>2, Starts DEF Registration
  <2>2. Count(<<>>, Protobufs) = 0 /\ Count(<<Register>>, AckWrites) = 0
    BY Ones, RequestsUnanswered
  <2>3. Underway(Protobufs, AckWrites)' = Count(Inbound', Protobufs) + Count(Outbound', AckWrites)
    BY DEF Underway
  <2>4. Underway(Protobufs, AckWrites)' = 0 + 0
    BY <2>1, <2>2, <2>3
  <2> QED BY <2>1, <2>4, OneOwed DEF AcksOwed
<1>3. CASE PollRegister
  <2>1. Heard(Response, <<>>)
    BY <1>1, <1>3, Registers
  <2>2. Balanced(Response, <<>>)
    BY RepliesBalance, OwedKinds
  <2> QED BY <1>1, <2>1, <2>2, HeardOwed
<1>4. CASE PollPending \/ (\E k \in 0..MaxChunkFrames : PollIdle(k))
  BY <1>1, <1>4, Pauses, RestsOwed
<1>5. CASE \E k \in 0..MaxChunkFrames : Dispatch(k)
  <2>1. PICK k \in 0..MaxChunkFrames : Dispatch(k)
    BY <1>5
  <2>2. k \in Nat
    BY ClientAssumption
  <2>3. Hears
    BY <2>1, <2>2, FrameHeard
  <2> QED BY <1>1, <2>3, HearsOwed
<1> QED BY <1>1, <1>2, <1>3, <1>4, <1>5 DEF Poll

LEMMA AskOwed == ASSUME Types, Registration, AcksOwed, AskEnvironment PROVE AcksOwed'
<1> SUFFICES ASSUME faults' = 0 PROVE Len(unacked') = Underway(Protobufs, AckWrites)'
  BY DEF AcksOwed
<1> DEFINE request == Request("Environment", reqId)
           frames == <<request>>
<1>1. /\ Inbound' = Inbound /\ frames \in Seq(WrittenFrames) /\ Wrote(frames)
      /\ unacked' = unacked
  BY Asks DEF device
<1>2. Count(frames, AckWrites) = 0
  BY Ones, RequestsUnanswered
<1> HIDE DEF frames
<1>3. /\ Underway(Protobufs, AckWrites) \in Nat
      /\ Underway(Protobufs, AckWrites)' = Underway(Protobufs, AckWrites) + 0
  BY <1>1, <1>2, WrittenCount
<1>4. faults = 0
  BY <1>1 DEF Wrote
<1> QED BY <1>1, <1>3, <1>4 DEF AcksOwed

LEMMA StepOwed ==
  ASSUME Types, Registration, Handshake, AcksOwed, [SessionNext]_sessionVars PROVE AcksOwed'
<1>1. CASE ClientStep
  BY <1>1, ClientOwed
<1>2. CASE AskEnvironment
  BY <1>2, AskOwed
<1>3. CASE DeviceReply
  BY <1>3, DeviceReplyOwed
<1>4. ASSUME NEW frames, frames \in Seq(Protobufs), Alerted(frames) PROVE AcksOwed'
  BY <1>4, AlertedOwed
<1>5. \A state \in {"Recording", "Waiting", "Standby"} : <<StateChange(state)>> \in Seq(Protobufs)
  BY ProtobufKinds, ProtobufSeqs DEF DeviceStates
<1>6. CASE Swing
  BY <1>4, <1>5, <1>6, Swings
<1>7. CASE Measure
  <2>1. PICK id \in ShotIds : Alerted(<<Shot(id), StateChange("Waiting")>>)
    BY <1>7, Measures
  <2>2. <<Shot(id), StateChange("Waiting")>> \in Seq(Protobufs)
    BY ProtobufKinds, ProtobufSeqs DEF DeviceStates
  <2> QED BY <1>4, <2>1, <2>2
<1>8. CASE FallAsleep
  BY <1>4, <1>5, <1>8, FallsAsleep
<1>9. CASE ReplayShot
  <2>1. PICK id \in ShotIds : Alerted(<<Shot(id)>>)
    BY <1>9, Replays
  <2>2. <<Shot(id)>> \in Seq(Protobufs)
    BY ProtobufKinds, ProtobufSeqs
  <2> QED BY <1>4, <2>1, <2>2
<1>10. CASE Restart
  <2> DEFINE frames == <<Configuration>>
  <2>1. Pushed(frames) /\ UNCHANGED <<unacked, faults>>
    BY <1>10, Restarts
  <2>2. Count(frames, Protobufs) = 0
    BY Ones, OwedKinds
  <2> HIDE DEF frames
  <2>3. /\ Underway(Protobufs, AckWrites) \in Nat
        /\ Underway(Protobufs, AckWrites)' = Underway(Protobufs, AckWrites) + 0
    BY <2>1, <2>2, PushedCount
  <2> QED BY <2>1, <2>3 DEF AcksOwed
<1>11. CASE UNCHANGED sessionVars
  <2>1. UNCHANGED <<unacked, faults>>
    BY <1>11 DEF sessionVars, vars, clientVars, session, device
  <2> QED BY <1>11, <2>1, StutterKeeps, RestsOwed
<1> QED BY <1>1, <1>2, <1>3, <1>6, <1>7, <1>8, <1>9, <1>10, <1>11 DEF SessionNext

LEMMA NoneOwed == ASSUME Types, Registration, AcksOwed, faults = 0 PROVE AckedAtRest
<1> SUFFICES ASSUME Quiet PROVE unacked = <<>>
  BY DEF AckedAtRest
<1>1. Inbound = <<>> /\ Outbound = <<>>
  <2>1. <<>> \o <<>> = <<>>
    OBVIOUS
  <2> QED BY <2>1, FramesOfItems DEF Quiet, Inbound, Outbound
<1>2. Underway(Protobufs, AckWrites) = 0 + 0
  BY <1>1, CountNone DEF Underway
<1> QED BY <1>2 DEF AcksOwed, Types

(* At rest every protobuf frame the R10 has sent, repeats, unchanged states *)
(* and wake replies included, has been answered by one ACK, as long as no   *)
(* write has failed (dispatch_frame).  After a failed write the theorem     *)
(* says nothing: the ACK that could not be written is not written again.    *)
THEOREM AcksAnswered == SessionSpec => [](faults = 0 => AckedAtRest)
<1> DEFINE IInv == Types /\ Registration /\ Handshake /\ AcksOwed
<1>1. SessionInit => IInv
  <2> SUFFICES ASSUME SessionInit PROVE IInv
    OBVIOUS
  <2>1. Types /\ Registration /\ Handshake /\ Inbound = <<>> /\ Outbound = <<>> /\ unacked = <<>>
    BY Begins DEF SessionInit
  <2>2. Underway(Protobufs, AckWrites) = 0 + 0
    BY <2>1, CountNone DEF Underway
  <2> QED BY <2>1, <2>2, OneOwed DEF AcksOwed
<1>2. IInv /\ [SessionNext]_sessionVars => IInv'
  BY StepKeeps, StepOwed
<1>3. IInv => (faults = 0 => AckedAtRest)
  BY NoneOwed
<1> HIDE DEF IInv
<1> QED BY <1>1, <1>2, <1>3, PTL DEF SessionSpec

-----------------------------------------------------------------------------
(* The shots. *)

Remembers == {shot.id : shot \in recentShots}

(* The shots on their way are measured ones; one that was not taken is      *)
(* still on its way, and none comes before an earlier one.                  *)
InTurn(s, f, T) ==
  /\ \A p \in DOMAIN s, id \in ShotIds : s[p] = Shot(id) => \E j \in DOMAIN f : f[j] = id
  /\ \A i \in DOMAIN f : f[i] \in T \/ \E p \in DOMAIN s : s[p] = Shot(f[i])
  /\ \A i, j \in DOMAIN f, p \in DOMAIN s :
       i < j /\ s[p] = Shot(f[j]) => f[i] \in T \/ \E q \in DOMAIN s : q < p /\ s[q] = Shot(f[i])

Distinct(f) == \A i, j \in DOMAIN f : f[i] = f[j] => i = j
Prefixed(f, T) == \A i, j \in DOMAIN f : i < j /\ f[j] \in T => f[i] \in T

ShotTypes ==
  /\ now = 0
  /\ fired \in Seq(ShotIds)
  /\ recentShots \subseteq [id : ShotIds, at : {0}]
  /\ reported \in Seq([id : ShotIds, at : {0}])

ShotsInOrder ==
  /\ ShotTypes
  /\ Distinct(fired) /\ Prefixed(fired, Remembers)
  /\ \A i \in DOMAIN reported : reported[i].id \in Remembers
  /\ \A id \in Remembers : \E j \in DOMAIN fired : fired[j] = id
  /\ MaxWriteFaults = 0 =>
       /\ Len(reported) <= Len(fired)
       /\ \A i \in DOMAIN fired : fired[i] \in Remembers <=> i <= Len(reported)
  /\ \A i \in DOMAIN unacked, id \in ShotIds : unacked[i] = Shot(id) => \E j \in DOMAIN fired : fired[j] = id
  /\ InTurn(Inbound, fired, Remembers)

LEMMA ShotOne == \A a, b : Shot(a) = Shot(b) => a = b
<1> SUFFICES ASSUME NEW a, NEW b, Shot(a) = Shot(b) PROVE a = b
  OBVIOUS
<1>1. Shot(a).id = a /\ Shot(b).id = b
  BY DEF Shot
<1> QED BY <1>1

(* The oldest frame is taken. *)
LEMMA TurnTaken ==
  ASSUME NEW S, NEW s \in Seq(S), s # <<>>, NEW f \in Seq(ShotIds), NEW T, NEW U, T \subseteq U,
         InTurn(s, f, T), \A i \in DOMAIN f : Head(s) = Shot(f[i]) => f[i] \in U
  PROVE  /\ InTurn(Tail(s), f, U)
         /\ \A i, j \in DOMAIN f : i < j /\ Head(s) = Shot(f[j]) => f[i] \in T
<1> DEFINE t == Tail(s)
<1>1. /\ t \in Seq(S) /\ Head(s) = s[1] /\ 1 \in DOMAIN s
      /\ \A p \in DOMAIN t : p \in Nat /\ p >= 1 /\ p + 1 \in DOMAIN s /\ t[p] = s[p + 1]
      /\ \A p \in DOMAIN s : p # 1 => p \in Nat /\ p - 1 \in DOMAIN t /\ t[p - 1] = s[p]
      /\ \A p \in DOMAIN s : p \in Nat /\ p >= 1
  OBVIOUS
<1> HIDE DEF t
<1>2. ASSUME NEW p \in DOMAIN t, NEW id \in ShotIds, t[p] = Shot(id) PROVE \E j \in DOMAIN f : f[j] = id
  BY <1>1, <1>2 DEF InTurn
<1>3. ASSUME NEW i \in DOMAIN f PROVE f[i] \in U \/ \E p \in DOMAIN t : t[p] = Shot(f[i])
  <2>1. CASE f[i] \in T
    BY <2>1
  <2>2. ASSUME NEW p \in DOMAIN s, s[p] = Shot(f[i])
        PROVE  f[i] \in U \/ \E r \in DOMAIN t : t[r] = Shot(f[i])
    <3>1. CASE p = 1
      BY <1>1, <2>2, <3>1
    <3>2. CASE p # 1
      BY <1>1, <2>2, <3>2
    <3> QED BY <3>1, <3>2
  <2> QED BY <2>1, <2>2 DEF InTurn
<1>4. ASSUME NEW i \in DOMAIN f, NEW j \in DOMAIN f, NEW p \in DOMAIN t, i < j, t[p] = Shot(f[j])
      PROVE  f[i] \in U \/ \E q \in DOMAIN t : q < p /\ t[q] = Shot(f[i])
  <2>1. p + 1 \in DOMAIN s /\ s[p + 1] = Shot(f[j]) /\ p \in Nat
    BY <1>1, <1>4
  <2>2. f[i] \in T \/ \E q \in DOMAIN s : q < p + 1 /\ s[q] = Shot(f[i])
    BY <1>4, <2>1 DEF InTurn
  <2>3. ASSUME NEW q \in DOMAIN s, q < p + 1, s[q] = Shot(f[i])
        PROVE  f[i] \in U \/ \E r \in DOMAIN t : r < p /\ t[r] = Shot(f[i])
    <3>1. CASE q = 1
      BY <1>1, <2>3, <3>1
    <3>2. CASE q # 1
      <4>1. q \in Nat /\ q - 1 \in DOMAIN t /\ t[q - 1] = Shot(f[i])
        BY <1>1, <2>3, <3>2
      <4>2. q - 1 < p
        BY <2>1, <2>3, <4>1
      <4> QED BY <4>1, <4>2
    <3> QED BY <3>1, <3>2
  <2> QED BY <2>2, <2>3
<1>5. ASSUME NEW i \in DOMAIN f, NEW j \in DOMAIN f, i < j, Head(s) = Shot(f[j]) PROVE f[i] \in T
  <2>1. f[i] \in T \/ \E q \in DOMAIN s : q < 1 /\ s[q] = Shot(f[i])
    BY <1>1, <1>5 DEF InTurn
  <2> QED BY <1>1, <2>1
<1> QED BY <1>2, <1>3, <1>4, <1>5 DEF InTurn, t

(* Shots sent again, or none, come last. *)
LEMMA TurnSent ==
  ASSUME NEW S, NEW s \in Seq(S), NEW t \in Seq(S), NEW f \in Seq(ShotIds), NEW T, InTurn(s, f, T),
         \A p \in DOMAIN t, id \in ShotIds : t[p] = Shot(id) => \E j \in DOMAIN f : f[j] = id
  PROVE  InTurn(s \o t, f, T)
<1> DEFINE u == s \o t
<1>1. /\ Len(s) \in Nat /\ Len(t) \in Nat /\ DOMAIN u = 1 .. Len(s) + Len(t)
      /\ DOMAIN s = 1 .. Len(s) /\ DOMAIN t = 1 .. Len(t)
      /\ \A i \in 1 .. Len(s) + Len(t) : u[i] = IF i <= Len(s) THEN s[i] ELSE t[i - Len(s)]
  BY ConcatProperties
<1> HIDE DEF u
<1>2. \A p \in DOMAIN s : p \in DOMAIN u /\ u[p] = s[p] /\ p <= Len(s) /\ p \in Nat
  BY <1>1
<1>3. \A p \in DOMAIN u : /\ p \in Nat
                          /\ \/ p \in DOMAIN s /\ u[p] = s[p]
                             \/ p > Len(s) /\ p - Len(s) \in DOMAIN t /\ u[p] = t[p - Len(s)]
  BY <1>1
<1>4. ASSUME NEW p \in DOMAIN u, NEW id \in ShotIds, u[p] = Shot(id) PROVE \E j \in DOMAIN f : f[j] = id
  BY <1>3, <1>4 DEF InTurn
<1>5. ASSUME NEW i \in DOMAIN f PROVE f[i] \in T \/ \E p \in DOMAIN u : u[p] = Shot(f[i])
  BY <1>2 DEF InTurn
<1>6. ASSUME NEW i \in DOMAIN f, NEW j \in DOMAIN f, NEW p \in DOMAIN u, i < j, u[p] = Shot(f[j])
      PROVE  f[i] \in T \/ \E q \in DOMAIN u : q < p /\ u[q] = Shot(f[i])
  <2>1. CASE p \in DOMAIN s /\ u[p] = s[p]
    <3>1. s[p] = Shot(f[j])
      BY <1>6, <2>1
    <3>2. f[i] \in T \/ \E q \in DOMAIN s : q < p /\ s[q] = Shot(f[i])
      BY <1>6, <2>1, <3>1, Zenon DEF InTurn
    <3> QED BY <1>2, <3>2
  <2>2. CASE p > Len(s)
    <3>1. f[i] \in T \/ \E q \in DOMAIN s : s[q] = Shot(f[i])
      BY DEF InTurn
    <3>2. \A q \in DOMAIN s : q < p
      BY <1>1, <1>2, <1>3, <2>2
    <3> QED BY <1>2, <3>1, <3>2
  <2> QED BY <1>3, <2>1, <2>2
<1> QED BY <1>4, <1>5, <1>6 DEF InTurn, u

LEMMA ConcatAt ==
  ASSUME NEW S, NEW s \in Seq(S), NEW t \in Seq(S)
  PROVE  /\ s \o t \in Seq(S) /\ Len(s \o t) = Len(s) + Len(t)
         /\ Len(s) \in Nat /\ DOMAIN s = 1 .. Len(s)
         /\ \A i \in 1 .. Len(s) + Len(t) :
              (s \o t)[i] = IF i <= Len(s) THEN s[i] ELSE t[i - Len(s)]
BY ConcatProperties

(* A new shot is sent behind all others. *)
LEMMA TurnMeasured ==
  ASSUME NEW S, NEW s \in Seq(S), NEW id \in ShotIds, NEW w, (\A x : w # Shot(x)),
         <<Shot(id), w>> \in Seq(S), NEW f \in Seq(ShotIds), NEW T,
         InTurn(s, f, T), (\A i \in DOMAIN f : f[i] # id)
  PROVE  InTurn(s \o <<Shot(id), w>>, Append(f, id), T)
<1> DEFINE t == <<Shot(id), w>>
           u == s \o t
           g == Append(f, id)
<1>1. t \in Seq(S) /\ Len(t) = 2 /\ t[1] = Shot(id) /\ t[2] = w
  OBVIOUS
<1> HIDE DEF t
<1>2. /\ Len(s) \in Nat /\ DOMAIN u = 1 .. Len(s) + 2 /\ DOMAIN s = 1 .. Len(s)
      /\ \A i \in 1 .. Len(s) + 2 : u[i] = IF i <= Len(s) THEN s[i] ELSE t[i - Len(s)]
  <2>1. /\ Len(s) \in Nat /\ u \in Seq(S) /\ Len(u) = Len(s) + Len(t) /\ DOMAIN s = 1 .. Len(s)
        /\ \A i \in 1 .. Len(s) + Len(t) : u[i] = IF i <= Len(s) THEN s[i] ELSE t[i - Len(s)]
    BY <1>1, ConcatAt, Zenon
  <2> HIDE DEF u
  <2>2. DOMAIN u = 1 .. Len(u)
    BY <2>1
  <2> QED BY <1>1, <2>1, <2>2
<1>3. /\ Len(f) \in Nat /\ DOMAIN f = 1 .. Len(f) /\ DOMAIN g = 1 .. Len(f) + 1
      /\ g[Len(f) + 1] = id /\ \A i \in 1 .. Len(f) : g[i] = f[i]
  BY AppendProperties
<1> HIDE DEF u, g
<1>4. \A p \in DOMAIN s : p \in DOMAIN u /\ u[p] = s[p] /\ p <= Len(s) /\ p \in Nat
  BY <1>2
<1>5. /\ Len(s) + 1 \in DOMAIN u /\ u[Len(s) + 1] = Shot(id)
      /\ \A p \in DOMAIN u : /\ p \in Nat
                             /\ \/ p \in DOMAIN s /\ u[p] = s[p]
                                \/ p = Len(s) + 1
                                \/ u[p] = w
  BY <1>1, <1>2
<1>6. ASSUME NEW p \in DOMAIN u, NEW x \in ShotIds, u[p] = Shot(x) PROVE \E j \in DOMAIN g : g[j] = x
  <2>1. CASE p \in DOMAIN s /\ u[p] = s[p]
    <3>1. PICK j \in DOMAIN f : f[j] = x
      BY <1>6, <2>1 DEF InTurn
    <3> QED BY <1>3, <3>1
  <2>2. CASE p = Len(s) + 1
    <3>1. x = id
      BY <1>5, <1>6, <2>2, ShotOne
    <3> QED BY <1>3, <3>1
  <2> QED BY <1>5, <1>6, <2>1, <2>2
<1>7. ASSUME NEW i \in DOMAIN g PROVE g[i] \in T \/ \E p \in DOMAIN u : u[p] = Shot(g[i])
  <2>1. CASE i \in DOMAIN f
    BY <1>3, <1>4, <2>1 DEF InTurn
  <2>2. CASE i = Len(f) + 1
    BY <1>3, <1>5, <2>2
  <2> QED BY <1>3, <2>1, <2>2
<1>8. ASSUME NEW i \in DOMAIN g, NEW j \in DOMAIN g, NEW p \in DOMAIN u, i < j, u[p] = Shot(g[j])
      PROVE  g[i] \in T \/ \E q \in DOMAIN u : q < p /\ u[q] = Shot(g[i])
  <2>1. i \in DOMAIN f /\ g[i] = f[i]
    BY <1>3, <1>8
  <2>2. CASE p \in DOMAIN s /\ u[p] = s[p]
    <3>1. j \in DOMAIN f /\ g[j] = f[j]
      <4>1. ~(j = Len(f) + 1)
        <5> SUFFICES ASSUME j = Len(f) + 1 PROVE FALSE
          OBVIOUS
        <5>1. s[p] = Shot(id)
          BY <1>3, <1>8, <2>2
        <5> QED BY <2>2, <5>1 DEF InTurn
      <4> QED BY <1>3, <4>1
    <3>2. s[p] = Shot(f[j])
      BY <1>8, <2>2, <3>1
    <3>3. f[i] \in T \/ \E q \in DOMAIN s : q < p /\ s[q] = Shot(f[i])
      BY <1>8, <2>1, <2>2, <3>1, <3>2, Zenon DEF InTurn
    <3> QED BY <1>4, <2>1, <3>3
  <2>3. CASE p = Len(s) + 1
    <3>1. f[i] \in T \/ \E q \in DOMAIN s : s[q] = Shot(f[i])
      BY <2>1 DEF InTurn
    <3>2. \A q \in DOMAIN s : q < p
      BY <1>2, <1>4, <2>3
    <3> QED BY <1>4, <2>1, <3>1, <3>2
  <2> QED BY <1>5, <1>8, <2>2, <2>3
<1> QED BY <1>6, <1>7, <1>8 DEF InTurn, u, g, t

FeedMoves == Feed!Next \/ UNCHANGED Feed!feed

LEMMA FeedRests == ASSUME UNCHANGED <<fired, reported>> PROVE FeedMoves
BY DEF FeedMoves, Feed!feed

LEMMA ShotsSame ==
  ASSUME ShotsInOrder, UNCHANGED <<now, fired, recentShots, reported>>,
         \A i \in DOMAIN unacked', id \in ShotIds :
           unacked'[i] = Shot(id) => \E j \in DOMAIN fired : fired[j] = id,
         InTurn(Inbound', fired, Remembers)
  PROVE  ShotsInOrder' /\ FeedMoves
<1>1. Remembers' = Remembers
  BY DEF Remembers
<1>2. ShotsInOrder'
  BY <1>1 DEF ShotsInOrder, ShotTypes
<1> QED BY <1>2, FeedRests

(* Another frame than a shot is heard. *)
LEMMA OtherHeard ==
  ASSUME Types, Registration, ShotsInOrder, NEW frame, NEW replies, Heard(frame, replies),
         \A x : frame # Shot(x), UNCHANGED <<now, fired, recentShots, reported, unacked>>
  PROVE  ShotsInOrder' /\ FeedMoves
<1>1. /\ Inbound \in Seq(InFrames) /\ Inbound # <<>> /\ Head(Inbound) = frame
      /\ Inbound' = Tail(Inbound)
  BY Queues DEF Heard
<1>2. InTurn(Inbound, fired, Remembers) /\ fired \in Seq(ShotIds)
  BY DEF ShotsInOrder, ShotTypes
<1>3. InTurn(Inbound', fired, Remembers)
  BY <1>1, <1>2, TurnTaken
<1> QED BY <1>3, ShotsSame DEF ShotsInOrder

(* Frames are sent, shots measured before among them or none. *)
LEMMA FramesSentInOrder ==
  ASSUME Types, Registration, ShotsInOrder, NEW frames, Pushed(frames),
         \A i \in DOMAIN frames, id \in ShotIds : frames[i] = Shot(id) => \E j \in DOMAIN fired : fired[j] = id,
         UNCHANGED <<now, fired, recentShots, reported>>,
         unacked' \in {unacked, unacked \o frames}
  PROVE  ShotsInOrder' /\ FeedMoves
<1>1. /\ Inbound \in Seq(InFrames) /\ frames \in Seq(InFrames) /\ Inbound' = Inbound \o frames
  BY Queues DEF Pushed, InFrames
<1>2. InTurn(Inbound, fired, Remembers) /\ fired \in Seq(ShotIds)
  BY DEF ShotsInOrder, ShotTypes
<1>3. InTurn(Inbound', fired, Remembers)
  BY <1>1, <1>2, TurnSent
<1>4. \A i \in DOMAIN unacked, id \in ShotIds : unacked[i] = Shot(id) => \E j \in DOMAIN fired : fired[j] = id
  BY DEF ShotsInOrder
<1>5. \A i \in DOMAIN (unacked \o frames) :
        \/ i \in DOMAIN unacked /\ (unacked \o frames)[i] = unacked[i]
        \/ \E j \in DOMAIN frames : (unacked \o frames)[i] = frames[j]
  BY <1>1 DEF Types
<1>6. ASSUME NEW i \in DOMAIN unacked', NEW id \in ShotIds, unacked'[i] = Shot(id)
      PROVE  \E j \in DOMAIN fired : fired[j] = id
  <2>1. CASE unacked' = unacked
    BY <1>4, <1>6, <2>1
  <2>2. CASE unacked' = unacked \o frames
    BY <1>4, <1>5, <1>6, <2>2
  <2> QED BY <2>1, <2>2
<1> QED BY <1>3, <1>6, ShotsSame

LEMMA OneOfBoth ==
  ASSUME NEW S, NEW s \in Seq(S), NEW t \in Seq(S), NEW i \in DOMAIN (s \o t)
  PROVE  \/ i \in DOMAIN s /\ (s \o t)[i] = s[i]
         \/ \E j \in DOMAIN t : (s \o t)[i] = t[j]
OBVIOUS

LEMMA IdsOfMore ==
  ASSUME NEW T, NEW s \in Seq(T), NEW x
  PROVE  [i \in DOMAIN Append(s, x) |-> Append(s, x)[i].id] = Append([i \in DOMAIN s |-> s[i].id], x.id)
OBVIOUS

(* With a clock that does not move no shot is forgotten. *)
LEMMA AllRetained == ASSUME ShotTypes PROVE Retained = recentShots
<1>1. \A shot \in recentShots : shot.at = 0
  BY DEF ShotTypes
<1>2. 0 - 0 < Window
  BY ClientAssumption
<1> QED BY <1>1, <1>2 DEF Retained, Remembered, ShotTypes

LEMMA NewShotHeard ==
  ASSUME Types, Registration, ShotsInOrder, Types',
         NEW id \in ShotIds, NEW replies, Heard(Shot(id), replies), id \notin Remembers,
         recentShots' = recentShots \cup {[id |-> id, at |-> 0]},
         reported' = Append(reported, [id |-> id, at |-> 0]) \/ (faults' # 0 /\ reported' = reported),
         UNCHANGED <<now, fired, unacked>>
  PROVE  ShotsInOrder' /\ FeedMoves
<1> DEFINE shot == [id |-> id, at |-> 0]
           U == Remembers \cup {id}
<1>1. /\ Inbound \in Seq(InFrames) /\ Inbound # <<>> /\ Head(Inbound) = Shot(id)
      /\ Inbound' = Tail(Inbound)
  BY Queues DEF Heard
<1>2. /\ InTurn(Inbound, fired, Remembers) /\ fired \in Seq(ShotIds)
      /\ Distinct(fired) /\ Prefixed(fired, Remembers)
      /\ reported \in Seq([id : ShotIds, at : {0}]) /\ recentShots \subseteq [id : ShotIds, at : {0}]
      /\ \A i \in DOMAIN reported : reported[i].id \in Remembers
  BY DEF ShotsInOrder, ShotTypes
<1>3. shot \in [id : ShotIds, at : {0}] /\ shot.id = id
  OBVIOUS
<1>4. Remembers' = U
  BY <1>3 DEF Remembers
<1>5. PICK n \in DOMAIN fired : fired[n] = id
  <2>1. 1 \in DOMAIN Inbound /\ Inbound[1] = Shot(id)
    BY <1>1
  <2> QED BY <1>2, <2>1 DEF InTurn
<1>6. n \in Nat /\ DOMAIN fired = 1 .. Len(fired) /\ Len(fired) \in Nat
  BY <1>2
<1>7. InTurn(Inbound', fired, U) /\ \A i \in DOMAIN fired : i < n => fired[i] \in Remembers
  <2>1. \A i \in DOMAIN fired : Head(Inbound) = Shot(fired[i]) => fired[i] \in U
    BY <1>1, ShotOne
  <2>2. /\ InTurn(Tail(Inbound), fired, U)
        /\ \A i, j \in DOMAIN fired : i < j /\ Head(Inbound) = Shot(fired[j]) => fired[i] \in Remembers
    <3> HIDE DEF U
    <3>1. Remembers \subseteq U
      BY DEF U
    <3> QED BY <1>1, <1>2, <2>1, <3>1, TurnTaken
  <2> QED BY <1>1, <1>5, <2>2
<1>8. \A i \in DOMAIN fired : fired[i] \in U <=> fired[i] \in Remembers \/ i = n
  BY <1>2, <1>5 DEF Distinct
<1>9. \A x \in U : \E j \in DOMAIN fired : fired[j] = x
  BY <1>5 DEF ShotsInOrder
<1>10. Prefixed(fired, U)
  <2> SUFFICES ASSUME NEW i \in DOMAIN fired, NEW j \in DOMAIN fired, i < j, fired[j] \in U
               PROVE  fired[i] \in U
    BY DEF Prefixed
  <2>1. CASE fired[j] \in Remembers
    BY <1>2, <2>1 DEF Prefixed
  <2>2. CASE j = n
    BY <1>7, <2>2
  <2> QED BY <1>8, <2>1, <2>2
<1> HIDE DEF shot, U
<1>11. CASE reported' = Append(reported, shot)
  <2>1. /\ Len(reported) \in Nat /\ reported' \in Seq([id : ShotIds, at : {0}])
        /\ Len(reported') = Len(reported) + 1
        /\ \A i \in DOMAIN reported' : (i \in DOMAIN reported /\ reported'[i] = reported[i]) \/ reported'[i] = shot
    BY <1>2, <1>3, <1>11
  <2>2. \A i \in DOMAIN reported' : reported'[i].id \in U
    BY <1>2, <1>3, <2>1 DEF U
  <2>3. ASSUME MaxWriteFaults = 0
        PROVE  /\ n = Len(reported) + 1 /\ Len(reported') <= Len(fired)
               /\ \A i \in DOMAIN fired : fired[i] \in U <=> i <= Len(reported')
    <3>1. \A i \in DOMAIN fired : fired[i] \in Remembers <=> i <= Len(reported)
      BY <2>3 DEF ShotsInOrder
    <3>2. ~(n <= Len(reported))
      BY <1>5, <3>1
    <3>3. n <= Len(reported) + 1
      <4> SUFFICES ASSUME n > Len(reported) + 1 PROVE FALSE
        BY <1>6, <2>1
      <4>1. n - 1 \in DOMAIN fired /\ n - 1 < n /\ ~(n - 1 <= Len(reported))
        BY <1>6, <2>1
      <4> QED BY <1>7, <3>1, <4>1
    <3>4. n = Len(reported) + 1
      BY <1>6, <2>1, <3>2, <3>3
    <3>5. \A i \in DOMAIN fired : i <= Len(reported) + 1 <=> i <= Len(reported) \/ i = Len(reported) + 1
      BY <1>6, <2>1
    <3> QED BY <1>8, <2>1, <3>1, <3>4, <3>5
  <2>4. ShotTypes'
    BY <1>2, <1>3, <2>1 DEF ShotTypes, ShotsInOrder, shot
  <2>5. ShotsInOrder'
    BY <1>2, <1>4, <1>7, <1>10, <1>9, <2>2, <2>3, <2>4 DEF ShotsInOrder
  <2>6. Feed!Deliver(n)
    <3> DEFINE ids == [i \in DOMAIN reported |-> reported[i].id]
    <3>1. [i \in DOMAIN reported' |-> reported'[i].id] = Append(ids, fired[n])
      BY <1>2, <1>3, <1>5, <1>11, IdsOfMore
    <3>2. \A k \in DOMAIN ids : ids[k] \in Remembers
      BY <1>2
    <3>3. \A j \in n .. Len(fired) : fired[j] \notin Remembers
      <4> SUFFICES ASSUME NEW j \in n .. Len(fired), fired[j] \in Remembers PROVE FALSE
        OBVIOUS
      <4>1. j \in DOMAIN fired /\ (j = n \/ n < j)
        BY <1>6
      <4> QED BY <1>2, <1>5, <4>1 DEF Prefixed
    <3>4. \A j \in n .. Len(fired), k \in DOMAIN ids : fired[j] # ids[k]
      BY <3>2, <3>3
    <3>5. Len(ids) = Len(reported)
      BY <1>2
    <3> HIDE DEF ids
    <3>6. MaxWriteFaults = 0 => n = Len(ids) + 1
      BY <2>3, <3>5
    <3> QED BY <3>1, <3>4, <3>6 DEF Feed!Deliver, ids
  <2> QED BY <2>5, <2>6 DEF FeedMoves, Feed!Next, Feed!Delivers
<1>12. CASE faults' # 0 /\ reported' = reported
  <2>1. MaxWriteFaults # 0
    BY <1>12 DEF Types
  <2>2. ShotTypes'
    BY <1>2, <1>3, <1>12 DEF ShotTypes, ShotsInOrder, shot
  <2>3. \A i \in DOMAIN reported' : reported'[i].id \in U
    BY <1>2, <1>12 DEF U
  <2>4. ShotsInOrder'
    BY <1>2, <1>4, <1>7, <1>10, <1>9, <2>1, <2>2, <2>3 DEF ShotsInOrder
  <2> QED BY <1>12, <2>4, FeedRests
<1> QED BY <1>11, <1>12 DEF shot

LEMMA ShotHeardInOrder ==
  ASSUME Types, Registration, ShotsInOrder, Types', NEW id \in ShotIds, HearsShot(id),
         UNCHANGED <<now, fired, unacked>>
  PROVE  ShotsInOrder' /\ FeedMoves
<1> DEFINE replies == <<Ack("ProtobufRequest")>>
<1>1. Heard(Shot(id), replies) /\ TakesShot(id)
  BY DEF HearsShot
<1> HIDE DEF replies
<1>2. Retained = recentShots /\ now = 0
  BY AllRetained DEF ShotsInOrder, ShotTypes
<1>3. CASE (\E old \in Retained : old.id = id) /\ recentShots' = Retained /\ UNCHANGED reported
  <2>1. id \in Remembers
    BY <1>2, <1>3 DEF Remembers
  <2>2. /\ Inbound \in Seq(InFrames) /\ Inbound # <<>> /\ Head(Inbound) = Shot(id)
        /\ Inbound' = Tail(Inbound)
    BY <1>1, Queues DEF Heard
  <2>3. InTurn(Inbound, fired, Remembers) /\ fired \in Seq(ShotIds)
    BY DEF ShotsInOrder, ShotTypes
  <2>4. \A i \in DOMAIN fired : Head(Inbound) = Shot(fired[i]) => fired[i] \in Remembers
    BY <2>1, <2>2, ShotOne
  <2>5. InTurn(Inbound', fired, Remembers)
    BY <2>2, <2>3, <2>4, TurnTaken
  <2> QED BY <1>2, <1>3, <2>5, ShotsSame DEF ShotsInOrder
<1>4. CASE /\ \A old \in Retained : old.id # id
           /\ recentShots' = Retained \cup {[id |-> id, at |-> now]}
           /\ \/ reported' = Append(reported, [id |-> id, at |-> now])
              \/ faults' # 0 /\ UNCHANGED reported
  <2>1. id \notin Remembers
    BY <1>2, <1>4 DEF Remembers
  <2> QED BY <1>1, <1>2, <1>4, <2>1, NewShotHeard
<1> QED BY <1>1, <1>3, <1>4 DEF TakesShot

LEMMA ShotMeasured ==
  ASSUME Types, Registration, ShotsInOrder, NEW id \in ShotIds, \A i \in DOMAIN fired : fired[i] # id,
         fired' = Append(fired, id), Alerted(<<Shot(id), StateChange("Waiting")>>)
  PROVE  ShotsInOrder' /\ FeedMoves
<1> DEFINE w == StateChange("Waiting")
           frames == <<Shot(id), w>>
<1>1. \A x : w # Shot(x)
  <2>1. w.body = "StateChange" /\ \A x : Shot(x).body = "Shot"
    BY DEF StateChange, Shot
  <2> QED BY <2>1
<1> HIDE DEF w
<1>2. /\ Inbound \in Seq(InFrames) /\ frames \in Seq(InFrames) /\ Inbound' = Inbound \o frames
      /\ unacked' = unacked \o frames /\ UNCHANGED <<now, recentShots, reported>>
  BY Queues DEF Alerted, Pushed, InFrames, w, clientVars, session
<1>3. /\ InTurn(Inbound, fired, Remembers) /\ fired \in Seq(ShotIds)
      /\ Distinct(fired) /\ Prefixed(fired, Remembers)
      /\ \A i \in DOMAIN unacked, x \in ShotIds : unacked[i] = Shot(x) => \E j \in DOMAIN fired : fired[j] = x
  BY DEF ShotsInOrder, ShotTypes
<1>4. Remembers' = Remembers
  BY <1>2 DEF Remembers
<1>5. InTurn(Inbound', fired', Remembers)
  BY <1>1, <1>2, <1>3, TurnMeasured
<1>6. /\ Len(fired) \in Nat /\ DOMAIN fired = 1 .. Len(fired) /\ DOMAIN fired' = 1 .. Len(fired) + 1
      /\ fired'[Len(fired) + 1] = id /\ \A i \in 1 .. Len(fired) : fired'[i] = fired[i]
      /\ fired' \in Seq(ShotIds)
  BY <1>3
<1>7. id \notin Remembers
  <2>1. \A x \in Remembers : \E j \in DOMAIN fired : fired[j] = x
    BY DEF ShotsInOrder
  <2> QED BY <2>1
<1>8. Distinct(fired') /\ Prefixed(fired', Remembers)
  <2>1. ASSUME NEW i \in DOMAIN fired', NEW j \in DOMAIN fired', fired'[i] = fired'[j] PROVE i = j
    <3>1. CASE i \in DOMAIN fired /\ j \in DOMAIN fired
      BY <1>3, <1>6, <2>1, <3>1 DEF Distinct
    <3>2. CASE i = Len(fired) + 1 \/ j = Len(fired) + 1
      BY <1>6, <2>1, <3>2
    <3> QED BY <1>6, <3>1, <3>2
  <2>2. ASSUME NEW i \in DOMAIN fired', NEW j \in DOMAIN fired', i < j, fired'[j] \in Remembers
        PROVE  fired'[i] \in Remembers
    <3>1. j \in DOMAIN fired /\ i \in DOMAIN fired
      BY <1>6, <1>7, <2>2
    <3> QED BY <1>3, <1>6, <2>2, <3>1 DEF Prefixed
  <2> QED BY <2>1, <2>2 DEF Distinct, Prefixed
<1>9. ASSUME MaxWriteFaults = 0
      PROVE  /\ Len(reported) <= Len(fired')
             /\ \A i \in DOMAIN fired' : fired'[i] \in Remembers <=> i <= Len(reported)
  <2>1. \A i \in DOMAIN fired : fired[i] \in Remembers <=> i <= Len(reported)
    BY <1>9 DEF ShotsInOrder
  <2>2. ~(Len(fired) + 1 <= Len(reported))
    <3>1. Len(fired) >= Len(reported) /\ Len(reported) \in Nat
      BY <1>9 DEF ShotsInOrder, ShotTypes
    <3> QED BY <1>6, <3>1
  <2>3. Len(fired') = Len(fired) + 1 /\ Len(reported) <= Len(fired) /\ Len(reported) \in Nat
    BY <1>3, <1>9 DEF ShotsInOrder, ShotTypes
  <2> QED BY <1>6, <1>7, <2>1, <2>2, <2>3
<1>10. ASSUME NEW i \in DOMAIN unacked', NEW x \in ShotIds, unacked'[i] = Shot(x)
       PROVE  \E j \in DOMAIN fired' : fired'[j] = x
  <2>1. frames[1] = Shot(id) /\ frames[2] = w /\ DOMAIN frames = 1 .. 2
    OBVIOUS
  <2>2. frames \in Seq(Protobufs) /\ unacked \in Seq(Protobufs)
    BY ProtobufKinds, ProtobufSeqs DEF w, DeviceStates, Types
  <2> HIDE DEF frames
  <2>3. \/ i \in DOMAIN unacked /\ unacked'[i] = unacked[i]
        \/ \E j \in DOMAIN frames : unacked'[i] = frames[j]
    <3>1. unacked' = unacked \o frames
      BY <1>2
    <3>2. \A k \in DOMAIN (unacked \o frames) :
            \/ k \in DOMAIN unacked /\ (unacked \o frames)[k] = unacked[k]
            \/ \E j \in DOMAIN frames : (unacked \o frames)[k] = frames[j]
      BY <2>2, OneOfBoth
    <3> QED BY <1>10, <3>1, <3>2, Zenon
  <2>4. CASE i \in DOMAIN unacked /\ unacked'[i] = unacked[i]
    <3>1. unacked[i] = Shot(x)
      BY <1>10, <2>4
    <3>2. PICK j \in DOMAIN fired : fired[j] = x
      BY <1>3, <2>4, <3>1
    <3>3. j \in DOMAIN fired' /\ fired'[j] = x
      BY <1>6, <3>2
    <3> QED BY <3>3
  <2>5. CASE \E j \in DOMAIN frames : unacked'[i] = frames[j]
    <3>1. Shot(x) = Shot(id) \/ Shot(x) = w
      BY <1>10, <2>1, <2>5
    <3>2. x = id
      BY <1>1, <3>1, ShotOne
    <3>3. Len(fired) + 1 \in DOMAIN fired' /\ fired'[Len(fired) + 1] = x
      BY <1>6, <3>2
    <3> QED BY <3>3
  <2> QED BY <2>3, <2>4, <2>5
<1>11. ShotsInOrder'
  BY <1>2, <1>4, <1>5, <1>6, <1>8, <1>9, <1>10 DEF ShotsInOrder, ShotTypes
<1>12. Feed!Offer(id)
  BY <1>2 DEF Feed!Offer
<1> QED BY <1>11, <1>12 DEF FeedMoves, Feed!Next

LEMMA OthersHeard ==
  ASSUME Types, Registration, ShotsInOrder, Types', Hears, UNCHANGED <<now, fired, unacked>>
  PROVE  ShotsInOrder' /\ FeedMoves
<1>1. ASSUME NEW frame, NEW replies, Heard(frame, replies), \A x : frame # Shot(x), KeepsShots
      PROVE  ShotsInOrder' /\ FeedMoves
  BY <1>1, OtherHeard DEF KeepsShots
<1>2. \A x : Shot(x).type = "ProtobufRequest" /\ Shot(x).body = "Shot"
  BY DEF Shot
<1>3. CASE HearsInfo
  <2>1. \A x : DeviceInfo(FALSE) # Shot(x)
    <3>1. DeviceInfo(FALSE).type = "DeviceInfo"
      BY DEF DeviceInfo
    <3> QED BY <1>2, <3>1
  <2> QED BY <1>1, <1>3, <2>1 DEF HearsInfo
<1>4. CASE HearsConfiguration
  <2>1. \A x : Configuration # Shot(x)
    <3>1. Configuration.type = "Configuration"
      BY DEF Configuration
    <3> QED BY <1>2, <3>1
  <2> QED BY <1>1, <1>4, <2>1 DEF HearsConfiguration
<1>5. CASE HearsCaps
  <2>1. \A x : CapsAccepted # Shot(x)
    <3>1. CapsAccepted.type = "Ack"
      BY DEF CapsAccepted, AckOf
    <3> QED BY <1>2, <3>1
  <2> QED BY <1>1, <1>5, <2>1 DEF HearsCaps
<1>6. CASE HearsSubscribed
  <2>1. \A x : SubscribeOk # Shot(x)
    <3>1. SubscribeOk.type = "ProtobufResponse"
      BY DEF SubscribeOk, Result
    <3> QED BY <1>2, <3>1
  <2> QED BY <1>1, <1>6, <2>1 DEF HearsSubscribed
<1>7. ASSUME NEW status \in 0..2, HearsWake(status) PROVE ShotsInOrder' /\ FeedMoves
  <2>1. \A x : WakeResult(status) # Shot(x)
    <3>1. WakeResult(status).type = "ProtobufResponse"
      BY DEF WakeResult
    <3> QED BY <1>2, <3>1
  <2> QED BY <1>1, <1>7, <2>1 DEF HearsWake
<1>8. ASSUME NEW state \in DeviceStates, HearsState(state) PROVE ShotsInOrder' /\ FeedMoves
  <2>1. \A x : StateChange(state) # Shot(x)
    <3>1. StateChange(state).body = "StateChange"
      BY DEF StateChange
    <3> QED BY <1>2, <3>1
  <2> QED BY <1>1, <1>8, <2>1 DEF HearsState
<1>9. ASSUME NEW id \in ShotIds, HearsShot(id) PROVE ShotsInOrder' /\ FeedMoves
  BY <1>9, ShotHeardInOrder
<1>10. ASSUME NEW frame \in Asides, HearsAside(frame) PROVE ShotsInOrder' /\ FeedMoves
  <2>1. \A x : frame # Shot(x)
    <3>1. frame.type # "ProtobufRequest"
      BY DEF Asides, AckOf, Result, Fit, FitTypes
    <3> QED BY <1>2, <3>1
  <2> QED BY <1>1, <1>10, <2>1 DEF HearsAside
<1> QED BY <1>3, <1>4, <1>5, <1>6, <1>7, <1>8, <1>9, <1>10 DEF Hears

LEMMA ClientInOrder ==
  ASSUME Types, Registration, ShotsInOrder, Types', ClientStep PROVE ShotsInOrder' /\ FeedMoves
<1>1. UNCHANGED device /\ UNCHANGED <<fired, unacked>> /\ (Start \/ Poll)
  BY DEF ClientStep, device
<1>2. ASSUME Inbound' = Inbound, UNCHANGED <<now, recentShots, reported>>
      PROVE  ShotsInOrder' /\ FeedMoves
  BY <1>1, <1>2, ShotsSame DEF ShotsInOrder
<1>3. CASE Start
  BY <1>1, <1>2, <1>3, Starts
<1>4. CASE PollRegister
  <2>1. Heard(Response, <<>>) /\ UNCHANGED <<now, recentShots, reported>>
    BY <1>1, <1>4, Registers
  <2>2. \A x : Response # Shot(x)
    <3>1. Response.type = "RegisterResponse" /\ \A x : Shot(x).type = "ProtobufRequest"
      BY DEF Response, RegisterResponse, Shot
    <3> QED BY <3>1
  <2> QED BY <1>1, <2>1, <2>2, OtherHeard
<1>5. CASE PollPending \/ (\E k \in 0..MaxChunkFrames : PollIdle(k))
  <2>1. Rests /\ UNCHANGED <<now, recentShots, reported>>
    BY <1>1, <1>5, Pauses
  <2> QED BY <1>2, <2>1 DEF Rests
<1>6. CASE \E k \in 0..MaxChunkFrames : Dispatch(k)
  <2>1. PICK k \in 0..MaxChunkFrames : Dispatch(k)
    BY <1>6
  <2>2. k \in Nat
    BY ClientAssumption
  <2>3. Hears /\ now' = now
    BY <2>1, <2>2, FrameHeard DEF AfterPoll
  <2> QED BY <1>1, <2>3, OthersHeard
<1> QED BY <1>1, <1>3, <1>4, <1>5, <1>6 DEF Poll

(* The R10 answers with other frames than shots, or sends what it measured. *)
LEMMA AnsweredInOrder ==
  ASSUME Types, Registration, ShotsInOrder, NEW frame, NEW sends, Answered(frame, sends),
         \A i \in DOMAIN sends, id \in ShotIds : sends[i] # Shot(id),
         UNCHANGED <<clientVars, now, fired>>,
         \A i \in DOMAIN unacked', id \in ShotIds :
           unacked'[i] = Shot(id) => \E j \in DOMAIN fired : fired[j] = id
  PROVE  ShotsInOrder' /\ FeedMoves
<1>1. Inbound \in Seq(InFrames) /\ sends \in Seq(InFrames) /\ Inbound' = Inbound \o sends
  BY Queues DEF Answered
<1>2. InTurn(Inbound, fired, Remembers) /\ fired \in Seq(ShotIds)
  BY DEF ShotsInOrder, ShotTypes
<1>3. InTurn(Inbound', fired, Remembers)
  BY <1>1, <1>2, TurnSent
<1> QED BY <1>3, ShotsSame DEF clientVars, session

NotShot(f) == \A x : f # Shot(x)
NoShots(s) == \A i \in DOMAIN s : NotShot(s[i])

LEMMA NotShots ==
  /\ NotShot(Response) /\ NotShot(DeviceInfo(FALSE)) /\ NotShot(Configuration)
  /\ NotShot(CapsAccepted) /\ NotShot(SubscribeOk) /\ NotShot(AckOf("ProtobufRequest", 0))
  /\ NotShot(Result("EnvironmentResult", TRUE))
  /\ \A status : NotShot(WakeResult(status))
  /\ \A state : NotShot(StateChange(state))
  /\ \A type \in FitTypes : NotShot(Fit(type))
<1>1. \A x : Shot(x).type = "ProtobufRequest" /\ Shot(x).body = "Shot"
  BY DEF Shot
<1>2. /\ Response.type = "RegisterResponse" /\ DeviceInfo(FALSE).type = "DeviceInfo"
      /\ Configuration.type = "Configuration" /\ CapsAccepted.type = "Ack"
      /\ SubscribeOk.type = "ProtobufResponse" /\ AckOf("ProtobufRequest", 0).type = "Ack"
      /\ Result("EnvironmentResult", TRUE).type = "ProtobufResponse"
  BY DEF Response, RegisterResponse, DeviceInfo, Configuration, CapsAccepted, SubscribeOk, AckOf, Result
<1>3. \A status : WakeResult(status).type = "ProtobufResponse"
  BY DEF WakeResult
<1>4. \A state : StateChange(state).body = "StateChange"
  BY DEF StateChange
<1>5. \A type \in FitTypes : Fit(type).type # "ProtobufRequest"
  BY DEF Fit, FitTypes
<1> QED BY <1>1, <1>2, <1>3, <1>4, <1>5 DEF NotShot

LEMMA NoShotsMore ==
  ASSUME NEW T, NEW s \in Seq(T), NoShots(s), NEW c, NotShot(c)
  PROVE  NoShots(Append(s, c))
BY DEF NoShots

LEMMA NoShotSeqs ==
  /\ NoShots(<<>>)
  /\ \A a : NotShot(a) => NoShots(<<a>>)
  /\ \A a, b : NotShot(a) /\ NotShot(b) => NoShots(<<a, b>>)
  /\ \A a, b, c : NotShot(a) /\ NotShot(b) /\ NotShot(c) => NoShots(Append(<<a, b>>, c))
<1>1. ASSUME NEW a, NEW b, NEW c, NotShot(a), NotShot(b), NotShot(c)
      PROVE  NoShots(Append(<<a, b>>, c))
  <2> DEFINE s == <<a, b>>
  <2>1. s \in Seq({a, b, c}) /\ Len(s) = 2 /\ s[1] = a /\ s[2] = b
    OBVIOUS
  <2> HIDE DEF s
  <2>2. NoShots(s)
    BY <1>1, <2>1 DEF NoShots
  <2>3. NoShots(Append(s, c))
    BY <1>1, <2>1, <2>2, NoShotsMore
  <2> QED BY <2>3 DEF s
<1> QED BY <1>1 DEF NoShots

OnlyMeasured(s) == \A i \in DOMAIN s, id \in ShotIds : s[i] = Shot(id) => \E j \in DOMAIN fired : fired[j] = id

LEMMA OwedMeasured ==
  ASSUME Types, ShotsInOrder, NEW owed \in Seq(Protobufs), NoShots(owed)
  PROVE  /\ OnlyMeasured(unacked) /\ OnlyMeasured(unacked \o owed)
         /\ unacked # <<>> => OnlyMeasured(Tail(unacked))
<1>1. unacked \in Seq(Protobufs) /\ OnlyMeasured(unacked)
  BY DEF Types, ShotsInOrder, OnlyMeasured
<1>2. \A k \in DOMAIN (unacked \o owed) :
            \/ k \in DOMAIN unacked /\ (unacked \o owed)[k] = unacked[k]
            \/ \E j \in DOMAIN owed : (unacked \o owed)[k] = owed[j]
  BY <1>1, OneOfBoth
<1>3. OnlyMeasured(unacked \o owed)
  BY <1>1, <1>2 DEF OnlyMeasured, NoShots, NotShot
<1>4. ASSUME unacked # <<>> PROVE OnlyMeasured(Tail(unacked))
  <2>1. \A i \in DOMAIN Tail(unacked) : i + 1 \in DOMAIN unacked /\ Tail(unacked)[i] = unacked[i + 1]
    BY <1>1, <1>4
  <2> QED BY <1>1, <2>1 DEF OnlyMeasured
<1> QED BY <1>1, <1>3, <1>4

LEMMA DeviceReplyInOrder ==
  ASSUME Types, Registration, Handshake, ShotsInOrder, DeviceReply PROVE ShotsInOrder' /\ FeedMoves
<1>1. ASSUME NEW frame, NEW sends, Answered(frame, sends), NoShots(sends),
             UNCHANGED <<clientVars, now, fired>>, OnlyMeasured(unacked')
      PROVE  ShotsInOrder' /\ FeedMoves
  <2>1. \A i \in DOMAIN sends, id \in ShotIds : sends[i] # Shot(id)
    BY <1>1 DEF NoShots, NotShot
  <2>2. \A i \in DOMAIN unacked', id \in ShotIds :
          unacked'[i] = Shot(id) => \E j \in DOMAIN fired : fired[j] = id
    BY <1>1 DEF OnlyMeasured
  <2> QED BY <1>1, <2>1, <2>2, AnsweredInOrder
<1>2. OnlyMeasured(unacked)
  BY DEF ShotsInOrder, OnlyMeasured
<1>3. CASE DeviceRegister
  <2>1. NoShots(<<Response, DeviceInfo(FALSE)>>)
    BY NotShots, NoShotSeqs, Zenon
  <2>2. Answered(Register, <<Response, DeviceInfo(FALSE)>>)
        /\ UNCHANGED <<clientVars, now, fired>> /\ UNCHANGED unacked
    BY <1>3, RegisterTaken
  <2> QED BY <1>1, <1>2, <2>1, <2>2
<1>4. CASE DeviceIgnores
  <2>1. UNCHANGED <<clientVars, now, fired>> /\ UNCHANGED unacked
    BY <1>4, EarlyIgnored DEF device
  <2> QED BY <1>1, <1>2, <1>4, <2>1, EarlyIgnored, NoShotSeqs
<1>5. CASE DeviceInfoAcked
  <2>1. PICK fit \in {<<>>, <<Fit("FitDefinition"), Fit("FitData")>>} :
          Answered(Ack("DeviceInfo"), Append(fit, Configuration))
    BY <1>5, InfoTaken
  <2>2. UNCHANGED <<clientVars, now, fired>> /\ UNCHANGED unacked
    BY <1>5, InfoTaken
  <2>3. NoShots(Append(fit, Configuration))
    <3>1. Append(<<>>, Configuration) = <<Configuration>>
      OBVIOUS
    <3>2. NoShots(Append(<<>>, Configuration))
      BY <3>1, NotShots, NoShotSeqs, Zenon
    <3>3. NotShot(Fit("FitDefinition")) /\ NotShot(Fit("FitData"))
      BY NotShots DEF FitTypes
    <3>4. NoShots(Append(<<Fit("FitDefinition"), Fit("FitData")>>, Configuration))
      BY <3>3, NotShots, NoShotSeqs, Zenon
    <3>5. fit = <<>> \/ fit = <<Fit("FitDefinition"), Fit("FitData")>>
      OBVIOUS
    <3> QED BY <3>2, <3>4, <3>5, Zenon
  <2> QED BY <1>1, <1>2, <2>1, <2>2, <2>3
<1>6. CASE DeviceAcked
  <2>1. UNCHANGED <<clientVars, now, fired>> /\ \E type : Answered(Ack(type), <<>>)
    BY <1>6, AckTaken
  <2>2. unacked' = unacked \/ unacked' = IF unacked = <<>> THEN <<>> ELSE Tail(unacked)
    BY <1>6, AckTaken
  <2>3. OnlyMeasured(unacked')
    <3>1. <<>> \in Seq(Protobufs) /\ NoShots(<<>>)
      BY NoShotSeqs
    <3>2. CASE unacked = <<>>
      BY <1>2, <2>2, <3>2
    <3>3. CASE unacked # <<>>
      BY <1>2, <2>2, <3>1, <3>3, OwedMeasured
    <3> QED BY <3>2, <3>3
  <2> QED BY <1>1, <2>1, <2>3, NoShotSeqs
<1>7. CASE DeviceConfigured
  BY <1>1, <1>2, <1>7, CapsTaken, NotShots, NoShotSeqs
<1>8. CASE DeviceSubscribe
  <2>1. NoShots(<<SubscribeOk>>) /\ <<SubscribeOk>> \in Seq(Protobufs)
    BY NotShots, NoShotSeqs, ProtobufKinds, ProtobufSeqs
  <2>2. /\ \E id : Answered(Request("Subscribe", id), <<SubscribeOk>>)
        /\ UNCHANGED <<clientVars, now, fired>> /\ unacked' = unacked \o <<SubscribeOk>>
    BY <1>8, SubscribeTaken
  <2>3. OnlyMeasured(unacked')
    BY <2>1, <2>2, OwedMeasured
  <2> QED BY <1>1, <2>1, <2>2, <2>3
<1>9. CASE DeviceWake
  <2>1. PICK id \in 0 .. ReqIds - 1, sends \in Seq(SentFrames) :
          /\ Answered(Request("Wake", id), sends) /\ WakeAnswered(sends)
          /\ unacked' = unacked \o sends
    BY <1>9, WakeTaken
  <2>2. UNCHANGED <<clientVars, now, fired>>
    BY <1>9, WakeTaken
  <2>3. sends \in Seq(Protobufs) /\ NoShots(sends)
    <3>1. 0 \in 0..2 /\ 1 \in 0..2 /\ 2 \in 0..2 /\ "Waiting" \in DeviceStates
      BY DEF DeviceStates
    <3>2. sends \in Seq(Protobufs)
      BY <2>1, <3>1, ProtobufKinds, ProtobufSeqs DEF WakeAnswered
    <3>3. NoShots(sends)
      BY <2>1, NotShots, NoShotSeqs DEF WakeAnswered
    <3> QED BY <3>2, <3>3
  <2>4. OnlyMeasured(unacked')
    BY <2>1, <2>3, OwedMeasured
  <2> QED BY <1>1, <2>1, <2>2, <2>3, <2>4
<1>10. CASE DeviceEnvironment
  <2> DEFINE answer == Result("EnvironmentResult", TRUE)
  <2>1. /\ \E id : Answered(Request("Environment", id), EnvironmentAnswer)
        /\ UNCHANGED <<clientVars, now, fired>> /\ unacked' = unacked \o <<answer>>
    BY <1>10, EnvironmentTaken
  <2>2. NotShot(answer) /\ <<answer>> \in Seq(Protobufs)
    BY NotShots, ProtobufKinds, ProtobufSeqs
  <2>3. NoShots(EnvironmentAnswer)
    <3>1. EnvironmentAnswer = <<AckOf("ProtobufRequest", 0), answer>>
      BY DEF EnvironmentAnswer
    <3> QED BY <2>2, <3>1, NotShots, NoShotSeqs, Zenon
  <2> HIDE DEF answer
  <2>4. NoShots(<<answer>>)
    BY <2>2, NoShotSeqs, Zenon
  <2>5. OnlyMeasured(unacked')
    BY <2>1, <2>2, <2>4, OwedMeasured
  <2> QED BY <1>1, <2>1, <2>3, <2>5
<1> QED BY <1>3, <1>4, <1>5, <1>6, <1>7, <1>8, <1>9, <1>10 DEF DeviceReply

LEMMA StepInOrder ==
  ASSUME Types, Registration, Handshake, ShotsInOrder, [SessionNext]_sessionVars
  PROVE  ShotsInOrder' /\ FeedMoves
<1>1. CASE ClientStep
  BY <1>1, ClientKeeps, ClientInOrder
<1>2. CASE AskEnvironment
  <2>1. Inbound' = Inbound /\ UNCHANGED <<device, reported, recentShots, now>>
    BY <1>2, Asks
  <2> QED BY <2>1, ShotsSame DEF ShotsInOrder, device
<1>3. CASE DeviceReply
  BY <1>3, DeviceReplyInOrder
<1>4. ASSUME NEW frames, Alerted(frames), OnlyMeasured(frames), fired' = fired
      PROVE  ShotsInOrder' /\ FeedMoves
  BY <1>4, FramesSentInOrder DEF Alerted, OnlyMeasured, clientVars, session
<1>5. \A s : NoShots(s) => OnlyMeasured(s)
  BY DEF NoShots, NotShot, OnlyMeasured
<1>6. CASE Swing
  <2>1. OnlyMeasured(<<StateChange("Recording")>>)
    BY <1>5, NotShots, NoShotSeqs
  <2> QED BY <1>4, <1>6, <2>1, Swings
<1>7. CASE Measure
  <2>1. PICK id \in ShotIds :
               /\ \A i \in DOMAIN fired : fired[i] # id
               /\ fired' = Append(fired, id)
               /\ Alerted(<<Shot(id), StateChange("Waiting")>>)
    BY <1>7, Measures
  <2> QED BY <2>1, ShotMeasured
<1>8. CASE FallAsleep
  <2>1. OnlyMeasured(<<StateChange("Standby")>>)
    BY <1>5, NotShots, NoShotSeqs
  <2> QED BY <1>4, <1>8, <2>1, FallsAsleep
<1>9. CASE ReplayShot
  <2>1. PICK id \in ShotIds, i \in DOMAIN unacked : unacked[i] = Shot(id) /\ Alerted(<<Shot(id)>>)
    BY <1>9, Replays
  <2>2. \E j \in DOMAIN fired : fired[j] = id
    BY <2>1 DEF ShotsInOrder
  <2>3. OnlyMeasured(<<Shot(id)>>)
    <3>1. \A a : DOMAIN <<a>> = {1} /\ <<a>>[1] = a
      OBVIOUS
    <3> QED BY <2>2, <3>1, ShotOne DEF OnlyMeasured
  <2> QED BY <1>4, <1>9, <2>1, <2>3, Replays
<1>10. CASE Restart
  <2>1. /\ Pushed(<<Configuration>>)
        /\ UNCHANGED <<clientVars, now, unacked, fired>>
    BY <1>10, Restarts
  <2>2. OnlyMeasured(<<Configuration>>)
    BY <1>5, NotShots, NoShotSeqs
  <2> QED BY <2>1, <2>2, FramesSentInOrder DEF OnlyMeasured, clientVars, session
<1>11. CASE UNCHANGED sessionVars
  <2>1. Inbound' = Inbound /\ UNCHANGED <<now, fired, recentShots, reported, unacked>>
    BY <1>11, StutterKeeps DEF Rests, sessionVars, vars, clientVars, session, device
  <2> QED BY <2>1, ShotsSame DEF ShotsInOrder
<1> QED BY <1>1, <1>2, <1>3, <1>6, <1>7, <1>8, <1>9, <1>10, <1>11 DEF SessionNext

(* A session implements the ordered feed: the shots the application gets    *)
(* are the shots measured, in their order and none twice, however often the *)
(* R10 sends one again, falls asleep or begins anew, and none is passed     *)
(* over unless a write may fail (handle_protobuf, Shot arm).                *)
THEOREM ShotsFed == SessionSpec => Feed!Safety
<1> DEFINE IInv == Types /\ Registration /\ Handshake /\ ShotsInOrder
<1>1. SessionInit => IInv /\ Feed!Init
  <2> SUFFICES ASSUME SessionInit PROVE IInv /\ Feed!Init
    OBVIOUS
  <2>1. /\ fired = <<>> /\ reported = <<>> /\ recentShots = {} /\ unacked = <<>> /\ now = 0
    BY DEF SessionInit, Init
  <2>2. Inbound = <<>> /\ Remembers = {}
    BY <2>1, Begins DEF Remembers
  <2>3. InTurn(Inbound, fired, Remembers) /\ Distinct(fired) /\ Prefixed(fired, Remembers)
    BY <2>1, <2>2 DEF InTurn, Distinct, Prefixed
  <2>4. ShotsInOrder
    BY <2>1, <2>2, <2>3 DEF ShotsInOrder, ShotTypes
  <2>5. Feed!Init
    BY <2>1 DEF Feed!Init
  <2> QED BY <2>4, <2>5, Begins
<1>2. IInv /\ [SessionNext]_sessionVars => IInv' /\ [Feed!Next]_(Feed!feed)
  BY StepKeeps, StepInOrder DEF FeedMoves
<1> HIDE DEF IInv
<1> QED BY <1>1, <1>2, PTL DEF SessionSpec, Feed!Safety
===============================================================================
