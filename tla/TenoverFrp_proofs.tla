--------------------------- MODULE TenoverFrp_proofs ---------------------------
(***************************************************************************)
(* Proofs about FrpDevice in an arbitrary program, for any number of       *)
(* connections, shots and errors, and at the end that the main loop of     *)
(* tenover-frp uses it as FrpDevice allows.                                *)
(***************************************************************************)
EXTENDS TenoverFrp, WellFoundedInduction, TLAPS

(* The two facts support each other: the types make the counting of Tokens *)
(* arithmetic, and pending <=> conn = 0 is what lets drop_connection and   *)
(* poll_connection keep the count.                                         *)
IInv == TypeOK /\ OneConnectionOnItsWay

LEMMA InitIInv == Init => IInv
  BY FrpAssumption DEF Init, IInv, TypeOK, OneConnectionOnItsWay, Tokens, Conns, Readiness

(* What a run of sends on an adopted connection c does to the count: either *)
(* c stays and nothing is asked for, or c is dropped and one is asked for.  *)
LEMMA SendsEffect ==
  ASSUME TypeOK, NEW c \in Conns, NEW envs, NEW sent \in Nat,
         Sends(c, FALSE, envs) \/ SendFails(c, FALSE, envs, sent)
  PROVE  /\ \/ conn' = c /\ pending' = FALSE /\ requests' = requests
            \/ conn' = 0 /\ pending' = TRUE /\ requests' = requests + 1
         /\ gone' \subseteq Conns
         /\ failed' \subseteq Conns
<1>1. CASE AllSent(c, FALSE, envs)
  BY <1>1 DEF AllSent, TypeOK
<1>2. ASSUME NEW n, ClosedAfter(c, FALSE, envs, n)
      PROVE  conn' = 0 /\ pending' = TRUE /\ requests' = requests + 1
             /\ gone' \subseteq Conns /\ failed' \subseteq Conns
  BY <1>2 DEF ClosedAfter, DropConnection, RequestConnection, TypeOK
<1>3. ASSUME NEW n, FailedAfter(c, FALSE, envs, n)
      PROVE  conn' = c /\ pending' = FALSE /\ requests' = requests
             /\ gone' \subseteq Conns /\ failed' \subseteq Conns
  BY <1>3 DEF FailedAfter, TypeOK
<1> QED BY <1>1, <1>2, <1>3 DEF Sends, SendFails

(* The operations of an adopted device leave the acceptor's side alone. *)
LEMMA DeviceSends ==
  ASSUME IInv, NEW envs, NEW sent \in Nat,
         \/ NotConnected
         \/ conn # 0 /\ (Sends(conn, pending, envs) \/ SendFails(conn, pending, envs, sent)),
         UNCHANGED <<incoming, acceptor, made>>,
         telemetry' \in Readiness, shotNumber' \in 0 .. MaxShots
  PROVE  IInv'
<1>1. CASE NotConnected
  BY <1>1 DEF NotConnected, IInv, TypeOK, OneConnectionOnItsWay, Tokens
<1>2. CASE conn # 0 /\ (Sends(conn, pending, envs) \/ SendFails(conn, pending, envs, sent))
  <2>1. conn \in Conns /\ pending = FALSE
    BY <1>2 DEF IInv, TypeOK, OneConnectionOnItsWay, Conns
  <2>2. /\ \/ conn' = conn /\ pending' = FALSE /\ requests' = requests
           \/ conn' = 0 /\ pending' = TRUE /\ requests' = requests + 1
        /\ gone' \subseteq Conns /\ failed' \subseteq Conns
    BY <1>2, <2>1, SendsEffect DEF IInv
  <2>3. TypeOK'
    <3>1. conn' \in Conns \cup {0} /\ pending' \in BOOLEAN
      BY <2>1, <2>2
    <3>2. requests' \in Nat
      BY <2>2 DEF IInv, TypeOK
    <3> QED BY <2>2, <3>1, <3>2 DEF IInv, TypeOK, Conns, Readiness
  <2>4. OneConnectionOnItsWay'
    BY <1>2, <2>1, <2>2 DEF IInv, TypeOK, OneConnectionOnItsWay, Tokens, Conns
  <2> QED BY <2>3, <2>4 DEF IInv
<1> QED BY <1>1, <1>2

LEMMA StepIInv == IInv /\ [Next]_vars => IInv'
<1> SUFFICES ASSUME IInv, [Next]_vars PROVE IInv'
  OBVIOUS
<1> USE FrpAssumption
<1>1. ASSUME NEW ready \in Readiness, SendReady(ready) PROVE IInv'
  <2>1. telemetry' \in Readiness /\ shotNumber' \in 0 .. MaxShots
    BY <1>1 DEF SendReady, IInv, TypeOK
  <2> QED BY <1>1, <2>1, DeviceSends DEF SendReady
<1>2. CASE HandleShot
  <2>1. telemetry' \in Readiness /\ shotNumber' \in 0 .. MaxShots
    BY <1>2 DEF HandleShot, IInv, TypeOK, Readiness
  <2>2. PICK envs :
          \/ NotConnected
          \/ conn # 0 /\ (Sends(conn, pending, envs) \/ SendFails(conn, pending, envs, 1))
          \/ conn # 0 /\ FailedAfter(conn, pending, envs, 0)
    BY <1>2 DEF HandleShot
  <2>3. CASE conn # 0 /\ FailedAfter(conn, pending, envs, 0)
    BY <1>2, <2>1, <2>3
       DEF FailedAfter, HandleShot, IInv, TypeOK, OneConnectionOnItsWay, Tokens, Conns
  <2> QED BY <1>2, <2>1, <2>2, <2>3, DeviceSends DEF HandleShot
<1>3. CASE PollConnection
  <2> DEFINE c == Head(incoming)
  <2>1. /\ conn = 0 /\ pending = TRUE /\ Tokens = 1
        /\ incoming \in Seq(Conns) /\ incoming # <<>>
        /\ incoming' = Tail(incoming)
        /\ UNCHANGED <<telemetry, shotNumber, acceptor, made>>
    BY <1>3 DEF PollConnection, IInv, TypeOK, OneConnectionOnItsWay
  <2>2. c \in Conns /\ incoming' \in Seq(Conns) /\ Len(incoming') = Len(incoming) - 1
        /\ Len(incoming) \in Nat \ {0}
    BY <2>1
  <2>3. requests = 0 /\ acceptor = "Receiving" /\ Len(incoming') = 0
    BY <2>1, <2>2 DEF Tokens, IInv, TypeOK
  <2>4. /\ \/ conn' = c /\ pending' = FALSE /\ requests' = requests
           \/ conn' = 0 /\ pending' = TRUE /\ requests' = requests + 1
        /\ gone' \subseteq Conns /\ failed' \subseteq Conns
    BY <1>3, <2>2, SendsEffect DEF PollConnection, IInv
  <2>5. TypeOK'
    <3>1. conn' \in Conns \cup {0} /\ pending' \in BOOLEAN
      BY <2>2, <2>4
    <3>2. requests' \in Nat
      BY <2>3, <2>4
    <3> QED BY <2>1, <2>2, <2>4, <3>1, <3>2 DEF IInv, TypeOK, Conns, Readiness
  <2>6. OneConnectionOnItsWay'
    <3>1. acceptor' = "Receiving" /\ Len(incoming') = 0 /\ (conn' = 0 <=> pending')
      BY <2>1, <2>2, <2>3, <2>4 DEF Conns
    <3>2. requests' = IF pending' THEN 1 ELSE 0
      BY <2>3, <2>4
    <3> QED BY <3>1, <3>2 DEF OneConnectionOnItsWay, Tokens
  <2> QED BY <2>5, <2>6 DEF IInv
<1>4. CASE CheckController
  BY <1>4 DEF CheckController, DropConnection, RequestConnection, peerVars, Conns,
              IInv, TypeOK, OneConnectionOnItsWay, Tokens
<1>5. CASE AcceptorReceive
  BY <1>5 DEF AcceptorReceive, deviceVars, peerVars, IInv, TypeOK, OneConnectionOnItsWay, Tokens
<1>6. CASE AcceptorEstablish
  <2>1. incoming' \in Seq(Conns) /\ Len(incoming') = Len(incoming) + 1
    BY <1>6 DEF AcceptorEstablish, IInv, TypeOK, Conns
  <2> QED BY <1>6, <2>1
          DEF AcceptorEstablish, deviceVars, IInv, TypeOK, OneConnectionOnItsWay, Tokens
<1>7. CASE ControllerCloses
  BY <1>7 DEF ControllerCloses, deviceVars, threadVars, Conns,
              IInv, TypeOK, OneConnectionOnItsWay, Tokens
<1>8. CASE UNCHANGED vars
  BY <1>8 DEF vars, deviceVars, threadVars, peerVars,
              IInv, TypeOK, OneConnectionOnItsWay, Tokens
<1> QED BY <1>1, <1>2, <1>3, <1>4, <1>5, <1>6, <1>7, <1>8 DEF Next, Device

(* The variables keep their types, with any number of connections. *)
THEOREM TypeCorrect == Spec => []TypeOK
<1>1. Spec => []IInv
  BY InitIInv, StepIInv, PTL DEF Spec
<1> QED BY <1>1, PTL DEF IInv

(* The caller's thread and the acceptor thread never disagree on whether a *)
(* connection is on its way, and there is never more than one.             *)
THEOREM ConnectionCounted == Spec => []OneConnectionOnItsWay
<1>1. Spec => []IInv
  BY InitIInv, StepIInv, PTL DEF Spec
<1> QED BY <1>1, PTL DEF IInv

-----------------------------------------------------------------------------
(* Induction over the natural numbers, for a set. *)
LEMMA AllNaturals ==
  ASSUME NEW T \in SUBSET Nat, 0 \in T, \A n \in T : n + 1 \in T
  PROVE  \A n \in Nat : n \in T
<1> DEFINE Rest == Nat \ T
           Less == {pair \in Nat \X Nat : pair[1] < pair[2]}
<1> SUFFICES ASSUME Rest # {} PROVE FALSE
  OBVIOUS
<1>1. PICK m \in Rest : \A k \in Rest : ~(<<k, m>> \in Less)
  <2>1. IsWellFoundedOn(Less, Nat)
    BY NatLessThanWellFounded, Zenon DEF OpToRel
  <2>2. Rest \subseteq Nat
    OBVIOUS
  <2> HIDE DEF Rest, Less
  <2> QED BY <2>1, <2>2, WFMin
<1>2. m \in Nat /\ m # 0 /\ m - 1 \in T
  <2>1. m \in Nat /\ m # 0 /\ m - 1 \in Nat
    OBVIOUS
  <2>2. <<m - 1, m>> \in Less
    BY <2>1
  <2> QED BY <1>1, <2>1, <2>2
<1>3. m - 1 + 1 = m
  BY <1>2
<1> QED BY <1>1, <1>2, <1>3

(* What Gathered computes, one envelope at a time: there is a function that *)
(* satisfies its recursive definition, for envelopes of any number.         *)
LEMMA GatheredSteps ==
  ASSUME NEW v, NEW envs, Len(envs) \in Nat
  PROVE  LET g == Gathered(v, envs) IN
         /\ g[0] = v
         /\ \A n \in 1 .. Len(envs) : g[n] = Observe(g[n - 1], envs[n])
<1> DEFINE Gathers(f, m) == f = [n \in 0 .. m |-> IF n = 0 THEN v ELSE Observe(f[n - 1], envs[n])]
           T == {m \in Nat : \E f : Gathers(f, m)}
<1>1. 0 \in T
  <2>1. Gathers([n \in 0 .. 0 |-> v], 0)
    OBVIOUS
  <2> QED BY <2>1
<1>2. ASSUME NEW m \in T PROVE m + 1 \in T
  <2>1. PICK f : Gathers(f, m)
    OBVIOUS
  <2> DEFINE h == [n \in 0 .. m + 1 |-> IF n <= m THEN f[n] ELSE Observe(f[m], envs[m + 1])]
  <2>2. ASSUME NEW n \in 0 .. m + 1
        PROVE  h[n] = IF n = 0 THEN v ELSE Observe(h[n - 1], envs[n])
    <3>1. CASE n = 0
      BY <2>1, <3>1
    <3>2. CASE n \in 1 .. m
      <4>1. h[n] = f[n] /\ h[n - 1] = f[n - 1] /\ f[n] = Observe(f[n - 1], envs[n])
        BY <2>1, <3>2
      <4> QED BY <3>2, <4>1
    <3>3. CASE n = m + 1
      <4>1. h[n] = Observe(f[m], envs[m + 1]) /\ h[n - 1] = f[m]
        BY <3>3
      <4> QED BY <3>3, <4>1
    <3> QED BY <3>1, <3>2, <3>3
  <2>3. Gathers(h, m + 1)
    BY <2>2
  <2> HIDE DEF Gathers, h
  <2> QED BY <2>3
<1>3. Len(envs) \in T
  <2> HIDE DEF T
  <2>1. T \in SUBSET Nat
    BY DEF T
  <2> QED BY <1>1, <1>2, <2>1, AllNaturals
<1>4. Gathers(Gathered(v, envs), Len(envs))
  <2>1. \E f : Gathers(f, Len(envs))
    BY <1>3
  <2>2. Gathered(v, envs) = CHOOSE f : Gathers(f, Len(envs))
    BY DEF Gathered
  <2> HIDE DEF Gathers
  <2> QED BY <2>1, <2>2, Zenon
<1> QED BY <1>4

(* What a controller can make of its stream, and what one envelope changes. *)
Views == [ready : Readiness \cup {"None"}, open : Nat, last : Nat, whole : BOOLEAN]
Data == {"BallFlight", "ClubPath"}

LEMMA ObserveTelemetry ==
  ASSUME NEW v \in Views, NEW r \in Readiness,
         NEW w, w = Observe(v, Telemetry(r))
  PROVE  /\ w \in Views
         /\ w.ready = r /\ w.open = v.open /\ w.last = v.last
         /\ v.whole /\ v.open = 0 => w.whole
  BY DEF Observe, Telemetry, Views

(* A controller that made v of everything before shot n, within the shot;   *)
(* and then before its first envelope and after its last.                   *)
Fresh(v, n) == v.whole /\ v.open = 0 /\ v.last < n
InShot(w, v, n) ==
  /\ w \in Views
  /\ w.ready = "NotReady" /\ w.open = n /\ w.last = n
  /\ Fresh(v, n) => w.whole
BeforeShot(w, v, n) ==
  /\ w \in Views
  /\ w.ready = "NotReady" /\ w.open = v.open /\ w.last = v.last
  /\ Fresh(v, n) => w.whole
AfterShot(w, v, n) ==
  /\ w \in Views
  /\ w.ready = "NotReady" /\ w.open = 0 /\ w.last = n
  /\ Fresh(v, n) => w.whole

LEMMA ReadyFalse ==
  ASSUME NEW v \in Views, NEW n \in Nat
  PROVE  BeforeShot(Observe(v, Telemetry("NotReady")), v, n)
  BY ObserveTelemetry DEF BeforeShot, Fresh, Readiness

LEMMA TriggerShot ==
  ASSUME NEW v \in Views, NEW n \in Nat, NEW w, BeforeShot(w, v, n)
  PROVE  InShot(Observe(w, ShotPart("ShotTrigger", n)), v, n)
  BY DEF BeforeShot, InShot, Fresh, Observe, ShotPart, Views

LEMMA ContinueShot ==
  ASSUME NEW v \in Views, NEW n \in Nat, NEW w, InShot(w, v, n), NEW part \in Data
  PROVE  InShot(Observe(w, ShotPart(part, n)), v, n)
  BY DEF InShot, Observe, ShotPart, Views, Data

LEMMA FinishShot ==
  ASSUME NEW v \in Views, NEW n \in Nat, NEW w, InShot(w, v, n)
  PROVE  AfterShot(Observe(w, ShotPart("ShotFinished", n)), v, n)
  BY DEF InShot, AfterShot, Observe, ShotPart, Views

(* A controller that was sent nothing, or one telemetry. *)
LEMMA NothingGathered ==
  ASSUME NEW v
  PROVE  Len(<<>>) = 0 /\ Gathered(v, <<>>)[0] = v
  BY GatheredSteps

LEMMA TelemetryGathered ==
  ASSUME NEW v \in Views, NEW r \in Readiness
  PROVE  LET g == Gathered(v, <<Telemetry(r)>>) IN
         /\ Len(<<Telemetry(r)>>) = 1
         /\ g[0] = v /\ g[1] \in Views
         /\ g[1].ready = r /\ g[1].open = v.open /\ g[1].last = v.last
         /\ v.whole /\ v.open = 0 => g[1].whole
<1> DEFINE envs == <<Telemetry(r)>>
<1>1. Len(envs) = 1 /\ envs[1] = Telemetry(r)
  OBVIOUS
<1> HIDE DEF envs
<1>2. /\ Gathered(v, envs)[0] = v
      /\ Gathered(v, envs)[1] = Observe(Gathered(v, envs)[0], envs[1])
  BY <1>1, GatheredSteps
<1>3. Gathered(v, envs)[1] = Observe(v, Telemetry(r))
  BY <1>1, <1>2
<1> QED BY <1>1, <1>2, <1>3, ObserveTelemetry DEF envs

LEMMA ConcatAt ==
  ASSUME NEW S, NEW s \in Seq(S), NEW t \in Seq(S)
  PROVE  /\ s \o t \in Seq(S) /\ Len(s \o t) = Len(s) + Len(t)
         /\ \A i \in 1 .. Len(s) : (s \o t)[i] = s[i]
         /\ \A i \in 1 .. Len(t) : (s \o t)[Len(s) + i] = t[i]
  OBVIOUS

(* Where the envelopes of a shot are. *)
LEMMA ShotEnvelopes ==
  ASSUME NEW parts \in Seq(Data), NEW n \in Nat
  PROVE  LET envs == ShotSequence(parts, n) IN
         /\ Len(parts) \in Nat /\ Len(envs) = Len(parts) + 3
         /\ envs[1] = Telemetry("NotReady")
         /\ envs[2] = ShotPart("ShotTrigger", n)
         /\ \A i \in 1 .. Len(parts) : envs[i + 2] = ShotPart(parts[i], n)
         /\ envs[Len(parts) + 3] = ShotPart("ShotFinished", n)
<1> DEFINE Any == {Telemetry("NotReady")}
                    \cup {ShotPart(kind, n) : kind \in Data \cup {"ShotTrigger", "ShotFinished"}}
           first == <<Telemetry("NotReady")>>
           trigger == <<ShotPart("ShotTrigger", n)>>
           data == [i \in DOMAIN parts |-> ShotPart(parts[i], n)]
           finish == <<ShotPart("ShotFinished", n)>>
<1>1. /\ Len(first) = 1 /\ first[1] = Telemetry("NotReady")
      /\ Len(trigger) = 1 /\ trigger[1] = ShotPart("ShotTrigger", n)
      /\ Len(finish) = 1 /\ finish[1] = ShotPart("ShotFinished", n)
  OBVIOUS
<1>2. Len(parts) \in Nat /\ DOMAIN parts = 1 .. Len(parts) /\ DOMAIN data = 1 .. Len(parts)
      /\ Len(data) = Len(parts)
      /\ \A i \in 1 .. Len(parts) : data[i] = ShotPart(parts[i], n)
  OBVIOUS
<1>3. first \in Seq(Any) /\ trigger \in Seq(Any) /\ data \in Seq(Any) /\ finish \in Seq(Any)
  <2>1. Telemetry("NotReady") \in Any
    OBVIOUS
  <2>2. \A kind \in Data \cup {"ShotTrigger", "ShotFinished"} : ShotPart(kind, n) \in Any
    OBVIOUS
  <2> HIDE DEF Any
  <2>3. \A i \in DOMAIN parts : ShotPart(parts[i], n) \in Any
    BY <2>2
  <2> QED BY <2>1, <2>2, <2>3
<1>4. ShotSequence(parts, n) = first \o ((trigger \o data) \o finish)
  BY DEF ShotSequence, ShotEvents
<1> HIDE DEF Any, first, trigger, data, finish
<1> DEFINE begun == trigger \o data
           shot == begun \o finish
<1>5. /\ begun \in Seq(Any) /\ Len(begun) = 1 + Len(parts)
      /\ begun[1] = trigger[1]
      /\ \A i \in 1 .. Len(parts) : begun[1 + i] = data[i]
  <2>1. /\ trigger \o data \in Seq(Any) /\ Len(trigger \o data) = Len(trigger) + Len(data)
        /\ \A i \in 1 .. Len(trigger) : (trigger \o data)[i] = trigger[i]
        /\ \A i \in 1 .. Len(data) : (trigger \o data)[Len(trigger) + i] = data[i]
    BY <1>3, ConcatAt
  <2> HIDE DEF begun
  <2> QED BY <1>1, <1>2, <2>1 DEF begun
<1> HIDE DEF begun
<1>6. /\ shot \in Seq(Any) /\ Len(shot) = 2 + Len(parts)
      /\ \A i \in 1 .. 1 + Len(parts) : shot[i] = begun[i]
      /\ shot[2 + Len(parts)] = finish[1]
  <2>1. /\ begun \o finish \in Seq(Any) /\ Len(begun \o finish) = Len(begun) + Len(finish)
        /\ \A i \in 1 .. Len(begun) : (begun \o finish)[i] = begun[i]
        /\ \A i \in 1 .. Len(finish) : (begun \o finish)[Len(begun) + i] = finish[i]
    <3>1. begun \in Seq(Any) /\ finish \in Seq(Any)
      BY <1>3, <1>5
    <3> QED BY <3>1, ConcatAt
  <2>2. Len(begun) = 1 + Len(parts) /\ Len(finish) = 1 /\ Len(begun) + 1 = 2 + Len(parts)
    BY <1>1, <1>2, <1>5
  <2> QED BY <2>1, <2>2, <1>2 DEF shot
<1> HIDE DEF shot
<1> DEFINE envs == first \o shot
<1>7. /\ Len(envs) = 3 + Len(parts)
      /\ envs[1] = first[1]
      /\ \A i \in 1 .. 2 + Len(parts) : envs[1 + i] = shot[i]
  <2>1. /\ Len(first \o shot) = Len(first) + Len(shot)
        /\ \A i \in 1 .. Len(first) : (first \o shot)[i] = first[i]
        /\ \A i \in 1 .. Len(shot) : (first \o shot)[Len(first) + i] = shot[i]
    <3>1. first \in Seq(Any) /\ shot \in Seq(Any)
      BY <1>3, <1>6
    <3> QED BY <3>1, ConcatAt
  <2>2. Len(first) + Len(shot) = 3 + Len(parts)
    BY <1>1, <1>2, <1>6
  <2> QED BY <1>1, <1>6, <2>1, <2>2 DEF envs
<1> HIDE DEF envs
<1>8. envs = ShotSequence(parts, n)
  BY <1>4 DEF envs, shot, begun
<1>9. /\ Len(envs) = Len(parts) + 3
      /\ envs[1] = Telemetry("NotReady")
      /\ envs[2] = ShotPart("ShotTrigger", n)
      /\ envs[Len(parts) + 3] = ShotPart("ShotFinished", n)
  <2>1. envs[1 + 1] = shot[1] /\ shot[1] = begun[1]
    BY <1>2, <1>6, <1>7
  <2>2. envs[1 + (2 + Len(parts))] = shot[2 + Len(parts)]
    BY <1>2, <1>7
  <2>3. 1 + 1 = 2 /\ 1 + (2 + Len(parts)) = Len(parts) + 3 /\ 3 + Len(parts) = Len(parts) + 3
    BY <1>2
  <2> QED BY <1>1, <1>5, <1>6, <1>7, <2>1, <2>2, <2>3
<1>10. ASSUME NEW i \in 1 .. Len(parts) PROVE envs[i + 2] = ShotPart(parts[i], n)
  <2>1. i + 2 = 1 + (1 + i) /\ 1 + i \in 1 .. 1 + Len(parts) /\ 1 + i \in 1 .. 2 + Len(parts)
    BY <1>2
  <2>2. envs[i + 2] = shot[1 + i] /\ shot[1 + i] = begun[1 + i]
    BY <1>6, <1>7, <2>1
  <2> QED BY <1>2, <1>5, <2>2
<1> QED BY <1>2, <1>8, <1>9, <1>10

(* A shot leaves a controller that was between shots between shots, with    *)
(* ready=false, and at no point out of place.                               *)
LEMMA ShotGathered ==
  ASSUME NEW v \in Views, NEW n \in Nat, NEW parts \in Seq(Data)
  PROVE  LET envs == ShotSequence(parts, n)
             g == Gathered(v, envs)
         IN  /\ Len(envs) \in Nat \ {0}
             /\ g[0] = v
             /\ \A i \in 0 .. Len(envs) :
                  g[i] \in Views /\ (Fresh(v, n) => g[i].whole /\ g[i].last <= n)
             /\ AfterShot(g[Len(envs)], v, n)
<1> DEFINE envs == ShotSequence(parts, n)
           g == Gathered(v, envs)
           k == Len(parts)
<1>1. /\ k \in Nat /\ Len(envs) = k + 3
      /\ envs[1] = Telemetry("NotReady")
      /\ envs[2] = ShotPart("ShotTrigger", n)
      /\ \A i \in 1 .. k : envs[i + 2] = ShotPart(parts[i], n)
      /\ envs[k + 3] = ShotPart("ShotFinished", n)
  BY ShotEnvelopes
<1>2. /\ g[0] = v
      /\ \A i \in 1 .. k + 3 : g[i] = Observe(g[i - 1], envs[i])
  BY <1>1, GatheredSteps
<1>3. \A i \in 1 .. k : parts[i] \in Data
  OBVIOUS
<1> HIDE DEF envs, g, k
<1>4. BeforeShot(g[1], v, n)
  <2>1. g[1] = Observe(v, Telemetry("NotReady"))
    BY <1>1, <1>2
  <2> QED BY <2>1, ReadyFalse
<1>5. InShot(g[2], v, n)
  <2>1. g[2] = Observe(g[1], ShotPart("ShotTrigger", n))
    BY <1>1, <1>2
  <2> QED BY <1>4, <2>1, TriggerShot
<1>6. \A j \in Nat : j <= k => InShot(g[j + 2], v, n)
  <2> DEFINE T == {j \in Nat : j <= k => InShot(g[j + 2], v, n)}
  <2>1. 0 \in T
    BY <1>5
  <2>2. ASSUME NEW j \in T PROVE j + 1 \in T
    <3> SUFFICES ASSUME j + 1 <= k PROVE InShot(g[j + 3], v, n)
      OBVIOUS
    <3>1. j \in Nat /\ InShot(g[j + 2], v, n)
      BY <1>1
    <3>2. g[j + 3] = Observe(g[j + 2], ShotPart(parts[j + 1], n))
      <4>1. j + 3 \in 1 .. k + 3 /\ j + 3 - 1 = j + 2 /\ j + 1 \in 1 .. k /\ j + 1 + 2 = j + 3
        BY <1>1, <3>1
      <4> QED BY <1>1, <1>2, <4>1
    <3>3. parts[j + 1] \in Data
      BY <1>1, <1>3, <3>1
    <3> QED BY <3>1, <3>2, <3>3, ContinueShot
  <2> HIDE DEF T
  <2>3. T \in SUBSET Nat
    BY DEF T
  <2>4. \A j \in Nat : j \in T
    BY <2>1, <2>2, <2>3, AllNaturals
  <2> QED BY <2>4 DEF T
<1>7. AfterShot(g[k + 3], v, n)
  <2>1. g[k + 3] = Observe(g[k + 2], ShotPart("ShotFinished", n))
    <3>1. k + 3 \in 1 .. k + 3 /\ k + 3 - 1 = k + 2
      BY <1>1
    <3> QED BY <1>1, <1>2, <3>1
  <2>2. InShot(g[k + 2], v, n)
    BY <1>1, <1>6
  <2> QED BY <2>1, <2>2, FinishShot
<1>8. ASSUME NEW i \in 0 .. k + 3
      PROVE  g[i] \in Views /\ (Fresh(v, n) => g[i].whole /\ g[i].last <= n)
  <2>1. CASE i = 0
    BY <1>2, <2>1 DEF Views, Fresh
  <2>2. CASE i = 1
    BY <1>4, <2>2 DEF BeforeShot, Views, Fresh
  <2>3. CASE i \in 2 .. k + 2
    <3>1. InShot(g[i - 2 + 2], v, n)
      <4>1. i - 2 \in Nat /\ i - 2 <= k
        BY <1>1, <2>3
      <4> QED BY <1>6, <4>1
    <3>2. i - 2 + 2 = i
      BY <1>1, <2>3
    <3> QED BY <3>1, <3>2 DEF InShot
  <2>4. CASE i = k + 3
    BY <1>7, <2>4 DEF AfterShot
  <2> QED BY <1>1, <2>1, <2>2, <2>3, <2>4
<1>9. g[0] = v /\ Len(envs) = k + 3 /\ k \in Nat
  BY <1>1, <1>2
<1>10. /\ Len(envs) \in Nat \ {0}
       /\ g[0] = v
       /\ \A i \in 0 .. Len(envs) :
            g[i] \in Views /\ (Fresh(v, n) => g[i].whole /\ g[i].last <= n)
       /\ AfterShot(g[Len(envs)], v, n)
  BY <1>7, <1>8, <1>9
<1> QED BY <1>10 DEF g, envs

-----------------------------------------------------------------------------
(* A controller has been told nothing as long as there is nothing to tell. *)
ViewTypes == view \in [Conns -> Views]
Untold == telemetry = "None" => \A c \in Conns : view[c].ready = "None"
ShotsCounted == \A c \in Conns \ failed : view[c].last <= shotNumber

(* Neither property is inductive: that the next shot's number is greater    *)
(* than the last one told rests on the counter, and a connection adopted    *)
(* before the first telemetry must not have been told any.                  *)
ViewInv ==
  /\ IInv
  /\ ViewTypes
  /\ Untold
  /\ ShotsCounted
  /\ WholeShots
  /\ ControllerUpToDate

LEMMA InitViewInv == Init => ViewInv
<1> SUFFICES ASSUME Init PROVE ViewInv
  OBVIOUS
<1>1. NewView \in Views /\ NewView.ready = "None" /\ NewView.last = 0
      /\ NewView.whole /\ NewView.open = 0
  BY DEF NewView, Views
<1>2. view \in [Conns -> Views] /\ \A c \in Conns : view[c] = NewView
  BY <1>1 DEF Init
<1>3. ViewTypes /\ Untold /\ ShotsCounted /\ WholeShots
  BY <1>1, <1>2 DEF Init, ViewTypes, Untold, ShotsCounted, WholeShots
<1>4. ControllerUpToDate
  BY DEF Init, ControllerUpToDate
<1> QED BY <1>3, <1>4, InitIInv DEF ViewInv

(* The envelopes of a call, sent to c, keep a controller between shots      *)
(* whole, leave it between shots and tell it the device's new readiness.    *)
BetweenShots(c) == view[c].whole /\ view[c].open = 0 /\ view[c].last <= shotNumber
Follows(c, envs) ==
  LET g == Gathered(view[c], envs) IN
  /\ Len(envs) \in Nat
  /\ \A i \in 0 .. Len(envs) :
       g[i] \in Views /\ (BetweenShots(c) => g[i].whole /\ g[i].last <= shotNumber')
  /\ BetweenShots(c) => g[Len(envs)].open = 0
  /\ g[Len(envs)].ready = telemetry'

LEMMA ReceivedAt ==
  ASSUME ViewTypes, NEW c \in Conns, NEW envs, NEW n, Gathered(view[c], envs)[n] \in Views
  PROVE  /\ Received(c, envs, n) \in [Conns -> Views]
         /\ \A d \in Conns : d # c => Received(c, envs, n)[d] = view[d]
         /\ c \in gone => Received(c, envs, n)[c] = view[c]
         /\ c \notin gone => Received(c, envs, n)[c] = Gathered(view[c], envs)[n]
  BY DEF ViewTypes, Received

LEMMA AllSentViews ==
  ASSUME ViewInv, NEW c \in Conns, NEW inFlight, NEW envs, Follows(c, envs),
         AllSent(c, inFlight, envs), shotNumber' \in Nat, shotNumber <= shotNumber'
  PROVE  ViewTypes' /\ ShotsCounted' /\ WholeShots' /\ ControllerUpToDate'
<1> DEFINE g == Gathered(view[c], envs)
           m == Len(envs)
<1>1. /\ m \in Nat /\ g[m] \in Views
      /\ BetweenShots(c) => g[m].whole /\ g[m].last <= shotNumber' /\ g[m].open = 0
      /\ g[m].ready = telemetry'
  BY DEF Follows
<1>2. /\ view' = Received(c, envs, m) /\ conn' = c
      /\ UNCHANGED <<gone, failed>>
  BY DEF AllSent
<1> HIDE DEF g, m
<1>3. /\ view' \in [Conns -> Views]
      /\ \A d \in Conns : d # c => view'[d] = view[d]
      /\ c \in gone => view'[c] = view[c]
      /\ c \notin gone => view'[c] = g[m]
  BY <1>1, <1>2, ReceivedAt DEF ViewInv, g
<1>4. ASSUME NEW d \in Conns \ failed
      PROVE  /\ view'[d].last <= shotNumber'
             /\ view'[d].whole /\ (d \notin gone => view'[d].open = 0)
  <2>1. /\ view[d] \in Views /\ view[d].last <= shotNumber
        /\ view[d].whole /\ (d \notin gone => view[d].open = 0)
    BY DEF ViewInv, ViewTypes, ShotsCounted, WholeShots
  <2>2. view[d].last \in Nat /\ shotNumber \in Nat
    BY <2>1 DEF Views, ViewInv, IInv, TypeOK
  <2>3. CASE d # c \/ d \in gone
    <3>1. view'[d] = view[d]
      BY <1>3, <2>3
    <3> QED BY <2>1, <2>2, <3>1
  <2>4. CASE d = c /\ d \notin gone
    <3>1. BetweenShots(c)
      BY <2>1, <2>4 DEF BetweenShots
    <3>2. view'[d] = g[m]
      BY <1>3, <2>4
    <3> QED BY <1>1, <3>1, <3>2
  <2> QED BY <2>3, <2>4
<1>5. ShotsCounted' /\ WholeShots'
  BY <1>2, <1>4 DEF ShotsCounted, WholeShots
<1>6. ControllerUpToDate'
  BY <1>1, <1>2, <1>3 DEF ControllerUpToDate
<1> QED BY <1>3, <1>5, <1>6 DEF ViewTypes

LEMMA BrokenOffViews ==
  ASSUME ViewInv, NEW c \in Conns, NEW inFlight, NEW envs, NEW n \in 0 .. Len(envs) - 1,
         Gathered(view[c], envs)[n] \in Views,
         \/ ClosedAfter(c, inFlight, envs, n) /\ Follows(c, envs)
         \/ FailedAfter(c, inFlight, envs, n),
         shotNumber' \in Nat, shotNumber <= shotNumber'
  PROVE  ViewTypes' /\ ShotsCounted' /\ WholeShots' /\ ControllerUpToDate'
<1> DEFINE g == Gathered(view[c], envs)
<1>1. /\ view' = Received(c, envs, n)
      /\ \/ conn' = 0 /\ gone' = gone \cup {c} /\ failed' = failed /\ Follows(c, envs)
         \/ conn' = c /\ gone' = gone /\ failed' = failed \cup {c}
  BY DEF ClosedAfter, FailedAfter, DropConnection
<1>2. /\ view' \in [Conns -> Views]
      /\ \A d \in Conns : d # c => view'[d] = view[d]
      /\ c \in gone => view'[c] = view[c]
      /\ c \notin gone => view'[c] = g[n]
  BY <1>1, ReceivedAt DEF ViewInv
<1>3. ASSUME NEW d \in Conns \ failed'
      PROVE  /\ view'[d].last <= shotNumber'
             /\ view'[d].whole /\ (d \notin gone' => view'[d].open = 0)
  <2>1. /\ view[d] \in Views /\ view[d].last <= shotNumber
        /\ view[d].whole /\ (d \notin gone => view[d].open = 0)
    BY <1>1 DEF ViewInv, ViewTypes, ShotsCounted, WholeShots
  <2>2. view[d].last \in Nat /\ shotNumber \in Nat
    BY <2>1 DEF Views, ViewInv, IInv, TypeOK
  <2>3. CASE d # c \/ d \in gone
    <3>1. view'[d] = view[d] /\ (d \in gone => d \in gone')
      BY <1>1, <1>2, <2>3
    <3> QED BY <1>1, <2>1, <2>2, <3>1
  <2>4. CASE d = c /\ d \notin gone
    <3>1. d \in gone' /\ Follows(c, envs) /\ n \in 0 .. Len(envs)
      BY <1>1, <2>4 DEF Follows
    <3>2. BetweenShots(c)
      BY <2>1, <2>4 DEF BetweenShots
    <3>3. view'[d] = g[n]
      BY <1>2, <2>4
    <3>4. g[n].whole /\ g[n].last <= shotNumber'
      BY <3>1, <3>2 DEF Follows
    <3> QED BY <3>1, <3>3, <3>4
  <2> QED BY <2>3, <2>4
<1>4. ShotsCounted' /\ WholeShots'
  BY <1>3 DEF ShotsCounted, WholeShots
<1>5. ControllerUpToDate'
  BY <1>1 DEF ControllerUpToDate
<1> QED BY <1>2, <1>4, <1>5 DEF ViewTypes

LEMMA SendsViews ==
  ASSUME ViewInv, NEW c \in Conns, NEW inFlight, NEW envs, Follows(c, envs), NEW sent \in Nat,
         Sends(c, inFlight, envs) \/ SendFails(c, inFlight, envs, sent),
         shotNumber' \in Nat, shotNumber <= shotNumber'
  PROVE  ViewTypes' /\ ShotsCounted' /\ WholeShots' /\ ControllerUpToDate'
<1>1. CASE AllSent(c, inFlight, envs)
  BY <1>1, AllSentViews
<1>2. ASSUME NEW n \in 0 .. Len(envs) - 1,
             ClosedAfter(c, inFlight, envs, n) \/ FailedAfter(c, inFlight, envs, n)
      PROVE  ViewTypes' /\ ShotsCounted' /\ WholeShots' /\ ControllerUpToDate'
  <2>1. Gathered(view[c], envs)[n] \in Views
    BY DEF Follows
  <2> QED BY <1>2, <2>1, BrokenOffViews
<1>3. \A n \in sent .. Len(envs) - 1 : n \in 0 .. Len(envs) - 1
  BY DEF Follows
<1> QED BY <1>1, <1>2, <1>3 DEF Sends, SendFails

(* What the three kinds of call send. *)
LEMMA TelemetryFollows ==
  ASSUME ViewInv, NEW c \in Conns, NEW r \in Readiness, telemetry' = r,
         shotNumber' = shotNumber
  PROVE  Follows(c, <<Telemetry(r)>>)
<1> DEFINE envs == <<Telemetry(r)>>
           g == Gathered(view[c], envs)
<1>1. view[c] \in Views /\ shotNumber \in Nat
  BY DEF ViewInv, ViewTypes, IInv, TypeOK
<1>2. /\ Len(envs) = 1 /\ g[0] = view[c] /\ g[1] \in Views
      /\ g[1].ready = r /\ g[1].open = view[c].open /\ g[1].last = view[c].last
      /\ view[c].whole /\ view[c].open = 0 => g[1].whole
  BY <1>1, TelemetryGathered
<1> HIDE DEF envs, g
<1>3. ASSUME NEW i \in 0 .. 1
      PROVE  g[i] \in Views /\ (BetweenShots(c) => g[i].whole /\ g[i].last <= shotNumber')
  <2>1. CASE i = 0
    BY <1>1, <1>2, <2>1 DEF BetweenShots
  <2>2. CASE i = 1
    BY <1>1, <1>2, <2>2 DEF BetweenShots
  <2> QED BY <2>1, <2>2
<1>4. BetweenShots(c) => g[1].open = 0
  BY <1>2 DEF BetweenShots
<1> QED BY <1>2, <1>3, <1>4 DEF Follows, g, envs

LEMMA ResentFollows ==
  ASSUME ViewInv, NEW c \in Conns, UNCHANGED <<telemetry, shotNumber>>
  PROVE  Follows(c, Resent)
<1>1. CASE telemetry = "None"
  <2>1. Resent = <<>> /\ Len(<<>>) = 0 /\ Gathered(view[c], <<>>)[0] = view[c]
    BY <1>1, NothingGathered DEF Resent
  <2>2. view[c] \in Views /\ view[c].ready = "None" /\ telemetry' = "None"
    BY <1>1 DEF ViewInv, ViewTypes, Untold
  <2>3. 0 .. 0 = {0}
    OBVIOUS
  <2> QED BY <2>1, <2>2, <2>3 DEF Follows, BetweenShots
<1>2. CASE telemetry # "None"
  <2>1. telemetry \in Readiness /\ Resent = <<Telemetry(telemetry)>>
    BY <1>2 DEF Resent, ViewInv, IInv, TypeOK
  <2> QED BY <2>1, TelemetryFollows
<1> QED BY <1>1, <1>2

LEMMA ShotFollows ==
  ASSUME ViewInv, NEW c \in Conns, NEW parts \in Seq(Data),
         telemetry' = "NotReady", shotNumber' = shotNumber + 1
  PROVE  Follows(c, ShotSequence(parts, shotNumber + 1))
<1> DEFINE n == shotNumber + 1
           envs == ShotSequence(parts, n)
           g == Gathered(view[c], envs)
<1>1. view[c] \in Views /\ shotNumber \in Nat /\ n \in Nat
  BY DEF ViewInv, ViewTypes, IInv, TypeOK
<1>2. /\ Len(envs) \in Nat
      /\ \A i \in 0 .. Len(envs) :
           g[i] \in Views /\ (Fresh(view[c], n) => g[i].whole /\ g[i].last <= n)
      /\ AfterShot(g[Len(envs)], view[c], n)
  BY <1>1, ShotGathered
<1>3. BetweenShots(c) => Fresh(view[c], n)
  BY <1>1 DEF BetweenShots, Fresh, Views
<1>4. g[Len(envs)].open = 0 /\ g[Len(envs)].ready = telemetry'
  BY <1>2 DEF AfterShot
<1> HIDE DEF envs, g
<1> QED BY <1>2, <1>3, <1>4 DEF Follows, g, envs

LEMMA NotConnectedViews ==
  ASSUME ViewInv, UNCHANGED <<view, failed>>, gone \subseteq gone',
         conn' = 0 \/ (conn' = conn /\ telemetry' = telemetry),
         shotNumber' \in Nat, shotNumber <= shotNumber'
  PROVE  ViewTypes' /\ ShotsCounted' /\ WholeShots' /\ ControllerUpToDate'
<1>1. ViewTypes' /\ WholeShots' /\ ControllerUpToDate'
  BY DEF ViewInv, ViewTypes, WholeShots, ControllerUpToDate
<1>2. ShotsCounted'
  <2> SUFFICES ASSUME NEW c \in Conns \ failed PROVE view[c].last <= shotNumber'
    BY DEF ShotsCounted
  <2>1. view[c] \in Views /\ view[c].last <= shotNumber /\ shotNumber \in Nat
    BY DEF ViewInv, ViewTypes, ShotsCounted, IInv, TypeOK
  <2> QED BY <2>1 DEF Views
<1> QED BY <1>1, <1>2

LEMMA StepViewInv == ViewInv /\ [Next]_vars => ViewInv'
<1> SUFFICES ASSUME ViewInv, [Next]_vars PROVE ViewInv'
  OBVIOUS
<1>1. IInv'
  BY StepIInv DEF ViewInv
<1>2. shotNumber \in Nat /\ shotNumber' \in Nat /\ conn \in Conns \cup {0}
  BY <1>1 DEF ViewInv, IInv, TypeOK
<1>3. ASSUME NEW ready \in Readiness, SendReady(ready) PROVE ViewInv'
  <2>1. telemetry' = ready /\ shotNumber' = shotNumber
    BY <1>3 DEF SendReady
  <2>2. Untold'
    BY <2>1 DEF Untold, Readiness
  <2>3. CASE NotConnected
    BY <1>1, <1>2, <2>1, <2>2, <2>3, NotConnectedViews DEF NotConnected, ViewInv
  <2>4. CASE conn # 0 /\ (\/ Sends(conn, pending, <<Telemetry(ready)>>)
                          \/ SendFails(conn, pending, <<Telemetry(ready)>>, 0))
    <3>1. conn \in Conns /\ Follows(conn, <<Telemetry(ready)>>)
      BY <1>2, <2>1, <2>4, TelemetryFollows
    <3> QED BY <1>1, <1>2, <2>1, <2>2, <2>4, <3>1, SendsViews DEF ViewInv
  <2> QED BY <1>3, <2>3, <2>4 DEF SendReady
<1>4. CASE HandleShot
  <2>1. telemetry' = "NotReady"
    BY <1>4 DEF HandleShot
  <2>2. Untold'
    BY <2>1 DEF Untold
  <2>3. CASE NotConnected /\ shotNumber' = shotNumber + 1
    BY <1>1, <1>2, <2>2, <2>3, NotConnectedViews DEF NotConnected, ViewInv
  <2>4. ASSUME NEW parts \in {<<>>, <<"BallFlight">>, <<"ClubPath">>, <<"BallFlight", "ClubPath">>}
        PROVE  parts \in Seq(Data)
    <3>1. {"BallFlight", "ClubPath"} = Data
      BY DEF Data
    <3>2. /\ <<>> \in Seq(Data) /\ <<"BallFlight">> \in Seq(Data) /\ <<"ClubPath">> \in Seq(Data)
          /\ <<"BallFlight", "ClubPath">> \in Seq(Data)
      BY <3>1
    <3> QED BY <3>2
  <2>5. ASSUME conn # 0, NEW parts \in Seq(Data), shotNumber' = shotNumber + 1,
               LET envs == ShotSequence(parts, shotNumber + 1) IN
                 Sends(conn, pending, envs) \/ SendFails(conn, pending, envs, 1)
        PROVE  ViewInv'
    <3>1. conn \in Conns /\ Follows(conn, ShotSequence(parts, shotNumber + 1))
      BY <1>2, <2>1, <2>5, ShotFollows
    <3> QED BY <1>1, <1>2, <2>2, <2>5, <3>1, SendsViews DEF ViewInv
  <2>6. ASSUME conn # 0, NEW parts \in Seq(Data), shotNumber' = shotNumber,
               FailedAfter(conn, pending, ShotSequence(parts, shotNumber + 1), 0)
        PROVE  ViewInv'
    <3> DEFINE envs == ShotSequence(parts, shotNumber + 1)
    <3>1. conn \in Conns /\ view[conn] \in Views /\ shotNumber + 1 \in Nat
      BY <1>2, <2>6 DEF ViewInv, ViewTypes
    <3>2. Len(envs) \in Nat \ {0} /\ Gathered(view[conn], envs)[0] = view[conn]
      BY <3>1, ShotGathered
    <3> HIDE DEF envs
    <3>3. 0 \in 0 .. Len(envs) - 1 /\ Gathered(view[conn], envs)[0] \in Views
      BY <3>1, <3>2
    <3>4. FailedAfter(conn, pending, envs, 0)
      BY <2>6 DEF envs
    <3>5. ViewTypes' /\ ShotsCounted' /\ WholeShots' /\ ControllerUpToDate'
      BY <1>2, <2>6, <3>1, <3>3, <3>4, BrokenOffViews
    <3> QED BY <1>1, <2>2, <3>5 DEF ViewInv
  <2> QED BY <1>4, <2>3, <2>4, <2>5, <2>6 DEF HandleShot
<1>5. CASE PollConnection
  <2>1. /\ UNCHANGED <<telemetry, shotNumber>>
        /\ Sends(Head(incoming), FALSE, Resent) \/ SendFails(Head(incoming), FALSE, Resent, 0)
    BY <1>5 DEF PollConnection
  <2>2. Head(incoming) \in Conns
    BY <1>5 DEF PollConnection, ViewInv, IInv, TypeOK
  <2>3. Follows(Head(incoming), Resent)
    BY <2>1, <2>2, ResentFollows
  <2>4. ViewTypes' /\ ShotsCounted' /\ WholeShots' /\ ControllerUpToDate'
    <3> DEFINE c == Head(incoming)
    <3>1. /\ c \in Conns /\ Follows(c, Resent)
          /\ Sends(c, FALSE, Resent) \/ SendFails(c, FALSE, Resent, 0)
      BY <2>1, <2>2, <2>3
    <3>2. shotNumber <= shotNumber'
      BY <1>2, <2>1
    <3> HIDE DEF c
    <3> QED BY <1>2, <3>1, <3>2, SendsViews
  <2>5. Untold'
    <3> SUFFICES ASSUME telemetry = "None" PROVE \A c \in Conns : view'[c].ready = "None"
      BY <2>1 DEF Untold
    <3> DEFINE c == Head(incoming)
    <3>1. Resent = <<>> /\ Len(<<>>) = 0 /\ Gathered(view[c], <<>>)[0] = view[c]
      BY NothingGathered DEF Resent
    <3>2. view' = Received(c, <<>>, 0)
      BY <2>1, <3>1 DEF Sends, SendFails, AllSent, ClosedAfter, FailedAfter
    <3>3. view[c] \in Views
      BY <2>2 DEF ViewInv, ViewTypes
    <3>4. \A d \in Conns : view'[d] = view[d]
      <4> HIDE DEF c
      <4> QED BY <2>2, <3>1, <3>2, <3>3, ReceivedAt DEF ViewInv, c
    <3> QED BY <3>4 DEF ViewInv, Untold
  <2> QED BY <1>1, <2>4, <2>5 DEF ViewInv
<1>6. CASE CheckController \/ AcceptorReceive \/ AcceptorEstablish \/ ControllerCloses
             \/ UNCHANGED vars
  <2>1. UNCHANGED <<view, failed, telemetry, shotNumber>> /\ gone \subseteq gone'
        /\ (conn' = 0 \/ conn' = conn)
    <3> USE DEF deviceVars, threadVars, peerVars
    <3>1. CASE CheckController
      BY <3>1 DEF CheckController, DropConnection
    <3>2. CASE AcceptorReceive \/ AcceptorEstablish
      BY <3>2 DEF AcceptorReceive, AcceptorEstablish
    <3>3. CASE ControllerCloses
      BY <3>3 DEF ControllerCloses
    <3>4. CASE UNCHANGED vars
      BY <3>4 DEF vars
    <3> QED BY <1>6, <3>1, <3>2, <3>3, <3>4
  <2>2. Untold'
    BY <2>1 DEF ViewInv, Untold
  <2>3. ViewTypes' /\ ShotsCounted' /\ WholeShots' /\ ControllerUpToDate'
    <3>1. shotNumber <= shotNumber'
      BY <1>2, <2>1
    <3> QED BY <1>2, <2>1, <3>1, NotConnectedViews
  <2> QED BY <1>1, <2>2, <2>3 DEF ViewInv
<1> QED BY <1>3, <1>4, <1>5, <1>6 DEF Next, Device

(* A controller whose connection works knows the device's present           *)
(* readiness, however many connections were lost and whatever was sent      *)
(* while none was there (poll_connection, send_ready, handle_event).        *)
THEOREM ControllerTold == Spec => []ControllerUpToDate
<1>1. Spec => []ViewInv
  BY InitViewInv, StepViewInv, PTL DEF Spec
<1> QED BY <1>1, PTL DEF ViewInv

(* No controller ever sees a part of a shot out of place, two shots in one, *)
(* a number used twice or a shot without ready=false before it, wherever    *)
(* connections end (handle_event, send_events).                             *)
THEOREM ShotsSeenWhole == Spec => []WholeShots
<1>1. Spec => []ViewInv
  BY InitViewInv, StepViewInv, PTL DEF Spec
<1> QED BY <1>1, PTL DEF ViewInv

-----------------------------------------------------------------------------
LEMMA LoopStep == [LoopNext]_loopVars => [Next]_vars
<1> SUFFICES ASSUME [LoopNext]_loopVars PROVE [Next]_vars
  OBVIOUS
<1>1. CASE Startup
  BY <1>1 DEF Startup, Next, Device, Readiness
<1>2. CASE EventStep
  BY <1>2 DEF EventStep, Next, Device
<1>3. CASE CheckStep
  BY <1>3 DEF CheckStep, Next, Device
<1>4. CASE IdleStep
  BY <1>4 DEF IdleStep, Next, Device
<1>5. CASE Fail
  BY <1>5 DEF Fail
<1>6. CASE Threads \/ Environment
  BY <1>6 DEF Threads, Environment, Next
<1>7. CASE UNCHANGED loopVars
  BY <1>7 DEF loopVars
<1> QED BY <1>1, <1>2, <1>3, <1>4, <1>5, <1>6, <1>7 DEF LoopNext

(* The loop implements the specification of an FrpDevice in an arbitrary    *)
(* program: start-up, event, check and idle step each make calls FrpDevice  *)
(* allows, and nothing else touches its state.                              *)
THEOREM LoopImplements == LoopSpec => Spec
<1>1. LoopInit => Init
  BY DEF LoopInit
<1> QED BY <1>1, LoopStep, PTL DEF LoopSpec, Spec

(* So in tenover-frp, too, exactly one connection is on its way when none   *)
(* is adopted, whatever the R10 reports.                                    *)
THEOREM LoopConnectionCounted == LoopSpec => []OneConnectionOnItsWay
  BY LoopImplements, ConnectionCounted, PTL

(* And its controllers are up to date and see whole shots only. *)
THEOREM LoopControllersServed == LoopSpec => [](ControllerUpToDate /\ WholeShots)
  BY LoopImplements, ControllerTold, ShotsSeenWhole, PTL
===============================================================================
