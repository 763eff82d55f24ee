---------------------------- MODULE R10View_proofs ----------------------------
(***************************************************************************)
(* The application's picture of the R10 is right at rest: proofs about a   *)
(* session of R10Client with an R10 that is asleep or waiting when the     *)
(* session starts and is left alone until it has been told to wake.        *)
(***************************************************************************)
EXTENDS R10Session_proofs

Calm == ~EarlySwing /\ AttachStates \subseteq {"Standby", "Waiting"}

(* Frames of P come after those of Q. *)
Behind(s, P, Q) == \A i, j \in DOMAIN s : s[i] \in P /\ s[j] \in Q => j < i

(* One wake command at most is on its way or about to be written, and none  *)
(* is left when the handshake is begun anew.                                *)
OneWake ==
  /\ WakeSteps <= 1
  /\ Behind(Inbound, {Configuration}, WakeCauses)
  /\ Behind(Outbound, {HostCaps}, RequestsOf("Wake"))
  /\ Count(Outbound, {HostCaps}) > 0 => Count(Inbound, WakeCauses) = 0
  /\ SubscribeSteps > 0 => WakeSteps = 0

(* None is while the R10 is awake and has been told to wake.                *)
AwakeLeftAlone ==
  /\ stage = "Subscribed" /\ woken /\ devState # "Standby" => WakeSteps = 0
  /\ devState = "Recording" => stage = "Subscribed" /\ woken
  /\ devState \in {"Standby", "Waiting", "Recording"}

(* The client is in the phase that takes the answer under way. *)
Accepts == Underway({CapsAccepted}, {HostCaps})
Subscribes == Underway({SubscribeOk}, RequestsOf("Subscribe"))
InStep ==
  /\ Accepts > 0 => phase = "WaitCapabilitiesAck"
  /\ Subscribes > 0 => phase = "Subscribing"

(* The frames from which the client learns that the R10 is in a state, the  *)
(* frames on which a wake command follows, and what the R10 has yet to      *)
(* answer on the way to one.                                                *)
StatesTold(state) == {StateChange(state)} \cup (IF state = "Waiting" THEN {WakeResult(1)} ELSE {})
Telling == UNION {StatesTold(state) : state \in DeviceStates}
Carriers == {Register, Ack("DeviceInfo"), HostCaps} \cup RequestsOf("Subscribe") \cup RequestsOf("Wake")
Chain == Underway(Causes, Carriers)

LastTells(s, state) ==
  \E p \in DOMAIN s : s[p] \in StatesTold(state) /\ \A q \in DOMAIN s : s[q] \in Telling => q <= p
Silent(s) == \A p \in DOMAIN s : s[p] \notin Telling

Told ==
  \/ LastTells(Inbound, devState)
  \/ /\ Silent(Inbound)
     /\ \/ lastState = devState
        \/ lastState = None /\ (wakeFails > 0 \/ phase = "Registering" \/ Chain > 0)

InView == OneWake /\ AwakeLeftAlone /\ InStep /\ Told
View == faults = 0 => InView

-----------------------------------------------------------------------------
(* Frames behind others. *)

LEMMA BehindNone ==
  ASSUME NEW T, NEW s \in Seq(T), NEW P, NEW Q, Count(s, P) = 0 \/ Count(s, Q) = 0
  PROVE  Behind(s, P, Q)
<1>1. ~(\E i \in DOMAIN s : s[i] \in P) \/ ~(\E i \in DOMAIN s : s[i] \in Q)
  BY CountSome
<1> QED BY <1>1 DEF Behind

LEMMA BehindTail ==
  ASSUME NEW T, NEW s \in Seq(T), s # <<>>, NEW P, NEW Q, Behind(s, P, Q)
  PROVE  /\ Behind(Tail(s), P, Q)
         /\ Head(s) \in P => Count(Tail(s), Q) = 0
<1> DEFINE t == Tail(s)
<1>1. /\ t \in Seq(T) /\ \A i \in DOMAIN t : i \in Nat /\ i + 1 \in DOMAIN s /\ t[i] = s[i + 1]
      /\ 1 \in DOMAIN s /\ Head(s) = s[1]
  OBVIOUS
<1> HIDE DEF t
<1>2. Behind(t, P, Q)
  <2> SUFFICES ASSUME NEW i \in DOMAIN t, NEW j \in DOMAIN t, t[i] \in P, t[j] \in Q
               PROVE  j < i
    BY DEF Behind
  <2>1. j + 1 < i + 1
    BY <1>1 DEF Behind
  <2> QED BY <1>1, <2>1
<1>3. ASSUME Head(s) \in P PROVE Count(t, Q) = 0
  <2>1. ~ \E i \in DOMAIN t : t[i] \in Q
    <3> SUFFICES ASSUME NEW i \in DOMAIN t, t[i] \in Q PROVE FALSE
      OBVIOUS
    <3>1. i + 1 < 1
      BY <1>1, <1>3 DEF Behind
    <3> QED BY <1>1, <3>1
  <2>2. Count(t, Q) \in Nat
    BY <1>1, CountFinite DEF Count
  <2> QED BY <1>1, <2>1, <2>2, CountSome
<1> QED BY <1>2, <1>3 DEF t

LEMMA BehindConcat ==
  ASSUME NEW T, NEW s \in Seq(T), NEW t \in Seq(T), NEW P, NEW Q,
         Behind(s, P, Q), Behind(t, P, Q), Count(s, P) = 0 \/ Count(t, Q) = 0
  PROVE  Behind(s \o t, P, Q)
<1> DEFINE u == s \o t
<1>1. /\ Len(s) \in Nat /\ DOMAIN u = 1 .. Len(s) + Len(t)
      /\ DOMAIN s = 1 .. Len(s) /\ DOMAIN t = 1 .. Len(t) /\ Len(t) \in Nat
      /\ \A i \in 1 .. Len(s) + Len(t) : u[i] = IF i <= Len(s) THEN s[i] ELSE t[i - Len(s)]
  BY ConcatProperties
<1> HIDE DEF u
<1> SUFFICES ASSUME NEW i \in DOMAIN u, NEW j \in DOMAIN u, u[i] \in P, u[j] \in Q PROVE j < i
  BY DEF Behind, u
<1>2. (\A n \in DOMAIN s : s[n] \notin P) \/ (\A n \in DOMAIN t : t[n] \notin Q)
  <2>1. (~ \E n \in DOMAIN s : s[n] \in P) \/ (~ \E n \in DOMAIN t : t[n] \in Q)
    BY CountSome
  <2> QED BY <2>1
<1>3. CASE i <= Len(s) /\ j <= Len(s)
  BY <1>1, <1>3 DEF Behind
<1>4. CASE i > Len(s) /\ j > Len(s)
  <2>1. i - Len(s) \in DOMAIN t /\ j - Len(s) \in DOMAIN t
        /\ u[i] = t[i - Len(s)] /\ u[j] = t[j - Len(s)]
    BY <1>1, <1>4
  <2>2. j - Len(s) < i - Len(s)
    BY <2>1 DEF Behind
  <2> QED BY <1>1, <2>2
<1>5. CASE i <= Len(s) /\ j > Len(s)
  <2>1. i \in DOMAIN s /\ u[i] = s[i] /\ j - Len(s) \in DOMAIN t /\ u[j] = t[j - Len(s)]
    BY <1>1, <1>5
  <2> QED BY <1>2, <2>1
<1>6. CASE i > Len(s) /\ j <= Len(s)
  BY <1>1, <1>6
<1> QED BY <1>1, <1>3, <1>4, <1>5, <1>6

LEMMA CountMore ==
  ASSUME NEW T, NEW s \in Seq(T), NEW S, NEW R, S \subseteq R
  PROVE  Count(s, S) \in Nat /\ Count(s, R) \in Nat /\ Count(s, S) <= Count(s, R)
<1> DEFINE In(X) == {i \in DOMAIN s : s[i] \in X}
<1>1. IsFiniteSet(In(R)) /\ Cardinality(In(R)) \in Nat /\ Cardinality(In(S)) \in Nat
  BY CountFinite
<1>2. In(S) \subseteq In(R)
  OBVIOUS
<1> HIDE DEF In
<1>3. Cardinality(In(S)) <= Cardinality(In(R))
  BY <1>1, <1>2, FS_Subset
<1> QED BY <1>1, <1>3 DEF Count, In

-----------------------------------------------------------------------------
(* One wake command at most. *)

LEMMA AllWritten ==
  ASSUME Types, Registration, NEW frames \in Seq(WrittenFrames), Wrote(frames), faults' = 0
  PROVE  faults = 0 /\ Outbound' = Outbound \o frames /\ frames \in Seq(OutFrames)
<1>1. faults = 0 /\ Outbound' = Outbound \o SubSeq(frames, 1, Len(frames))
  BY DEF Wrote
<1>2. SubSeq(frames, 1, Len(frames)) = frames
  BY SubSeqFull
<1> QED BY <1>1, <1>2 DEF OutFrames

(* A frame heard: a wake command follows on a cause of one.                 *)
LEMMA OneWakeHeard ==
  ASSUME Types, Registration, OneWake, NEW frame, NEW replies, Heard(frame, replies),
         CarriedOn(frame, replies), faults' = 0
  PROVE  OneWake' /\ WakeSteps \in Nat /\ WakeSteps' \in Nat /\ WakeSteps' <= WakeSteps
<1> DEFINE Wake == RequestsOf("Wake")
<1>1. /\ Inbound \in Seq(InFrames) /\ Inbound # <<>> /\ Head(Inbound) = frame
      /\ Inbound' = Tail(Inbound) /\ Outbound \in Seq(OutFrames)
      /\ replies \in Seq(OutFrames) /\ Outbound' = Outbound \o replies
  BY Queues, AllWritten DEF Heard
<1>2. \A S : /\ Count(Inbound, S) \in Nat /\ Count(Inbound', S) \in Nat
             /\ Count(Inbound, S) = One(frame, S) + Count(Inbound', S)
  <2> TAKE S
  <2>1. Count(Inbound, S) = One(frame, S) + Count(Tail(Inbound), S)
    BY <1>1, CountTail DEF One
  <2>2. Tail(Inbound) \in Seq(InFrames)
    BY <1>1
  <2>3. Count(Inbound, S) \in Nat /\ Count(Tail(Inbound), S) \in Nat
    BY <1>1, <2>2, CountConcat
  <2> QED BY <1>1, <2>1, <2>3
<1>3. \A S : /\ Count(Outbound, S) \in Nat /\ Count(replies, S) \in Nat
             /\ Count(Outbound', S) = Count(Outbound, S) + Count(replies, S)
  BY <1>1, CountConcat
<1>4. /\ Count(replies, {HostCaps}) <= One(frame, {Configuration})
      /\ Count(replies, Wake) <= One(frame, WakeCauses)
      /\ Count(replies, RequestsOf("Subscribe")) <= One(frame, {CapsAccepted})
  BY DEF CarriedOn
<1>5. \A S : One(frame, S) \in {0, 1} /\ (One(frame, S) = 1 <=> frame \in S)
  BY DEF One
<1>6. One(frame, {Configuration}) = 0 \/ One(frame, WakeCauses) = 0
  BY <1>5, CausesKinds
<1> HIDE DEF Wake
<1>7. WakeSteps \in Nat /\ WakeSteps' \in Nat /\ WakeSteps' <= WakeSteps
  <2>1. WakeSteps' = Count(Inbound', WakeCauses) + Count(Outbound', Wake)
    BY DEF WakeSteps, Underway, Wake
  <2>2. WakeSteps = Count(Inbound, WakeCauses) + Count(Outbound, Wake)
    BY DEF WakeSteps, Underway, Wake
  <2>3. /\ Count(Inbound', WakeCauses) \in Nat /\ Count(Outbound', Wake) \in Nat
        /\ Count(Inbound, WakeCauses) = One(frame, WakeCauses) + Count(Inbound', WakeCauses)
        /\ Count(Outbound', Wake) = Count(Outbound, Wake) + Count(replies, Wake)
        /\ Count(Outbound, Wake) \in Nat /\ Count(replies, Wake) \in Nat
        /\ One(frame, WakeCauses) \in Nat
    BY <1>2, <1>3, <1>5
  <2> QED BY <1>4, <2>1, <2>2, <2>3
<1>8. SubscribeSteps' > 0 => SubscribeSteps > 0
  <2>1. /\ SubscribeSteps \in Nat /\ SubscribeSteps' \in Nat
        /\ SubscribeSteps' + One(frame, {CapsAccepted})
             <= SubscribeSteps + Count(replies, RequestsOf("Subscribe"))
    BY HeardSteps DEF Counted
  <2>2. One(frame, {CapsAccepted}) \in Nat /\ Count(replies, RequestsOf("Subscribe")) \in Nat
    BY <1>3, <1>5
  <2> QED BY <1>4, <2>1, <2>2
<1>9. Behind(Inbound', {Configuration}, WakeCauses)
      /\ (frame = Configuration => Count(Inbound', WakeCauses) = 0)
  <2>1. /\ Behind(Tail(Inbound), {Configuration}, WakeCauses)
        /\ Head(Inbound) \in {Configuration} => Count(Tail(Inbound), WakeCauses) = 0
    BY <1>1, BehindTail DEF OneWake
  <2> QED BY <1>1, <2>1
<1>10. Behind(Outbound', {HostCaps}, Wake)
  <2>1. Count(replies, {HostCaps}) = 0 \/ Count(replies, Wake) = 0
    <3>1. Count(replies, {HostCaps}) \in Nat /\ Count(replies, Wake) \in Nat
      BY <1>3
    <3> QED BY <1>4, <1>6, <3>1
  <2>2. Behind(replies, {HostCaps}, Wake)
    BY <1>1, <2>1, BehindNone
  <2>3. Count(Outbound, {HostCaps}) = 0 \/ Count(replies, Wake) = 0
    <3>1. /\ Count(Outbound, {HostCaps}) \in Nat /\ Count(replies, Wake) \in Nat
          /\ Count(Inbound', WakeCauses) \in Nat
          /\ Count(Inbound, WakeCauses) = One(frame, WakeCauses) + Count(Inbound', WakeCauses)
          /\ One(frame, WakeCauses) \in {0, 1}
      BY <1>2, <1>3, <1>5
    <3>2. Count(Outbound, {HostCaps}) > 0 => Count(Inbound, WakeCauses) = 0
      BY DEF OneWake
    <3> QED BY <1>4, <3>1, <3>2
  <2>4. Behind(Outbound, {HostCaps}, Wake)
    BY DEF OneWake, Wake
  <2>5. Behind(Outbound \o replies, {HostCaps}, Wake)
    BY <1>1, <2>2, <2>3, <2>4, BehindConcat
  <2> QED BY <1>1, <2>5
<1>11. Count(Outbound', {HostCaps}) > 0 => Count(Inbound', WakeCauses) = 0
  <2>1. CASE frame = Configuration
    BY <1>9, <2>1
  <2>2. CASE frame # Configuration
    <3>1. One(frame, {Configuration}) = 0
      BY <2>2 DEF One
    <3>2. /\ Count(Outbound', {HostCaps}) = Count(Outbound, {HostCaps}) + Count(replies, {HostCaps})
          /\ Count(replies, {HostCaps}) \in Nat /\ Count(Outbound, {HostCaps}) \in Nat
      BY <1>3
    <3>3. Count(Outbound', {HostCaps}) = Count(Outbound, {HostCaps})
      BY <1>4, <3>1, <3>2
    <3>4. /\ Count(Inbound', WakeCauses) \in Nat /\ One(frame, WakeCauses) \in {0, 1}
          /\ Count(Inbound, WakeCauses) = One(frame, WakeCauses) + Count(Inbound', WakeCauses)
      BY <1>2, <1>5
    <3>5. Count(Outbound, {HostCaps}) > 0 => Count(Inbound, WakeCauses) = 0
      BY DEF OneWake
    <3> QED BY <3>3, <3>4, <3>5
  <2> QED BY <2>1, <2>2
<1>12. WakeSteps' <= 1
  <2>1. WakeSteps <= 1
    BY DEF OneWake
  <2> QED BY <1>7, <2>1
<1>13. SubscribeSteps' > 0 => WakeSteps' = 0
  <2>1. SubscribeSteps > 0 => WakeSteps = 0
    BY DEF OneWake
  <2> QED BY <1>7, <1>8, <2>1
<1> QED BY <1>7, <1>9, <1>10, <1>11, <1>12, <1>13 DEF OneWake, Wake

(* An answer that is no cause of a wake command.                            *)
LEMMA OneWakeAnswered ==
  ASSUME Types, Registration, OneWake, NEW frame, NEW sends, Answered(frame, sends),
         Count(sends, WakeCauses) = 0,
         Count(sends, {CapsAccepted}) = 0 \/ frame = HostCaps
  PROVE  /\ OneWake' /\ WakeSteps \in Nat /\ WakeSteps' \in Nat /\ WakeSteps' <= WakeSteps
         /\ frame \in RequestsOf("Wake") => WakeSteps = 1 /\ WakeSteps' = 0
<1> DEFINE Wake == RequestsOf("Wake")
<1>1. /\ Outbound \in Seq(OutFrames) /\ Outbound # <<>> /\ Head(Outbound) = frame
      /\ Outbound' = Tail(Outbound)
      /\ Inbound \in Seq(InFrames) /\ sends \in Seq(InFrames) /\ Inbound' = Inbound \o sends
  BY Queues DEF Answered
<1>2. \A S : /\ Count(Inbound, S) \in Nat /\ Count(sends, S) \in Nat
             /\ Count(Inbound', S) = Count(Inbound, S) + Count(sends, S)
  BY <1>1, CountConcat
<1>3. \A S : /\ Count(Outbound, S) \in Nat /\ Count(Outbound', S) \in Nat
             /\ Count(Outbound, S) = One(frame, S) + Count(Outbound', S)
  <2> TAKE S
  <2>1. Count(Outbound, S) = One(frame, S) + Count(Tail(Outbound), S)
    BY <1>1, CountTail DEF One
  <2>2. Tail(Outbound) \in Seq(OutFrames)
    BY <1>1
  <2>3. Count(Outbound, S) \in Nat /\ Count(Tail(Outbound), S) \in Nat
    BY <1>1, <2>2, CountConcat
  <2> QED BY <1>1, <2>1, <2>3
<1>4. \A S : One(frame, S) \in {0, 1} /\ (frame \in S => One(frame, S) = 1)
  BY DEF One
<1>5. Count(Inbound', WakeCauses) = Count(Inbound, WakeCauses)
  BY <1>2
<1> HIDE DEF Wake
<1>6. /\ WakeSteps \in Nat /\ WakeSteps' \in Nat /\ WakeSteps = WakeSteps' + One(frame, Wake)
  <2>1. WakeSteps' = Count(Inbound', WakeCauses) + Count(Outbound', Wake)
    BY DEF WakeSteps, Underway, Wake
  <2>2. WakeSteps = Count(Inbound, WakeCauses) + Count(Outbound, Wake)
    BY DEF WakeSteps, Underway, Wake
  <2>3. /\ Count(Inbound, WakeCauses) \in Nat /\ Count(Outbound', Wake) \in Nat
        /\ Count(Outbound, Wake) = One(frame, Wake) + Count(Outbound', Wake)
        /\ One(frame, Wake) \in Nat
    BY <1>2, <1>3, <1>4
  <2> QED BY <1>5, <2>1, <2>2, <2>3
<1>7. WakeSteps <= 1
  BY DEF OneWake
<1>8. frame \in Wake => WakeSteps = 1 /\ WakeSteps' = 0
  BY <1>4, <1>6, <1>7
<1>9. Behind(Inbound', {Configuration}, WakeCauses)
  <2>1. Behind(sends, {Configuration}, WakeCauses)
    BY <1>1, BehindNone
  <2>2. Behind(Inbound \o sends, {Configuration}, WakeCauses)
    BY <1>1, <2>1, BehindConcat DEF OneWake
  <2> QED BY <1>1, <2>2
<1>10. Behind(Outbound', {HostCaps}, Wake) /\ (frame = HostCaps => Count(Outbound', Wake) = 0)
  <2>1. Behind(Outbound, {HostCaps}, Wake)
    BY DEF OneWake, Wake
  <2>2. /\ Behind(Tail(Outbound), {HostCaps}, Wake)
        /\ Head(Outbound) \in {HostCaps} => Count(Tail(Outbound), Wake) = 0
    BY <1>1, <2>1, BehindTail
  <2> QED BY <1>1, <2>2
<1>11. Count(Outbound', {HostCaps}) > 0 => Count(Inbound', WakeCauses) = 0
  <2>1. Count(Outbound, {HostCaps}) > 0 => Count(Inbound, WakeCauses) = 0
    BY DEF OneWake
  <2>2. Count(Outbound', {HostCaps}) > 0 => Count(Outbound, {HostCaps}) > 0
    <3>1. /\ Count(Outbound', {HostCaps}) \in Nat /\ One(frame, {HostCaps}) \in {0, 1}
          /\ Count(Outbound, {HostCaps}) = One(frame, {HostCaps}) + Count(Outbound', {HostCaps})
      BY <1>3, <1>4
    <3> QED BY <3>1
  <2> QED BY <1>5, <2>1, <2>2
<1>12. SubscribeSteps' > 0 => WakeSteps' = 0
  <2>1. CASE frame = HostCaps
    <3>1. Count(Outbound', Wake) = 0
      BY <1>10, <2>1
    <3>2. Count(Outbound, {HostCaps}) > 0
      <4>1. /\ Count(Outbound', {HostCaps}) \in Nat /\ One(frame, {HostCaps}) = 1
            /\ Count(Outbound, {HostCaps}) = One(frame, {HostCaps}) + Count(Outbound', {HostCaps})
        BY <1>3, <1>4, <2>1
      <4> QED BY <4>1
    <3>3. Count(Inbound', WakeCauses) = 0
      BY <1>5, <3>2 DEF OneWake
    <3>4. WakeSteps' = Count(Inbound', WakeCauses) + Count(Outbound', Wake)
      BY DEF WakeSteps, Underway, Wake
    <3> QED BY <3>1, <3>3, <3>4
  <2>2. CASE Count(sends, {CapsAccepted}) = 0
    <3>1. /\ SubscribeSteps \in Nat /\ SubscribeSteps' \in Nat
          /\ SubscribeSteps' + One(frame, RequestsOf("Subscribe"))
               = SubscribeSteps + Count(sends, {CapsAccepted})
      BY AnsweredSteps DEF Counted
    <3>2. One(frame, RequestsOf("Subscribe")) \in Nat
      BY <1>4
    <3>3. SubscribeSteps' > 0 => SubscribeSteps > 0
      BY <2>2, <3>1, <3>2
    <3>4. SubscribeSteps > 0 => WakeSteps = 0
      BY DEF OneWake
    <3>5. One(frame, Wake) \in Nat
      BY <1>4
    <3> QED BY <1>6, <3>3, <3>4, <3>5
  <2> QED BY <2>1, <2>2
<1>13. WakeSteps' <= WakeSteps /\ WakeSteps' <= 1
  <2>1. One(frame, Wake) \in Nat
    BY <1>4
  <2> QED BY <1>6, <1>7, <2>1
<1> QED BY <1>6, <1>8, <1>9, <1>10, <1>11, <1>12, <1>13 DEF OneWake, Wake

(* A cause of a wake command sent when none is under way and the handshake  *)
(* is over.                                                                 *)
LEMMA OneWakeCaused ==
  ASSUME Types, Registration, OneWake, Counted, Counted', NEW cause \in WakeCauses,
         <<cause>> \in Seq(InFrames), Inbound' = Inbound \o <<cause>>,
         Outbound' = Outbound \/ (Outbound # <<>> /\ Outbound' = Tail(Outbound)),
         ConfigSteps = 0, ConfigSteps' = 0, SubscribeSteps' = 0, WakeSteps' <= 1
  PROVE  OneWake'
<1> DEFINE sends == <<cause>>
<1>1. Inbound \in Seq(InFrames) /\ Outbound \in Seq(OutFrames) /\ sends \in Seq(InFrames)
  BY Queues
<1>2. Outbound' \in Seq(OutFrames)
  <2>1. Outbound # <<>> => Tail(Outbound) \in Seq(OutFrames)
    BY <1>1
  <2> QED BY <1>1, <2>1
<1>3. Count(Inbound, {Configuration}) = 0
  <2>1. /\ Count(Inbound, {Configuration}) \in Nat /\ Count(Outbound, {HostCaps}) \in Nat
        /\ Count(Inbound, {Configuration}) + Count(Outbound, {HostCaps}) = 0
    BY UnderwayNat DEF ConfigSteps, Underway
  <2> QED BY <2>1
<1>4. Behind(Inbound', {Configuration}, WakeCauses)
  <2>1. Count(sends, {Configuration}) = 0
    <3>1. One(cause, {Configuration}) = 0
      BY CausesKinds DEF One
    <3> QED BY <3>1, Ones
  <2> HIDE DEF sends
  <2>2. Behind(sends, {Configuration}, WakeCauses)
    BY <1>1, <2>1, BehindNone
  <2>3. Behind(Inbound \o sends, {Configuration}, WakeCauses)
    BY <1>1, <1>3, <2>2, BehindConcat DEF OneWake
  <2> QED BY <2>3 DEF sends
<1>5. Behind(Outbound', {HostCaps}, RequestsOf("Wake"))
  <2>1. Behind(Outbound, {HostCaps}, RequestsOf("Wake"))
    BY DEF OneWake
  <2>2. Outbound # <<>> => Behind(Tail(Outbound), {HostCaps}, RequestsOf("Wake"))
    BY <1>1, <2>1, BehindTail
  <2> QED BY <2>1, <2>2
<1>6. ~(Count(Outbound', {HostCaps}) > 0)
  <2>1. Inbound' \in Seq(InFrames)
    BY <1>1
  <2>2. Count(Inbound', {Configuration}) \in Nat /\ Count(Outbound', {HostCaps}) \in Nat
    BY <1>2, <2>1, CountConcat
  <2>3. Count(Inbound', {Configuration}) + Count(Outbound', {HostCaps}) = 0
    BY DEF ConfigSteps, Underway
  <2> QED BY <2>2, <2>3
<1> QED BY <1>4, <1>5, <1>6 DEF OneWake

(* Frames of another kind sent by the R10 itself. *)
LEMMA OneWakePushed ==
  ASSUME Types, Registration, OneWake, NEW frames, Pushed(frames),
         Count(frames, WakeCauses) = 0, Count(frames, {CapsAccepted}) = 0
  PROVE  OneWake' /\ WakeSteps' = WakeSteps
<1>1. /\ Inbound \in Seq(InFrames) /\ frames \in Seq(InFrames) /\ Inbound' = Inbound \o frames
      /\ Outbound' = Outbound
  BY Queues DEF Pushed, InFrames
<1>2. /\ WakeSteps' = WakeSteps /\ SubscribeSteps' = SubscribeSteps
  BY PushedSteps DEF Counted
<1>3. Count(Inbound', WakeCauses) = Count(Inbound, WakeCauses)
  BY <1>1, CountConcat
<1>4. Behind(Inbound', {Configuration}, WakeCauses)
  <2>1. Behind(frames, {Configuration}, WakeCauses)
    BY <1>1, BehindNone
  <2>2. Behind(Inbound \o frames, {Configuration}, WakeCauses)
    BY <1>1, <2>1, BehindConcat DEF OneWake
  <2> QED BY <1>1, <2>2
<1> QED BY <1>1, <1>2, <1>3, <1>4 DEF OneWake

(* The application's request. *)
LEMMA OneWakeAsked ==
  ASSUME Types, Registration, OneWake, AskEnvironment, faults' = 0
  PROVE  OneWake' /\ WakeSteps' = WakeSteps
<1> DEFINE request == Request("Environment", reqId)
           frames == <<request>>
           Wake == RequestsOf("Wake")
<1>1. /\ Inbound' = Inbound /\ frames \in Seq(WrittenFrames) /\ Wrote(frames)
  BY Asks
<1>2. /\ Count(frames, {HostCaps}) = 0 /\ Count(frames, RequestsOf("Subscribe")) = 0
      /\ Count(frames, Wake) = 0
  BY Ones, WrittenKinds
<1> HIDE DEF frames, Wake
<1>3. /\ Outbound \in Seq(OutFrames) /\ Outbound' = Outbound \o frames /\ frames \in Seq(OutFrames)
  BY <1>1, Queues, AllWritten
<1>4. \A S : Count(frames, S) = 0 => Count(Outbound', S) = Count(Outbound, S)
  BY <1>3, CountConcat
<1>5. /\ Count(Outbound', {HostCaps}) = Count(Outbound, {HostCaps})
      /\ WakeSteps' = WakeSteps /\ SubscribeSteps' = SubscribeSteps
  BY <1>1, <1>2, <1>4 DEF WakeSteps, SubscribeSteps, Underway, Wake
<1>6. Behind(Outbound', {HostCaps}, Wake)
  <2>1. Behind(frames, {HostCaps}, Wake)
    BY <1>2, <1>3, BehindNone
  <2>2. Behind(Outbound \o frames, {HostCaps}, Wake)
    BY <1>2, <1>3, <2>1, BehindConcat DEF OneWake, Wake
  <2> QED BY <1>3, <2>2
<1> QED BY <1>1, <1>5, <1>6 DEF OneWake, Wake

-----------------------------------------------------------------------------
(* The R10 awake is left alone. *)

LEMMA AwakeKept ==
  ASSUME AwakeLeftAlone, WakeSteps \in Nat, WakeSteps' \in Nat, WakeSteps' <= WakeSteps,
         UNCHANGED <<stage, devState, woken>>
  PROVE  AwakeLeftAlone'
<1>1. WakeSteps = 0 => WakeSteps' = 0
  OBVIOUS
<1> QED BY <1>1, Zenon DEF AwakeLeftAlone

LEMMA AwakeUnsubscribed ==
  ASSUME AwakeLeftAlone, devState # "Recording", stage' # "Subscribed", UNCHANGED devState
  PROVE  AwakeLeftAlone'
BY DEF AwakeLeftAlone

LEMMA NotRecording ==
  ASSUME AwakeLeftAlone, stage # "Subscribed" \/ WakeSteps > 0 PROVE devState # "Recording"
<1>1. ~(WakeSteps = 0) \/ stage # "Subscribed"
  OBVIOUS
<1>2. "Recording" # "Standby"
  OBVIOUS
<1> QED BY <1>1, <1>2, Zenon DEF AwakeLeftAlone

-----------------------------------------------------------------------------
(* The client is in step with the answers. *)

LEMMA AnswersUnderway ==
  ASSUME Types, Registration
  PROVE  /\ Counted /\ Accepts \in Nat /\ Subscribes \in Nat
         /\ Accepts <= ConfigSteps + SubscribeSteps /\ Subscribes <= SubscribeSteps + WakeSteps
<1>1. Inbound \in Seq(InFrames) /\ Outbound \in Seq(OutFrames)
  BY Queues
<1>2. /\ Count(Inbound, {CapsAccepted}) \in Nat /\ Count(Outbound, {HostCaps}) \in Nat
      /\ Count(Inbound, {Configuration}) \in Nat /\ Count(Inbound, {SubscribeOk}) \in Nat
      /\ Count(Outbound, RequestsOf("Subscribe")) \in Nat
      /\ Count(Outbound, RequestsOf("Wake")) \in Nat /\ Count(Inbound, WakeCauses) \in Nat
  BY UnderwayNat
<1>3. Count(Inbound, {SubscribeOk}) <= Count(Inbound, WakeCauses)
  <2>1. {SubscribeOk} \subseteq WakeCauses
    BY DEF WakeCauses
  <2> QED BY <1>1, <2>1, CountMore
<1>4. Counted
  BY UnderwayNat DEF Counted, InfoSteps, ConfigSteps, SubscribeSteps, WakeSteps, RegisterSteps
<1>5. Accepts \in Nat /\ Accepts <= ConfigSteps + SubscribeSteps
  <2>1. ConfigSteps = Count(Inbound, {Configuration}) + Count(Outbound, {HostCaps})
    BY DEF ConfigSteps, Underway
  <2>2. SubscribeSteps = Count(Inbound, {CapsAccepted}) + Count(Outbound, RequestsOf("Subscribe"))
    BY DEF SubscribeSteps, Underway
  <2>3. Accepts = Count(Inbound, {CapsAccepted}) + Count(Outbound, {HostCaps})
    BY DEF Accepts, Underway
  <2> QED BY <1>2, <2>1, <2>2, <2>3
<1>6. Subscribes \in Nat /\ Subscribes <= SubscribeSteps + WakeSteps
  <2>1. WakeSteps = Count(Inbound, WakeCauses) + Count(Outbound, RequestsOf("Wake"))
    BY DEF WakeSteps, Underway
  <2>2. SubscribeSteps = Count(Inbound, {CapsAccepted}) + Count(Outbound, RequestsOf("Subscribe"))
    BY DEF SubscribeSteps, Underway
  <2>3. Subscribes = Count(Inbound, {SubscribeOk}) + Count(Outbound, RequestsOf("Subscribe"))
    BY DEF Subscribes, Underway
  <2> QED BY <1>2, <1>3, <2>1, <2>2, <2>3
<1> QED BY <1>4, <1>5, <1>6

LEMMA InStepKept ==
  ASSUME InStep, Accepts \in Nat, Accepts' \in Nat, Subscribes \in Nat, Subscribes' \in Nat,
         Accepts' <= Accepts, Subscribes' <= Subscribes, phase' = phase
  PROVE  InStep'
<1>1. (Accepts' > 0 => Accepts > 0) /\ (Subscribes' > 0 => Subscribes > 0)
  OBVIOUS
<1> QED BY <1>1 DEF InStep

LEMMA InStepNone == ASSUME Accepts' = 0, Subscribes' = 0 PROVE InStep'
BY DEF InStep

LEMMA AnswersHeard ==
  ASSUME Types, Registration, NEW frame, NEW replies, Heard(frame, replies),
         CarriedOn(frame, replies)
  PROVE  /\ Accepts \in Nat /\ Accepts' \in Nat /\ Subscribes \in Nat /\ Subscribes' \in Nat
         /\ Accepts' + One(frame, {CapsAccepted}) <= Accepts + One(frame, {Configuration})
         /\ Subscribes' + One(frame, {SubscribeOk}) <= Subscribes + One(frame, {CapsAccepted})
<1>1. \A S : One(frame, S) \in Nat
  BY DEF One
<1>2. /\ Accepts \in Nat /\ Accepts' \in Nat /\ Count(replies, {HostCaps}) \in Nat
      /\ Accepts' + One(frame, {CapsAccepted}) <= Accepts + Count(replies, {HostCaps})
  BY HeardCount DEF Accepts
<1>3. /\ Subscribes \in Nat /\ Subscribes' \in Nat /\ Count(replies, RequestsOf("Subscribe")) \in Nat
      /\ Subscribes' + One(frame, {SubscribeOk}) <= Subscribes + Count(replies, RequestsOf("Subscribe"))
  BY HeardCount DEF Subscribes
<1>4. /\ Count(replies, {HostCaps}) <= One(frame, {Configuration})
      /\ Count(replies, RequestsOf("Subscribe")) <= One(frame, {CapsAccepted})
  BY DEF CarriedOn
<1>5. \A a, b, c, d, e \in Nat : a + b <= c + d /\ d <= e => a + b <= c + e
  OBVIOUS
<1> QED BY <1>1, <1>2, <1>3, <1>4, <1>5

LEMMA AnswersTaken ==
  ASSUME Types, Registration, NEW frame, NEW sends, Answered(frame, sends)
  PROVE  /\ Accepts \in Nat /\ Accepts' \in Nat /\ Subscribes \in Nat /\ Subscribes' \in Nat
         /\ Accepts' + One(frame, {HostCaps}) = Accepts + Count(sends, {CapsAccepted})
         /\ Subscribes' + One(frame, RequestsOf("Subscribe")) = Subscribes + Count(sends, {SubscribeOk})
<1>1. /\ Accepts \in Nat /\ Accepts' \in Nat
      /\ Accepts' + One(frame, {HostCaps}) = Accepts + Count(sends, {CapsAccepted})
  BY AnsweredCount DEF Accepts
<1>2. /\ Subscribes \in Nat /\ Subscribes' \in Nat
      /\ Subscribes' + One(frame, RequestsOf("Subscribe")) = Subscribes + Count(sends, {SubscribeOk})
  BY AnsweredCount DEF Subscribes
<1> QED BY <1>1, <1>2

LEMMA InStepAnswered ==
  ASSUME Types, Registration, InStep, NEW frame, NEW sends, Answered(frame, sends),
         Count(sends, {CapsAccepted}) <= One(frame, {HostCaps}),
         Count(sends, {SubscribeOk}) <= One(frame, RequestsOf("Subscribe")), phase' = phase
  PROVE  InStep'
<1>1. /\ \A S : One(frame, S) \in Nat
      /\ Count(sends, {CapsAccepted}) \in Nat /\ Count(sends, {SubscribeOk}) \in Nat
  BY AnsweredCount DEF One
<1>2. \A a, b, c, d \in Nat : a + b = c + d /\ d <= b => a <= c
  OBVIOUS
<1>3. /\ Accepts \in Nat /\ Accepts' \in Nat /\ Subscribes \in Nat /\ Subscribes' \in Nat
      /\ Accepts' <= Accepts /\ Subscribes' <= Subscribes
  BY <1>1, <1>2, AnswersTaken
<1> QED BY <1>3, InStepKept

LEMMA InStepPushed ==
  ASSUME Types, Registration, InStep, NEW frames, Pushed(frames),
         Count(frames, {CapsAccepted}) = 0, Count(frames, {SubscribeOk}) = 0, phase' = phase
  PROVE  InStep'
<1>1. Accepts \in Nat /\ Accepts' \in Nat /\ Accepts' = Accepts + Count(frames, {CapsAccepted})
  BY PushedCount DEF Accepts
<1>2. Subscribes \in Nat /\ Subscribes' \in Nat /\ Subscribes' = Subscribes + Count(frames, {SubscribeOk})
  BY PushedCount DEF Subscribes
<1> QED BY <1>1, <1>2, InStepKept

-----------------------------------------------------------------------------
(* The last frame that tells of the R10's state. *)

LEMMA ToldKinds ==
  /\ \A state \in DeviceStates : StatesTold(state) \subseteq Telling
  /\ \A f \in Telling : /\ f.type \in Requests /\ f.body \in {"StateChange", "WakeResult"}
                        /\ f.body = "WakeResult" => f.status = 1
  /\ \A state, other : StateChange(state) \in StatesTold(other) => state = other
  /\ \A state : StateChange(state) \in StatesTold(state)
  /\ \A state : WakeResult(1) \in StatesTold(state) <=> state = "Waiting"
<1>1. \A state : /\ StateChange(state).type = "ProtobufRequest"
                 /\ StateChange(state).body = "StateChange" /\ StateChange(state).state = state
  BY DEF StateChange
<1>2. /\ WakeResult(1).type = "ProtobufResponse" /\ WakeResult(1).body = "WakeResult"
      /\ WakeResult(1).status = 1
  BY DEF WakeResult
<1>3. \A state \in DeviceStates : StatesTold(state) \subseteq Telling
  BY DEF Telling
<1>4. \A f \in Telling : f = WakeResult(1) \/ \E state : f = StateChange(state)
  BY DEF Telling, StatesTold
<1>5. ASSUME NEW f \in Telling
      PROVE  /\ f.type \in Requests /\ f.body \in {"StateChange", "WakeResult"}
             /\ f.body = "WakeResult" => f.status = 1
  BY <1>1, <1>2, <1>4 DEF Requests
<1>6. \A state : WakeResult(1) # StateChange(state)
  BY <1>1, <1>2
<1>7. \A state, other : StateChange(state) \in StatesTold(other) => state = other
  BY <1>1, <1>6 DEF StatesTold
<1>8. \A state : StateChange(state) \in StatesTold(state)
  BY DEF StatesTold
<1>9. \A state : WakeResult(1) \in StatesTold(state) <=> state = "Waiting"
  BY <1>6 DEF StatesTold
<1> QED BY <1>3, <1>5, <1>7, <1>8, <1>9

LEMMA NotTelling ==
  /\ DeviceInfo(FALSE) \notin Telling /\ Configuration \notin Telling /\ CapsAccepted \notin Telling
  /\ Response \notin Telling /\ SubscribeOk \notin Telling
  /\ WakeResult(0) \notin Telling /\ WakeResult(2) \notin Telling
  /\ \A id \in ShotIds : Shot(id) \notin Telling
  /\ \A frame \in Asides : frame \notin Telling
<1>1. /\ DeviceInfo(FALSE).type \notin Requests /\ Configuration.type \notin Requests
      /\ CapsAccepted.type \notin Requests /\ Response.type \notin Requests
      /\ AckOf("ProtobufRequest", 0).type \notin Requests
      /\ \A type \in FitTypes : Fit(type).type \notin Requests
  BY DEF DeviceInfo, Configuration, CapsAccepted, AckOf, Response, RegisterResponse, Fit, FitTypes,
         Requests
<1>2. /\ SubscribeOk.body = "SubscribeResult"
      /\ Result("EnvironmentResult", TRUE).body = "EnvironmentResult"
      /\ \A id : Shot(id).body = "Shot"
  BY DEF SubscribeOk, Result, Shot
<1>3. \A status : WakeResult(status).body = "WakeResult" /\ WakeResult(status).status = status
  BY DEF WakeResult
<1>4. WakeResult(0) \notin Telling /\ WakeResult(2) \notin Telling
  BY <1>3, ToldKinds
<1>5. \A frame \in Asides : frame \notin Telling
  BY <1>1, <1>2, ToldKinds DEF Asides
<1> QED BY <1>1, <1>2, <1>4, <1>5, ToldKinds

LEMMA TellsTail ==
  ASSUME NEW T, NEW s \in Seq(T), s # <<>>, NEW state \in DeviceStates
  PROVE  /\ LastTells(s, state) =>
              LastTells(Tail(s), state) \/ (Silent(Tail(s)) /\ Head(s) \in StatesTold(state))
         /\ Silent(s) => Silent(Tail(s)) /\ Head(s) \notin Telling
<1> DEFINE t == Tail(s)
<1>1. /\ \A i \in DOMAIN t : i \in Nat /\ i + 1 \in DOMAIN s /\ t[i] = s[i + 1]
      /\ \A i \in DOMAIN s : i \in Nat /\ (i = 1 \/ (i - 1 \in DOMAIN t /\ t[i - 1] = s[i]))
      /\ 1 \in DOMAIN s /\ Head(s) = s[1]
  OBVIOUS
<1> HIDE DEF t
<1>2. ASSUME LastTells(s, state)
      PROVE  LastTells(t, state) \/ (Silent(t) /\ Head(s) \in StatesTold(state))
  <2>1. PICK p \in DOMAIN s : /\ s[p] \in StatesTold(state)
                              /\ \A q \in DOMAIN s : s[q] \in Telling => q <= p
    BY <1>2 DEF LastTells
  <2>2. \A q \in DOMAIN t : t[q] \in Telling => q + 1 <= p
    BY <1>1, <2>1
  <2>3. CASE p = 1
    <3>1. \A q \in DOMAIN t : t[q] \notin Telling
      <4> SUFFICES ASSUME NEW q \in DOMAIN t, t[q] \in Telling PROVE FALSE
        OBVIOUS
      <4>1. q \in Nat /\ q + 1 <= 1 /\ q + 1 \in DOMAIN s /\ t[q] = s[q + 1]
        BY <1>1, <2>2, <2>3
      <4>2. q # 0
        BY DEF t
      <4> QED BY <4>1, <4>2
    <3> QED BY <1>1, <2>1, <2>3, <3>1 DEF Silent
  <2>4. CASE p # 1
    <3>1. p \in Nat /\ p - 1 \in DOMAIN t /\ t[p - 1] = s[p]
      BY <1>1, <2>4
    <3>2. \A q \in DOMAIN t : t[q] \in Telling => q <= p - 1
      BY <1>1, <2>2, <3>1
    <3> QED BY <2>1, <3>1, <3>2 DEF LastTells
  <2> QED BY <2>3, <2>4
<1>3. Silent(s) => Silent(t) /\ Head(s) \notin Telling
  BY <1>1 DEF Silent
<1> QED BY <1>2, <1>3 DEF t

LEMMA TellsMore ==
  ASSUME NEW T, NEW s \in Seq(T), NEW t \in Seq(T), NEW state \in DeviceStates
  PROVE  /\ LastTells(s, state) /\ Silent(t) => LastTells(s \o t, state)
         /\ Silent(s) /\ Silent(t) => Silent(s \o t)
         /\ t # <<>> /\ t[Len(t)] \in StatesTold(state) => LastTells(s \o t, state)
<1> DEFINE u == s \o t
<1>1. /\ Len(s) \in Nat /\ Len(t) \in Nat /\ DOMAIN u = 1 .. Len(s) + Len(t)
      /\ DOMAIN s = 1 .. Len(s) /\ DOMAIN t = 1 .. Len(t)
      /\ \A i \in 1 .. Len(s) + Len(t) : u[i] = IF i <= Len(s) THEN s[i] ELSE t[i - Len(s)]
  BY ConcatProperties
<1>2. t # <<>> => Len(t) > 0
  OBVIOUS
<1> HIDE DEF u
<1>3. \A i \in DOMAIN u : \/ i \in DOMAIN s /\ u[i] = s[i]
                          \/ i - Len(s) \in DOMAIN t /\ u[i] = t[i - Len(s)]
  BY <1>1
<1>4. ASSUME LastTells(s, state), Silent(t) PROVE LastTells(u, state)
  <2>1. PICK p \in DOMAIN s : /\ s[p] \in StatesTold(state)
                              /\ \A q \in DOMAIN s : s[q] \in Telling => q <= p
    BY <1>4 DEF LastTells
  <2>2. p \in DOMAIN u /\ u[p] = s[p]
    BY <1>1
  <2>3. \A q \in DOMAIN u : u[q] \in Telling => q <= p
    BY <1>3, <1>4, <2>1 DEF Silent
  <2> QED BY <2>1, <2>2, <2>3 DEF LastTells
<1>5. Silent(s) /\ Silent(t) => Silent(u)
  BY <1>3 DEF Silent
<1>6. ASSUME t # <<>>, t[Len(t)] \in StatesTold(state) PROVE LastTells(u, state)
  <2> DEFINE p == Len(s) + Len(t)
  <2>1. p \in DOMAIN u /\ u[p] = t[Len(t)] /\ \A q \in DOMAIN u : q <= p
    BY <1>1, <1>2, <1>6
  <2> QED BY <1>6, <2>1 DEF LastTells
<1> QED BY <1>4, <1>5, <1>6 DEF u

LEMMA ToldHeard ==
  ASSUME Types, Registration, Told, NEW frame, NEW replies, Heard(frame, replies),
         frame \notin Telling, Chain \in Nat, Chain' \in Nat, Chain <= Chain',
         UNCHANGED <<lastState, devState, wakeFails>>,
         phase' = phase \/ phase # "Registering" \/ Chain' > 0
  PROVE  Told'
<1>1. /\ Inbound \in Seq(InFrames) /\ Inbound # <<>> /\ Head(Inbound) = frame
      /\ Inbound' = Tail(Inbound) /\ devState \in DeviceStates
  BY Queues DEF Heard, Types
<1>2. frame \notin StatesTold(devState)
  BY <1>1, ToldKinds
<1>3. CASE LastTells(Inbound, devState)
  <2>1. LastTells(Inbound', devState')
    BY <1>1, <1>2, <1>3, TellsTail
  <2> QED BY <2>1 DEF Told
<1>4. CASE /\ Silent(Inbound)
           /\ \/ lastState = devState
              \/ lastState = None /\ (wakeFails > 0 \/ phase = "Registering" \/ Chain > 0)
  <2>1. Silent(Inbound')
    BY <1>1, <1>4, TellsTail
  <2>2. Chain > 0 => Chain' > 0
    OBVIOUS
  <2> QED BY <1>4, <2>1, <2>2 DEF Told
<1> QED BY <1>3, <1>4 DEF Told

LEMMA ToldTelling ==
  ASSUME Types, Registration, Told, NEW frame, NEW replies, Heard(frame, replies),
         frame \in Telling, \A state \in DeviceStates : frame \in StatesTold(state) => lastState' = state,
         devState' = devState
  PROVE  Told'
<1>1. /\ Inbound \in Seq(InFrames) /\ Inbound # <<>> /\ Head(Inbound) = frame
      /\ Inbound' = Tail(Inbound) /\ devState \in DeviceStates
  BY Queues DEF Heard, Types
<1>2. ~ Silent(Inbound)
  BY <1>1, TellsTail
<1>3. LastTells(Inbound, devState)
  BY <1>2 DEF Told
<1>4. \/ LastTells(Inbound', devState')
      \/ Silent(Inbound') /\ lastState' = devState'
  BY <1>1, <1>3, TellsTail
<1> QED BY <1>4 DEF Told

LEMMA ToldSent ==
  ASSUME Types, Registration, Told, NEW sends \in Seq(InFrames), Inbound' = Inbound \o sends,
         Silent(sends), wakeFails' \in Nat, wakeFails <= wakeFails',
         Chain \in Nat, Chain' \in Nat, Chain <= Chain' \/ wakeFails' > 0,
         UNCHANGED <<lastState, devState, phase>>
  PROVE  Told'
<1>1. Inbound \in Seq(InFrames) /\ devState \in DeviceStates /\ wakeFails \in Nat
  BY Queues DEF Types
<1>2. CASE LastTells(Inbound, devState)
  <2>1. LastTells(Inbound', devState')
    BY <1>1, <1>2, TellsMore
  <2> QED BY <2>1 DEF Told
<1>3. CASE /\ Silent(Inbound)
           /\ \/ lastState = devState
              \/ lastState = None /\ (wakeFails > 0 \/ phase = "Registering" \/ Chain > 0)
  <2>1. Silent(Inbound')
    BY <1>1, <1>3, TellsMore
  <2>2. /\ wakeFails > 0 => wakeFails' > 0
        /\ Chain > 0 => Chain' > 0 \/ wakeFails' > 0
    BY <1>1
  <2> QED BY <1>3, <2>1, <2>2 DEF Told
<1> QED BY <1>2, <1>3 DEF Told

LEMMA ToldAnew ==
  ASSUME Types, Registration, NEW sends \in Seq(InFrames), Inbound' = Inbound \o sends,
         sends # <<>>, devState' \in DeviceStates, sends[Len(sends)] \in StatesTold(devState')
  PROVE  Told'
<1>1. Inbound \in Seq(InFrames)
  BY Queues
<1>2. LastTells(Inbound \o sends, devState')
  BY <1>1, TellsMore
<1> QED BY <1>2 DEF Told

LEMMA SilentSeqs ==
  /\ Silent(<<>>)
  /\ \A f : f \notin Telling => Silent(<<f>>)
  /\ \A f, g : f \notin Telling /\ g \notin Telling => Silent(<<f, g>>)
  /\ \A f, g, h : f \notin Telling /\ g \notin Telling /\ h \notin Telling => Silent(Append(<<f, g>>, h))
<1>1. Silent(<<>>)
  BY DEF Silent
<1>2. ASSUME NEW f, f \notin Telling PROVE Silent(<<f>>)
  BY <1>2 DEF Silent
<1>3. ASSUME NEW f, NEW g, f \notin Telling, g \notin Telling PROVE Silent(<<f, g>>)
  BY <1>3 DEF Silent
<1>4. ASSUME NEW f, NEW g, NEW h, f \notin Telling, g \notin Telling, h \notin Telling
      PROVE  Silent(Append(<<f, g>>, h))
  BY <1>4 DEF Silent
<1> QED BY <1>1, <1>2, <1>3, <1>4

-----------------------------------------------------------------------------
(* What is under way to a wake command. *)

LEMMA CarrierOnes ==
  /\ One(Register, Carriers) = 1 /\ One(Ack("DeviceInfo"), Carriers) = 1 /\ One(HostCaps, Carriers) = 1
  /\ \A body \in {"Subscribe", "Wake"}, id \in 0 .. ReqIds - 1 : One(Request(body, id), Carriers) = 1
  /\ \A of : of # "DeviceInfo" => One(Ack(of), Carriers) = 0
  /\ \A id : One(Request("Environment", id), Carriers) = 0
<1>1. /\ Register \in Carriers /\ Ack("DeviceInfo") \in Carriers /\ HostCaps \in Carriers
      /\ \A body \in {"Subscribe", "Wake"}, id \in 0 .. ReqIds - 1 : Request(body, id) \in Carriers
  BY DEF Carriers, RequestsOf
<1>2. /\ \A of : Ack(of).type = "Ack" /\ Ack(of).of = of
      /\ HostCaps.type # "Ack" /\ Register.type # "Ack"
      /\ \A body, id : Request(body, id).type = "ProtobufRequest" /\ Request(body, id).body = body
      /\ HostCaps.type # "ProtobufRequest" /\ Register.type # "ProtobufRequest"
  BY DEF Ack, HostCaps, Register, Request
<1>3. \A f \in Carriers : \/ f \in {Register, HostCaps, Ack("DeviceInfo")}
                          \/ \E body \in {"Subscribe", "Wake"}, id \in 0 .. ReqIds - 1 : f = Request(body, id)
  BY DEF Carriers, RequestsOf
<1>4. \A of : of # "DeviceInfo" => Ack(of) \notin Carriers
  BY <1>2, <1>3
<1>5. \A id : Request("Environment", id) \notin Carriers
  BY <1>2, <1>3
<1> QED BY <1>1, <1>4, <1>5 DEF One

-----------------------------------------------------------------------------
(* The frames the client takes up. *)

LEMMA HeadCounted ==
  ASSUME Types, Registration, NEW frame, NEW replies, Heard(frame, replies), NEW S, frame \in S
  PROVE  Count(Inbound, S) > 0
<1>1. Inbound \in Seq(InFrames) /\ 1 \in DOMAIN Inbound /\ Inbound[1] = frame
  BY Queues DEF Heard
<1> QED BY <1>1, CountSome

LEMMA ChainHeard ==
  ASSUME Types, Registration, NEW frame, NEW replies, Heard(frame, replies), faults' = 0,
         One(frame, Causes) <= Count(replies, Carriers)
  PROVE  Chain \in Nat /\ Chain' \in Nat /\ Chain <= Chain'
<1>1. /\ Chain \in Nat /\ Chain' \in Nat /\ Count(replies, Carriers) \in Nat
      /\ Chain' + One(frame, Causes) = Chain + Count(replies, Carriers)
  BY HeardCount DEF Chain
<1>2. One(frame, Causes) \in Nat
  BY DEF One
<1> QED BY <1>1, <1>2

(* A frame that tells of no state is followed by what it causes. *)
LEMMA HeardSilently ==
  ASSUME Types, Registration, Told, faults' = 0, AfterPoll, UNCHANGED <<lastState, devState, wakeFails>>,
         NEW frame, NEW replies, Heard(frame, replies), frame \notin Telling,
         One(frame, Causes) <= Count(replies, Carriers)
  PROVE  Told'
<1>1. Chain \in Nat /\ Chain' \in Nat /\ Chain <= Chain'
  BY ChainHeard
<1>2. phase # "Registering"
  BY DEF AfterPoll
<1> QED BY <1>1, <1>2, ToldHeard

LEMMA AnswersAwaited ==
  ASSUME Types, Registration, InStep, NEW frame, NEW replies, Heard(frame, replies)
  PROVE  /\ frame = CapsAccepted => phase = "WaitCapabilitiesAck"
         /\ frame = SubscribeOk => phase = "Subscribing"
<1>1. /\ \A S : Count(Inbound, S) \in Nat /\ \A R : Count(Outbound, R) \in Nat
  BY UnderwayNat
<1>2. ASSUME frame = CapsAccepted PROVE phase = "WaitCapabilitiesAck"
  <2>1. Count(Inbound, {CapsAccepted}) > 0
    BY <1>2, HeadCounted
  <2>2. Accepts > 0
    BY <1>1, <2>1 DEF Accepts, Underway
  <2> QED BY <2>2 DEF InStep
<1>3. ASSUME frame = SubscribeOk PROVE phase = "Subscribing"
  <2>1. Count(Inbound, {SubscribeOk}) > 0
    BY <1>3, HeadCounted
  <2>2. Subscribes > 0
    BY <1>1, <2>1 DEF Subscribes, Underway
  <2> QED BY <2>2 DEF InStep
<1> QED BY <1>2, <1>3

LEMMA UncausedOnes == \A f : f \notin Causes => One(f, Causes) = 0
BY DEF One

LEMMA CausedOnes ==
  /\ \A f : One(f, Causes) \in {0, 1}
  /\ \A id \in 0 .. ReqIds - 1 : Count(<<Request("Subscribe", id)>>, Carriers) = 1
  /\ \A id \in 0 .. ReqIds - 1, of \in Requests :
       Count(<<Request("Wake", id), Ack(of)>>, Carriers) = 1
  /\ Count(<<Ack("DeviceInfo")>>, Carriers) = 1
  /\ Count(<<Ack("Configuration"), HostCaps>>, Carriers) = 1
  /\ Count(<<>>, Carriers) = 0
  /\ \A of : Count(<<Ack(of)>>, Carriers) \in Nat
<1>1. \A f : One(f, Causes) \in {0, 1}
  BY DEF One
<1>2. \A id \in 0 .. ReqIds - 1 : Count(<<Request("Subscribe", id)>>, Carriers) = 1
  BY Ones, CarrierOnes
<1>3. ASSUME NEW id \in 0 .. ReqIds - 1, NEW of \in Requests
      PROVE  Count(<<Request("Wake", id), Ack(of)>>, Carriers) = 1
  <2>1. One(Request("Wake", id), Carriers) = 1 /\ One(Ack(of), Carriers) = 0
    BY CarrierOnes DEF Requests
  <2>2. Count(<<Request("Wake", id), Ack(of)>>, Carriers) = One(Request("Wake", id), Carriers) + One(Ack(of), Carriers)
    BY Ones
  <2> QED BY <2>1, <2>2
<1>4. Count(<<Ack("DeviceInfo")>>, Carriers) = 1
  BY Ones, CarrierOnes
<1>5. Count(<<Ack("Configuration"), HostCaps>>, Carriers) = 1
  <2>1. Count(<<Ack("Configuration"), HostCaps>>, Carriers)
          = One(Ack("Configuration"), Carriers) + One(HostCaps, Carriers)
    BY Ones
  <2> QED BY <2>1, CarrierOnes
<1>6. \A of : Count(<<Ack(of)>>, Carriers) \in Nat /\ Count(<<>>, Carriers) = 0
  BY Ones
<1> QED BY <1>1, <1>2, <1>3, <1>4, <1>5, <1>6

LEMMA HearsTold ==
  ASSUME Types, Registration, InStep, Told, faults' = 0, AfterPoll, Hears, UNCHANGED device
  PROVE  Told'
<1>1. reqId \in 0 .. ReqIds - 1 /\ UNCHANGED <<devState, wakeFails>>
  BY DEF Types, device
<1>2. "ProtobufRequest" \in Requests /\ "ProtobufResponse" \in Requests
  BY DEF Requests
<1>3. ASSUME NEW frame, frame \notin Telling, frame \notin Causes, UNCHANGED lastState,
             Heard(frame, <<>>) \/ \E of : Heard(frame, <<Ack(of)>>)
      PROVE  Told'
  <2>1. PICK replies : Heard(frame, replies) /\ Count(replies, Carriers) \in Nat
    <3>1. Count(<<>>, Carriers) \in Nat
      BY CausedOnes
    <3>2. \A of : Count(<<Ack(of)>>, Carriers) \in Nat
      BY CausedOnes
    <3> QED BY <1>3, <3>1, <3>2, Zenon
  <2>2. One(frame, Causes) <= Count(replies, Carriers)
    BY <1>3, <2>1, UncausedOnes
  <2> QED BY <1>1, <1>3, <2>1, <2>2, HeardSilently
<1>4. ASSUME NEW frame, frame \notin Telling, UNCHANGED lastState,
             NEW replies, Heard(frame, replies), Count(replies, Carriers) = 1
      PROVE  Told'
  <2>1. One(frame, Causes) <= Count(replies, Carriers)
    BY <1>4, CausedOnes
  <2> QED BY <1>1, <1>4, <2>1, HeardSilently
<1>5. CASE HearsInfo
  BY <1>4, <1>5, NotTelling, CausedOnes DEF HearsInfo
<1>6. CASE HearsConfiguration
  BY <1>4, <1>6, NotTelling, CausedOnes DEF HearsConfiguration
<1>7. CASE HearsCaps
  <2>1. phase = "WaitCapabilitiesAck"
    BY <1>7, AnswersAwaited DEF HearsCaps
  <2>2. Heard(CapsAccepted, <<Request("Subscribe", reqId)>>) /\ UNCHANGED lastState
    BY <1>7, <2>1 DEF HearsCaps
  <2> QED BY <1>1, <1>4, <2>2, NotTelling, CausedOnes
<1>8. CASE HearsSubscribed
  <2>1. phase = "Subscribing"
    BY <1>8, AnswersAwaited DEF HearsSubscribed
  <2>2. Heard(SubscribeOk, <<Request("Wake", reqId), Ack("ProtobufResponse")>>) /\ UNCHANGED lastState
    BY <1>8, <2>1 DEF HearsSubscribed
  <2> QED BY <1>1, <1>2, <1>4, <2>2, NotTelling, CausedOnes
<1>9. ASSUME NEW status \in 0..2, HearsWake(status) PROVE Told'
  <2>1. Heard(WakeResult(status), <<Ack("ProtobufResponse")>>)
        /\ lastState' = IF status = 1 THEN "Waiting" ELSE lastState
    BY <1>9 DEF HearsWake, WokenState
  <2>2. CASE status = 1
    <3>1. WakeResult(1) \in Telling /\ \A state : WakeResult(1) \in StatesTold(state) => state = "Waiting"
      BY ToldKinds DEF DeviceStates
    <3> QED BY <1>1, <2>1, <2>2, <3>1, ToldTelling
  <2>3. CASE status # 1
    <3>1. WakeResult(status) \notin Telling
      BY <2>3, NotTelling
    <3>2. WakeResult(status) \notin Causes
      BY CausesKinds DEF WakeResult, Requests
    <3> QED BY <1>3, <2>1, <2>3, <3>1, <3>2
  <2> QED BY <2>2, <2>3
<1>10. ASSUME NEW state \in DeviceStates, HearsState(state) PROVE Told'
  <2>1. PICK replies : Heard(StateChange(state), replies) /\ lastState' = state
    BY <1>10 DEF HearsState
  <2>2. StateChange(state) \in Telling
        /\ \A other : StateChange(state) \in StatesTold(other) => lastState' = other
    BY <2>1, ToldKinds
  <2> QED BY <1>1, <2>1, <2>2, ToldTelling
<1>11. ASSUME NEW id \in ShotIds, HearsShot(id) PROVE Told'
  <2>1. Heard(Shot(id), <<Ack("ProtobufRequest")>>) /\ UNCHANGED lastState
    BY <1>11 DEF HearsShot
  <2>2. Shot(id) \notin Telling /\ Shot(id) \notin Causes
    BY NotTelling, ShotKinds
  <2> QED BY <1>3, <2>1, <2>2
<1>12. ASSUME NEW frame \in Asides, HearsAside(frame) PROVE Told'
  <2>1. frame \notin Telling
    BY NotTelling
  <2>2. frame \notin Causes
    BY CausesKinds DEF Asides, AckOf, Result, Fit, FitTypes, Requests
  <2>3. UNCHANGED lastState /\ (Heard(frame, <<>>) \/ \E of : Heard(frame, <<Ack(of)>>))
    BY <1>12 DEF HearsAside
  <2> QED BY <1>3, <2>1, <2>2, <2>3
<1> QED BY <1>5, <1>6, <1>7, <1>8, <1>9, <1>10, <1>11, <1>12 DEF Hears

LEMMA Falls ==
  \A a, b, c \in Nat :
    /\ a + c <= b + 0 => a <= b
    /\ a + 1 <= b + 0 /\ b <= 1 => a = 0
    /\ a + c <= 0 + 0 => a = 0
OBVIOUS

LEMMA InStepHeard ==
  ASSUME Types, Registration, InStep, NEW frame, NEW replies, Heard(frame, replies),
         CarriedOn(frame, replies), frame # Configuration, frame # CapsAccepted,
         \/ phase' = phase
         \/ phase \notin {"WaitCapabilitiesAck", "Subscribing"}
  PROVE  InStep'
<1>1. One(frame, {Configuration}) = 0 /\ One(frame, {CapsAccepted}) = 0 /\ One(frame, {SubscribeOk}) \in Nat
  BY DEF One
<1>2. /\ Accepts \in Nat /\ Accepts' \in Nat /\ Subscribes \in Nat /\ Subscribes' \in Nat
      /\ Accepts' + One(frame, {CapsAccepted}) <= Accepts + One(frame, {Configuration})
      /\ Subscribes' + One(frame, {SubscribeOk}) <= Subscribes + One(frame, {CapsAccepted})
  BY AnswersHeard
<1>3. Accepts' <= Accepts /\ Subscribes' <= Subscribes
  <2>1. /\ Accepts' + 0 <= Accepts + 0
        /\ Subscribes' + One(frame, {SubscribeOk}) <= Subscribes + 0
    BY <1>1, <1>2, Zenon
  <2>2. 0 \in Nat
    OBVIOUS
  <2> QED BY <1>1, <1>2, <2>1, <2>2, Falls, Zenon
<1>4. CASE phase' = phase
  BY <1>2, <1>3, <1>4, InStepKept
<1>5. CASE phase \notin {"WaitCapabilitiesAck", "Subscribing"}
  <2>1. ~(Accepts > 0) /\ ~(Subscribes > 0)
    BY <1>5 DEF InStep
  <2>2. Accepts' = 0 /\ Subscribes' = 0
    BY <1>2, <1>3, <2>1
  <2> QED BY <2>2, InStepNone
<1> QED BY <1>4, <1>5

(* One step of the handshake at most is under way. *)
LEMMA InfoAlone ==
  ASSUME Types, Registration, Handshake, InfoSteps > 0 PROVE Accepts = 0 /\ Subscribes = 0
<1>1. /\ Counted /\ Accepts \in Nat /\ Subscribes \in Nat
      /\ Accepts <= ConfigSteps + SubscribeSteps /\ Subscribes <= SubscribeSteps + WakeSteps
  BY AnswersUnderway
<1>2. stage = "Registered"
  BY DEF Handshake
<1>3. ConfigSteps = 0 /\ SubscribeSteps = 0 /\ WakeSteps = 0
  BY <1>1, <1>2, HandshakeOf DEF Types
<1> QED BY <1>1, <1>3

LEMMA HearsInStep ==
  ASSUME Types, Registration, Handshake, OneWake, InStep, faults' = 0, Hears, UNCHANGED device
  PROVE  InStep'
<1>1. reqId \in 0 .. ReqIds - 1
  BY DEF Types
<1>2. /\ \A S : Count(Inbound, S) \in Nat /\ \A R : Count(Outbound, R) \in Nat
  BY UnderwayNat
<1>3. /\ Counted /\ Accepts \in Nat /\ Subscribes \in Nat
      /\ Accepts <= ConfigSteps + SubscribeSteps /\ Subscribes <= SubscribeSteps + WakeSteps
  BY AnswersUnderway
<1>4. SubscribeSteps + ConfigSteps <= 1 /\ WakeSteps <= 1
  BY <1>3, AtMostOne DEF OneWake
<1>5. ASSUME NEW frame, NEW of, of # "DeviceInfo", frame # Configuration, frame # CapsAccepted,
             \/ phase' = phase \/ phase \notin {"WaitCapabilitiesAck", "Subscribing"},
             Heard(frame, <<>>) \/ Heard(frame, <<Ack(of)>>)
      PROVE  InStep'
  <2>1. CarriedOn(frame, <<>>) /\ CarriedOn(frame, <<Ack(of)>>)
    BY <1>5, RepliesCarryOn
  <2> QED BY <1>5, <2>1, InStepHeard
<1>6. CASE HearsInfo
  <2> DEFINE frame == DeviceInfo(FALSE)
             replies == <<Ack("DeviceInfo")>>
  <2>1. Heard(frame, replies) /\ CarriedOn(frame, replies)
    BY <1>6, RepliesCarryOn DEF HearsInfo
  <2>2. frame # Configuration /\ frame # CapsAccepted
    BY CausesKinds
  <2>3. frame \in {DeviceInfo(FALSE)}
    OBVIOUS
  <2> HIDE DEF frame, replies
  <2>4. Count(Inbound, {DeviceInfo(FALSE)}) > 0
    BY <2>1, <2>3, HeadCounted
  <2>5. InfoSteps > 0
    BY <1>2, <2>4 DEF InfoSteps, Underway
  <2>6. Accepts = 0 /\ Subscribes = 0
    BY <2>5, InfoAlone
  <2>7. /\ Accepts' \in Nat /\ Subscribes' \in Nat
        /\ Accepts' + One(frame, {CapsAccepted}) <= Accepts + One(frame, {Configuration})
        /\ Subscribes' + One(frame, {SubscribeOk}) <= Subscribes + One(frame, {CapsAccepted})
    BY <2>1, AnswersHeard
  <2>8. One(frame, {Configuration}) = 0 /\ One(frame, {CapsAccepted}) = 0 /\ One(frame, {SubscribeOk}) \in Nat
    BY <2>2 DEF One
  <2>9. Accepts' = 0 /\ Subscribes' = 0
    <3>1. /\ Accepts' + 0 <= 0 + 0
          /\ Subscribes' + One(frame, {SubscribeOk}) <= 0 + 0
      BY <2>6, <2>7, <2>8, Zenon
    <3>2. 0 \in Nat
      OBVIOUS
    <3> QED BY <2>7, <2>8, <3>1, <3>2, Falls, Zenon
  <2> QED BY <2>9, InStepNone
<1>7. CASE HearsConfiguration
  <2> DEFINE replies == <<Ack("Configuration"), HostCaps>>
  <2>1. Heard(Configuration, replies) /\ phase' = "WaitCapabilitiesAck"
    BY <1>7 DEF HearsConfiguration
  <2>2. Count(replies, RequestsOf("Subscribe")) = 0
    <3>1. Count(replies, RequestsOf("Subscribe"))
            = One(Ack("Configuration"), RequestsOf("Subscribe")) + One(HostCaps, RequestsOf("Subscribe"))
      BY Ones
    <3> HIDE DEF replies
    <3> QED BY <3>1, WrittenKinds
  <2> HIDE DEF replies
  <2>3. Count(Inbound, {Configuration}) > 0
    BY <2>1, HeadCounted
  <2>4. SubscribeSteps = 0
    <3>1. ConfigSteps > 0
      BY <1>2, <2>3 DEF ConfigSteps, Underway
    <3> QED BY <1>3, <1>4, <3>1 DEF Counted
  <2>5. Count(Inbound', WakeCauses) = 0 /\ Inbound' \in Seq(InFrames)
    <3>1. /\ Inbound \in Seq(InFrames) /\ Inbound # <<>> /\ Head(Inbound) \in {Configuration}
          /\ Inbound' = Tail(Inbound) /\ Behind(Inbound, {Configuration}, WakeCauses)
      BY <2>1, Queues DEF Heard, OneWake
    <3>2. Tail(Inbound) \in Seq(InFrames)
      BY <3>1
    <3> QED BY <3>1, <3>2, BehindTail
  <2>6. Count(Inbound', {SubscribeOk}) = 0
    <3>1. {SubscribeOk} \subseteq WakeCauses
      BY DEF WakeCauses
    <3>2. Count(Inbound', {SubscribeOk}) \in Nat /\ Count(Inbound', {SubscribeOk}) <= Count(Inbound', WakeCauses)
      BY <2>5, <3>1, CountMore
    <3> QED BY <2>5, <3>2
  <2>7. Count(Outbound', RequestsOf("Subscribe")) = 0
    <3>1. /\ Count(Outbound', RequestsOf("Subscribe")) \in Nat
          /\ Count(Outbound', RequestsOf("Subscribe"))
               <= Count(Outbound, RequestsOf("Subscribe")) + Count(replies, RequestsOf("Subscribe"))
      BY <2>1, WroteCount DEF Heard
    <3>2. Count(Outbound, RequestsOf("Subscribe")) = 0
      BY <1>2, <2>4 DEF SubscribeSteps, Underway
    <3> QED BY <2>2, <3>1, <3>2
  <2>8. Subscribes' = 0
    BY <2>6, <2>7 DEF Subscribes, Underway
  <2> QED BY <2>1, <2>8 DEF InStep
<1>8. CASE HearsCaps
  <2>1. phase = "WaitCapabilitiesAck"
    BY <1>8, AnswersAwaited DEF HearsCaps
  <2> DEFINE replies == <<Request("Subscribe", reqId)>>
  <2>2. Heard(CapsAccepted, replies) /\ phase' = "Subscribing" /\ CarriedOn(CapsAccepted, replies)
    BY <1>1, <1>8, <2>1, RepliesCarryOn DEF HearsCaps
  <2> HIDE DEF replies
  <2>3. One(CapsAccepted, {CapsAccepted}) = 1 /\ One(CapsAccepted, {Configuration}) = 0
    BY CausesKinds DEF One
  <2>4. /\ Accepts' \in Nat
        /\ Accepts' + One(CapsAccepted, {CapsAccepted}) <= Accepts + One(CapsAccepted, {Configuration})
    BY <2>2, AnswersHeard
  <2>5. Accepts <= 1
    BY <1>3, <1>4 DEF Counted
  <2>6. Accepts' = 0
    <3>1. Accepts' + 1 <= Accepts + 0
      BY <2>3, <2>4, Zenon
    <3>2. 0 \in Nat
      OBVIOUS
    <3> QED BY <1>3, <2>4, <2>5, <3>1, <3>2, Falls, Zenon
  <2> QED BY <2>2, <2>6 DEF InStep
<1>9. CASE HearsSubscribed
  <2>1. phase = "Subscribing"
    BY <1>9, AnswersAwaited DEF HearsSubscribed
  <2> DEFINE replies == <<Request("Wake", reqId), Ack("ProtobufResponse")>>
  <2>2. Heard(SubscribeOk, replies) /\ CarriedOn(SubscribeOk, replies)
    BY <1>1, <1>9, <2>1, RepliesCarryOn DEF HearsSubscribed, WakeCauses
  <2> HIDE DEF replies
  <2>3. SubscribeSteps = 0
    <3>1. SubscribeOk \in WakeCauses
      BY DEF WakeCauses
    <3>2. Count(Inbound, WakeCauses) > 0
      BY <2>2, <3>1, HeadCounted
    <3>3. WakeSteps > 0
      BY <1>2, <3>2 DEF WakeSteps, Underway
    <3> QED BY <1>3, <3>3 DEF OneWake, Counted
  <2>4. One(SubscribeOk, {SubscribeOk}) = 1 /\ One(SubscribeOk, {Configuration}) = 0
        /\ One(SubscribeOk, {CapsAccepted}) = 0
    BY CausesKinds DEF One, WakeCauses
  <2>5. /\ Accepts' \in Nat /\ Subscribes' \in Nat
        /\ Accepts' + One(SubscribeOk, {CapsAccepted}) <= Accepts + One(SubscribeOk, {Configuration})
        /\ Subscribes' + One(SubscribeOk, {SubscribeOk}) <= Subscribes + One(SubscribeOk, {CapsAccepted})
    BY <2>2, AnswersHeard
  <2>6. Subscribes <= 1
    BY <1>3, <1>4, <2>3 DEF Counted
  <2>7. Accepts = 0
    <3>1. ~(Accepts > 0)
      BY <2>1 DEF InStep
    <3> QED BY <1>3, <3>1
  <2>8. Accepts' = 0 /\ Subscribes' = 0
    <3>1. /\ Accepts' + 0 <= 0 + 0
          /\ Subscribes' + 1 <= Subscribes + 0
      BY <2>4, <2>5, <2>7, Zenon
    <3>2. 0 \in Nat
      OBVIOUS
    <3> QED BY <1>3, <2>5, <2>6, <3>1, <3>2, Falls, Zenon
  <2> QED BY <2>8, InStepNone
<1>10. ASSUME NEW status \in 0..2, HearsWake(status) PROVE InStep'
  <2>1. Heard(WakeResult(status), <<Ack("ProtobufResponse")>>)
        /\ (phase' = phase \/ phase = "WakingUp")
    BY <1>10 DEF HearsWake
  <2>2. WakeResult(status) # Configuration /\ WakeResult(status) # CapsAccepted
    BY DEF WakeResult, Configuration, CapsAccepted, AckOf
  <2>3. phase' = phase \/ phase \notin {"WaitCapabilitiesAck", "Subscribing"}
    BY <2>1
  <2> QED BY <1>5, <2>1, <2>2, <2>3
<1>11. ASSUME NEW state \in DeviceStates, HearsState(state) PROVE InStep'
  <2> DEFINE frame == StateChange(state)
  <2>1. phase' = phase
    BY <1>11 DEF HearsState
  <2>2. frame # Configuration /\ frame # CapsAccepted
    BY DEF StateChange, Configuration, CapsAccepted, AckOf
  <2>3. CASE Heard(frame, <<Ack("ProtobufRequest")>>)
    <3> HIDE DEF frame
    <3> QED BY <1>5, <2>1, <2>2, <2>3
  <2>4. CASE state = "Standby" /\ Heard(frame, <<Request("Wake", reqId), Ack("ProtobufRequest")>>)
    <3>1. frame \in WakeCauses
      BY <2>4 DEF WakeCauses
    <3> HIDE DEF frame
    <3>2. CarriedOn(frame, <<Request("Wake", reqId), Ack("ProtobufRequest")>>)
      BY <1>1, <3>1, RepliesCarryOn
    <3> QED BY <2>1, <2>2, <2>4, <3>2, InStepHeard
  <2> QED BY <1>11, <2>3, <2>4 DEF HearsState
<1>12. ASSUME NEW id \in ShotIds, HearsShot(id) PROVE InStep'
  <2>1. Heard(Shot(id), <<Ack("ProtobufRequest")>>) /\ phase' = phase
    BY <1>12 DEF HearsShot
  <2>2. Shot(id) # Configuration /\ Shot(id) # CapsAccepted
    BY ShotKinds DEF Causes
  <2> QED BY <1>5, <2>1, <2>2
<1>13. ASSUME NEW frame \in Asides, HearsAside(frame) PROVE InStep'
  <2>1. frame # Configuration /\ frame # CapsAccepted
    BY DEF Asides, AckOf, Result, Fit, FitTypes, Configuration, CapsAccepted
  <2>2. phase' = phase
    BY <1>13 DEF HearsAside
  <2>3. PICK of : of # "DeviceInfo" /\ (Heard(frame, <<>>) \/ Heard(frame, <<Ack(of)>>))
    <3>1. CASE frame \in {Fit(type) : type \in FitTypes} /\ Heard(frame, <<Ack(frame.type)>>)
      <4>1. frame.type # "DeviceInfo"
        BY <3>1 DEF Fit, FitTypes
      <4> QED BY <3>1, <4>1
    <3>2. CASE Heard(frame, <<>>) \/ Heard(frame, <<Ack("ProtobufResponse")>>)
      BY <3>2
    <3> QED BY <1>13, <3>1, <3>2 DEF HearsAside
  <2> QED BY <1>5, <2>1, <2>2, <2>3
<1> QED BY <1>6, <1>7, <1>8, <1>9, <1>10, <1>11, <1>12, <1>13 DEF Hears

LEMMA HearsView ==
  ASSUME Types, Registration, Handshake, OneWake, AwakeLeftAlone, InStep, Told, faults' = 0,
         AfterPoll, Hears, UNCHANGED device
  PROVE  InView'
<1>1. PICK frame, replies : Heard(frame, replies) /\ CarriedOn(frame, replies)
  BY HearsCarriedOn
<1>2. OneWake' /\ WakeSteps \in Nat /\ WakeSteps' \in Nat /\ WakeSteps' <= WakeSteps
  BY <1>1, OneWakeHeard
<1>3. UNCHANGED <<stage, devState, woken>>
  BY DEF device
<1> QED BY <1>2, <1>3, AwakeKept, HearsInStep, HearsTold DEF InView

-----------------------------------------------------------------------------
(* The client's other steps, and the application's. *)

LEMMA ViewRests ==
  ASSUME InView, Rests, UNCHANGED <<stage, devState, woken, wakeFails, phase, lastState>>
  PROVE  InView'
<1>1. /\ WakeSteps' = WakeSteps /\ SubscribeSteps' = SubscribeSteps /\ Accepts' = Accepts
      /\ Subscribes' = Subscribes /\ Chain' = Chain
  BY DEF Rests, WakeSteps, SubscribeSteps, Accepts, Subscribes, Chain, Underway
<1>2. OneWake'
  BY <1>1 DEF InView, OneWake, Rests
<1>3. AwakeLeftAlone'
  BY <1>1, Zenon DEF InView, AwakeLeftAlone
<1>4. InStep'
  BY <1>1 DEF InView, InStep
<1>5. Told'
  BY <1>1 DEF InView, Told, Rests
<1> QED BY <1>2, <1>3, <1>4, <1>5 DEF InView

LEMMA StartView ==
  ASSUME Types, Registration, InView, Start, UNCHANGED device PROVE InView'
<1> DEFINE frames == <<Register>>
<1>1. /\ phase = "Registering" /\ stage = "Off" /\ Inbound = <<>> /\ Inbound' = <<>>
      /\ Outbound' = frames /\ UNCHANGED <<phase, lastState>>
  BY Starts
<1>2. UNCHANGED <<stage, devState, woken, wakeFails>>
  BY DEF device
<1>3. /\ Register.type # HostCaps.type /\ \A body, id : Register.type # Request(body, id).type
  BY DEF Register, HostCaps, Request
<1>4. \A body \in {"Subscribe", "Wake"} : Count(frames, RequestsOf(body)) = 0
  BY <1>3, Ones DEF One, RequestsOf
<1>5. Count(frames, {HostCaps}) = 0
  BY <1>3, Ones DEF One
<1>6. frames \in Seq(OutFrames)
  BY DEF OutFrames
<1> HIDE DEF frames
<1>7. 0 + 0 = 0 /\ \A S : Count(<<>>, S) = 0
  BY Ones
<1>8. WakeSteps' = 0 /\ SubscribeSteps' = 0 /\ Accepts' = 0 /\ Subscribes' = 0
  <2>1. /\ WakeSteps' = Count(Inbound', WakeCauses) + Count(Outbound', RequestsOf("Wake"))
        /\ SubscribeSteps' = Count(Inbound', {CapsAccepted}) + Count(Outbound', RequestsOf("Subscribe"))
        /\ Accepts' = Count(Inbound', {CapsAccepted}) + Count(Outbound', {HostCaps})
        /\ Subscribes' = Count(Inbound', {SubscribeOk}) + Count(Outbound', RequestsOf("Subscribe"))
    BY DEF WakeSteps, SubscribeSteps, Accepts, Subscribes, Underway
  <2> QED BY <1>1, <1>4, <1>5, <1>7, <2>1
<1>9. OneWake'
  <2>1. <<>> \in Seq(InFrames)
    OBVIOUS
  <2>2. Behind(<<>>, {Configuration}, WakeCauses)
    BY <1>7, <2>1, BehindNone
  <2>3. Behind(frames, {HostCaps}, RequestsOf("Wake"))
    BY <1>5, <1>6, BehindNone
  <2> QED BY <1>1, <1>7, <1>8, <2>2, <2>3 DEF OneWake
<1>10. AwakeLeftAlone'
  <2>1. devState # "Recording"
    BY <1>1, NotRecording DEF InView
  <2> QED BY <1>1, <1>2, <2>1, AwakeUnsubscribed DEF InView
<1>11. Told'
  <2>1. ~ LastTells(Inbound, devState)
    BY <1>1 DEF LastTells
  <2> QED BY <1>1, <1>2, <2>1 DEF InView, Told
<1> QED BY <1>8, <1>9, <1>10, <1>11, InStepNone DEF InView

LEMMA RegisterView ==
  ASSUME Types, Registration, InView, faults' = 0, PollRegister, UNCHANGED device PROVE InView'
<1> DEFINE info == DeviceInfo(FALSE)
<1>1. /\ phase = "Registering" /\ Heard(Response, <<>>) /\ Inbound' = <<info>>
      /\ UNCHANGED lastState
  BY Registers
<1>2. UNCHANGED <<stage, devState, woken, wakeFails>>
  BY DEF device
<1>3. CarriedOn(Response, <<>>)
  BY RepliesCarryOn
<1>4. OneWake' /\ AwakeLeftAlone'
  BY <1>1, <1>2, <1>3, OneWakeHeard, AwakeKept DEF InView
<1>5. Response.type = "RegisterResponse"
  BY DEF Response, RegisterResponse
<1>6. InStep'
  <2>1. Response # Configuration /\ Response # CapsAccepted
    BY <1>5 DEF Configuration, CapsAccepted, AckOf
  <2> QED BY <1>1, <1>3, <2>1, InStepHeard DEF InView
<1>7. Told'
  <2>1. One(Response, Causes) = 0
    BY <1>5, CausesKinds, UncausedOnes DEF Requests
  <2>2. One(Response, Causes) <= Count(<<>>, Carriers)
    BY <2>1, CausedOnes
  <2>3. Chain \in Nat /\ Chain' \in Nat /\ Chain <= Chain'
    BY <1>1, <2>2, ChainHeard
  <2>4. Chain' > 0
    <3>1. info \in Causes
      BY DEF Causes
    <3> HIDE DEF info
    <3>2. Count(Inbound', Causes) = 1
      BY <1>1, <3>1, Ones
    <3>3. Count(Outbound', Carriers) \in Nat
      BY <1>1, WroteCount DEF Heard
    <3>4. Chain' = Count(Inbound', Causes) + Count(Outbound', Carriers)
      BY DEF Chain, Underway
    <3> QED BY <3>2, <3>3, <3>4
  <2> QED BY <1>1, <1>2, <2>3, <2>4, NotTelling, ToldHeard DEF InView
<1> QED BY <1>4, <1>6, <1>7 DEF InView

LEMMA ClientView ==
  ASSUME Types, Registration, Handshake, View, ClientStep PROVE View'
<1> SUFFICES ASSUME faults' = 0 PROVE InView'
  BY DEF View
<1>1. UNCHANGED device /\ (Start \/ Poll)
  BY DEF ClientStep
<1>2. UNCHANGED <<stage, devState, woken, wakeFails>>
  BY <1>1 DEF device
<1>3. CASE Start
  <2>1. InView
    BY <1>1, <1>3, Starts DEF View
  <2> QED BY <1>1, <1>3, <2>1, StartView
<1>4. CASE PollRegister
  <2>1. InView
    BY <1>1, <1>4, Registers DEF View
  <2> QED BY <1>1, <1>4, <2>1, RegisterView
<1>5. CASE PollPending \/ (\E k \in 0..MaxChunkFrames : PollIdle(k))
  <2>1. Rests /\ UNCHANGED <<phase, lastState, faults>>
    BY <1>1, <1>5, Pauses
  <2>2. InView
    BY <2>1 DEF View
  <2> QED BY <1>2, <2>1, <2>2, ViewRests
<1>6. CASE \E k \in 0..MaxChunkFrames : Dispatch(k)
  <2>1. PICK k \in 0..MaxChunkFrames : Dispatch(k)
    BY <1>6
  <2>2. k \in Nat
    BY ClientAssumption
  <2>3. AfterPoll /\ Hears
    BY <2>1, <2>2, FrameHeard
  <2>4. faults = 0
    BY <2>3, HearsCarriedOn DEF Heard, Wrote
  <2>5. InView
    BY <2>4 DEF View
  <2> QED BY <1>1, <2>3, <2>5, HearsView DEF InView
<1> QED BY <1>1, <1>3, <1>4, <1>5, <1>6 DEF Poll

LEMMA AskView ==
  ASSUME Types, Registration, View, AskEnvironment PROVE View'
<1> SUFFICES ASSUME faults' = 0 PROVE InView'
  BY DEF View
<1> DEFINE frames == <<Request("Environment", reqId)>>
<1>1. /\ Inbound' = Inbound /\ frames \in Seq(WrittenFrames) /\ Wrote(frames)
      /\ UNCHANGED <<device, phase, lastState>>
  BY Asks
<1>2. UNCHANGED <<stage, devState, woken, wakeFails>>
  BY <1>1 DEF device
<1>3. Count(frames, {HostCaps}) = 0 /\ Count(frames, RequestsOf("Subscribe")) = 0
      /\ Count(frames, Carriers) = 0
  BY Ones, WrittenKinds, CarrierOnes
<1> HIDE DEF frames
<1>4. InView
  BY <1>1 DEF Wrote, View
<1>5. OneWake' /\ WakeSteps' = WakeSteps
  BY <1>4, OneWakeAsked DEF InView
<1>6. AwakeLeftAlone'
  BY <1>2, <1>4, <1>5, Zenon DEF InView, AwakeLeftAlone
<1>7. Accepts \in Nat /\ Accepts' = Accepts + 0
  BY <1>1, <1>3, WrittenCount DEF Accepts
<1>8. Subscribes \in Nat /\ Subscribes' = Subscribes + 0
  BY <1>1, <1>3, WrittenCount DEF Subscribes
<1>9. Chain \in Nat /\ Chain' = Chain + 0
  BY <1>1, <1>3, WrittenCount DEF Chain
<1>10. \A a \in Nat : a + 0 = a
  OBVIOUS
<1>11. Accepts' = Accepts /\ Subscribes' = Subscribes /\ Chain' = Chain
  BY <1>7, <1>8, <1>9, <1>10, Zenon
<1>12. InStep'
  BY <1>1, <1>4, <1>11 DEF InView, InStep
<1>13. Told'
  BY <1>1, <1>2, <1>4, <1>11 DEF InView, Told
<1> QED BY <1>5, <1>6, <1>12, <1>13 DEF InView

-----------------------------------------------------------------------------
(* The R10's answers. *)

LEMMA AnsweredTold ==
  ASSUME Types, Registration, Told, NEW frame, NEW sends, Answered(frame, sends), Silent(sends),
         One(frame, Carriers) = Count(sends, Causes) \/ wakeFails' > 0,
         wakeFails' \in Nat, wakeFails <= wakeFails', UNCHANGED <<lastState, devState, phase>>
  PROVE  Told'
<1>1. /\ Chain \in Nat /\ Chain' \in Nat /\ Count(sends, Causes) \in Nat
      /\ Chain' + One(frame, Carriers) = Chain + Count(sends, Causes)
  BY AnsweredCount DEF Chain
<1>2. \A a, b, c \in Nat : a + c = b + c => b <= a
  OBVIOUS
<1>3. Chain <= Chain' \/ wakeFails' > 0
  BY <1>1, <1>2, Zenon
<1>4. sends \in Seq(InFrames) /\ Inbound' = Inbound \o sends
  BY DEF Answered
<1> QED BY <1>1, <1>3, <1>4, ToldSent

(* An answer that carries nothing on. *)
LEMMA AnsweredAside ==
  ASSUME Types, Registration, InView, NEW frame, NEW sends, Answered(frame, sends), Silent(sends),
         One(frame, Carriers) = 0, Count(sends, Causes) = 0,
         Count(sends, WakeCauses) = 0, Count(sends, {CapsAccepted}) = 0,
         UNCHANGED <<stage, devState, woken, wakeFails, lastState, phase>>
  PROVE  InView'
<1>1. OneWake' /\ AwakeLeftAlone'
  BY OneWakeAnswered, AwakeKept DEF InView
<1>2. Count(sends, {SubscribeOk}) = 0
  <2>1. sends \in Seq(InFrames) /\ {SubscribeOk} \subseteq WakeCauses
    BY DEF Answered, WakeCauses
  <2>2. Count(sends, {SubscribeOk}) \in Nat /\ Count(sends, WakeCauses) \in Nat
        /\ Count(sends, {SubscribeOk}) <= Count(sends, WakeCauses)
    BY <2>1, CountMore
  <2> QED BY <2>2
<1>3. Count(sends, {CapsAccepted}) <= One(frame, {HostCaps})
      /\ Count(sends, {SubscribeOk}) <= One(frame, RequestsOf("Subscribe"))
  BY <1>2 DEF One
<1>4. InStep'
  BY <1>3, InStepAnswered DEF InView
<1>5. wakeFails' \in Nat /\ wakeFails <= wakeFails'
  BY DEF Types
<1>6. Told'
  BY <1>5, AnsweredTold DEF InView
<1> QED BY <1>1, <1>4, <1>6 DEF InView

LEMMA NoneCaused ==
  /\ Count(<<>>, Causes) = 0 /\ Count(<<>>, WakeCauses) = 0 /\ Count(<<>>, {CapsAccepted}) = 0
  /\ Silent(<<>>)
  /\ \A f : f \notin Causes =>
       /\ Count(<<f>>, Causes) = 0 /\ Count(<<f>>, WakeCauses) = 0
       /\ Count(<<f>>, {CapsAccepted}) = 0 /\ Count(<<f>>, {SubscribeOk}) = 0
  /\ \A f, g : f \notin Causes /\ g \notin Causes =>
       /\ Count(<<f, g>>, Causes) = 0 /\ Count(<<f, g>>, WakeCauses) = 0
       /\ Count(<<f, g>>, {CapsAccepted}) = 0 /\ Count(<<f, g>>, {SubscribeOk}) = 0
<1>1. \A S : Count(<<>>, S) = 0
  BY Ones
<1>2. ASSUME NEW f, f \notin Causes
      PROVE  /\ One(f, Causes) = 0 /\ One(f, WakeCauses) = 0
             /\ One(f, {CapsAccepted}) = 0 /\ One(f, {SubscribeOk}) = 0
  BY <1>2 DEF One, Causes, WakeCauses
<1>3. \A f : f \notin Causes =>
        /\ Count(<<f>>, Causes) = 0 /\ Count(<<f>>, WakeCauses) = 0
        /\ Count(<<f>>, {CapsAccepted}) = 0 /\ Count(<<f>>, {SubscribeOk}) = 0
  BY <1>2, Ones
<1>4. \A f, g, S : One(f, S) = 0 /\ One(g, S) = 0 => Count(<<f, g>>, S) = 0
  BY Ones
<1>5. ASSUME NEW f, NEW g, f \notin Causes, g \notin Causes
      PROVE  /\ Count(<<f, g>>, Causes) = 0 /\ Count(<<f, g>>, WakeCauses) = 0
             /\ Count(<<f, g>>, {CapsAccepted}) = 0 /\ Count(<<f, g>>, {SubscribeOk}) = 0
  BY <1>2, <1>4, <1>5
<1> QED BY <1>1, <1>3, <1>5, SilentSeqs, Zenon

LEMMA FitCount ==
  ASSUME NEW fit \in {<<>>, <<Fit("FitDefinition"), Fit("FitData")>>}, NEW S,
         \A type \in FitTypes : Fit(type) \notin S
  PROVE  Count(Append(fit, Configuration), S) = One(Configuration, S)
<1> DEFINE a == Fit("FitDefinition")
           b == Fit("FitData")
           c == Configuration
<1>1. One(a, S) = 0 /\ One(b, S) = 0
  BY DEF FitTypes, One
<1>2. a \in SentFrames /\ b \in SentFrames /\ c \in SentFrames
  BY SentOnes DEF FitTypes
<1> HIDE DEF a, b, c
<1>3. CASE fit = <<>>
  <2>1. Append(<<>>, c) = <<c>>
    OBVIOUS
  <2> QED BY <1>3, <2>1, Ones, Zenon DEF c
<1>4. CASE fit = <<a, b>>
  <2> DEFINE s == <<a, b>>
             t == <<c>>
  <2>1. s \in Seq(SentFrames) /\ t \in Seq(SentFrames)
    BY <1>2, SentSeqs
  <2>2. Append(s, c) = s \o t
    BY <1>2, <2>1, AppendIsConcat
  <2>3. Count(s, S) = 0 /\ Count(t, S) = One(c, S) /\ One(c, S) \in Nat
    <3>1. Count(s, S) = One(a, S) + One(b, S)
      BY Ones
    <3>2. Count(t, S) = One(c, S) /\ One(c, S) \in Nat
      BY Ones
    <3> QED BY <1>1, <3>1, <3>2
  <2> HIDE DEF s, t
  <2>4. Count(s \o t, S) = Count(s, S) + Count(t, S)
    BY <2>1, CountConcat
  <2>5. Count(Append(s, c), S) = One(c, S)
    BY <2>2, <2>3, <2>4
  <2> QED BY <1>4, <2>5 DEF s, c
<1> QED BY <1>3, <1>4 DEF a, b

LEMMA RegisterTakenView ==
  ASSUME Types, Registration, Handshake, InView, DeviceRegister PROVE InView'
<1> DEFINE info == DeviceInfo(FALSE)
           sends == <<Response, info>>
<1>1. /\ Answered(Register, sends) /\ stage = "Off" /\ stage' = "Registered"
      /\ UNCHANGED <<clientVars, devState, wakeFails>>
  BY RegisterTaken
<1>2. Response \notin Causes /\ Response \notin Telling /\ info \notin Telling
  BY CausesKinds, NotTelling DEF Response, RegisterResponse, Requests
<1>3. One(Response, WakeCauses) = 0 /\ One(Response, {CapsAccepted}) = 0
      /\ One(Response, {SubscribeOk}) = 0 /\ One(Response, Causes) = 0
  BY <1>2 DEF One, Causes, WakeCauses
<1>4. One(info, WakeCauses) = 0 /\ One(info, {CapsAccepted}) = 0
      /\ One(info, {SubscribeOk}) = 0 /\ One(info, Causes) = 1
  <2>1. info \notin WakeCauses /\ info # CapsAccepted
    BY CausesKinds
  <2>2. info \in Causes
    BY DEF Causes
  <2> HIDE DEF info
  <2> QED BY <2>1, <2>2 DEF One, WakeCauses
<1> HIDE DEF info
<1>5. /\ Count(sends, WakeCauses) = 0 /\ Count(sends, {CapsAccepted}) = 0
      /\ Count(sends, {SubscribeOk}) = 0 /\ Count(sends, Causes) = 1
  <2>1. \A S : Count(sends, S) = One(Response, S) + One(info, S)
    BY Ones
  <2> HIDE DEF sends
  <2> QED BY <1>3, <1>4, <2>1
<1>6. Silent(sends)
  BY <1>2, SilentSeqs
<1> HIDE DEF sends
<1>7. OneWake'
  BY <1>1, <1>5, OneWakeAnswered DEF InView
<1>8. AwakeLeftAlone'
  <2>1. devState # "Recording"
    BY <1>1, NotRecording DEF InView
  <2> QED BY <1>1, <2>1, AwakeUnsubscribed DEF InView
<1>9. UNCHANGED <<phase, lastState>>
  BY <1>1 DEF clientVars, session
<1>10. InStep'
  <2>1. Count(sends, {CapsAccepted}) <= One(Register, {HostCaps})
        /\ Count(sends, {SubscribeOk}) <= One(Register, RequestsOf("Subscribe"))
    BY <1>5 DEF One
  <2> QED BY <1>1, <1>9, <2>1, InStepAnswered DEF InView
<1>11. Told'
  <2>1. wakeFails' \in Nat /\ wakeFails <= wakeFails'
    BY <1>1 DEF Types
  <2> QED BY <1>1, <1>5, <1>6, <1>9, <2>1, CarrierOnes, AnsweredTold DEF InView
<1> QED BY <1>7, <1>8, <1>10, <1>11 DEF InView

LEMMA InfoTakenView ==
  ASSUME Types, Registration, Handshake, InView, DeviceInfoAcked PROVE InView'
<1>1. PICK fit \in {<<>>, <<Fit("FitDefinition"), Fit("FitData")>>} :
        Answered(Ack("DeviceInfo"), Append(fit, Configuration))
  BY InfoTaken
<1> DEFINE sends == Append(fit, Configuration)
<1>2. /\ stage = "Registered" /\ stage' = "Identified"
      /\ UNCHANGED <<clientVars, devState, wakeFails>>
  BY InfoTaken
<1>3. \A type \in FitTypes : Fit(type) \notin Causes /\ Fit(type) \notin Telling
  <2>1. \A type \in FitTypes : Fit(type) \in Asides
    BY DEF Asides
  <2>2. \A type \in FitTypes : Fit(type) \notin Causes
    BY CausesKinds DEF Fit, FitTypes, Requests
  <2> QED BY <2>1, <2>2, NotTelling
<1>4. /\ \A type \in FitTypes : /\ Fit(type) \notin WakeCauses /\ Fit(type) \notin {CapsAccepted}
                                /\ Fit(type) \notin {SubscribeOk}
      /\ Configuration \notin WakeCauses /\ Configuration \notin {CapsAccepted}
      /\ Configuration \notin {SubscribeOk} /\ Configuration \in Causes
      /\ Configuration \notin Telling
  BY <1>3, CausesKinds, NotTelling DEF Causes, WakeCauses
<1>5. /\ Count(sends, WakeCauses) = 0 /\ Count(sends, {CapsAccepted}) = 0
      /\ Count(sends, {SubscribeOk}) = 0 /\ Count(sends, Causes) = 1
  <2>1. /\ Count(sends, WakeCauses) = One(Configuration, WakeCauses)
        /\ Count(sends, {CapsAccepted}) = One(Configuration, {CapsAccepted})
        /\ Count(sends, {SubscribeOk}) = One(Configuration, {SubscribeOk})
        /\ Count(sends, Causes) = One(Configuration, Causes)
    BY <1>3, <1>4, FitCount
  <2> HIDE DEF sends
  <2> QED BY <1>4, <2>1 DEF One
<1>6. Silent(sends)
  <2>1. Append(<<>>, Configuration) = <<Configuration>>
    OBVIOUS
  <2>2. Silent(Append(<<>>, Configuration))
    BY <1>4, <2>1, SilentSeqs, Zenon
  <2>3. Silent(Append(<<Fit("FitDefinition"), Fit("FitData")>>, Configuration))
    BY <1>3, <1>4, SilentSeqs DEF FitTypes
  <2> QED BY <2>2, <2>3, Zenon
<1> HIDE DEF sends
<1>7. OneWake'
  BY <1>1, <1>5, OneWakeAnswered DEF InView, sends
<1>8. AwakeLeftAlone'
  <2>1. devState # "Recording"
    BY <1>2, NotRecording DEF InView
  <2> QED BY <1>2, <2>1, AwakeUnsubscribed DEF InView
<1>9. UNCHANGED <<phase, lastState>>
  BY <1>2 DEF clientVars, session
<1>10. Answered(Ack("DeviceInfo"), sends)
  BY <1>1 DEF sends
<1>11. InStep'
  <2>1. Count(sends, {CapsAccepted}) <= One(Ack("DeviceInfo"), {HostCaps})
        /\ Count(sends, {SubscribeOk}) <= One(Ack("DeviceInfo"), RequestsOf("Subscribe"))
    BY <1>5 DEF One
  <2> QED BY <1>9, <1>10, <2>1, InStepAnswered DEF InView
<1>12. Told'
  <2>1. wakeFails' \in Nat /\ wakeFails <= wakeFails'
    BY <1>2 DEF Types
  <2> QED BY <1>2, <1>5, <1>6, <1>9, <1>10, <2>1, CarrierOnes, AnsweredTold DEF InView
<1> QED BY <1>7, <1>8, <1>11, <1>12 DEF InView

LEMMA AckTakenView ==
  ASSUME Types, Registration, Handshake, InView, DeviceAcked PROVE InView'
<1>1. PICK of : of # "DeviceInfo" /\ Answered(Ack(of), <<>>)
  BY AckTaken DEF FitTypes, Requests
<1>2. UNCHANGED <<stage, devState, woken, wakeFails, lastState, phase>>
  BY AckTaken DEF clientVars, session
<1>3. One(Ack(of), Carriers) = 0
  BY <1>1, CarrierOnes
<1> QED BY <1>1, <1>2, <1>3, NoneCaused, AnsweredAside

LEMMA IgnoredView ==
  ASSUME Types, Registration, Handshake, InView, DeviceIgnores PROVE InView'
<1>1. PICK id : Answered(Request("Environment", id), <<>>)
  BY EarlyIgnored
<1>2. UNCHANGED <<stage, devState, woken, wakeFails, lastState, phase>>
  BY EarlyIgnored DEF clientVars, session, device
<1>3. One(Request("Environment", id), Carriers) = 0
  BY CarrierOnes
<1> QED BY <1>1, <1>2, <1>3, NoneCaused, AnsweredAside

LEMMA EnvironmentTakenView ==
  ASSUME Types, Registration, Handshake, InView, DeviceEnvironment PROVE InView'
<1> DEFINE ack == AckOf("ProtobufRequest", 0)
           answer == Result("EnvironmentResult", TRUE)
<1>1. PICK id : Answered(Request("Environment", id), <<ack, answer>>)
  BY EnvironmentTaken DEF EnvironmentAnswer
<1>2. UNCHANGED <<stage, devState, woken, wakeFails, lastState, phase>>
  BY EnvironmentTaken DEF clientVars, session
<1>3. ack \notin Telling /\ answer \notin Telling
  BY NotTelling DEF Asides
<1>4. ack \notin Causes /\ answer \notin Causes
  BY CausesKinds DEF Result
<1> HIDE DEF ack, answer
<1>5. One(Request("Environment", id), Carriers) = 0
  BY CarrierOnes
<1>6. /\ Count(<<ack, answer>>, Causes) = 0 /\ Count(<<ack, answer>>, WakeCauses) = 0
      /\ Count(<<ack, answer>>, {CapsAccepted}) = 0
  BY <1>4, NoneCaused
<1>7. Silent(<<ack, answer>>)
  BY <1>3, SilentSeqs
<1> QED BY <1>1, <1>2, <1>5, <1>6, <1>7, AnsweredAside

LEMMA CapsTakenView ==
  ASSUME Types, Registration, Handshake, InView, DeviceConfigured PROVE InView'
<1> DEFINE sends == <<CapsAccepted>>
<1>1. /\ Answered(HostCaps, sends) /\ stage \in {"Identified", "Session"} /\ stage' = "Session"
      /\ UNCHANGED <<clientVars, devState, wakeFails>>
  BY CapsTaken
<1>2. /\ CapsAccepted \notin WakeCauses /\ CapsAccepted # SubscribeOk /\ CapsAccepted \in Causes
      /\ CapsAccepted \notin Telling
  BY CausesKinds, NotTelling DEF Causes, WakeCauses
<1>3. /\ Count(sends, WakeCauses) = 0 /\ Count(sends, {CapsAccepted}) = 1
      /\ Count(sends, {SubscribeOk}) = 0 /\ Count(sends, Causes) = 1
  BY <1>2, Ones DEF One
<1>4. Silent(sends)
  BY <1>2, SilentSeqs
<1> HIDE DEF sends
<1>5. OneWake'
  BY <1>1, <1>3, OneWakeAnswered DEF InView
<1>6. AwakeLeftAlone'
  <2>1. devState # "Recording"
    BY <1>1, NotRecording DEF InView
  <2> QED BY <1>1, <2>1, AwakeUnsubscribed DEF InView
<1>7. UNCHANGED <<phase, lastState>>
  BY <1>1 DEF clientVars, session
<1>8. InStep'
  <2>1. Count(sends, {CapsAccepted}) <= One(HostCaps, {HostCaps})
        /\ Count(sends, {SubscribeOk}) <= One(HostCaps, RequestsOf("Subscribe"))
    BY <1>3 DEF One
  <2> QED BY <1>1, <1>7, <2>1, InStepAnswered DEF InView
<1>9. Told'
  <2>1. wakeFails' \in Nat /\ wakeFails <= wakeFails'
    BY <1>1 DEF Types
  <2> QED BY <1>1, <1>3, <1>4, <1>7, <2>1, CarrierOnes, AnsweredTold DEF InView
<1> QED BY <1>5, <1>6, <1>8, <1>9 DEF InView

LEMMA SubscribeTakenView ==
  ASSUME Types, Registration, Handshake, InView, DeviceSubscribe PROVE InView'
<1> DEFINE sends == <<SubscribeOk>>
<1>1. PICK id \in 0 .. ReqIds - 1 : Answered(Request("Subscribe", id), sends)
  BY SubscribeTaken
<1> DEFINE frame == Request("Subscribe", id)
<1>2. /\ stage = "Session" /\ stage' = "Subscribed" /\ woken' = FALSE
      /\ UNCHANGED <<clientVars, devState, wakeFails>>
  BY SubscribeTaken
<1>3. /\ SubscribeOk \in WakeCauses /\ SubscribeOk # CapsAccepted /\ SubscribeOk # Configuration
      /\ SubscribeOk \in Causes /\ SubscribeOk \notin Telling /\ SubscribeOk \in SentFrames
  BY CausesKinds, NotTelling, SentOnes DEF Causes, WakeCauses
<1>4. /\ Count(sends, WakeCauses) = 1 /\ Count(sends, {CapsAccepted}) = 0
      /\ Count(sends, {Configuration}) = 0
      /\ Count(sends, {SubscribeOk}) = 1 /\ Count(sends, Causes) = 1
  BY <1>3, Ones DEF One
<1>5. Silent(sends) /\ sends \in Seq(InFrames)
  BY <1>3, SilentSeqs DEF InFrames
<1>6. /\ One(frame, {HostCaps}) = 0 /\ One(frame, RequestsOf("Subscribe")) = 1
      /\ One(frame, RequestsOf("Wake")) = 0 /\ One(frame, Carriers) = 1
  <2>1. One(frame, RequestsOf("Wake")) = 0 /\ One(frame, RequestsOf("Subscribe")) = 1
        /\ One(frame, {HostCaps}) = 0
    BY WrittenKinds
  <2> QED BY <2>1, CarrierOnes
<1>7. Answered(frame, sends)
  BY <1>1
<1> HIDE DEF sends, frame
<1>8. /\ Counted /\ Counted'
      /\ ConfigSteps' + One(frame, {HostCaps}) = ConfigSteps + Count(sends, {Configuration})
      /\ SubscribeSteps' + One(frame, RequestsOf("Subscribe"))
           = SubscribeSteps + Count(sends, {CapsAccepted})
      /\ WakeSteps' + One(frame, RequestsOf("Wake")) = WakeSteps + Count(sends, WakeCauses)
  BY <1>7, AnsweredSteps
<1>9. /\ ConfigSteps \in Nat /\ ConfigSteps' \in Nat /\ SubscribeSteps \in Nat
      /\ SubscribeSteps' \in Nat /\ WakeSteps \in Nat /\ WakeSteps' \in Nat
  BY <1>8 DEF Counted
<1>10. SubscribeSteps + ConfigSteps <= 1
  BY <1>8, AtMostOne
<1>11. SubscribeSteps' + 1 = SubscribeSteps + 0 /\ ConfigSteps' + 0 = ConfigSteps + 0
       /\ WakeSteps' + 0 = WakeSteps + 1
  BY <1>4, <1>6, <1>8, Zenon
<1>12. SubscribeSteps' = 0 /\ SubscribeSteps > 0 /\ ConfigSteps = 0 /\ ConfigSteps' = 0
  <2>1. \A a, b, c, d \in Nat : a + 1 = b + 0 /\ b + c <= 1 /\ d + 0 = c + 0 =>
          a = 0 /\ b > 0 /\ c = 0 /\ d = 0
    OBVIOUS
  <2> QED BY <1>9, <1>10, <1>11, <2>1, Zenon
<1>13. WakeSteps = 0
  BY <1>12 DEF InView, OneWake
<1>14. WakeSteps' <= 1
  <2>1. \A a \in Nat : a + 0 = 0 + 1 => a <= 1
    OBVIOUS
  <2> QED BY <1>9, <1>11, <1>13, <2>1, Zenon
<1>15. OneWake'
  <2>1. <<SubscribeOk>> \in Seq(InFrames) /\ Inbound' = Inbound \o <<SubscribeOk>>
        /\ Outbound # <<>> /\ Outbound' = Tail(Outbound)
    BY <1>5, <1>7 DEF Answered, sends
  <2> QED BY <1>3, <1>8, <1>12, <1>14, <2>1, OneWakeCaused DEF InView
<1>16. AwakeLeftAlone'
  <2>1. devState # "Recording"
    BY <1>2, NotRecording DEF InView
  <2>2. devState \in {"Standby", "Waiting", "Recording"}
    BY DEF InView, AwakeLeftAlone
  <2>3. ~ woken'
    BY <1>2
  <2>4. devState' # "Recording" /\ devState' \in {"Standby", "Waiting", "Recording"}
    BY <1>2, <2>1, <2>2
  <2> QED BY <2>3, <2>4, Zenon DEF AwakeLeftAlone
<1>17. UNCHANGED <<phase, lastState>>
  BY <1>2 DEF clientVars, session
<1>18. InStep'
  <2>1. Count(sends, {CapsAccepted}) <= One(frame, {HostCaps})
        /\ Count(sends, {SubscribeOk}) <= One(frame, RequestsOf("Subscribe"))
    BY <1>4, <1>6
  <2> QED BY <1>7, <1>17, <2>1, InStepAnswered DEF InView
<1>19. Told'
  <2>1. wakeFails' \in Nat /\ wakeFails <= wakeFails'
    BY <1>2 DEF Types
  <2>2. UNCHANGED <<lastState, devState, phase>>
    BY <1>2, <1>17
  <2>3. One(frame, Carriers) = Count(sends, Causes)
    BY <1>4, <1>6
  <2> QED BY <1>5, <1>7, <2>1, <2>2, <2>3, AnsweredTold DEF InView
<1> QED BY <1>15, <1>16, <1>18, <1>19 DEF InView

LEMMA PushedKinds ==
  ASSUME NEW frames, NEW f \in SentFrames, NEW g \in SentFrames, f \notin Causes, g \notin Causes,
         frames = <<g>> \/ frames = <<f, g>>
  PROVE  /\ frames \in Seq(InFrames) /\ frames # <<>> /\ frames[Len(frames)] = g
         /\ Count(frames, Causes) = 0 /\ Count(frames, WakeCauses) = 0
         /\ Count(frames, {CapsAccepted}) = 0 /\ Count(frames, {SubscribeOk}) = 0
<1>1. CASE frames = <<g>>
  <2>1. <<g>> \in Seq(InFrames) /\ <<g>> # <<>> /\ <<g>>[Len(<<g>>)] = g
    BY DEF InFrames
  <2> QED BY <1>1, <2>1, NoneCaused
<1>2. CASE frames = <<f, g>>
  <2>1. <<f, g>> \in Seq(InFrames) /\ <<f, g>> # <<>> /\ <<f, g>>[Len(<<f, g>>)] = g
    BY DEF InFrames
  <2> QED BY <1>2, <2>1, NoneCaused
<1> QED BY <1>1, <1>2

(* What the R10 answers to a wake command tells of the state it is in then, *)
(* unless it fails to wake.                                                 *)
LEMMA WakeAnswerTells ==
  ASSUME Types, NEW sends, WakeAnswered(sends), devState \in {"Standby", "Waiting"}
  PROVE  /\ sends \in Seq(InFrames) /\ devState' \in {"Standby", "Waiting"}
         /\ Count(sends, WakeCauses) = 0 /\ Count(sends, {CapsAccepted}) = 0
         /\ Count(sends, {SubscribeOk}) = 0
         /\ \/ sends # <<>> /\ sends[Len(sends)] \in StatesTold(devState')
            \/ Silent(sends) /\ devState' = devState /\ wakeFails' > 0
         /\ wakeFails' \in Nat /\ wakeFails <= wakeFails'
<1> DEFINE armed == StateChange("Waiting")
           done == WakeResult(0)
           already == WakeResult(1)
           failed == WakeResult(2)
<1>1. armed \notin Causes /\ done \notin Causes /\ already \notin Causes /\ failed \notin Causes
  BY CausesKinds DEF WakeResult
<1>2. armed \in SentFrames /\ done \in SentFrames /\ already \in SentFrames /\ failed \in SentFrames
  BY SentOnes DEF DeviceStates
<1>3. armed \in StatesTold("Waiting") /\ already \in StatesTold("Waiting") /\ failed \notin Telling
  BY ToldKinds, NotTelling
<1>4. wakeFails \in Nat
  BY DEF Types
<1>5. /\ \/ sends = <<done, armed>> /\ devState' = "Waiting" /\ wakeFails' = wakeFails
         \/ sends = <<already>> /\ devState' = "Waiting" /\ wakeFails' = wakeFails
         \/ sends = <<failed>> /\ devState' = devState /\ wakeFails' = wakeFails + 1
  BY DEF WakeAnswered
<1> HIDE DEF armed, done, already, failed
<1>6. /\ sends \in Seq(InFrames) /\ sends # <<>>
      /\ Count(sends, WakeCauses) = 0 /\ Count(sends, {CapsAccepted}) = 0
      /\ Count(sends, {SubscribeOk}) = 0
      /\ sends = <<done, armed>> => sends[Len(sends)] = armed
      /\ sends = <<already>> => sends[Len(sends)] = already
  <2>1. sends = <<done, armed>> \/ sends = <<already>> \/ sends = <<failed>>
    BY <1>5
  <2>2. CASE sends = <<done, armed>>
    <3>1. <<done, armed>> # <<already>>
      OBVIOUS
    <3> QED BY <1>1, <1>2, <2>2, <3>1, PushedKinds, Zenon
  <2>3. CASE sends = <<already>>
    <3>1. <<done, armed>> # <<already>>
      OBVIOUS
    <3> QED BY <1>1, <1>2, <2>3, <3>1, PushedKinds, Zenon
  <2>4. CASE sends = <<failed>>
    <3>1. /\ sends \in Seq(InFrames) /\ sends # <<>> /\ sends[Len(sends)] = failed
          /\ Count(sends, WakeCauses) = 0 /\ Count(sends, {CapsAccepted}) = 0
          /\ Count(sends, {SubscribeOk}) = 0
      BY <1>1, <1>2, <2>4, PushedKinds
    <3>2. <<done, armed>> # <<failed>> /\ (<<already>> = <<failed>> => already = failed)
      OBVIOUS
    <3> QED BY <2>4, <3>1, <3>2, Zenon
  <2> QED BY <2>1, <2>2, <2>3, <2>4
<1>7. wakeFails' \in Nat /\ wakeFails <= wakeFails' /\ (wakeFails' = wakeFails + 1 => wakeFails' > 0)
  BY <1>4, <1>5
<1>8. sends = <<failed>> => Silent(sends)
  BY <1>3, SilentSeqs
<1>9. devState' \in {"Standby", "Waiting"}
  BY <1>5
<1>10. \/ sends # <<>> /\ sends[Len(sends)] \in StatesTold(devState')
       \/ Silent(sends) /\ devState' = devState /\ wakeFails' > 0
  <2>1. CASE sends = <<done, armed>> /\ devState' = "Waiting"
    BY <1>3, <1>6, <2>1, Zenon
  <2>2. CASE sends = <<already>> /\ devState' = "Waiting"
    BY <1>3, <1>6, <2>2, Zenon
  <2>3. CASE sends = <<failed>> /\ devState' = devState /\ wakeFails' = wakeFails + 1
    BY <1>7, <1>8, <2>3, Zenon
  <2> QED BY <1>5, <2>1, <2>2, <2>3
<1> QED BY <1>6, <1>7, <1>9, <1>10

LEMMA WakeTakenView ==
  ASSUME Types, Registration, Handshake, InView, DeviceWake PROVE InView'
<1>1. PICK id \in 0 .. ReqIds - 1, sends \in Seq(SentFrames) :
        Answered(Request("Wake", id), sends) /\ WakeAnswered(sends)
  BY WakeTaken
<1> DEFINE frame == Request("Wake", id)
<1>2. UNCHANGED <<stage, phase, lastState>>
  BY WakeTaken DEF clientVars, session
<1>3. frame \in RequestsOf("Wake")
  BY DEF RequestsOf
<1>4. Answered(frame, sends)
  BY <1>1
<1> HIDE DEF frame
<1>5. WakeSteps > 0
  <2>1. Outbound \in Seq(OutFrames) /\ 1 \in DOMAIN Outbound /\ Outbound[1] = frame
    BY <1>4, Queues DEF Answered
  <2>2. Count(Outbound, RequestsOf("Wake")) > 0
    BY <1>3, <2>1, CountSome
  <2>3. Count(Inbound, WakeCauses) \in Nat /\ Count(Outbound, RequestsOf("Wake")) \in Nat
    BY UnderwayNat
  <2> QED BY <2>2, <2>3 DEF WakeSteps, Underway
<1>6. devState \in {"Standby", "Waiting"}
  <2>1. devState # "Recording"
    BY <1>5, NotRecording DEF InView
  <2> QED BY <2>1 DEF InView, AwakeLeftAlone
<1>7. /\ sends \in Seq(InFrames) /\ devState' \in {"Standby", "Waiting"}
      /\ Count(sends, WakeCauses) = 0 /\ Count(sends, {CapsAccepted}) = 0
      /\ Count(sends, {SubscribeOk}) = 0
      /\ \/ sends # <<>> /\ sends[Len(sends)] \in StatesTold(devState')
         \/ Silent(sends) /\ devState' = devState /\ wakeFails' > 0
      /\ wakeFails' \in Nat /\ wakeFails <= wakeFails'
  BY <1>1, <1>6, WakeAnswerTells
<1>8. OneWake' /\ WakeSteps' = 0
  BY <1>3, <1>4, <1>7, OneWakeAnswered DEF InView
<1>9. AwakeLeftAlone'
  <2>1. devState' # "Recording" /\ devState' \in {"Standby", "Waiting", "Recording"}
    BY <1>7
  <2> QED BY <1>8, <2>1, Zenon DEF AwakeLeftAlone
<1>10. InStep'
  <2>1. Count(sends, {CapsAccepted}) <= One(frame, {HostCaps})
        /\ Count(sends, {SubscribeOk}) <= One(frame, RequestsOf("Subscribe"))
    BY <1>7 DEF One
  <2> QED BY <1>2, <1>4, <2>1, InStepAnswered DEF InView
<1>11. Told'
  <2>1. CASE sends # <<>> /\ sends[Len(sends)] \in StatesTold(devState')
    <3>1. devState' \in DeviceStates
      BY <1>7 DEF DeviceStates
    <3> QED BY <1>4, <1>7, <2>1, <3>1, ToldAnew DEF Answered
  <2>2. CASE Silent(sends) /\ devState' = devState /\ wakeFails' > 0
    BY <1>2, <1>4, <1>7, <2>2, AnsweredTold DEF InView
  <2> QED BY <1>7, <2>1, <2>2
<1> QED BY <1>8, <1>9, <1>10, <1>11 DEF InView

LEMMA DeviceReplyView ==
  ASSUME Types, Registration, Handshake, View, DeviceReply PROVE View'
<1>1. faults' = faults
  BY RegisterTaken, EarlyIgnored, InfoTaken, AckTaken, CapsTaken, SubscribeTaken, WakeTaken,
     EnvironmentTaken DEF DeviceReply
<1> SUFFICES ASSUME InView PROVE InView'
  BY <1>1 DEF View
<1> QED BY RegisterTakenView, IgnoredView, InfoTakenView, AckTakenView, CapsTakenView,
           SubscribeTakenView, WakeTakenView, EnvironmentTakenView DEF DeviceReply

-----------------------------------------------------------------------------
(* What the R10 sends by itself. *)

(* Alerts of a new state that is no cause of a wake command. *)
LEMMA AlertedView ==
  ASSUME Types, Registration, InView, stage = "Subscribed", woken, devState # "Standby",
         NEW frames, Alerted(frames), NEW f \in SentFrames, f \notin Causes,
         devState' \in {"Waiting", "Recording"}, frames \in {<<StateChange(devState')>>, <<f, StateChange(devState')>>}
  PROVE  InView'
<1> DEFINE state == devState'
<1>1. /\ Pushed(frames) /\ UNCHANGED <<stage, woken, wakeFails, phase, lastState>>
  BY DEF Alerted, clientVars, session
<1>2. Inbound' = Inbound \o frames
  BY <1>1 DEF Pushed
<1>3. state \in DeviceStates /\ state # "Standby"
  BY DEF DeviceStates
<1>4. StateChange(state) \in SentFrames /\ StateChange(state) \notin Causes
      /\ StateChange(state) \in StatesTold(state)
  BY <1>3, SentOnes, CausesKinds, ToldKinds
<1>5. /\ frames \in Seq(InFrames) /\ frames # <<>> /\ frames[Len(frames)] = StateChange(state)
      /\ Count(frames, WakeCauses) = 0
      /\ Count(frames, {CapsAccepted}) = 0 /\ Count(frames, {SubscribeOk}) = 0
  BY <1>4, PushedKinds
<1>6. OneWake' /\ WakeSteps' = WakeSteps
  BY <1>1, <1>5, OneWakePushed DEF InView
<1>7. AwakeLeftAlone'
  <2>1. WakeSteps = 0
    BY Zenon DEF InView, AwakeLeftAlone
  <2>2. WakeSteps' = 0 /\ stage' = "Subscribed"
    BY <1>1, <1>6, <2>1
  <2>3. woken'
    BY <1>1, Zenon
  <2>4. devState' \in {"Standby", "Waiting", "Recording"}
    OBVIOUS
  <2> QED BY <2>2, <2>3, <2>4, Zenon DEF AwakeLeftAlone
<1>8. InStep'
  BY <1>1, <1>5, InStepPushed DEF InView
<1>9. Told'
  BY <1>2, <1>3, <1>4, <1>5, ToldAnew
<1> QED BY <1>6, <1>7, <1>8, <1>9 DEF InView

LEMMA SwingView ==
  ASSUME Types, Registration, Handshake, Calm, InView, Swing PROVE InView'
<1>1. /\ devState = "Waiting" /\ stage = "Subscribed" /\ devState' = "Recording"
      /\ Alerted(<<StateChange("Recording")>>)
  BY Swings
<1>2. woken
  BY Swings, Zenon DEF Calm
<1>3. PICK f : f \in SentFrames /\ f \notin Causes
  BY SentOnes, CausesKinds
<1>4. devState # "Standby" /\ devState' \in {"Waiting", "Recording"}
      /\ Alerted(<<StateChange(devState')>>)
  BY <1>1
<1> QED BY <1>1, <1>2, <1>3, <1>4, AlertedView

LEMMA MeasureView ==
  ASSUME Types, Registration, Handshake, InView, Measure PROVE InView'
<1>1. devState = "Recording" /\ devState' = "Waiting"
  BY Measures
<1>2. PICK id \in ShotIds : Alerted(<<Shot(id), StateChange("Waiting")>>)
  BY Measures
<1>3. stage = "Subscribed" /\ woken
  BY <1>1, Zenon DEF InView, AwakeLeftAlone
<1>4. Shot(id) \in SentFrames /\ Shot(id) \notin Causes
  BY ShotKinds
<1>5. devState # "Standby" /\ devState' \in {"Waiting", "Recording"}
      /\ Alerted(<<Shot(id), StateChange(devState')>>)
  BY <1>1, <1>2
<1> QED BY <1>3, <1>4, <1>5, AlertedView

LEMMA FallAsleepView ==
  ASSUME Types, Registration, Handshake, Calm, InView, FallAsleep PROVE InView'
<1> DEFINE cause == StateChange("Standby")
           frames == <<cause>>
<1>1. /\ devState = "Waiting" /\ stage = "Subscribed" /\ devState' = "Standby" /\ Alerted(frames)
  BY FallsAsleep
<1>2. woken
  BY FallsAsleep, Zenon DEF Calm
<1>3. /\ Pushed(frames) /\ UNCHANGED <<stage, woken, wakeFails, phase, lastState>>
  BY <1>1 DEF Alerted, clientVars, session
<1>4. /\ cause \in WakeCauses /\ cause \notin {Configuration} /\ cause \notin {CapsAccepted}
      /\ cause \notin {SubscribeOk} /\ cause \in SentFrames /\ cause \in StatesTold("Standby")
  BY CausesKinds, SentOnes, ToldKinds
     DEF WakeCauses, StateChange, SubscribeOk, Result, DeviceStates
<1> HIDE DEF cause
<1>5. /\ frames \in Seq(InFrames) /\ frames # <<>> /\ frames[Len(frames)] = cause
  BY <1>4 DEF InFrames
<1>6. /\ Count(frames, WakeCauses) = 1 /\ Count(frames, {Configuration}) = 0
      /\ Count(frames, {CapsAccepted}) = 0 /\ Count(frames, {SubscribeOk}) = 0
  BY <1>4, Ones DEF One
<1> HIDE DEF frames
<1>7. /\ Counted /\ Counted'
      /\ ConfigSteps' = ConfigSteps + Count(frames, {Configuration})
      /\ SubscribeSteps' = SubscribeSteps + Count(frames, {CapsAccepted})
      /\ WakeSteps' = WakeSteps + Count(frames, WakeCauses)
  BY <1>3, PushedSteps
<1>8. ConfigSteps = 0 /\ SubscribeSteps = 0
  BY <1>1, <1>7, HandshakeOf DEF Types
<1>9. WakeSteps = 0
  <2>1. devState # "Standby"
    BY <1>1
  <2> QED BY <1>1, <1>2, <2>1, Zenon DEF InView, AwakeLeftAlone
<1>10. ConfigSteps' = 0 /\ SubscribeSteps' = 0 /\ WakeSteps' <= 1
  <2>1. ConfigSteps' = 0 + 0 /\ SubscribeSteps' = 0 + 0 /\ WakeSteps' = 0 + 1
    BY <1>6, <1>7, <1>8, <1>9, Zenon
  <2> QED BY <2>1
<1>11. Outbound' = Outbound /\ Inbound' = Inbound \o frames
  BY <1>3 DEF Pushed
<1>12. OneWake'
  BY <1>4, <1>5, <1>7, <1>8, <1>10, <1>11, OneWakeCaused DEF InView, frames
<1>13. AwakeLeftAlone'
  BY <1>1 DEF AwakeLeftAlone
<1>14. InStep'
  BY <1>3, <1>6, InStepPushed DEF InView
<1>15. Told'
  <2>1. devState' \in DeviceStates
    BY <1>1 DEF DeviceStates
  <2> QED BY <1>1, <1>4, <1>5, <1>11, <2>1, ToldAnew
<1> QED BY <1>12, <1>13, <1>14, <1>15 DEF InView

LEMMA ReplayView ==
  ASSUME Types, Registration, Handshake, InView, ReplayShot PROVE InView'
<1>1. PICK id \in ShotIds : Alerted(<<Shot(id)>>) /\ devState' = devState
  BY Replays
<1> DEFINE frames == <<Shot(id)>>
<1>2. Shot(id) \in SentFrames /\ Shot(id) \notin Causes /\ Shot(id) \notin Telling
  BY ShotKinds, NotTelling
<1>3. /\ Pushed(frames) /\ UNCHANGED <<stage, devState, woken, wakeFails, phase, lastState>>
  BY <1>1 DEF Alerted, clientVars, session
<1>4. /\ frames \in Seq(InFrames) /\ Count(frames, Causes) = 0 /\ Count(frames, WakeCauses) = 0
      /\ Count(frames, {CapsAccepted}) = 0 /\ Count(frames, {SubscribeOk}) = 0 /\ Silent(frames)
  BY <1>2, PushedKinds, SilentSeqs
<1> HIDE DEF frames
<1>5. Inbound' = Inbound \o frames
  BY <1>3 DEF Pushed
<1>6. OneWake' /\ WakeSteps' = WakeSteps
  BY <1>3, <1>4, OneWakePushed DEF InView
<1>7. AwakeLeftAlone'
  BY <1>3, <1>6, Zenon DEF InView, AwakeLeftAlone
<1>8. InStep'
  BY <1>3, <1>4, InStepPushed DEF InView
<1>9. Told'
  <2>1. Chain \in Nat /\ Chain' \in Nat /\ Chain' = Chain + Count(frames, Causes)
    BY <1>3, PushedCount DEF Chain
  <2>2. Chain <= Chain'
    <3>1. \A a \in Nat : a <= a + 0
      OBVIOUS
    <3> QED BY <1>4, <2>1, <3>1, Zenon
  <2>3. wakeFails' \in Nat /\ wakeFails <= wakeFails'
    BY <1>3 DEF Types
  <2> QED BY <1>3, <1>4, <1>5, <2>1, <2>2, <2>3, ToldSent DEF InView
<1> QED BY <1>6, <1>7, <1>8, <1>9 DEF InView

LEMMA RestartView ==
  ASSUME Types, Registration, Handshake, InView, Restart PROVE InView'
<1> DEFINE frames == <<Configuration>>
<1>1. /\ Pushed(frames) /\ stage' = "Session" /\ devState # "Recording"
      /\ UNCHANGED <<clientVars, devState, wakeFails>>
  BY Restarts
<1>2. UNCHANGED <<phase, lastState>>
  BY <1>1 DEF clientVars, session
<1>3. /\ Configuration \notin WakeCauses /\ Configuration # CapsAccepted
      /\ Configuration # SubscribeOk /\ Configuration \in Causes
      /\ Configuration \notin Telling /\ Configuration \in SentFrames
  BY CausesKinds, NotTelling, SentOnes DEF Causes, WakeCauses
<1>4. /\ frames \in Seq(InFrames) /\ Count(frames, Causes) = 1 /\ Count(frames, WakeCauses) = 0
      /\ Count(frames, {CapsAccepted}) = 0 /\ Count(frames, {SubscribeOk}) = 0 /\ Silent(frames)
  BY <1>3, Ones, SilentSeqs DEF One, InFrames
<1> HIDE DEF frames
<1>5. Inbound' = Inbound \o frames
  BY <1>1 DEF Pushed
<1>6. OneWake'
  BY <1>1, <1>4, OneWakePushed DEF InView
<1>7. AwakeLeftAlone'
  BY <1>1, AwakeUnsubscribed DEF InView
<1>8. InStep'
  BY <1>1, <1>2, <1>4, InStepPushed DEF InView
<1>9. Told'
  <2>1. Chain \in Nat /\ Chain' \in Nat /\ Chain' = Chain + Count(frames, Causes)
    BY <1>1, PushedCount DEF Chain
  <2>2. Chain <= Chain'
    <3>1. \A a \in Nat : a <= a + 1
      OBVIOUS
    <3> QED BY <1>4, <2>1, <3>1, Zenon
  <2>3. wakeFails' \in Nat /\ wakeFails <= wakeFails'
    BY <1>1 DEF Types
  <2> QED BY <1>1, <1>2, <1>4, <1>5, <2>1, <2>2, <2>3, ToldSent DEF InView
<1> QED BY <1>6, <1>7, <1>8, <1>9 DEF InView

-----------------------------------------------------------------------------
(* The session keeps the view, and at rest it is the R10's state. *)

LEMMA StepView ==
  ASSUME Calm, Types, Registration, Handshake, View, [SessionNext]_sessionVars PROVE View'
<1>1. CASE ClientStep
  BY <1>1, ClientView
<1>2. CASE AskEnvironment
  BY <1>2, AskView
<1>3. CASE DeviceReply
  BY <1>3, DeviceReplyView
<1>4. CASE Swing \/ Measure \/ FallAsleep \/ ReplayShot \/ Restart
  <2>1. faults' = faults
    BY <1>4, Swings, Measures, FallsAsleep, Replays, Restarts DEF Alerted
  <2> SUFFICES ASSUME InView PROVE InView'
    BY <2>1 DEF View
  <2> QED BY <1>4, SwingView, MeasureView, FallAsleepView, ReplayView, RestartView
<1>5. CASE UNCHANGED sessionVars
  <2>1. Rests /\ UNCHANGED <<faults, stage, devState, woken, wakeFails, phase, lastState>>
    BY <1>5, StutterKeeps DEF sessionVars, vars, clientVars, session, device
  <2> QED BY <2>1, ViewRests DEF View
<1> QED BY <1>1, <1>2, <1>3, <1>4, <1>5 DEF SessionNext

LEMMA BeginsInView ==
  ASSUME Calm, SessionInit PROVE InView
<1>1. /\ Types /\ Registration /\ Inbound = <<>> /\ Outbound = <<>>
      /\ phase = "Registering" /\ lastState = None /\ devState \in {"Standby", "Waiting"}
  BY Begins DEF SessionInit, Init, Calm
<1>2. 0 + 0 = 0 /\ \A S : Count(<<>>, S) = 0
  BY Ones
<1>3. WakeSteps = 0 /\ SubscribeSteps = 0 /\ Accepts = 0 /\ Subscribes = 0
  BY <1>1, <1>2 DEF WakeSteps, SubscribeSteps, Accepts, Subscribes, Underway
<1>4. OneWake
  <2>1. <<>> \in Seq(InFrames)
    OBVIOUS
  <2>2. \A P, Q : Behind(<<>>, P, Q)
    BY <1>2, <2>1, BehindNone
  <2> QED BY <1>1, <1>2, <1>3, <2>2 DEF OneWake
<1>5. AwakeLeftAlone
  <2>1. devState # "Recording" /\ devState \in {"Standby", "Waiting", "Recording"}
    BY <1>1
  <2> QED BY <1>3, <2>1, Zenon DEF AwakeLeftAlone
<1>6. InStep
  BY <1>3 DEF InStep
<1>7. Told
  <2>1. Silent(Inbound)
    BY <1>1, SilentSeqs
  <2> QED BY <1>1, <2>1 DEF Told
<1> QED BY <1>4, <1>5, <1>6, <1>7 DEF InView

LEMMA SeenAtRest ==
  ASSUME Types, Registration, InView PROVE ViewAtRest
<1> SUFFICES ASSUME Quiet PROVE lastState = devState \/ (lastState = None /\ wakeFails > 0)
  BY DEF ViewAtRest
<1>1. Inbound = <<>> /\ Outbound = <<>> /\ phase = "Active"
  <2>1. <<>> \o <<>> = <<>>
    OBVIOUS
  <2> QED BY <2>1, FramesOfItems DEF Quiet, Inbound, Outbound
<1>2. Chain = 0 + 0
  BY <1>1, CountNone DEF Chain, Underway
<1>3. ~ LastTells(Inbound, devState)
  BY <1>1 DEF LastTells
<1> QED BY <1>1, <1>2, <1>3 DEF InView, Told

(* The application's picture of the R10 is right whenever nothing is in     *)
(* flight and no write has failed, through wake replies, repeated alerts,   *)
(* re-arming and sessions begun anew (handle_protobuf).  Of the R10 it is   *)
(* assumed that it was not already taking a shot when the session started   *)
(* and takes none before it is told to wake; without that the client is not *)
(* told of every state and the picture may be wrong.                        *)
THEOREM ViewIsRight ==
  ASSUME Calm PROVE SessionSpec => [](faults = 0 => ViewAtRest)
<1> DEFINE IInv == Types /\ Registration /\ Handshake /\ View
<1>1. SessionInit => IInv
  BY Begins, BeginsInView DEF View
<1>2. IInv /\ [SessionNext]_sessionVars => IInv'
  BY StepKeeps, StepView
<1>3. IInv => (faults = 0 => ViewAtRest)
  BY SeenAtRest DEF View
<1> HIDE DEF IInv
<1> QED BY <1>1, <1>2, <1>3, PTL DEF SessionSpec
===============================================================================
