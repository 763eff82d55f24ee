--------------------------- MODULE R10Client_proofs ---------------------------
(***************************************************************************)
(* Proofs about R10Client for a device that may notify anything, any       *)
(* number of failing writes, any window and any bounds.                    *)
(***************************************************************************)
EXTENDS R10Client, SequenceTheorems, TLAPS

(* Every shot returned within the last Window seconds is remembered. *)
Recalled ==
  \A i \in DOMAIN reported :
    now - reported[i].at < Window => reported[i] \in recentShots

(* NoRepeatInWindow is not inductive: that a shot is new speaks of what the *)
(* client remembers, not of what it has returned.                           *)
IInv == TypeOK /\ Recalled /\ NoRepeatInWindow /\ SwallowedWasReported

-----------------------------------------------------------------------------
(* What can be known of a frame from its type.                              *)
LEMMA FrameKinds ==
  ASSUME NEW item \in Notified
  PROVE  /\ item.frame.type = "RegisterResponse" => item.frame.handle \in Handles
         /\ AsData(item.frame) \in DeviceFrames
<1>1. CASE item \in [handle : (0..255) \ Handles, frame : Responses]
  <2>1. item.frame \in Responses
    BY <1>1
  <2>2. item.frame.type = "RegisterResponse" /\ item.frame.handle \in Handles
    BY <2>1 DEF Responses
  <2>3. Corrupt \in DeviceFrames
    BY DEF Corrupt, DeviceFrames
  <2> QED BY <2>2, <2>3 DEF AsData
<1>2. CASE item \in [handle : 0..255, frame : DeviceFrames]
  <2>1. item.frame \in DeviceFrames
    BY <1>2
  <2>2. item.frame.type # "RegisterResponse"
    BY <2>1 DEF DeviceFrames, Requests, FitTypes
  <2> QED BY <2>1, <2>2 DEF AsData
<1> QED BY <1>1, <1>2 DEF Notified

LEMMA ReportFields ==
  ASSUME NEW frame \in DeviceFrames, frame.type \in Requests
  PROVE  /\ frame.body = "StateChange" => frame.state \in DeviceStates
         /\ frame.body = "Shot" => frame.id \in ShotIds
BY DEF DeviceFrames, Requests, FitTypes

(* What poll() leaves unread and what it buffers are notifications and      *)
(* frames again.                                                            *)
LEMMA ReadTypes ==
  ASSUME TypeOK, NEW k \in Nat, Readable(k)
  PROVE  Unread(k) \in Seq(Notified) /\ Buffered(k) \in Seq(DeviceFrames)
<1> DEFINE items == SubSeq(rx, 1, k)
<1>1. rx \in Seq(Notified) /\ streamBuf \in Seq(DeviceFrames) /\ k <= Len(rx) /\ Len(rx) \in Nat
  BY LenProperties DEF TypeOK, Readable
<1>2. Unread(k) \in Seq(Notified)
  BY <1>1, SubSeqProperties DEF Unread
<1>3. items \in Seq(Notified)
  BY <1>1, SubSeqProperties
<1>4. StripHandle(items) \in Seq(DeviceFrames)
  <2>1. CASE StripHandle(items) = <<>>
    BY <2>1, EmptySeq
  <2>2. CASE StripHandle(items) = Frames(items)
    <3>1. DOMAIN items = 1 .. Len(items) /\ Len(items) \in Nat
      BY <1>3, LenProperties
    <3>2. \A i \in 1 .. Len(items) : AsData(items[i].frame) \in DeviceFrames
      BY <1>3, ElementOfSeq, FrameKinds
    <3>3. Frames(items) \in [1 .. Len(items) -> DeviceFrames]
      BY <3>1, <3>2 DEF Frames
    <3> QED BY <2>2, <3>1, <3>3, SeqDef
  <2> QED BY <2>1, <2>2 DEF StripHandle
<1>5. Buffered(k) \in Seq(DeviceFrames)
  BY <1>1, <1>4, ConcatProperties DEF Buffered
<1> QED BY <1>2, <1>5

LEMMA FrameTypes ==
  ASSUME TypeOK, NEW k \in Nat, NextFrame(k)
  PROVE  /\ rx' \in Seq(Notified) /\ streamBuf' \in Seq(DeviceFrames)
         /\ Current(k) \in DeviceFrames
         /\ handle' = handle /\ now' = now
<1>1. Buffered(k) \in Seq(DeviceFrames) /\ Unread(k) \in Seq(Notified)
  BY ReadTypes DEF NextFrame
<1>2. Tail(Buffered(k)) \in Seq(DeviceFrames) /\ Head(Buffered(k)) \in DeviceFrames
  BY <1>1, HeadTailProperties DEF NextFrame
<1> QED BY <1>1, <1>2 DEF NextFrame, Current

LEMMA WriteTypes ==
  ASSUME TypeOK, NEW frames, WriteAll(frames) \/ WriteFails(frames)
  PROVE  faults' \in 0 .. MaxWriteFaults /\ (faults' = 0 => faults = 0)
BY ClientAssumption DEF TypeOK, WriteAll, WriteFails

LEMMA ReqIdTypes ==
  ASSUME TypeOK, NextReqId
  PROVE  reqId' \in 0 .. ReqIds - 1
<1>1. reqId \in Nat /\ ReqIds \in Nat \ {0}
  BY ClientAssumption DEF TypeOK
<1>2. \A n \in Nat : n % ReqIds \in 0 .. ReqIds - 1
  BY <1>1
<1> QED BY <1>1, <1>2 DEF NextReqId

-----------------------------------------------------------------------------
(* The steps that neither report nor remember a shot need only keep types.  *)
LEMMA HistoryKept ==
  ASSUME IInv, TypeOK', UNCHANGED <<recentShots, reported>>, now <= now', faults' = 0 => faults = 0
  PROVE  IInv'
<1>1. reported \in Seq(Shots) /\ now \in Nat /\ now' \in Nat /\ Window \in Nat
  BY ClientAssumption DEF IInv, TypeOK
<1>2. ASSUME NEW i \in DOMAIN reported PROVE reported[i].at \in Nat
  <2>1. reported[i] \in Shots
    BY <1>1, LenProperties, ElementOfSeq
  <2> QED BY <2>1 DEF Shots
<1>3. ASSUME NEW i \in DOMAIN reported, now' - reported[i].at < Window
      PROVE  reported[i] \in recentShots
  <2>1. reported[i].at \in Nat
    BY <1>2
  <2>2. now - reported[i].at < Window
    BY <1>1, <1>3, <2>1
  <2> QED BY <2>2 DEF IInv, Recalled
<1>4. NoRepeatInWindow' /\ SwallowedWasReported'
  BY DEF IInv, NoRepeatInWindow, SwallowedWasReported
<1> QED BY <1>3, <1>4 DEF IInv, Recalled

(* A dispatched frame that does neither. *)
LEMMA DispatchKept ==
  ASSUME IInv, NEW k \in Nat, NextFrame(k), UNCHANGED <<recentShots, reported>>,
         \/ UNCHANGED faults
         \/ \E frames : WriteAll(frames) \/ WriteFails(frames),
         phase' \in Phases, reqId' \in 0 .. ReqIds - 1,
         lastState' \in DeviceStates \cup {None}, pendingEvent' \in {None, "Ready"}
  PROVE  IInv'
<1>1. TypeOK /\ faults \in Nat /\ now \in Nat
  BY ClientAssumption DEF IInv, TypeOK
<1>2. faults' \in 0 .. MaxWriteFaults /\ (faults' = 0 => faults = 0)
  BY <1>1, WriteTypes DEF TypeOK
<1>3. TypeOK' /\ now' = now
  BY <1>1, <1>2, FrameTypes DEF TypeOK
<1> QED BY <1>1, <1>2, <1>3, HistoryKept

LEMMA InitIInv == Init => IInv
<1> SUFFICES ASSUME Init PROVE IInv
  OBVIOUS
<1>1. 1 % ReqIds \in 0 .. ReqIds - 1
  BY ClientAssumption
<1>2. TypeOK
  BY <1>1, ClientAssumption, EmptySeq DEF Init, TypeOK, Phases, None
<1>3. Recalled /\ NoRepeatInWindow /\ SwallowedWasReported
  BY DEF Init, Recalled, NoRepeatInWindow, SwallowedWasReported
<1> QED BY <1>2, <1>3 DEF IInv

LEMMA HandlersKeepIInv ==
  ASSUME IInv, NEW k \in Nat,
         \/ HandleCorrupt(k) \/ HandleOther(k) \/ HandleFit(k)
         \/ HandleDeviceInfo(k) \/ HandleConfiguration(k) \/ HandleAck(k)
  PROVE  IInv'
<1>1. TypeOK /\ phase \in Phases /\ reqId \in 0 .. ReqIds - 1
      /\ lastState \in DeviceStates \cup {None} /\ pendingEvent \in {None, "Ready"}
  BY DEF IInv, TypeOK
<1>2. CASE HandleCorrupt(k) \/ HandleOther(k)
  BY <1>1, <1>2, DispatchKept DEF HandleCorrupt, HandleOther
<1>3. CASE HandleFit(k)
  BY <1>1, <1>3, DispatchKept DEF HandleFit
<1>4. CASE HandleDeviceInfo(k)
  BY <1>1, <1>4, DispatchKept DEF HandleDeviceInfo, Phases
<1>5. CASE HandleConfiguration(k)
  BY <1>1, <1>5, DispatchKept DEF HandleConfiguration, Phases
<1>6. CASE HandleAck(k)
  <2>1. CASE UNCHANGED <<phase, reqId, tx, faults>>
    BY <1>1, <1>6, <2>1, DispatchKept DEF HandleAck
  <2>2. CASE phase' = "Subscribing" /\ NextReqId
    <3>1. phase' \in Phases /\ reqId' \in 0 .. ReqIds - 1
      BY <1>1, <2>2, ReqIdTypes DEF Phases
    <3>2. NextFrame(k) /\ UNCHANGED <<recentShots, reported, lastState, pendingEvent>>
      BY <1>6 DEF HandleAck
    <3>3. UNCHANGED faults \/ \E frames : WriteAll(frames) \/ WriteFails(frames)
      BY <1>6 DEF HandleAck
    <3> QED BY <1>1, <3>1, <3>2, <3>3, DispatchKept
  <2> QED BY <1>6, <2>1, <2>2 DEF HandleAck
<1> QED BY <1>2, <1>3, <1>4, <1>5, <1>6

LEMMA ProtobufKeepsIInv ==
  ASSUME IInv, NEW k \in Nat,
         \/ HandleMalformed(k) \/ HandleSubscribeResult(k) \/ HandleWakeResult(k)
         \/ HandleStateChange(k) \/ HandleReport(k)
  PROVE  IInv'
<1>1. TypeOK /\ phase \in Phases /\ reqId \in 0 .. ReqIds - 1
      /\ lastState \in DeviceStates \cup {None} /\ pendingEvent \in {None, "Ready"}
  BY DEF IInv, TypeOK
<1>2. CASE HandleMalformed(k)
  BY <1>1, <1>2, DispatchKept DEF HandleMalformed, Protobuf
<1>3. CASE HandleSubscribeResult(k)
  <2>1. NextFrame(k) /\ UNCHANGED <<recentShots, reported, lastState, pendingEvent>>
    BY <1>3 DEF HandleSubscribeResult, Protobuf
  <2>2. \E frames : WriteAll(frames) \/ WriteFails(frames)
    BY <1>3 DEF HandleSubscribeResult, AckAndReturn
  <2>3. phase' \in Phases /\ reqId' \in 0 .. ReqIds - 1
    BY <1>1, <1>3, ReqIdTypes DEF HandleSubscribeResult, Phases
  <2> QED BY <1>1, <2>1, <2>2, <2>3, DispatchKept
<1>4. CASE HandleWakeResult(k)
  <2>1. NextFrame(k) /\ UNCHANGED <<recentShots, reported, reqId>>
    BY <1>4 DEF HandleWakeResult, Protobuf
  <2>2. \E frames : WriteAll(frames) \/ WriteFails(frames)
    BY <1>4 DEF HandleWakeResult, AckAndReturn
  <2>3. phase' \in Phases /\ lastState' \in DeviceStates \cup {None}
        /\ pendingEvent' \in {None, "Ready"}
    BY <1>1, <1>4 DEF HandleWakeResult, WokenState, Phases, DeviceStates
  <2> QED BY <1>1, <2>1, <2>2, <2>3, DispatchKept
<1>5. CASE HandleStateChange(k)
  <2>1. NextFrame(k) /\ UNCHANGED <<recentShots, reported, phase, pendingEvent>>
    BY <1>5 DEF HandleStateChange, Protobuf
  <2>2. \E frames : WriteAll(frames) \/ WriteFails(frames)
    BY <1>5 DEF HandleStateChange, AckAndReturn
  <2>3. lastState' \in DeviceStates
    BY <1>1, <1>5, <2>1, FrameTypes, ReportFields DEF HandleStateChange, Protobuf
  <2>4. reqId' \in 0 .. ReqIds - 1
    BY <1>1, <1>5, ReqIdTypes DEF HandleStateChange
  <2> QED BY <1>1, <2>1, <2>2, <2>3, <2>4, DispatchKept
<1>6. CASE HandleReport(k)
  BY <1>1, <1>6, DispatchKept DEF HandleReport, AckAndReturn
<1> QED BY <1>2, <1>3, <1>4, <1>5, <1>6

-----------------------------------------------------------------------------
(* A shot that is not remembered was returned at least Window seconds ago,  *)
(* if it was returned at all.                                               *)
LEMMA NewShotKeepsIInv ==
  ASSUME IInv, NEW k \in Nat, HandleNewShot(k) PROVE IInv'
<1> DEFINE shot == [id |-> Current(k).id, at |-> now]
           ack == <<Ack(Current(k).type)>>
<1>1. TypeOK /\ NextFrame(k) /\ reported \in Seq(Shots) /\ now \in Nat /\ Window \in Nat
  BY ClientAssumption DEF IInv, TypeOK, HandleNewShot, Protobuf
<1>2. now' = now
  BY <1>1 DEF NextFrame
<1>3. shot \in Shots
  BY <1>1, FrameTypes, ReportFields DEF HandleNewShot, Protobuf, Shots
<1>4. /\ \A old \in Retained : old.id # shot.id
      /\ recentShots' = Retained \cup {shot}
  BY DEF HandleNewShot
<1>5. /\ \/ WriteAll(ack) /\ reported' = Append(reported, shot)
         \/ WriteFails(ack) /\ UNCHANGED reported
      /\ UNCHANGED <<phase, reqId, lastState, pendingEvent>>
  BY DEF HandleNewShot
<1> HIDE DEF shot, ack
<1>6. /\ Append(reported, shot) \in Seq(Shots)
      /\ DOMAIN reported = 1 .. Len(reported) /\ Len(reported) \in Nat
      /\ DOMAIN Append(reported, shot) = 1 .. Len(reported) + 1
      /\ \A i \in 1 .. Len(reported) : Append(reported, shot)[i] = reported[i]
      /\ Append(reported, shot)[Len(reported) + 1] = shot
      /\ \A i \in 1 .. Len(reported) : reported[i] \in Shots
  BY <1>1, <1>3, AppendProperties, LenProperties, ElementOfSeq
<1>7. TypeOK'
  <2>1. reported' \in Seq(Shots) /\ recentShots' \subseteq Shots
    BY <1>1, <1>3, <1>4, <1>5, <1>6 DEF Retained, TypeOK
  <2>2. faults' \in 0 .. MaxWriteFaults
    BY <1>1, <1>5, WriteTypes
  <2> QED BY <1>1, <1>2, <1>5, <2>1, <2>2, FrameTypes DEF TypeOK
<1>8. shot.at = now
  BY DEF shot
<1>9. \A i \in 1 .. Len(reported) : now - reported[i].at < Window => reported[i] \in Retained
  BY <1>6 DEF IInv, Recalled, Retained, Remembered
<1>10. Recalled'
  BY <1>2, <1>4, <1>5, <1>6, <1>9 DEF Recalled
<1>11. ASSUME NEW i \in 1 .. Len(reported), reported[i].id = shot.id
       PROVE  now - reported[i].at >= Window
  <2>1. ~(now - reported[i].at < Window)
    BY <1>4, <1>9, <1>11
  <2>2. reported[i].at \in Nat
    BY <1>6 DEF Shots
  <2> QED BY <1>1, <2>1, <2>2
<1>12. NoRepeatInWindow'
  <2>1. CASE UNCHANGED reported
    BY <2>1 DEF IInv, NoRepeatInWindow
  <2>2. CASE reported' = Append(reported, shot)
    <3> SUFFICES ASSUME NEW i \in DOMAIN reported', NEW j \in DOMAIN reported',
                        i < j, reported'[i].id = reported'[j].id
                 PROVE  reported'[j].at - reported'[i].at >= Window
      BY DEF NoRepeatInWindow
    <3>1. i \in 1 .. Len(reported) /\ reported'[i] = reported[i]
      BY <1>6, <2>2
    <3>2. CASE j \in 1 .. Len(reported)
      BY <1>6, <2>2, <3>1, <3>2 DEF IInv, NoRepeatInWindow
    <3>3. CASE j = Len(reported) + 1
      BY <1>6, <1>8, <1>11, <2>2, <3>1, <3>3
    <3> QED BY <1>6, <2>2, <3>2, <3>3
  <2> QED BY <1>5, <2>1, <2>2
<1>13. SwallowedWasReported'
  <2>1. CASE WriteFails(ack)
    BY <1>7, <2>1, ClientAssumption DEF WriteFails, SwallowedWasReported, IInv, TypeOK
  <2>2. CASE WriteAll(ack) /\ reported' = Append(reported, shot)
    <3> SUFFICES ASSUME faults = 0, NEW s \in recentShots'
                 PROVE  \E i \in DOMAIN reported' : reported'[i] = s
      BY <2>2 DEF SwallowedWasReported, WriteAll
    <3>1. CASE s = shot
      BY <1>6, <2>2, <3>1
    <3>2. CASE s \in recentShots
      BY <1>6, <2>2, <3>2 DEF IInv, SwallowedWasReported
    <3> QED BY <1>4, <3>1, <3>2 DEF Retained
  <2> QED BY <1>5, <2>1, <2>2
<1> QED BY <1>7, <1>10, <1>12, <1>13 DEF IInv

(* A repeat is remembered with the time of the first. *)
LEMMA RepeatKeepsIInv ==
  ASSUME IInv, NEW k \in Nat, HandleRepeatedShot(k) PROVE IInv'
<1>1. TypeOK /\ NextFrame(k) /\ recentShots' = Retained
      /\ UNCHANGED <<phase, reqId, lastState, pendingEvent, reported>>
  BY DEF IInv, HandleRepeatedShot, Protobuf, AfterRepeat
<1>2. \E frames : WriteAll(frames) \/ WriteFails(frames)
  BY DEF HandleRepeatedShot, AckAndReturn
<1>3. faults' \in 0 .. MaxWriteFaults /\ (faults' = 0 => faults = 0)
  BY <1>1, <1>2, WriteTypes
<1>4. TypeOK' /\ now' = now
  BY <1>1, <1>3, FrameTypes DEF TypeOK, Retained
<1>5. Recalled'
  BY <1>1, <1>4 DEF IInv, Recalled, Retained, Remembered
<1>6. NoRepeatInWindow' /\ SwallowedWasReported'
  BY <1>1, <1>3 DEF IInv, NoRepeatInWindow, SwallowedWasReported, Retained
<1> QED BY <1>4, <1>5, <1>6 DEF IInv

-----------------------------------------------------------------------------
LEMMA PollKeepsIInv == IInv /\ Poll => IInv'
<1> SUFFICES ASSUME IInv, Poll PROVE IInv'
  OBVIOUS
<1>1. TypeOK /\ now \in Nat /\ MaxChunkFrames \in Nat
  BY ClientAssumption DEF IInv, TypeOK
<1>2. CASE PollPending
  <2>1. TypeOK' /\ now <= now' /\ faults' = faults /\ UNCHANGED <<recentShots, reported>>
    BY <1>1, <1>2 DEF PollPending, TypeOK, None
  <2> QED BY <2>1, HistoryKept
<1>3. CASE PollRegister
  <2>1. Unread(1) \in Seq(Notified) /\ Buffered(1) \in Seq(DeviceFrames)
    BY <1>1, <1>3, ReadTypes DEF PollRegister
  <2>2. Head(rx) \in Notified
    BY <1>1, <1>3, HeadTailProperties, EmptySeq DEF PollRegister, Readable, TypeOK
  <2>3. handle' \in Handles \cup {0} /\ phase' \in Phases
    BY <1>1, <1>3, <2>2, FrameKinds DEF PollRegister, TypeOK, Phases
  <2>4. TypeOK' /\ now <= now' /\ faults' = faults /\ UNCHANGED <<recentShots, reported>>
    BY <1>1, <1>3, <2>1, <2>3 DEF PollRegister, TypeOK
  <2> QED BY <2>4, HistoryKept
<1>4. ASSUME NEW k \in 0 .. MaxChunkFrames, PollIdle(k) PROVE IInv'
  <2>1. Unread(k) \in Seq(Notified)
    BY <1>1, <1>4, ReadTypes DEF PollIdle
  <2>2. TypeOK' /\ now <= now' /\ faults' = faults /\ UNCHANGED <<recentShots, reported>>
    BY <1>1, <1>4, <2>1 DEF PollIdle, TypeOK, session
  <2> QED BY <2>2, HistoryKept
<1>5. ASSUME NEW k \in 0 .. MaxChunkFrames, Dispatch(k) PROVE IInv'
  <2>1. k \in Nat
    BY <1>1
  <2> QED BY <1>5, <2>1, HandlersKeepIInv, ProtobufKeepsIInv, NewShotKeepsIInv, RepeatKeepsIInv
          DEF Dispatch
<1> QED BY <1>2, <1>3, <1>4, <1>5 DEF Poll

LEMMA StepIInv == IInv /\ [Next]_vars => IInv'
<1> SUFFICES ASSUME IInv, [Next]_vars PROVE IInv'
  OBVIOUS
<1> USE DEF clientVars, session
<1>1. TypeOK /\ now \in Nat /\ rx \in Seq(Notified)
  BY DEF IInv, TypeOK
<1>2. CASE UNCHANGED vars
  BY <1>1, <1>2, HistoryKept DEF vars, TypeOK
<1>3. CASE Start
  BY <1>1, <1>3, HistoryKept DEF Start, TypeOK, Phases
<1>4. CASE SendEnvironment
  <2>1. reqId' \in 0 .. ReqIds - 1
    BY <1>1, <1>4, ReqIdTypes DEF SendEnvironment
  <2>2. faults' \in 0 .. MaxWriteFaults /\ (faults' = 0 => faults = 0)
    BY <1>1, <1>4, WriteTypes DEF SendEnvironment
  <2>3. TypeOK' /\ now <= now' /\ UNCHANGED <<recentShots, reported>>
    BY <1>1, <1>4, <2>1, <2>2 DEF SendEnvironment, TypeOK
  <2> QED BY <2>2, <2>3, HistoryKept
<1>5. CASE Tick
  BY <1>1, <1>5, HistoryKept DEF Tick, TypeOK
<1>6. CASE Notify
  <2>1. rx' \in Seq(Notified)
    BY <1>1, <1>6, AppendProperties, InputsAssumption DEF Notify
  <2> QED BY <1>1, <1>6, <2>1, HistoryKept DEF Notify, TypeOK
<1>7. CASE Take
  BY <1>1, <1>7, HistoryKept DEF Take, TypeOK
<1> QED BY <1>2, <1>3, <1>4, <1>5, <1>6, <1>7, PollKeepsIInv DEF Next

(* The fields of Client hold what their types allow, the frames they are    *)
(* computed from being anything a device may notify.                        *)
THEOREM TypeCorrect == Spec => []TypeOK
<1>1. IInv => TypeOK
  BY DEF IInv
<1> QED BY <1>1, InitIInv, StepIInv, PTL DEF Spec

(* No shot is returned twice within SHOT_DEDUP_WINDOW_SECS, whatever the    *)
(* device sends and whichever writes fail (handle_protobuf, Shot arm).      *)
THEOREM NeverRepeated == Spec => []NoRepeatInWindow
<1>1. IInv => NoRepeatInWindow
  BY DEF IInv
<1> QED BY <1>1, InitIInv, StepIInv, PTL DEF Spec

(* While no write has failed, a shot swallowed as a duplicate is one that   *)
(* was returned at the time it is remembered with.                          *)
THEOREM NeverSwallowedUnreported == Spec => []SwallowedWasReported
<1>1. IInv => SwallowedWasReported
  BY DEF IInv
<1> QED BY <1>1, InitIInv, StepIInv, PTL DEF Spec
=============================================================================
