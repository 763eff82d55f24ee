------------------------------ MODULE R10Client ------------------------------
(***************************************************************************)
(* The polled R10 client of src/src/client.rs, one action per poll()       *)
(* outcome, with the two directions of the Transport it is given:          *)
(* `rx` holds the frames the device has notified and poll() has not read,  *)
(* `tx` the frames the client has written and the device has not taken.    *)
(*                                                                         *)
(* A frame stands for the bytes of one COBS frame; a chunk is the run of   *)
(* 0..MaxChunkFrames frames that one notification completes.  How bytes    *)
(* become frames is the subject of module StreamBuffer.                    *)
(***************************************************************************)
EXTENDS Naturals, Sequences

CONSTANTS
  ShotIds,          \* the u32 shot numbers the device uses
  Handles,          \* MultiLink handles the device assigns
  Window,           \* SHOT_DEDUP_WINDOW_SECS
  ReqIds,           \* request ids wrap modulo this (2^16 in the code)
  MaxChunkFrames,   \* most frames one notification completes
  Inputs,           \* what an arbitrary device may notify: [handle, frame]
  MaxWriteFaults,   \* bound on failing transport writes
  MaxRx, MaxTx,     \* bounds on the frames in each direction, undispatched and untaken
  MaxNow            \* bound on the clock

ASSUME ClientAssumption ==
  /\ Window \in Nat \ {0}
  /\ ReqIds \in Nat \ {0}
  /\ MaxChunkFrames \in Nat
  /\ MaxWriteFaults \in Nat
  /\ MaxRx \in Nat /\ MaxTx \in Nat
  /\ MaxNow \in Nat
  /\ Handles \subseteq 1..255

VARIABLES
  phase, handle, streamBuf, reqId, recentShots, lastState, pendingEvent,
  result,      \* what the last poll() or start() returned
  rx, tx,      \* the transport, device to client and client to device
  now,         \* Instant::now(), in seconds
  faults,      \* writes that have failed
  reported     \* history: every Event::Shot returned, in order, with its time

session == <<phase, handle, streamBuf, reqId, recentShots, lastState, pendingEvent>>
clientVars == <<session, result, reported>>
vars == <<clientVars, rx, tx, now, faults>>

Phases == {"Registering", "WaitDeviceInfo", "WaitCapabilities",
           "WaitCapabilitiesAck", "Subscribing", "WakingUp", "Active"}
DeviceStates == {"Standby", "NoiseCheck", "Waiting", "Recording", "Processing", "Error"}
None == "None"

-----------------------------------------------------------------------------
(* Frames from the device.  Each record is one GfdiFrame together with what *)
(* parsing its payload yields; "Corrupt" is a frame next_frame rejects.     *)

Requests == {"ProtobufRequest", "ProtobufResponse"}
FitTypes == {"FitDefinition", "FitData"}

Statuses == {"Success", "InvalidServiceId", "PendingAuth", "AlreadyInUse", "Rejected"}

Responses == [type : {"RegisterResponse"}, status : Statuses, handle : Handles]

DeviceFrames ==
       [type : {"DeviceInfo"}, short : BOOLEAN]
  \cup [type : {"Configuration", "Corrupt", "Other"} \cup FitTypes]
  \cup [type : {"Ack"}, of : {"Configuration", "ProtobufRequest"}, status : 0..5]
  \cup [type : Requests, body : {"SubscribeResult", "EnvironmentResult"}, success : BOOLEAN]
  \cup [type : Requests, body : {"WakeResult"}, status : 0..2]
  \cup [type : Requests, body : {"StateChange"}, state : DeviceStates]
  \cup [type : Requests, body : {"Shot"}, id : ShotIds]
  \cup [type : Requests, body : {"Error", "Unknown", "Malformed"}]

(* A register response is known by its second byte, so part of a frame under *)
(* an earlier session's handle may be taken for one.                         *)
Notified ==
       [handle : (0..255) \ Handles, frame : Responses]
  \cup [handle : 0..255, frame : DeviceFrames]

ASSUME InputsAssumption == Inputs \subseteq Notified

RegisterResponse(status, h) == [type |-> "RegisterResponse", status |-> status, handle |-> h]
DeviceInfo(short)  == [type |-> "DeviceInfo", short |-> short]
Configuration      == [type |-> "Configuration"]
AckOf(of, status)  == [type |-> "Ack", of |-> of, status |-> status]
Fit(type)          == [type |-> type]
Result(body, ok)   == [type |-> "ProtobufResponse", body |-> body, success |-> ok]
WakeResult(status) == [type |-> "ProtobufResponse", body |-> "WakeResult", status |-> status]
Report(body)       == [type |-> "ProtobufRequest", body |-> body]
StateChange(state) == [type |-> "ProtobufRequest", body |-> "StateChange", state |-> state]
Shot(id)           == [type |-> "ProtobufRequest", body |-> "Shot", id |-> id]
Corrupt            == [type |-> "Corrupt"]
OtherFrame         == [type |-> "Other"]

(* Frames the client writes. *)
Register    == [type |-> "Register"]
Ack(of)     == [type |-> "Ack", of |-> of]
HostCaps    == [type |-> "Configuration"]
Request(body, id) == [type |-> "ProtobufRequest", body |-> body, id |-> id]

(* What a poll returns. *)
Event(name)   == [event |-> name]
Nothing       == Event("Nothing")
Failed(error) == [event |-> "Err", error |-> error]

-----------------------------------------------------------------------------
Init ==
  /\ phase = "Registering"
  /\ handle = 0
  /\ streamBuf = <<>>
  /\ reqId = 1 % ReqIds
  /\ recentShots = {}
  /\ lastState = None
  /\ pendingEvent = None
  /\ result = Event("New")
  /\ rx = <<>>
  /\ tx = <<>>
  /\ now = 0
  /\ faults = 0
  /\ reported = <<>>

(* start(): send REGISTER.  The callers leave when it fails, so a failure   *)
(* has no successor state here.                                             *)
Start ==
  /\ result.event = "New"
  /\ tx' = Append(tx, [handle |-> 0, frame |-> Register])
  /\ phase' = "Registering"
  /\ result' = Nothing
  /\ UNCHANGED <<handle, streamBuf, reqId, recentShots, lastState, pendingEvent,
                 rx, now, faults, reported>>

(* poll() first hands out an event queued by the previous frame. *)
PollPending ==
  /\ pendingEvent # None
  /\ result' = Event(pendingEvent)
  /\ pendingEvent' = None
  /\ UNCHANGED <<phase, handle, streamBuf, reqId, recentShots, lastState,
                 rx, tx, now, faults, reported>>

(* Otherwise it reads at most one chunk: k frames of one handle. *)
Readable(k) ==
  /\ result.event # "New"
  /\ pendingEvent = None
  /\ k <= Len(rx)
  /\ \A i \in 1..k : rx[i].handle = rx[1].handle

(* The bytes of a register response buffered under handle 0 hold no frame    *)
(* with a valid CRC.                                                         *)
AsData(frame) == IF frame.type = "RegisterResponse" THEN Corrupt ELSE frame

Frames(items) == [i \in DOMAIN items |-> AsData(items[i].frame)]

StripHandle(items) ==
  IF items # <<>> /\ items[1].handle = handle THEN Frames(items) ELSE <<>>

Unread(k) == SubSeq(rx, k + 1, Len(rx))
Buffered(k) == streamBuf \o StripHandle(SubSeq(rx, 1, k))

(* While registering, the chunk is taken for the register response and the *)
(* poll ends there.  Any other chunk is stripped of handle 0, so the data  *)
(* of a session is lost here.                                              *)
PollRegister ==
  /\ phase = "Registering"
  /\ Readable(1)
  /\ rx' = Unread(1)
  /\ LET response == Head(rx).frame IN
     \/ /\ response.type = "RegisterResponse"
        /\ response.status = "Success"
        /\ handle' = response.handle
        /\ phase' = "WaitDeviceInfo"
        /\ result' = [event |-> "Registered", handle |-> response.handle]
     \/ /\ response.type = "RegisterResponse"
        /\ response.status # "Success"
        /\ result' = Failed("MultiLinkRegister")
        /\ UNCHANGED <<handle, phase>>
     \/ /\ response.type # "RegisterResponse"
        /\ result' = Nothing
        /\ UNCHANGED <<handle, phase>>
  /\ streamBuf' = IF Head(rx).frame.type = "RegisterResponse" THEN streamBuf ELSE Buffered(1)
  /\ UNCHANGED <<reqId, recentShots, lastState, pendingEvent,
                 tx, now, faults, reported>>

(* No complete frame buffered after the read. *)
PollIdle(k) ==
  /\ Readable(k)
  /\ phase = "Registering" => k = 0
  /\ Buffered(k) = <<>>
  /\ rx' = Unread(k)
  /\ result' = Nothing
  /\ UNCHANGED <<session, tx, now, faults, reported>>

(* The frame this poll dispatches: the oldest one buffered after the read. *)
Current(k) == Head(Buffered(k))

NextFrame(k) ==
  /\ Readable(k)
  /\ phase = "Registering" => k = 0
  /\ Buffered(k) # <<>>
  /\ rx' = Unread(k)
  /\ streamBuf' = Tail(Buffered(k))
  /\ UNCHANGED <<handle, now>>

(* Transport writes, each under the current handle.  send_frame stops at   *)
(* the first one that fails.                                                *)
Written(frames) == tx \o [i \in DOMAIN frames |-> [handle |-> handle, frame |-> frames[i]]]

WriteAll(frames) == tx' = Written(frames) /\ UNCHANGED faults

WriteFails(frames) ==
  /\ faults < MaxWriteFaults
  /\ faults' = faults + 1
  /\ \E n \in 0 .. Len(frames) - 1 : tx' = Written(SubSeq(frames, 1, n))
  /\ result' = Failed("Transport")

(* Mutant: the counter does not wrap. *)
NextReqIdUnwrapped == reqId' = reqId + 1

NextReqId == reqId' = (reqId + 1) % ReqIds
SendsRequest(body) == Request(body, reqId)

-----------------------------------------------------------------------------
(* dispatch_frame: frames that need no session state. *)

HandleCorrupt(k) ==
  /\ NextFrame(k)
  /\ Current(k).type = "Corrupt"
  /\ result' = Failed("Frame")
  /\ UNCHANGED <<phase, reqId, recentShots, lastState, pendingEvent, tx, faults, reported>>

HandleOther(k) ==
  /\ NextFrame(k)
  /\ Current(k).type = "Other"
  /\ result' = Nothing
  /\ UNCHANGED <<phase, reqId, recentShots, lastState, pendingEvent, tx, faults, reported>>

HandleFit(k) ==
  /\ NextFrame(k)
  /\ Current(k).type \in FitTypes
  /\ LET ack == <<Ack(Current(k).type)>> IN
     \/ WriteAll(ack) /\ result' = Nothing
     \/ WriteFails(ack)
  /\ UNCHANGED <<phase, reqId, recentShots, lastState, pendingEvent, reported>>

(* handle_device_info: the phase moves only after the reply was written. *)
HandleDeviceInfo(k) ==
  /\ NextFrame(k)
  /\ Current(k).type = "DeviceInfo"
  /\ \/ /\ Current(k).short
        /\ result' = Failed("Frame")
        /\ UNCHANGED <<phase, tx, faults>>
     \/ /\ ~Current(k).short
        /\ WriteAll(<<Ack("DeviceInfo")>>)
        /\ phase' = "WaitCapabilities"
        /\ result' = Nothing
     \/ /\ ~Current(k).short
        /\ WriteFails(<<Ack("DeviceInfo")>>)
        /\ UNCHANGED phase
  /\ UNCHANGED <<reqId, recentShots, lastState, pendingEvent, reported>>

HandleConfiguration(k) ==
  /\ NextFrame(k)
  /\ Current(k).type = "Configuration"
  /\ LET replies == <<Ack("Configuration"), HostCaps>> IN
     \/ /\ WriteAll(replies)
        /\ phase' = "WaitCapabilitiesAck"
        /\ result' = Nothing
     \/ WriteFails(replies) /\ UNCHANGED phase
  /\ UNCHANGED <<reqId, recentShots, lastState, pendingEvent, reported>>

(* Mutant: any ACK ends the handshake. *)
EndsHandshakeEarly(frame) == phase \in {"WaitCapabilities", "WaitCapabilitiesAck"}

(* Mutant: the ACK is expected one message too soon. *)
EndsHandshakeTooSoon(frame) == frame.of = "Configuration" /\ phase = "WaitCapabilities"

EndsHandshake(frame) == frame.of = "Configuration" /\ phase = "WaitCapabilitiesAck"

(* handle_ack: here the phase moves before the subscribe request is sent. *)
HandleAck(k) ==
  /\ NextFrame(k)
  /\ Current(k).type = "Ack"
  /\ LET ack == Current(k) IN
     \/ /\ ack.status # 0
        /\ result' = Failed("Nak")
        /\ UNCHANGED <<phase, reqId, tx, faults>>
     \/ /\ ack.status = 0
        /\ ~EndsHandshake(ack)
        /\ result' = Nothing
        /\ UNCHANGED <<phase, reqId, tx, faults>>
     \/ /\ ack.status = 0
        /\ EndsHandshake(ack)
        /\ phase' = "Subscribing"
        /\ NextReqId
        /\ \/ WriteAll(<<SendsRequest("Subscribe")>>) /\ result' = Event("HandshakeComplete")
           \/ WriteFails(<<SendsRequest("Subscribe")>>)
  /\ UNCHANGED <<recentShots, lastState, pendingEvent, reported>>

-----------------------------------------------------------------------------
(* handle_protobuf and the ACK dispatch_frame writes after it. *)

Protobuf(k, body) ==
  /\ NextFrame(k)
  /\ Current(k).type \in Requests
  /\ Current(k).body = body

(* Mutant: an ACK is written only when there is an event to return. *)
AckOnlyEvents(k, requests, event) ==
  LET frames == IF event = Nothing THEN requests ELSE Append(requests, Ack(Current(k).type)) IN
  \/ WriteAll(frames) /\ result' = event
  \/ WriteFails(frames)

(* The poll's outcome when the handler writes `requests`, then the ACK, and *)
(* returns `event`.                                                         *)
AckAndReturn(k, requests, event) ==
  LET frames == Append(requests, Ack(Current(k).type)) IN
  \/ WriteAll(frames) /\ result' = event
  \/ WriteFails(frames)

(* A payload that does not decode ends the poll before the ACK. *)
HandleMalformed(k) ==
  /\ Protobuf(k, "Malformed")
  /\ result' = Failed("Decode")
  /\ UNCHANGED <<phase, reqId, recentShots, lastState, pendingEvent, tx, faults, reported>>

HandleSubscribeResult(k) ==
  /\ Protobuf(k, "SubscribeResult")
  /\ LET event == [event |-> "Subscribed", success |-> Current(k).success] IN
     \/ /\ phase = "Subscribing"
        /\ phase' = "WakingUp"
        /\ NextReqId
        /\ AckAndReturn(k, <<SendsRequest("Wake")>>, event)
     \/ /\ phase # "Subscribing"
        /\ AckAndReturn(k, <<>>, event)
        /\ UNCHANGED <<phase, reqId>>
  /\ UNCHANGED <<recentShots, lastState, pendingEvent, reported>>

(* Mutant: an already-armed device is not recorded as waiting. *)
WokenStateForgotten(status) == lastState

WokenState(status) == IF status = 1 THEN "Waiting" ELSE lastState

(* Mutant: only the first wake command is reported on. *)
WakeEventOnce(status) ==
  IF phase = "WakingUp" THEN [event |-> "WakeResult", status |-> status] ELSE Nothing

WakeEvent(status) == [event |-> "WakeResult", status |-> status]

HandleWakeResult(k) ==
  /\ Protobuf(k, "WakeResult")
  /\ LET status == Current(k).status IN
     /\ phase' = IF phase = "WakingUp" THEN "Active" ELSE phase
     /\ lastState' = WokenState(status)
     /\ pendingEvent' = IF status = 1 THEN "Ready" ELSE None
     /\ AckAndReturn(k, <<>>, WakeEvent(status))
  /\ UNCHANGED <<reqId, recentShots, reported>>

(* Mutant: a device that falls asleep is not woken again. *)
NoRearm(state) == FALSE

Rearms(state) == state = "Standby" /\ phase = "Active"

HandleStateChange(k) ==
  /\ Protobuf(k, "StateChange")
  /\ LET state == Current(k).state IN
     /\ lastState' = state
     /\ \/ /\ state = lastState
           /\ AckAndReturn(k, <<>>, Nothing)
           /\ UNCHANGED reqId
        \/ /\ state # lastState
           /\ state = "Waiting"
           /\ AckAndReturn(k, <<>>, Event("Ready"))
           /\ UNCHANGED reqId
        \/ /\ state # lastState
           /\ Rearms(state)
           /\ NextReqId
           /\ AckAndReturn(k, <<SendsRequest("Wake")>>, [event |-> "StateChange", state |-> state])
        \/ /\ state # lastState
           /\ state # "Waiting"
           /\ ~Rearms(state)
           /\ AckAndReturn(k, <<>>, [event |-> "StateChange", state |-> state])
           /\ UNCHANGED reqId
  /\ UNCHANGED <<phase, recentShots, pendingEvent, reported>>

(* Mutant: shots are forgotten one second early. *)
RememberedTooShort(shot) == now - shot.at + 1 < Window

Remembered(shot) == now - shot.at < Window
Retained == {shot \in recentShots : Remembered(shot)}

(* The shot is remembered before the ACK is written; it is returned, and so *)
(* enters the history, only when that write succeeds.                       *)
HandleNewShot(k) ==
  /\ Protobuf(k, "Shot")
  /\ LET shot == [id |-> Current(k).id, at |-> now] IN
     /\ \A old \in Retained : old.id # shot.id
     /\ recentShots' = Retained \cup {shot}
     /\ \/ /\ WriteAll(<<Ack(Current(k).type)>>)
           /\ result' = [event |-> "Shot", id |-> shot.id]
           /\ reported' = Append(reported, shot)
        \/ WriteFails(<<Ack(Current(k).type)>>) /\ UNCHANGED reported
  /\ UNCHANGED <<phase, reqId, lastState, pendingEvent>>

(* Mutant: a replay starts the window again. *)
AfterRepeatRefreshed(id) == {shot \in Retained : shot.id # id} \cup {[id |-> id, at |-> now]}

AfterRepeat(id) == Retained

HandleRepeatedShot(k) ==
  /\ Protobuf(k, "Shot")
  /\ \E old \in Retained : old.id = Current(k).id
  /\ recentShots' = AfterRepeat(Current(k).id)
  /\ AckAndReturn(k, <<>>, Nothing)
  /\ UNCHANGED <<phase, reqId, lastState, pendingEvent, reported>>

(* Mutant: the environment result is swallowed. *)
ReportEventSilent(frame) == IF frame.body = "Error" THEN Event("DeviceError") ELSE Nothing

(* "Unknown" stands for LevelCheck and MonitorReply too. *)
ReportEvent(frame) ==
  CASE frame.body = "EnvironmentResult" ->
         [event |-> "EnvironmentResult", success |-> frame.success]
    [] frame.body = "Error" -> Event("DeviceError")
    [] frame.body = "Unknown" -> Nothing

HandleReport(k) ==
  /\ NextFrame(k)
  /\ Current(k).type \in Requests
  /\ Current(k).body \in {"EnvironmentResult", "Error", "Unknown"}
  /\ AckAndReturn(k, <<>>, ReportEvent(Current(k)))
  /\ UNCHANGED <<phase, reqId, recentShots, lastState, pendingEvent, reported>>

(* send_environment(), called by the application between polls. *)
SendEnvironment ==
  /\ result.event # "New"
  /\ Len(tx) < MaxTx
  /\ NextReqId
  /\ \/ WriteAll(<<SendsRequest("Environment")>>) /\ UNCHANGED result
     \/ WriteFails(<<SendsRequest("Environment")>>)
  /\ UNCHANGED <<phase, handle, streamBuf, recentShots, lastState, pendingEvent,
                 rx, now, reported>>

Tick ==
  /\ now < MaxNow
  /\ now' = now + 1
  /\ UNCHANGED <<clientVars, rx, tx, faults>>

Dispatch(k) ==
  \/ HandleCorrupt(k) \/ HandleOther(k) \/ HandleFit(k)
  \/ HandleDeviceInfo(k) \/ HandleConfiguration(k) \/ HandleAck(k)
  \/ HandleMalformed(k) \/ HandleSubscribeResult(k) \/ HandleWakeResult(k)
  \/ HandleStateChange(k) \/ HandleNewShot(k) \/ HandleRepeatedShot(k)
  \/ HandleReport(k)

Poll ==
  \/ PollPending
  \/ PollRegister
  \/ \E k \in 0..MaxChunkFrames : PollIdle(k) \/ Dispatch(k)

-----------------------------------------------------------------------------
(* The client against a device that may notify anything at any time. *)

Notify ==
  /\ Len(rx) + Len(streamBuf) < MaxRx
  /\ Len(tx) <= MaxTx
  /\ \E item \in Inputs : rx' = Append(rx, item)
  /\ UNCHANGED <<clientVars, tx, now, faults>>

Take ==
  /\ tx # <<>>
  /\ tx' = Tail(tx)
  /\ UNCHANGED <<clientVars, rx, now, faults>>

Next == Start \/ Poll \/ SendEnvironment \/ Tick \/ Notify \/ Take

Spec == Init /\ [][Next]_vars

-----------------------------------------------------------------------------
(* The variables range over what the struct's fields can hold. *)
Shots == [id : ShotIds, at : Nat]

TypeOK ==
  /\ phase \in Phases
  /\ handle \in Handles \cup {0}
  /\ streamBuf \in Seq(DeviceFrames)
  /\ reqId \in 0 .. ReqIds - 1
  /\ recentShots \subseteq Shots
  /\ lastState \in DeviceStates \cup {None}
  /\ pendingEvent \in {None, "Ready"}
  /\ rx \in Seq(Notified)
  /\ now \in Nat
  /\ faults \in 0 .. MaxWriteFaults
  /\ reported \in Seq(Shots)

(* Two reports of one shot id are at least Window seconds apart: a replay   *)
(* inside the window never reaches the application, whatever else arrives   *)
(* between the two (handle_protobuf, Shot arm).                             *)
NoRepeatInWindow ==
  \A i, j \in DOMAIN reported :
    i < j /\ reported[i].id = reported[j].id
      => reported[j].at - reported[i].at >= Window

(* A shot the client swallows as a "duplicate retransmit" is one it has     *)
(* returned: as long as no write has failed, every entry of recent_shots is *)
(* a shot reported, at the very time it is remembered with, so that sending *)
(* a shot again does not prolong its window (handle_protobuf, Shot arm).    *)
SwallowedWasReported ==
  faults = 0 => \A shot \in recentShots : \E i \in DOMAIN reported : reported[i] = shot

=============================================================================
