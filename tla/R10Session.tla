------------------------------ MODULE R10Session ------------------------------
(***************************************************************************)
(* One connection from REGISTER on: the client of R10Client with an R10.   *)
(* The R10 is external; it behaves as the client's code and the sequence   *)
(* charts of src/docs/SEQUENCE.md expect.  It answers each message it      *)
(* takes, pushes alerts once subscribed, and sends a shot again while an   *)
(* ACK is outstanding.  A session is short: the clock does not move in it. *)
(***************************************************************************)
EXTENDS R10Client

CONSTANTS
  SessionHandle,   \* the handle this session is given
  AttachStates,    \* states the R10 may be in when the session starts
  EarlySwing,      \* a ball may be hit before the wake command is answered
  EnvPhases,       \* phases in which the application sends an environment
  MaxTroubles      \* bound on how often the R10 falls asleep, sends a shot
                   \*   again, fails to wake or begins the session anew

ASSUME SessionAssumption ==
  /\ SessionHandle \in Handles
  /\ AttachStates \subseteq DeviceStates
  /\ EarlySwing \in BOOLEAN
  /\ EnvPhases \subseteq Phases
  /\ MaxTroubles \in Nat

VARIABLES
  stage,       \* the R10's half of the handshake
  devState,    \* its state machine
  woken,       \* it has carried out a wake command of this subscription
  unacked,     \* protobuf frames sent whose ACK has not come
  fired,       \* the shots measured
  troubles,    \* how many of its troubles it has had
  wakeFails,   \* and of these, wake commands it has failed to carry out
  asked        \* history: the application's environment update, "No" until
               \* sent, "TooEarly" or "Asked" until its result was returned

device == <<stage, devState, woken, unacked, fired, troubles, wakeFails>>
sessionVars == <<vars, device, asked>>

SessionInit ==
  /\ Init
  /\ stage = "Off"
  /\ devState \in AttachStates
  /\ woken = FALSE
  /\ unacked = <<>>
  /\ fired = <<>>
  /\ troubles = 0
  /\ wakeFails = 0
  /\ asked = "No"

-----------------------------------------------------------------------------
(* The R10 sends frames under the session's handle; a protobuf frame is     *)
(* owed an ACK.                                                             *)
Under(frames) == [i \in DOMAIN frames |-> [handle |-> SessionHandle, frame |-> frames[i]]]
Sends(frames) == rx' = rx \o Under(frames)
SendsOwed(frames) == Sends(frames) /\ unacked' = unacked \o frames

(* It takes the oldest write, if that is addressed to it. *)
Takes(frame) ==
  /\ tx # <<>>
  /\ Head(tx) = [handle |-> SessionHandle, frame |-> frame]
  /\ tx' = Tail(tx)
  /\ UNCHANGED <<clientVars, now, faults, asked, fired>>

TakesRequest(body) ==
  /\ \E id \in 0 .. ReqIds - 1 : Takes(Request(body, id))
  /\ stage # "Off"

Trouble == troubles < MaxTroubles /\ troubles' = troubles + 1

(* REGISTER is answered, and the device information pushed, at once. *)
DeviceRegister ==
  /\ tx # <<>>
  /\ Head(tx).frame = Register
  /\ tx' = Tail(tx)
  /\ rx' = Append(rx, [handle |-> 0, frame |-> RegisterResponse("Success", SessionHandle)])
             \o Under(<<DeviceInfo(FALSE)>>)
  /\ stage' = "Registered"
  /\ UNCHANGED <<clientVars, now, faults, asked, devState, woken, unacked, fired, troubles, wakeFails>>

(* A write under a handle the R10 did not assign reaches no service. *)
DeviceIgnores ==
  /\ tx # <<>>
  /\ Head(tx).frame # Register
  /\ Head(tx).handle # SessionHandle
  /\ tx' = Tail(tx)
  /\ UNCHANGED <<clientVars, rx, now, faults, asked, device>>

DeviceInfoAcked ==
  /\ Takes(Ack("DeviceInfo"))
  /\ stage' = "Identified"
  /\ \E fit \in {<<>>, <<Fit("FitDefinition"), Fit("FitData")>>} :
       Sends(Append(fit, Configuration))
  /\ UNCHANGED <<devState, woken, unacked, troubles, wakeFails>>

DeviceAcked ==
  /\ \/ /\ \E type \in FitTypes \cup {"Configuration"} : Takes(Ack(type))
        /\ UNCHANGED unacked
     \/ /\ \E type \in Requests : Takes(Ack(type))
        /\ unacked' = IF unacked = <<>> THEN <<>> ELSE Tail(unacked)
  /\ UNCHANGED <<rx, stage, devState, woken, troubles, wakeFails>>

DeviceConfigured ==
  /\ Takes(HostCaps)
  /\ stage' = "Session"
  /\ Sends(<<AckOf("Configuration", 0)>>)
  /\ UNCHANGED <<devState, woken, unacked, troubles, wakeFails>>

DeviceSubscribe ==
  /\ TakesRequest("Subscribe")
  /\ SendsOwed(<<Result("SubscribeResult", TRUE)>>)
  /\ stage' = "Subscribed"
  /\ woken' = FALSE
  /\ UNCHANGED <<devState, troubles, wakeFails>>

(* An R10 that is not asleep answers ALREADY_ACTIVE, with no transition;    *)
(* one that is may fail to wake.                                            *)
DeviceWake ==
  /\ TakesRequest("Wake")
  /\ \/ /\ devState = "Standby"
        /\ devState' = "Waiting"
        /\ SendsOwed(<<WakeResult(0), StateChange("Waiting")>>)
        /\ woken' = TRUE
        /\ UNCHANGED <<troubles, wakeFails>>
     \/ /\ devState # "Standby"
        /\ SendsOwed(<<WakeResult(1)>>)
        /\ woken' = TRUE
        /\ UNCHANGED <<devState, troubles, wakeFails>>
     \/ /\ devState = "Standby"
        /\ Trouble
        /\ wakeFails' = wakeFails + 1
        /\ SendsOwed(<<WakeResult(2)>>)
        /\ UNCHANGED <<devState, woken>>
  /\ UNCHANGED stage

(* Other requests are ACKed and answered in any stage. *)
DeviceEnvironment ==
  /\ TakesRequest("Environment")
  /\ rx' = rx \o Under(<<AckOf("ProtobufRequest", 0), Result("EnvironmentResult", TRUE)>>)
  /\ unacked' = Append(unacked, Result("EnvironmentResult", TRUE))
  /\ UNCHANGED <<stage, devState, woken, troubles, wakeFails>>

(* Its state machine runs by itself and is reported to a subscriber.  No    *)
(* more than MaxRx frames are on their way when something new happens.      *)
CaughtUp == Len(rx) + Len(streamBuf) <= MaxRx

Monitors == stage = "Subscribed" /\ (woken \/ EarlySwing)

Alerts(frames) ==
  /\ CaughtUp
  /\ SendsOwed(frames)
  /\ UNCHANGED <<clientVars, tx, now, faults, asked, stage, woken, wakeFails>>

Swing ==
  /\ Monitors
  /\ devState = "Waiting"
  /\ devState' = "Recording"
  /\ Alerts(<<StateChange("Recording")>>)
  /\ UNCHANGED <<fired, troubles>>

Measure ==
  /\ Monitors
  /\ devState = "Recording"
  /\ devState' = "Waiting"
  /\ \E id \in ShotIds :
       /\ \A i \in DOMAIN fired : fired[i] # id
       /\ fired' = Append(fired, id)
       /\ Alerts(<<Shot(id), StateChange("Waiting")>>)
  /\ UNCHANGED troubles

FallAsleep ==
  /\ Monitors
  /\ devState = "Waiting"
  /\ Trouble
  /\ devState' = "Standby"
  /\ Alerts(<<StateChange("Standby")>>)
  /\ UNCHANGED fired

ReplayShot ==
  /\ CaughtUp
  /\ Trouble
  /\ \E i \in DOMAIN unacked :
       /\ unacked[i].body = "Shot"
       /\ SendsOwed(<<unacked[i]>>)
  /\ UNCHANGED <<clientVars, tx, now, faults, asked, stage, devState, woken, fired, wakeFails>>

(* It begins the session anew between two shots: it sends its configuration *)
(* again and pushes no alert until subscribed to once more.                 *)
Restart ==
  /\ stage = "Subscribed"
  /\ devState # "Recording"
  /\ CaughtUp
  /\ Trouble
  /\ stage' = "Session"
  /\ Sends(<<Configuration>>)
  /\ UNCHANGED <<clientVars, tx, now, faults, asked, devState, woken, unacked, fired, wakeFails>>

-----------------------------------------------------------------------------
ClientStep ==
  /\ Start \/ Poll
  /\ asked' = IF result'.event = "EnvironmentResult" THEN "Answered" ELSE asked
  /\ UNCHANGED device

AskEnvironment ==
  /\ asked = "No"
  /\ phase \in EnvPhases
  /\ SendEnvironment
  /\ asked' = IF phase = "Registering" THEN "TooEarly" ELSE "Asked"
  /\ UNCHANGED device

DeviceReply ==
  \/ DeviceRegister \/ DeviceIgnores \/ DeviceInfoAcked \/ DeviceAcked
  \/ DeviceConfigured \/ DeviceSubscribe \/ DeviceWake \/ DeviceEnvironment

SessionNext ==
  \/ ClientStep \/ AskEnvironment
  \/ DeviceReply \/ Swing \/ Measure \/ FallAsleep \/ ReplayShot \/ Restart

(* The application polls in a loop, and the R10 answers.  A swing, falling  *)
(* asleep, replays and beginning anew are nobody's duty.                    *)
SessionSpec ==
  /\ SessionInit
  /\ [][SessionNext]_sessionVars
  /\ WF_sessionVars(ClientStep)
  /\ WF_sessionVars(DeviceReply)

-----------------------------------------------------------------------------
Quiet ==
  /\ phase = "Active"
  /\ rx = <<>> /\ tx = <<>> /\ streamBuf = <<>>
  /\ pendingEvent = None

(* The application's picture of the R10 is right whenever nothing is in     *)
(* flight: the last state the client took in is the R10's own, through      *)
(* wake replies, queued Ready events, re-arming and a session begun anew    *)
(* (handle_protobuf, handle_configuration).  A client whose first wake      *)
(* command failed may have none.                                            *)
ViewAtRest ==
  Quiet => lastState = devState \/ (lastState = None /\ wakeFails > 0)

(* Exactly one ACK is written for every protobuf frame processed, repeated  *)
(* and unchanged ones included: at rest the R10 is owed none                *)
(* (dispatch_frame, the 5043/5044 arm).                                     *)
AckedAtRest == Quiet => unacked = <<>>

(* The subscribe and wake requests are written only after the R10 has       *)
(* accepted the host's capabilities (handle_ack's phase condition).         *)
SessionAfterHandshake ==
  \A i \in DOMAIN tx :
    tx[i].frame \in {Request(body, id) : body \in {"Subscribe", "Wake"}, id \in 0 .. ReqIds - 1}
      => stage \in {"Session", "Subscribed"}

(* Every connection gets from REGISTER to the active phase. *)
BecomesActive == <>(phase = "Active")

(* An R10 that falls asleep during the session is woken again: "Device went *)
(* to Standby while active - re-arm it" (handle_protobuf), even if the      *)
(* session is begun anew just then and the client is not in its active      *)
(* phase.  A command the R10 cannot carry out is not repeated.              *)
Rearmed == (devState = "Standby" /\ woken) ~> (devState # "Standby" \/ wakeFails > 0)

(* The application is told of a wake command that failed, one the client    *)
(* sent by itself to re-arm included (handle_protobuf, WakeResult).         *)
WakeFailureTold ==
  (\E i \in DOMAIN rx : rx[i].frame = WakeResult(2))
    ~> result = [event |-> "WakeResult", status |-> 2]

(* An environment update is answered: "Safe to call in any phase; the       *)
(* device replies with Event::EnvironmentResult" (send_environment).        *)
EnvironmentAnswered == (asked \in {"TooEarly", "Asked"}) ~> (asked = "Answered")

(* Of this, what the code ensures: it is answered once a handle is known.   *)
AnsweredOnceRegistered == (asked = "Asked") ~> (asked = "Answered")

(* The shots the application gets are the shots measured, once each and in  *)
(* order, whatever is sent again; all of them, if no write can fail.        *)
Feed == INSTANCE OrderedFeed WITH
          Items <- ShotIds, Lossless <- (MaxWriteFaults = 0), offered <- fired,
          delivered <- [i \in DOMAIN reported |-> reported[i].id]
ShotsDelivered == Feed!Spec
===============================================================================
