------------------------------- MODULE FrpDevice -------------------------------
(***************************************************************************)
(* The Flight Relay adapter of src/src/frp/mod.rs: the caller's thread,    *)
(* which owns the FrpDevice, and the acceptor thread that spawn() starts,  *)
(* joined by the channels `requests` and `incoming`.  The controllers at   *)
(* the other end of each connection are external.                          *)
(***************************************************************************)
EXTENDS Naturals, Sequences, FiniteSets

CONSTANTS
  MaxConns,    \* bound on the connections established; the last stays open
  MaxShots,    \* bound on the shots relayed
  MaxErrors    \* bound on the sends that fail without the peer being gone

ASSUME FrpAssumption == MaxConns \in Nat /\ MaxShots \in Nat /\ MaxErrors \in Nat

VARIABLES
  conn,        \* the adopted connection, 0 for None
  pending,     \* "the acceptor thread is working on a connection"
  telemetry,   \* the cached DeviceTelemetry envelope's ready flag, or "None"
  shotNumber,
  requests,    \* length of the request channel
  incoming,    \* established connections not yet adopted
  acceptor,    \* what the acceptor thread is doing
  made,        \* connections established so far; they are numbered from 1
  gone,        \* connections whose controller has closed
  failed,      \* history: connections on which a send has failed
  view         \* history: what each controller has gathered from its stream

deviceVars == <<conn, pending, telemetry, shotNumber>>
threadVars == <<requests, incoming, acceptor>>
peerVars == <<made, gone, failed, view>>
vars == <<deviceVars, threadVars, peerVars>>

Conns == 1 .. MaxConns
Readiness == {"Ready", "NotReady"}

-----------------------------------------------------------------------------
(* Envelopes, and the state of a controller that follows its stream: the    *)
(* readiness last told, the shot in progress, the last shot begun, and      *)
(* whether every envelope so far was in its place.                          *)

Telemetry(ready) == [kind |-> "DeviceTelemetry", ready |-> ready]
ShotPart(kind, n) == [kind |-> kind, shot |-> n]

NewView == [ready |-> "None", open |-> 0, last |-> 0, whole |-> TRUE]

Observe(v, env) ==
  CASE env.kind = "DeviceTelemetry" ->
         [v EXCEPT !.ready = env.ready, !.whole = @ /\ v.open = 0]
    [] env.kind = "ShotTrigger" ->
         [v EXCEPT !.open = env.shot, !.last = env.shot,
                   !.whole = @ /\ v.open = 0 /\ v.last < env.shot /\ v.ready = "NotReady"]
    [] env.kind \in {"BallFlight", "ClubPath"} ->
         [v EXCEPT !.whole = @ /\ v.open = env.shot]
    [] env.kind = "ShotFinished" ->
         [v EXCEPT !.open = 0, !.whole = @ /\ v.open = env.shot]

(* What becomes of v with each further envelope, and what a controller      *)
(* still connected makes of the first n.                                    *)
Gathered(v, envs) ==
  LET after[n \in 0 .. Len(envs)] == IF n = 0 THEN v ELSE Observe(after[n - 1], envs[n])
  IN  after

Received(c, envs, n) ==
  IF c \in gone THEN view ELSE [view EXCEPT ![c] = Gathered(@, envs)[n]]

-----------------------------------------------------------------------------
(* spawn(): the first connection is requested at once. *)
Init ==
  /\ conn = 0
  /\ pending = TRUE
  /\ telemetry = "None"
  /\ shotNumber = 0
  /\ requests = 1
  /\ incoming = <<>>
  /\ acceptor = "Receiving"
  /\ made = 0
  /\ gone = {}
  /\ failed = {}
  /\ view = [c \in Conns |-> NewView]

(* request_connection *)
RequestConnection(inFlight) ==
  /\ pending' = TRUE
  /\ requests' = IF inFlight THEN requests ELSE requests + 1

(* Mutant: the connection is dropped, and no other is asked for. *)
DropOnly(inFlight) == conn' = 0 /\ pending' = inFlight /\ UNCHANGED requests

DropConnection(inFlight) == conn' = 0 /\ RequestConnection(inFlight)

(* send_envelope for one envelope after another on connection c, with       *)
(* `inFlight` the value of pending.  All are sent; or the controller turns  *)
(* out to be gone after the first n and the rest are skipped; or envelope   *)
(* n + 1 fails some other way and the caller gets the error, c being kept.  *)
AllSent(c, inFlight, envs) ==
  /\ view' = Received(c, envs, Len(envs))
  /\ conn' = c
  /\ pending' = inFlight
  /\ UNCHANGED <<requests, gone, failed>>

ClosedAfter(c, inFlight, envs, n) ==
  /\ c < MaxConns
  /\ view' = Received(c, envs, n)
  /\ gone' = gone \cup {c}
  /\ DropConnection(inFlight)
  /\ UNCHANGED failed

FailedAfter(c, inFlight, envs, n) ==
  /\ Cardinality(failed) < MaxErrors
  /\ view' = Received(c, envs, n)
  /\ failed' = failed \cup {c}
  /\ conn' = c
  /\ pending' = inFlight
  /\ UNCHANGED <<requests, gone>>

NotConnected == conn = 0 /\ UNCHANGED <<conn, pending, requests, gone, failed, view>>

Sends(c, inFlight, envs) ==
  \/ AllSent(c, inFlight, envs)
  \/ \E n \in 0 .. Len(envs) - 1 : ClosedAfter(c, inFlight, envs, n)

SendFails(c, inFlight, envs, sent) ==
  \E n \in sent .. Len(envs) - 1 : FailedAfter(c, inFlight, envs, n)

-----------------------------------------------------------------------------
(* The caller's thread. *)

(* handle_event for Ready and StateChange, and send_device_info. *)
SendReady(ready) ==
  /\ telemetry' = ready
  /\ \/ NotConnected
     \/ /\ conn # 0
        /\ \/ Sends(conn, pending, <<Telemetry(ready)>>)
           \/ SendFails(conn, pending, <<Telemetry(ready)>>, 0)
  /\ UNCHANGED <<shotNumber, incoming, acceptor, made>>

ShotEvents(parts, n) ==
  <<ShotPart("ShotTrigger", n)>>
    \o [i \in DOMAIN parts |-> ShotPart(parts[i], n)]
    \o <<ShotPart("ShotFinished", n)>>

(* Mutant: the shot is sent without ready=false before it. *)
ShotSequenceStillReady(parts, n) == ShotEvents(parts, n)

ShotSequence(parts, n) == <<Telemetry("NotReady")>> \o ShotEvents(parts, n)

(* handle_event for Shot.  ball and club may each be absent.  The counter   *)
(* does not move when the ready=false before the shot fails.                *)
HandleShot ==
  /\ shotNumber < MaxShots
  /\ telemetry' = "NotReady"
  /\ \E parts \in {<<>>, <<"BallFlight">>, <<"ClubPath">>, <<"BallFlight", "ClubPath">>} :
       LET envs == ShotSequence(parts, shotNumber + 1) IN
       \/ NotConnected /\ shotNumber' = shotNumber + 1
       \/ /\ conn # 0
          /\ shotNumber' = shotNumber + 1
          /\ Sends(conn, pending, envs) \/ SendFails(conn, pending, envs, 1)
       \/ /\ conn # 0
          /\ FailedAfter(conn, pending, envs, 0)
          /\ UNCHANGED shotNumber
  /\ UNCHANGED <<incoming, acceptor, made>>

(* poll_connection: adopt a connection and tell it the cached telemetry. *)

(* Mutant: the cached telemetry is not sent again. *)
NothingResent == <<>>

Resent == IF telemetry = "None" THEN <<>> ELSE <<Telemetry(telemetry)>>

PollConnection ==
  /\ conn = 0
  /\ incoming # <<>>
  /\ incoming' = Tail(incoming)
  /\ Sends(Head(incoming), FALSE, Resent) \/ SendFails(Head(incoming), FALSE, Resent, 0)
  /\ UNCHANGED <<telemetry, shotNumber, acceptor, made>>

(* check_controller: try_recv on a closed connection fails.  Commands and   *)
(* an open connection without one leave the device as it is.                *)
CheckController ==
  /\ conn \in gone
  /\ DropConnection(pending)
  /\ UNCHANGED <<telemetry, shotNumber, incoming, acceptor, peerVars>>

-----------------------------------------------------------------------------
(* The acceptor thread: one request yields one connection, after as many    *)
(* attempts (and RETRY_DELAY sleeps) as it takes.                           *)

(* Mutant: recv() does not wait for a request. *)
AcceptorReceiveUnasked ==
  /\ acceptor = "Receiving"
  /\ requests' = requests - 1
  /\ acceptor' = "Establishing"
  /\ UNCHANGED <<deviceVars, incoming, peerVars>>

AcceptorReceive ==
  /\ acceptor = "Receiving"
  /\ requests > 0
  /\ requests' = requests - 1
  /\ acceptor' = "Establishing"
  /\ UNCHANGED <<deviceVars, incoming, peerVars>>

(* Mutant: a failed attempt is not repeated. *)
AcceptorEstablishOnce ==
  /\ acceptor = "Establishing"
  /\ \/ made < MaxConns /\ made' = made + 1 /\ incoming' = Append(incoming, made + 1)
     \/ UNCHANGED <<made, incoming>>
  /\ acceptor' = "Receiving"
  /\ UNCHANGED <<deviceVars, requests, gone, failed, view>>

AcceptorEstablish ==
  /\ acceptor = "Establishing"
  /\ made < MaxConns
  /\ made' = made + 1
  /\ incoming' = Append(incoming, made + 1)
  /\ acceptor' = "Receiving"
  /\ UNCHANGED <<deviceVars, requests, gone, failed, view>>

(* A controller goes away, adopted or not. *)
ControllerCloses ==
  /\ \E c \in 1 .. made : c < MaxConns /\ c \notin gone /\ gone' = gone \cup {c}
  /\ UNCHANGED <<deviceVars, threadVars, made, failed, view>>

Device ==
  \/ \E ready \in Readiness : SendReady(ready)
  \/ HandleShot \/ PollConnection \/ CheckController

Next == Device \/ AcceptorReceive \/ AcceptorEstablish \/ ControllerCloses

Spec == Init /\ [][Next]_vars

-----------------------------------------------------------------------------
TypeOK ==
  /\ conn \in Conns \cup {0}
  /\ pending \in BOOLEAN
  /\ telemetry \in Readiness \cup {"None"}
  /\ shotNumber \in 0 .. MaxShots
  /\ requests \in Nat
  /\ incoming \in Seq(Conns)
  /\ acceptor \in {"Receiving", "Establishing"}
  /\ made \in 0 .. MaxConns
  /\ gone \subseteq Conns
  /\ failed \subseteq Conns

(* The connections on their way to the caller's thread. *)
Tokens == requests + (IF acceptor = "Establishing" THEN 1 ELSE 0) + Len(incoming)

(* The pending flag, which only the caller's thread sees, is exactly the    *)
(* state of the other thread and both channels: a connection is on its way  *)
(* if and only if none is adopted, and never two.  Hence a drop is always   *)
(* followed by a replacement, and no stale connection waits behind an       *)
(* adopted one (request_connection, poll_connection, drop_connection).      *)
OneConnectionOnItsWay ==
  /\ pending <=> conn = 0
  /\ Tokens = IF pending THEN 1 ELSE 0

(* A connected controller has been told the device's present readiness,     *)
(* however often connections were lost in between, unless a send to it      *)
(* failed (poll_connection, send_ready).                                    *)
ControllerUpToDate ==
  conn # 0 /\ conn \notin gone \cup failed => view[conn].ready = telemetry

(* Every controller sees whole shots only: ready=false, trigger, data,      *)
(* finish, in this order and with numbers that grow; only a connection that *)
(* ends or fails may break off (handle_event, send_events).                 *)
WholeShots ==
  \A c \in Conns \ failed :
    view[c].whole /\ (c \notin gone => view[c].open = 0)
===============================================================================
