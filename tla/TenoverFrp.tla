------------------------------ MODULE TenoverFrp ------------------------------
(***************************************************************************)
(* The main loop of src/src/bin/tenover-frp.rs around an FrpDevice.  The   *)
(* R10 client is the source of events: a poll returns one, or none.        *)
(***************************************************************************)
EXTENDS FrpDevice

VARIABLE loop   \* where the main thread is
loopVars == <<vars, loop>>

LoopInit == Init /\ loop = "Starting"

(* Before the loop: the R10 has been found and its info is sent, whatever   *)
(* comes of that; then REGISTER is written or start() fails.                *)
Startup ==
  /\ loop = "Starting"
  /\ SendReady("Ready")
  /\ loop' \in {"Polling", "Exited"}

(* The program ends when no endpoint opens or no R10 is found, and when     *)
(* poll() returns a transport error; of other errors it only warns, and     *)
(* polls again without a pause or a look at the controller.                 *)
Fail ==
  /\ loop \in {"Starting", "Polling"}
  /\ loop' = "Exited"
  /\ UNCHANGED vars

(* Mutant: the check for commands is left out. *)
AfterEventUnchecked == "Polling"
AfterEvent == "Checking"

(* poll() returned an event: handle_event, whose error is only logged.      *)
EventStep ==
  /\ loop = "Polling"
  /\ loop' = AfterEvent
  /\ \/ \E ready \in Readiness : SendReady(ready)
     \/ HandleShot
     \/ UNCHANGED vars    \* an event handle_event ignores

(* Then check_controller, which may still find a message queued before a    *)
(* close.                                                                   *)
CheckStep ==
  /\ loop = "Checking"
  /\ loop' = "Polling"
  /\ CheckController \/ (conn \notin gone /\ UNCHANGED vars)

(* poll() returned nothing. *)
IdleStep ==
  /\ loop = "Polling"
  /\ PollConnection
  /\ UNCHANGED loop

(* The acceptor thread ends with the program. *)
Threads ==
  /\ loop # "Exited"
  /\ AcceptorReceive \/ AcceptorEstablish
  /\ UNCHANGED loop

Environment == ControllerCloses /\ UNCHANGED loop

LoopNext ==
  \/ Startup \/ EventStep \/ CheckStep \/ IdleStep \/ Fail
  \/ Threads \/ Environment

(* The loop never blocks, the scheduler runs both threads, and a controller *)
(* that wants to connect succeeds in the end.  Polls come every few         *)
(* milliseconds and events much more rarely, so polls that return nothing   *)
(* recur whatever the R10 does.                                             *)
Scheduling ==
  /\ WF_loopVars(Startup) /\ WF_loopVars(CheckStep) /\ SF_loopVars(IdleStep)
  /\ WF_loopVars(Threads)

(* An R10 in use, which reports something again and again... *)
BusySpec == LoopInit /\ [][LoopNext]_loopVars /\ Scheduling /\ WF_loopVars(EventStep)

(* ...and any R10, one that lies idle included. *)
LoopSpec == LoopInit /\ [][LoopNext]_loopVars /\ Scheduling

-----------------------------------------------------------------------------
(* "A dropped connection is re-established automatically": when the         *)
(* controller has gone, another is connected in the end, unless the program *)
(* has ended.                                                               *)
Reestablished ==
  [](conn \in gone => <>(loop = "Exited" \/ (conn # 0 /\ conn \notin gone)))

(* The first controller is connected whatever the R10 does. *)
FirstConnected == <>(loop = "Exited" \/ conn # 0)
===============================================================================
