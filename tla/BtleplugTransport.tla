---------------------------- MODULE BtleplugTransport ----------------------------
(***************************************************************************)
(* src/src/btleplug.rs: a background thread between the caller and the     *)
(* peripheral, with an unbounded channel of notifications to the caller    *)
(* and a bounded one of writes from it.  `inbound` is what the             *)
(* notification stream of the btleplug library holds; only one             *)
(* characteristic is ever subscribed to, so all of it is forwarded.        *)
(***************************************************************************)
EXTENDS BleLink

CONSTANTS
  WriteCap,    \* WRITE_CHANNEL_CAP
  MaxErrors    \* bound on the writes that fail although the link is up

ASSUME BtleplugAssumption == WriteCap \in Nat \ {0} /\ MaxErrors \in Nat

VARIABLES
  thread,     \* where background_loop is
  inHand,     \* the write it is waiting for, 0 for none
  commands,   \* the channel of writes
  forwarded,  \* the channel of notifications
  ended,      \* the notification stream has ended
  errors

btleplugVars == <<thread, inHand, commands, forwarded, ended, errors>>

(* auto_connect scans; connect by address may find the device cached. *)
BtleplugSteps == {"Find"}

BtleplugInit ==
  /\ thread = "None"
  /\ inHand = 0
  /\ commands = <<>>
  /\ forwarded = <<>>
  /\ ended = FALSE
  /\ errors = 0

(* discover_and_connect, connect_by_address and start_background; the last *)
(* step spawns the thread.                                                 *)
Scan ==
  /\ SetupStep("Find", "Connect")
  /\ UNCHANGED <<stackVars, rest, result, peerVars, callHistory, btleplugVars>>

Spawn ==
  /\ Asked("Subscribe", "Done")
  /\ thread' = "Starting"
  /\ UNCHANGED <<inHand, commands, forwarded, ended, errors>>

BtleplugSetup ==
  \/ Scan
  \/ Connected("Connect", "Discover") /\ UNCHANGED btleplugVars
  \/ Asked("Discover", "Subscribe") /\ UNCHANGED btleplugVars
  \/ Spawn

-----------------------------------------------------------------------------
(* The calls. *)

BtleplugRead ==
  /\ ReadFrom(forwarded, IF thread = "Exited" THEN "Error" ELSE "WouldBlock")
  /\ forwarded' = IF forwarded = <<>> THEN forwarded ELSE Tail(forwarded)
  /\ UNCHANGED <<stackVars, peerVars, thread, inHand, commands, ended, errors>>

(* blocking_send waits while the channel is full... *)
SendCommand ==
  /\ caller = "Writing"
  /\ thread # "Exited"
  /\ Len(commands) < WriteCap
  /\ commands' = Append(commands, Len(writes))
  /\ EndWrite("Written")
  /\ UNCHANGED <<stackVars, peerVars, thread, inHand, forwarded, ended, errors>>

(* ...and fails when the thread is gone. *)
SendRefused ==
  /\ caller = "Writing"
  /\ thread = "Exited"
  /\ EndWrite("Error")
  /\ UNCHANGED <<stackVars, peerVars, btleplugVars>>

BtleplugWrite == SendCommand \/ SendRefused

BtleplugDrop == Drop /\ UNCHANGED <<stackVars, peerVars, btleplugVars>>

-----------------------------------------------------------------------------
(* background_loop.  When it ends, the peripheral and both channel ends go  *)
(* with it; what was forwarded can still be read.                           *)
Exits ==
  /\ thread' = "Exited"
  /\ listening' = FALSE
  /\ commands' = <<>>
  /\ inHand' = 0
  /\ UNCHANGED <<link, inbound, callVars, callHistory, peerVars, forwarded, ended>>

OpenStream ==
  /\ thread = "Starting"
  /\ \/ /\ thread' = "Selecting"
        /\ listening' = TRUE
        /\ UNCHANGED <<link, inbound, callVars, peerVars, callHistory,
                       inHand, commands, forwarded, ended>>
     \/ link = "Down" /\ Exits
  /\ UNCHANGED errors

(* Mutants: a channel of one notification that drops the next; the failed  *)
(* send ignored.                                                           *)
ForwardIfRoom ==
  /\ thread = "Selecting"
  /\ inbound # <<>>
  /\ \/ /\ caller # "Dropped"
        /\ inbound' = Tail(inbound)
        /\ forwarded' = IF forwarded = <<>> THEN <<Head(inbound)>> ELSE forwarded
        /\ UNCHANGED <<link, listening, callVars, peerVars, callHistory,
                       thread, inHand, commands, ended>>
     \/ caller = "Dropped" /\ Exits
  /\ UNCHANGED errors

ForwardIgnoringDrop ==
  /\ thread = "Selecting"
  /\ inbound # <<>>
  /\ inbound' = Tail(inbound)
  /\ forwarded' = IF caller = "Dropped" THEN forwarded ELSE Append(forwarded, Head(inbound))
  /\ UNCHANGED <<link, listening, callVars, peerVars, callHistory,
                 thread, inHand, commands, ended, errors>>

(* The branches of select!, taken in any order when both are ready. *)
Forward ==
  /\ thread = "Selecting"
  /\ inbound # <<>>
  /\ \/ /\ caller # "Dropped"
        /\ inbound' = Tail(inbound)
        /\ forwarded' = Append(forwarded, Head(inbound))
        /\ UNCHANGED <<link, listening, callVars, peerVars, callHistory,
                       thread, inHand, commands, ended>>
     \/ caller = "Dropped" /\ Exits
  /\ UNCHANGED errors

(* Mutant: writes are taken before the stream is opened. *)
TakeCommandEarly ==
  /\ thread \in {"Starting", "Selecting"}
  /\ commands # <<>>
  /\ thread' = "Writing"
  /\ inHand' = Head(commands)
  /\ commands' = Tail(commands)
  /\ UNCHANGED <<linkVars, forwarded, ended, errors>>

TakeCommand ==
  /\ thread = "Selecting"
  /\ commands # <<>>
  /\ thread' = "Writing"
  /\ inHand' = Head(commands)
  /\ commands' = Tail(commands)
  /\ UNCHANGED <<linkVars, forwarded, ended, errors>>

AllBranchesDisabled ==
  /\ thread = "Selecting"
  /\ ended /\ inbound = <<>>
  /\ commands = <<>> /\ caller = "Dropped"
  /\ Exits
  /\ UNCHANGED errors

(* Mutant: the loop goes on after a write that failed. *)
WriteFailedIgnored ==
  /\ thread = "Writing"
  /\ link = "Down"
  /\ thread' = "Selecting"
  /\ inHand' = 0
  /\ UNCHANGED <<linkVars, commands, forwarded, ended, errors>>

(* peripheral.write returns; meanwhile nothing is forwarded. *)
WriteFailed ==
  /\ thread = "Writing"
  /\ \/ link = "Down" /\ UNCHANGED errors
     \/ link = "Up" /\ errors < MaxErrors /\ errors' = errors + 1
  /\ Exits

WriteDone ==
  /\ thread = "Writing"
  /\ link = "Up"
  /\ thread' = "Selecting"
  /\ inHand' = 0
  /\ arrived' = [arrived EXCEPT ![writes[inHand]] = @ \o Chunk(inHand)]
  /\ UNCHANGED <<stackVars, callVars, notified, answers, callHistory,
                 commands, forwarded, ended, errors>>

BackgroundLoop ==
  \/ OpenStream \/ Forward \/ TakeCommand \/ WriteFailed \/ WriteDone
  \/ AllBranchesDisabled

(* The library may end the stream of a peripheral that is gone. *)
StreamEnds ==
  /\ link = "Down"
  /\ thread \in {"Selecting", "Writing"}
  /\ ~ended
  /\ ended' = TRUE
  /\ UNCHANGED <<linkVars, thread, inHand, commands, forwarded, errors>>
===============================================================================
