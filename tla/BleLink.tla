-------------------------------- MODULE BleLink --------------------------------
(***************************************************************************)
(* What the two Bluetooth transports of 10over have in common: the link to *)
(* the R10, the notifications and writes that cross it, and the one thread *)
(* that calls read, write and write_register.  The Bluetooth stack and the *)
(* R10 are external.  Notifications and writes are numbered; a write is a  *)
(* chunk of Pieces pieces, so that it can be cut off in the middle.        *)
(***************************************************************************)
EXTENDS Naturals, SequencesExt

CONSTANTS
  Pieces,             \* pieces a chunk is written in
  MaxWrites,          \* bound on the writes called
  MaxNotifications    \* bound on the notifications

ASSUME LinkAssumption ==
  Pieces \in Nat \ {0} /\ MaxWrites \in Nat /\ MaxNotifications \in Nat

VARIABLES
  link,       \* "Up" while the R10 is connected
  listening,  \* the stack keeps notifications for the transport
  inbound,    \* the notifications it has kept and not handed on
  setup,      \* the step auto_connect or connect is at
  caller,     \* what the calling thread does with the transport
  rest,       \* the pieces of the current write not handed on yet
  result,     \* what the last call returned
  notified,   \* history: notifications sent so far
  answers,    \* history: those sent after a write had reached the R10
  received,   \* history: the notifications read() has returned
  writes,     \* history: the characteristic of every write called
  arrived,    \* history: the pieces that reached the R10, by characteristic
  reported,   \* history: a call has returned an error
  tried       \* history: a write was called although the link was lost

stackVars == <<link, listening, inbound>>
callVars == <<setup, caller, rest, result>>
peerVars == <<notified, answers, arrived>>
callHistory == <<received, writes, reported, tried>>
linkVars == <<stackVars, callVars, peerVars, callHistory>>

Channels == {"Data", "Register"}   \* characteristics 6A4E2820 and 6A4E2810
Chunk(n) == [i \in 1 .. Pieces |-> <<n, i>>]

LinkInit(steps) ==
  /\ link \in {"Up", "Down"}
  /\ listening = FALSE
  /\ inbound = <<>>
  /\ setup \in steps
  /\ caller = "Connecting"
  /\ rest = <<>>
  /\ result = "None"
  /\ notified = 0
  /\ answers = {}
  /\ received = <<>>
  /\ writes = <<>>
  /\ arrived = [c \in Channels |-> <<>>]
  /\ reported = FALSE
  /\ tried = FALSE

-----------------------------------------------------------------------------
(* The R10 and the radio. *)

Notification ==
  /\ link = "Up"
  /\ notified < MaxNotifications
  /\ notified' = notified + 1
  /\ inbound' = IF listening THEN Append(inbound, notified') ELSE inbound
  /\ answers' = IF \A c \in Channels : arrived[c] = <<>> THEN answers ELSE answers \cup {notified'}
  /\ UNCHANGED <<link, listening, callVars, arrived, callHistory>>

LinkLost ==
  /\ link = "Up"
  /\ link' = "Down"
  /\ UNCHANGED <<listening, inbound, callVars, peerVars, callHistory>>

-----------------------------------------------------------------------------
(* Connecting: one call after another; any may fail, and then no transport  *)
(* comes into being.                                                        *)
SetupStep(from, to) ==
  /\ setup = from
  /\ setup' = to
  /\ caller' = IF to = "Done" THEN "Idle" ELSE caller

SetupFails ==
  /\ setup \notin {"Done", "Failed"}
  /\ setup' = "Failed"
  /\ listening' = FALSE
  /\ UNCHANGED <<link, inbound, caller, rest, result, peerVars, callHistory>>

Connected(from, to) ==
  /\ SetupStep(from, to)
  /\ link' = "Up"
  /\ UNCHANGED <<listening, inbound, rest, result, peerVars, callHistory>>

(* A call that needs the link and changes nothing here. *)
Asked(from, to) ==
  /\ SetupStep(from, to)
  /\ link = "Up"
  /\ UNCHANGED <<stackVars, rest, result, peerVars, callHistory>>

-----------------------------------------------------------------------------
(* The caller: one call at a time, and at last it drops the transport. *)

Returns(outcome) ==
  /\ result' = outcome
  /\ reported' = (reported \/ outcome = "Error")

BeginWrite(channel) ==
  /\ caller = "Idle"
  /\ Len(writes) < MaxWrites
  /\ writes' = Append(writes, channel)
  /\ rest' = Chunk(Len(writes'))
  /\ caller' = "Writing"
  /\ tried' = (tried \/ link = "Down")
  /\ UNCHANGED <<stackVars, setup, result, peerVars, received, reported>>

EndWrite(outcome) ==
  /\ Returns(outcome)
  /\ caller' = "Idle"
  /\ rest' = <<>>
  /\ UNCHANGED <<setup, received, writes, tried>>

(* read() returns the first of `held`, or `otherwise` when there is none. *)
ReadFrom(held, otherwise) ==
  /\ caller = "Idle"
  /\ \/ held # <<>> /\ Returns("Chunk") /\ received' = Append(received, Head(held))
     \/ held = <<>> /\ Returns(otherwise) /\ UNCHANGED received
  /\ UNCHANGED <<setup, caller, rest, writes, tried>>

Drop ==
  /\ caller = "Idle"
  /\ caller' = "Dropped"
  /\ UNCHANGED <<setup, rest, result, callHistory>>
===============================================================================
