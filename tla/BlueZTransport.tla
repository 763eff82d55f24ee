----------------------------- MODULE BlueZTransport -----------------------------
(***************************************************************************)
(* src/src/bluez.rs: three descriptors from bluetoothd, one to read        *)
(* notifications from (`inbound` is what its socket holds) and two to      *)
(* write to.  The transport runs in the caller's thread alone; bluetoothd  *)
(* at the other ends of the sockets is external.                           *)
(***************************************************************************)
EXTENDS BleLink

CONSTANTS
  MaxTries,   \* times ServicesResolved is asked for, 50 in the code
  SocketCap   \* pieces a socket holds

ASSUME BlueZAssumption == MaxTries \in Nat /\ SocketCap \in Nat \ {0}

VARIABLES
  tries,    \* passes left of the loop of ensure_connected
  socket    \* pieces written and not yet taken by bluetoothd

bluezVars == <<tries, socket>>

(* auto_connect looks for the device first; connect is told where it is. *)
BlueZSteps == {"Find", "Characteristics"}

BlueZInit == tries = MaxTries /\ socket = [c \in Channels |-> <<>>]

(* find_r10 asks bluetoothd and needs no link. *)
Find ==
  /\ SetupStep("Find", "Connect")
  /\ UNCHANGED <<stackVars, rest, result, peerVars, callHistory, bluezVars>>

(* ensure_connected: connect unless connected, then wait for the services.  *)
(* The link may be lost between any two of its calls.                       *)
EnsureConnected ==
  \/ Asked("Connect", "Resolve") /\ UNCHANGED bluezVars
  \/ link = "Down" /\ Connected("Connect", "Resolve") /\ UNCHANGED bluezVars

ServicesResolved ==
  /\ tries > 0
  /\ Asked("Resolve", "Characteristics")
  /\ UNCHANGED bluezVars

(* Mutants: the passes are not counted; the count starts over. *)
NotResolvedUncounted ==
  /\ setup = "Resolve"
  /\ tries' = tries - 1
  /\ UNCHANGED <<linkVars, socket>>

NotResolvedStartsOver ==
  /\ setup = "Resolve"
  /\ tries' = IF tries = 1 THEN MaxTries ELSE tries - 1
  /\ UNCHANGED <<linkVars, socket>>

NotResolvedYet ==
  /\ setup = "Resolve"
  /\ tries > 0
  /\ tries' = tries - 1
  /\ UNCHANGED <<linkVars, socket>>

(* SetupFails is the other way out of the loop too, with ServicesTimeout. *)
Resolving == ServicesResolved \/ NotResolvedYet

(* acquire_fds: notifications are acquired before anything can be written. *)
AcquireNotify ==
  /\ SetupStep("AcquireNotify", "AcquireWrite")
  /\ link = "Up"
  /\ listening' = TRUE
  /\ UNCHANGED <<link, inbound, rest, result, peerVars, callHistory, bluezVars>>

AcquireFds ==
  \/ Asked("Characteristics", "AcquireNotify") /\ UNCHANGED bluezVars
  \/ AcquireNotify
  \/ Asked("AcquireWrite", "Done") /\ UNCHANGED bluezVars

BlueZSetup == Find \/ EnsureConnected \/ Resolving \/ AcquireFds

-----------------------------------------------------------------------------
(* read: what the socket holds is read to the end even when bluetoothd has  *)
(* closed it; then read(2) returns 0.                                       *)
BlueZRead ==
  /\ ReadFrom(inbound, IF link = "Up" THEN "WouldBlock" ELSE "Zero")
  /\ inbound' = IF inbound = <<>> THEN inbound ELSE Tail(inbound)
  /\ UNCHANGED <<link, listening, peerVars, bluezVars>>

(* write_all_fd: each write(2) takes some of what is left, waiting while    *)
(* the socket is full, and fails once bluetoothd has closed it.             *)
Current == writes[Len(writes)]
Room == SocketCap - Len(socket[Current])

(* Mutant: what write(2) did not take is not written again. *)
WriteSomeOnce(k) ==
  /\ caller = "Writing"
  /\ link = "Up"
  /\ k <= Room
  /\ socket' = [socket EXCEPT ![Current] = @ \o SubSeq(rest, 1, k)]
  /\ EndWrite("Written")
  /\ UNCHANGED <<stackVars, peerVars, tries>>

WriteSome(k) ==
  /\ caller = "Writing"
  /\ link = "Up"
  /\ k <= Room
  /\ socket' = [socket EXCEPT ![Current] = @ \o SubSeq(rest, 1, k)]
  /\ \/ k = Len(rest) /\ EndWrite("Written")
     \/ /\ k < Len(rest)
        /\ rest' = SubSeq(rest, k + 1, Len(rest))
        /\ UNCHANGED <<setup, caller, result, callHistory>>
  /\ UNCHANGED <<stackVars, peerVars, tries>>

(* Mutant: the error of write(2) is taken for a full socket. *)
WriteRefusedNever == caller = "Writing" /\ link = "Down" /\ UNCHANGED <<linkVars, bluezVars>>

WriteRefused ==
  /\ caller = "Writing"
  /\ link = "Down"
  /\ EndWrite("Error")
  /\ UNCHANGED <<stackVars, peerVars, bluezVars>>

BlueZWrite == WriteRefused \/ \E k \in 1 .. Len(rest) : WriteSome(k)

(* Dropping the transport closes the descriptors. *)
BlueZDrop ==
  /\ Drop
  /\ listening' = FALSE
  /\ UNCHANGED <<link, inbound, peerVars, bluezVars>>

(* bluetoothd takes from a socket and sends. *)
Transmit(channel) ==
  /\ link = "Up"
  /\ socket[channel] # <<>>
  /\ arrived' = [arrived EXCEPT ![channel] = Append(@, Head(socket[channel]))]
  /\ socket' = [socket EXCEPT ![channel] = Tail(@)]
  /\ UNCHANGED <<stackVars, callVars, notified, answers, callHistory, tries>>

Bluetoothd == \E channel \in Channels : Transmit(channel)
===============================================================================
