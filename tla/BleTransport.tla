------------------------------ MODULE BleTransport ------------------------------
(***************************************************************************)
(* src/src/ble.rs: the transport a program is built with, one of two       *)
(* backends.  The build chooses; here Init does, and the variables of the  *)
(* other backend never change.                                             *)
(***************************************************************************)
EXTENDS BlueZTransport, BtleplugTransport

VARIABLE backend

vars == <<backend, linkVars, bluezVars, btleplugVars>>

Init ==
  /\ \/ backend = "BlueZ" /\ LinkInit(BlueZSteps)
     \/ backend = "Btleplug" /\ LinkInit(BtleplugSteps)
  /\ BlueZInit
  /\ BtleplugInit

OnBlueZ == backend = "BlueZ" /\ UNCHANGED <<backend, btleplugVars>>
OnBtleplug == backend = "Btleplug" /\ UNCHANGED <<backend, bluezVars>>

Connect ==
  \/ BlueZSetup /\ OnBlueZ
  \/ BtleplugSetup /\ OnBtleplug
  \/ SetupFails /\ UNCHANGED <<backend, bluezVars, btleplugVars>>

Read == (BlueZRead /\ OnBlueZ) \/ (BtleplugRead /\ OnBtleplug)

Call ==
  /\ \E channel \in Channels : BeginWrite(channel)
  /\ UNCHANGED <<backend, bluezVars, btleplugVars>>

Write == (BlueZWrite /\ OnBlueZ) \/ (BtleplugWrite /\ OnBtleplug)

DropTransport == (BlueZDrop /\ OnBlueZ) \/ (BtleplugDrop /\ OnBtleplug)

(* What goes on beside the calling thread. *)
Daemon == Bluetoothd /\ OnBlueZ
Background == BackgroundLoop /\ OnBtleplug

Peer ==
  \/ (Notification \/ LinkLost) /\ UNCHANGED <<backend, bluezVars, btleplugVars>>
  \/ StreamEnds /\ OnBtleplug

Next ==
  \/ Connect \/ Read \/ Call \/ Write \/ DropTransport
  \/ Daemon \/ Background \/ Peer

(* Calls of the Bluetooth stack return, the client polls as long as it has  *)
(* the transport, bluetoothd and the background thread run.  Nothing is     *)
(* asked of the R10 or the radio, and nothing makes the client write, drop  *)
(* the transport, or the library end a stream.                              *)
Fairness ==
  /\ WF_vars(Connect) /\ WF_vars(Read) /\ WF_vars(Write)
  /\ \A channel \in Channels : WF_vars(Transmit(channel) /\ OnBlueZ)
  /\ WF_vars(Background)

Spec == Init /\ [][Next]_vars /\ Fairness

-----------------------------------------------------------------------------
Setups == {"Find", "Connect", "Resolve", "Characteristics", "AcquireNotify",
           "AcquireWrite", "Discover", "Subscribe", "Done", "Failed"}
Pieced == Nat \X (1 .. Pieces)

(* The values the variables of ble.rs, bluez.rs and btleplug.rs take.       *)
TypeOK ==
  /\ backend \in {"BlueZ", "Btleplug"}
  /\ link \in {"Up", "Down"} /\ listening \in BOOLEAN
  /\ setup \in Setups
  /\ caller \in {"Connecting", "Idle", "Writing", "Dropped"}
  /\ result \in {"None", "Chunk", "WouldBlock", "Zero", "Written", "Error"}
  /\ reported \in BOOLEAN /\ tried \in BOOLEAN
  /\ notified \in Nat /\ answers \subseteq Nat
  /\ inbound \in Seq(Nat) /\ received \in Seq(Nat) /\ forwarded \in Seq(Nat)
  /\ writes \in Seq(Channels)
  /\ rest \in Seq(Pieced) /\ arrived \in [Channels -> Seq(Pieced)]
  /\ tries \in 0 .. MaxTries /\ socket \in [Channels -> Seq(Pieced)]
  /\ thread \in {"None", "Starting", "Selecting", "Writing", "Exited"}
  /\ inHand \in Nat /\ commands \in Seq(Nat) /\ Len(commands) <= WriteCap
  /\ ended \in BOOLEAN /\ errors \in 0 .. MaxErrors

(* From the moment the transport listens no notification is skipped: what  *)
(* read() has returned, what is on its way to it and what the stack holds  *)
(* are consecutive, and up to the newest while the transport listens.  A   *)
(* hole would break a GFDI frame in two (gfdi::StreamBuffer).              *)
OnTheWay == received \o forwarded \o inbound

NoGap ==
  /\ \A i \in 1 .. Len(OnTheWay) - 1 : OnTheWay[i + 1] = OnTheWay[i] + 1
  /\ listening /\ OnTheWay # <<>> => Last(OnTheWay) = notified

(* The chunks of the writes `numbers` that are on characteristic c.         *)
ChunksOn(c, called, numbers) ==
  FlattenSeq([k \in DOMAIN numbers |->
                IF called[numbers[k]] = c THEN Chunk(numbers[k]) ELSE <<>>])

On(c) == ChunksOn(c, writes, [n \in DOMAIN writes |-> n])

InHand == IF inHand = 0 THEN <<>> ELSE <<inHand>>
RestOn(c) == IF rest = <<>> \/ Current = c THEN rest ELSE <<>>
Waiting(c) == ChunksOn(c, writes, InHand \o commands) \o RestOn(c)

(* write() and write_register() return before the R10 has the bytes.  On   *)
(* each characteristic it gets whole writes in the order of the calls, the *)
(* last one possibly cut off; and as long as the link is up and the thread *)
(* of btleplug.rs runs, what it does not have yet is still waiting.        *)
WritesKept ==
  \A c \in Channels :
    /\ IsPrefix(arrived[c], On(c))
    /\ link = "Up" /\ thread # "Exited" => (arrived[c] \o socket[c]) \o Waiting(c) = On(c)

(* A notification the R10 sends after a write has reached it, the reply to *)
(* REGISTER first of all, is returned by read(), unless the link is lost,  *)
(* the background thread has ended or the client drops the transport:      *)
(* nothing is written before the transport listens.                        *)
RepliesReceived ==
  \A n \in 1 .. MaxNotifications :
    n \in answers
      ~> \/ n \in ToSet(received)
         \/ link = "Down" \/ thread = "Exited" \/ caller = "Dropped"

(* write() returns: a full socket or channel is emptied, or the call fails *)
(* (write_all_fd; blocking_send).                                          *)
WriteReturns == caller = "Writing" ~> caller # "Writing"

(* A client that writes after the link was lost is told, by that write or  *)
(* by a later read(), whatever the writes queued before it.                *)
LossNoticed == tried ~> (reported \/ caller = "Dropped")

(* The background thread survives a dropped transport no longer than the   *)
(* next notification or the end of the notification stream.                *)
ThreadEnds ==
  caller = "Dropped" /\ (inbound # <<>> \/ ended) ~> thread \in {"None", "Exited"}

(* auto_connect() and connect() return: the wait for ServicesResolved is   *)
(* bounded, however often the services come and go.                        *)
SetupEnds == <>(setup \in {"Done", "Failed"})

(* docs/SEQUENCE.md:318 leaves the detection of a lost link to the         *)
(* supervision timeout of the system, after which the program reconnects;  *)
(* client.rs:42 says that read() returns a transport error.                *)
LinkLossReported ==
  setup = "Done" /\ link = "Down" ~> (reported \/ caller = "Dropped")

===============================================================================
