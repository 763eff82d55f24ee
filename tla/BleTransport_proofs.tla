-------------------------- MODULE BleTransport_proofs --------------------------
(***************************************************************************)
(* Proofs about BleTransport for any number of writes and notifications,   *)
(* sockets and channels of any capacity, and links lost at any time.       *)
(***************************************************************************)
EXTENDS BleTransport, SequenceTheorems, NaturalsInduction, WellFoundedInduction, TLAPS

QueueTypes ==
  /\ inbound \in Seq(Nat) /\ received \in Seq(Nat) /\ forwarded \in Seq(Nat)
  /\ notified \in Nat
  /\ listening \in BOOLEAN

(* Nothing is kept before the transport listens, and each backend starts to *)
(* listen once, from scratch: bluez.rs when it acquires notifications,      *)
(* btleplug.rs when its thread opens the stream.                            *)
BeforeListening ==
  /\ setup \notin {"AcquireWrite", "Done", "Failed"} => ~listening /\ inbound = <<>>
  /\ setup # "Done" => received = <<>> /\ caller = "Connecting" /\ thread = "None"
  /\ thread = "Starting" => ~listening /\ inbound = <<>> /\ received = <<>>
  /\ thread \in {"None", "Starting"} => forwarded = <<>>

BackendsApart == backend = "BlueZ" => thread = "None"

Consecutive(s) == \A i \in 1 .. Len(s) - 1 : s[i + 1] = s[i] + 1

(* NoGap is not inductive: that what is kept joins on to what was kept      *)
(* before depends on nothing having been kept when listening began.         *)
IInv ==
  /\ QueueTypes
  /\ BeforeListening
  /\ BackendsApart
  /\ NoGap

LEMMA Moved ==
  ASSUME NEW r \in Seq(Nat), NEW s \in Seq(Nat), s # <<>>
  PROVE  /\ Tail(s) \in Seq(Nat) /\ Head(s) \in Nat
         /\ Append(r, Head(s)) \in Seq(Nat)
         /\ Append(r, Head(s)) \o Tail(s) = r \o s
<1>1. Tail(s) \in Seq(Nat) /\ Head(s) \in Nat /\ Append(r, Head(s)) \in Seq(Nat)
  BY HeadTailProperties, AppendProperties
<1>2. Append(r, Head(s)) = r \o <<Head(s)>>
  BY <1>1, AppendIsConcat
<1>3. s = <<Head(s)>> \o Tail(s)
  BY <1>1, HeadTailProperties
<1>4. (r \o <<Head(s)>>) \o Tail(s) = r \o (<<Head(s)>> \o Tail(s))
  BY <1>1, ConcatAssociative
<1> QED BY <1>1, <1>2, <1>3, <1>4

LEMMA Associated ==
  ASSUME NEW r \in Seq(Nat), NEW s \in Seq(Nat), NEW t \in Seq(Nat)
  PROVE  (r \o s) \o t = r \o (s \o t)
BY ConcatAssociative

LEMMA ConcatAppend ==
  ASSUME NEW r \in Seq(Nat), NEW s \in Seq(Nat), NEW n \in Nat
  PROVE  r \o Append(s, n) = Append(r \o s, n)
<1>1. Append(s, n) = s \o <<n>>
  BY AppendIsConcat
<1>2. r \o s \in Seq(Nat) /\ <<n>> \in Seq(Nat)
  BY ConcatProperties
<1>3. Append(r \o s, n) = (r \o s) \o <<n>>
  BY <1>2, AppendIsConcat
<1>4. (r \o s) \o <<n>> = r \o (s \o <<n>>)
  BY <1>2, Associated, Zenon
<1> QED BY <1>1, <1>3, <1>4, Zenon

LEMMA Longer ==
  ASSUME NEW s \in Seq(Nat), NEW n \in Nat, Consecutive(s), s # <<>> => Last(s) = n
  PROVE  /\ Append(s, n + 1) \in Seq(Nat)
         /\ Consecutive(Append(s, n + 1))
         /\ Last(Append(s, n + 1)) = n + 1
<1> DEFINE t == Append(s, n + 1)
<1>1. /\ t \in Seq(Nat) /\ Len(t) = Len(s) + 1 /\ t[Len(s) + 1] = n + 1
      /\ \A i \in 1 .. Len(s) : t[i] = s[i]
  BY AppendProperties
<1>2. Last(t) = n + 1
  BY <1>1 DEF Last
<1>3. ASSUME NEW i \in 1 .. Len(t) - 1 PROVE t[i + 1] = t[i] + 1
  <2>1. CASE i < Len(s)
    BY <1>1, <2>1 DEF Consecutive
  <2>2. CASE i = Len(s)
    BY <1>1, <2>2 DEF Last
  <2> QED BY <1>1, <2>1, <2>2
<1> QED BY <1>1, <1>2, <1>3 DEF Consecutive

-----------------------------------------------------------------------------
LEMMA InitIInv == Init => IInv
<1> SUFFICES ASSUME Init PROVE IInv
  OBVIOUS
<1>1. /\ inbound = <<>> /\ received = <<>> /\ forwarded = <<>>
      /\ notified = 0 /\ listening = FALSE
      /\ caller = "Connecting" /\ thread = "None"
  BY DEF Init, LinkInit, BtleplugInit
<1>2. QueueTypes
  BY <1>1, EmptySeq DEF QueueTypes
<1>3. BeforeListening /\ BackendsApart
  BY <1>1 DEF BeforeListening, BackendsApart
<1>4. OnTheWay = <<>>
  BY <1>1, <1>2, ConcatEmptySeq DEF QueueTypes, OnTheWay
<1> QED BY <1>1, <1>2, <1>3, <1>4, EmptySeq DEF IInv, NoGap

(* A step that moves what is on the way, but does not change it, and does   *)
(* not begin to listen.                                                     *)
LEMMA StillNoGap ==
  ASSUME NoGap, OnTheWay' = OnTheWay,
         listening' => listening /\ notified' = notified
  PROVE  NoGap'
  BY DEF NoGap

(* A step that begins to listen with nothing on the way. *)
LEMMA FirstNoGap ==
  ASSUME OnTheWay' = <<>>
  PROVE  NoGap'
  BY DEF NoGap

LEMMA NotifyKeepsIInv == IInv /\ Notification /\ UNCHANGED <<backend, bluezVars, btleplugVars>> => IInv'
<1> SUFFICES ASSUME IInv, Notification, UNCHANGED <<backend, bluezVars, btleplugVars>>
             PROVE  IInv'
  OBVIOUS
<1> USE DEF stackVars, callVars, peerVars, callHistory, linkVars, bluezVars, btleplugVars
<1>1. QueueTypes'
  BY AppendProperties DEF IInv, QueueTypes, Notification
<1>2. BeforeListening' /\ BackendsApart'
  BY DEF IInv, BeforeListening, BackendsApart, Notification
<1>3. CASE ~listening
  <2>1. OnTheWay' = OnTheWay /\ ~listening'
    BY <1>3 DEF Notification, OnTheWay
  <2>2. NoGap'
    BY <2>1, StillNoGap DEF IInv
  <2> QED BY <1>1, <1>2, <2>2 DEF IInv
<1>4. CASE listening
  <2>1. inbound' = Append(inbound, notified + 1) /\ notified' = notified + 1
    BY <1>4 DEF Notification
  <2>2. received \o forwarded \in Seq(Nat) /\ OnTheWay \in Seq(Nat)
    BY ConcatProperties DEF IInv, QueueTypes, OnTheWay
  <2>3. OnTheWay' = Append(OnTheWay, notified + 1)
    <3>1. inbound \in Seq(Nat) /\ notified + 1 \in Nat
      BY DEF IInv, QueueTypes
    <3>2. (received \o forwarded) \o Append(inbound, notified + 1)
            = Append((received \o forwarded) \o inbound, notified + 1)
      BY <2>2, <3>1, ConcatAppend, Zenon
    <3>3. received' = received /\ forwarded' = forwarded
      BY DEF Notification
    <3> QED BY <2>1, <3>2, <3>3, Zenon DEF OnTheWay
  <2>4. Consecutive(OnTheWay) /\ (OnTheWay # <<>> => Last(OnTheWay) = notified)
    BY <1>4 DEF IInv, NoGap, Consecutive
  <2>5. Consecutive(OnTheWay') /\ Last(OnTheWay)' = notified'
    BY <2>1, <2>2, <2>3, <2>4, Longer DEF IInv, QueueTypes
  <2> QED BY <1>1, <1>2, <2>5 DEF IInv, NoGap, Consecutive
<1> QED BY <1>1, <1>2, <1>3, <1>4 DEF IInv

LEMMA QueuesStay ==
  ASSUME IInv, UNCHANGED <<inbound, received, forwarded, notified>>,
         listening' \in BOOLEAN, listening' => listening,
         BeforeListening', BackendsApart'
  PROVE  IInv'
<1>1. OnTheWay' = OnTheWay
  BY DEF OnTheWay
<1>2. NoGap'
  BY <1>1, StillNoGap DEF IInv
<1> QED BY <1>2 DEF IInv, QueueTypes

LEMMA ConnectKeepsIInv == IInv /\ Connect => IInv'
<1> SUFFICES ASSUME IInv, Connect PROVE IInv'
  OBVIOUS
<1> USE DEF stackVars, callVars, peerVars, callHistory, linkVars, bluezVars, btleplugVars,
            SetupStep, Asked, Connected
<1>1. CASE Find /\ OnBlueZ
  BY <1>1, QueuesStay DEF Find, OnBlueZ, IInv, QueueTypes, BeforeListening, BackendsApart
<1>2. CASE EnsureConnected /\ OnBlueZ
  BY <1>2, QueuesStay
     DEF EnsureConnected, OnBlueZ, IInv, QueueTypes, BeforeListening, BackendsApart
<1>3. CASE Resolving /\ OnBlueZ
  BY <1>3, QueuesStay
     DEF Resolving, ServicesResolved, NotResolvedYet, OnBlueZ,
         IInv, QueueTypes, BeforeListening, BackendsApart
<1>4. CASE AcquireNotify /\ OnBlueZ
  <2>1. inbound' = <<>> /\ received' = <<>> /\ forwarded' = <<>>
    BY <1>4 DEF AcquireNotify, OnBlueZ, IInv, BeforeListening, BackendsApart
  <2>2. BeforeListening' /\ BackendsApart'
    BY <1>4, <2>1 DEF AcquireNotify, OnBlueZ, IInv, BeforeListening, BackendsApart
  <2>3. QueueTypes'
    BY <1>4 DEF AcquireNotify, OnBlueZ, IInv, QueueTypes
  <2>4. OnTheWay' = <<>>
    BY <2>1, EmptySeq, ConcatEmptySeq DEF OnTheWay
  <2> QED BY <2>2, <2>3, <2>4, FirstNoGap DEF IInv
<1>5. CASE (Asked("Characteristics", "AcquireNotify") \/ Asked("AcquireWrite", "Done"))
             /\ UNCHANGED bluezVars /\ OnBlueZ
  BY <1>5, QueuesStay DEF OnBlueZ, IInv, QueueTypes, BeforeListening, BackendsApart
<1>6. CASE BtleplugSetup /\ OnBtleplug
  BY <1>6, QueuesStay
     DEF BtleplugSetup, Scan, Spawn, OnBtleplug,
         IInv, QueueTypes, BeforeListening, BackendsApart
<1>7. CASE SetupFails /\ UNCHANGED <<backend, bluezVars, btleplugVars>>
  BY <1>7, QueuesStay DEF SetupFails, IInv, QueueTypes, BeforeListening, BackendsApart
<1> QED BY <1>1, <1>2, <1>3, <1>4, <1>5, <1>6, <1>7 DEF Connect, BlueZSetup, AcquireFds

(* read() moves the oldest notification of a queue to the caller. *)
LEMMA ReadKeepsIInv == IInv /\ Read => IInv'
<1> SUFFICES ASSUME IInv, Read PROVE IInv'
  OBVIOUS
<1> USE DEF stackVars, callVars, peerVars, callHistory, linkVars, bluezVars, btleplugVars
<1>1. CASE BlueZRead /\ OnBlueZ
  <2>1. forwarded = <<>> /\ forwarded' = <<>> /\ inbound \in Seq(Nat) /\ received \in Seq(Nat)
    BY <1>1 DEF OnBlueZ, IInv, QueueTypes, BeforeListening, BackendsApart
  <2>2. BeforeListening' /\ BackendsApart' /\ UNCHANGED <<notified, listening>>
    BY <1>1 DEF BlueZRead, ReadFrom, OnBlueZ, IInv, BeforeListening, BackendsApart
  <2>3. CASE inbound = <<>>
    <3>1. UNCHANGED <<inbound, received>>
      BY <1>1, <2>3 DEF BlueZRead, ReadFrom
    <3> QED BY <2>1, <2>2, <3>1, QueuesStay DEF IInv, QueueTypes
  <2>4. CASE inbound # <<>>
    <3>1. inbound' = Tail(inbound) /\ received' = Append(received, Head(inbound))
      BY <1>1, <2>4 DEF BlueZRead, ReadFrom
    <3>2. received' \in Seq(Nat) /\ inbound' \in Seq(Nat) /\ received' \o inbound' = received \o inbound
      BY <2>1, <2>4, <3>1, Moved
    <3>3. OnTheWay = received \o inbound /\ OnTheWay' = received' \o inbound'
      BY <2>1, <3>2, ConcatEmptySeq DEF OnTheWay
    <3>4. NoGap'
      BY <2>2, <3>2, <3>3, StillNoGap DEF IInv
    <3> QED BY <2>1, <2>2, <3>2, <3>4, EmptySeq DEF IInv, QueueTypes
  <2> QED BY <2>3, <2>4
<1>2. CASE BtleplugRead /\ OnBtleplug
  <2>1. forwarded \in Seq(Nat) /\ inbound \in Seq(Nat) /\ received \in Seq(Nat)
    BY DEF IInv, QueueTypes
  <2>2. UNCHANGED <<inbound, notified, listening, setup, caller, thread, backend>>
    BY <1>2 DEF BtleplugRead, ReadFrom, OnBtleplug
  <2>3. CASE forwarded = <<>>
    <3>1. UNCHANGED <<forwarded, received>>
      BY <1>2, <2>3 DEF BtleplugRead, ReadFrom
    <3> QED BY <2>2, <3>1, QueuesStay DEF IInv, QueueTypes, BeforeListening, BackendsApart
  <2>4. CASE forwarded # <<>>
    <3>1. forwarded' = Tail(forwarded) /\ received' = Append(received, Head(forwarded))
      BY <1>2, <2>4 DEF BtleplugRead, ReadFrom
    <3>2. received' \in Seq(Nat) /\ forwarded' \in Seq(Nat)
          /\ received' \o forwarded' = received \o forwarded
      BY <2>1, <2>4, <3>1, Moved
    <3>3. OnTheWay' = OnTheWay
      BY <2>2, <3>2 DEF OnTheWay
    <3>4. NoGap'
      BY <2>2, <3>3, StillNoGap DEF IInv
    <3>5. setup = "Done" /\ thread \notin {"None", "Starting"}
      BY <1>2, <2>4 DEF BtleplugRead, ReadFrom, IInv, BeforeListening
    <3>6. BeforeListening' /\ BackendsApart'
      BY <2>2, <3>5 DEF IInv, BeforeListening, BackendsApart
    <3> QED BY <2>2, <3>2, <3>4, <3>6 DEF IInv, QueueTypes
  <2> QED BY <2>3, <2>4
<1> QED BY <1>1, <1>2 DEF Read

LEMMA CallsKeepIInv == IInv /\ (Call \/ Write \/ DropTransport \/ Daemon) => IInv'
<1> SUFFICES ASSUME IInv, Call \/ Write \/ DropTransport \/ Daemon PROVE IInv'
  OBVIOUS
<1> USE QueuesStay DEF stackVars, callVars, peerVars, callHistory, linkVars, bluezVars, btleplugVars,
            IInv, QueueTypes, BeforeListening, BackendsApart
<1>1. CASE Call
  BY <1>1 DEF Call, BeginWrite
<1>2. CASE BlueZWrite /\ OnBlueZ
  <2>1. CASE WriteRefused
    BY <1>2, <2>1 DEF WriteRefused, EndWrite, OnBlueZ
  <2>2. ASSUME NEW k \in 1 .. Len(rest), WriteSome(k) PROVE IInv'
    BY <1>2, <2>2 DEF WriteSome, EndWrite, OnBlueZ
  <2> QED BY <1>2, <2>1, <2>2 DEF BlueZWrite
<1>3. CASE BtleplugWrite /\ OnBtleplug
  BY <1>3 DEF BtleplugWrite, SendCommand, SendRefused, EndWrite, OnBtleplug
<1>4. CASE DropTransport
  BY <1>4 DEF DropTransport, BlueZDrop, BtleplugDrop, Drop, OnBlueZ, OnBtleplug
<1>5. CASE Daemon
  BY <1>5 DEF Daemon, Bluetoothd, Transmit, OnBlueZ
<1> QED BY <1>1, <1>2, <1>3, <1>4, <1>5 DEF Write

(* The background thread moves the oldest notification from one queue to    *)
(* the next, or begins to listen, or ends.                                  *)
LEMMA BackgroundKeepsIInv == IInv /\ Background => IInv'
<1> SUFFICES ASSUME IInv, Background PROVE IInv'
  OBVIOUS
<1> USE DEF stackVars, callVars, peerVars, callHistory, linkVars, bluezVars, btleplugVars, OnBtleplug
<1>1. backend # "BlueZ" /\ backend' = backend
  BY DEF Background
<1>2. CASE thread # "None" /\ Exits
  BY <1>1, <1>2, QueuesStay DEF Exits, IInv, QueueTypes, BeforeListening, BackendsApart
<1>3. CASE OpenStream
  <2>1. CASE Exits
    BY <1>2, <1>3, <2>1 DEF OpenStream
  <2>2. CASE ~Exits
    <3>1. inbound' = <<>> /\ received' = <<>> /\ forwarded' = <<>>
          /\ setup' = "Done" /\ thread' = "Selecting" /\ listening' = TRUE
          /\ notified' = notified
      BY <1>3, <2>2 DEF OpenStream, IInv, BeforeListening
    <3>2. OnTheWay' = <<>>
      BY <3>1, EmptySeq, ConcatEmptySeq DEF OnTheWay
    <3>3. NoGap'
      BY <3>2, FirstNoGap
    <3>4. QueueTypes'
      BY <3>1, EmptySeq DEF IInv, QueueTypes
    <3>5. BeforeListening' /\ BackendsApart'
      BY <1>1, <3>1 DEF BeforeListening, BackendsApart
    <3> QED BY <3>3, <3>4, <3>5 DEF IInv
  <2> QED BY <2>1, <2>2
<1>4. CASE Forward
  <2>1. CASE Exits
    BY <1>2, <1>4, <2>1 DEF Forward
  <2>2. CASE ~Exits
    <3>1. /\ inbound # <<>> /\ inbound' = Tail(inbound)
          /\ forwarded' = Append(forwarded, Head(inbound))
          /\ thread = "Selecting" /\ thread' = thread
          /\ UNCHANGED <<received, notified, listening, setup, caller>>
      BY <1>4, <2>2 DEF Forward
    <3>2. inbound \in Seq(Nat) /\ forwarded \in Seq(Nat) /\ received \in Seq(Nat)
      BY DEF IInv, QueueTypes
    <3>3. inbound' \in Seq(Nat) /\ forwarded' \in Seq(Nat)
          /\ forwarded' \o inbound' = forwarded \o inbound
      BY <3>1, <3>2, Moved
    <3>4. (received \o forwarded') \o inbound' = received \o (forwarded' \o inbound')
      BY <3>2, <3>3, Associated, Zenon
    <3>5. (received \o forwarded) \o inbound = received \o (forwarded \o inbound)
      BY <3>2, Associated, Zenon
    <3>6. OnTheWay' = OnTheWay
      BY <3>1, <3>3, <3>4, <3>5 DEF OnTheWay
    <3>7. NoGap'
      BY <3>1, <3>6, StillNoGap DEF IInv
    <3>8. BeforeListening' /\ BackendsApart'
      BY <1>1, <3>1 DEF IInv, BeforeListening, BackendsApart
    <3> QED BY <3>1, <3>3, <3>7, <3>8 DEF IInv, QueueTypes
  <2> QED BY <2>1, <2>2
<1>5. CASE TakeCommand
  BY <1>1, <1>5, QueuesStay
     DEF TakeCommand, IInv, QueueTypes, BeforeListening, BackendsApart
<1>6. CASE WriteDone
  BY <1>1, <1>6, QueuesStay
     DEF WriteDone, IInv, QueueTypes, BeforeListening, BackendsApart
<1> QED BY <1>2, <1>3, <1>4, <1>5, <1>6
        DEF Background, BackgroundLoop, WriteFailed, AllBranchesDisabled

LEMMA PeerKeepsIInv == IInv /\ Peer => IInv'
<1> SUFFICES ASSUME IInv, Peer PROVE IInv'
  OBVIOUS
<1> USE DEF stackVars, callVars, peerVars, callHistory, linkVars, bluezVars, btleplugVars
<1>1. CASE Notification /\ UNCHANGED <<backend, bluezVars, btleplugVars>>
  BY <1>1, NotifyKeepsIInv
<1>2. CASE LinkLost /\ UNCHANGED <<backend, bluezVars, btleplugVars>>
  BY <1>2, QueuesStay DEF LinkLost, IInv, QueueTypes, BeforeListening, BackendsApart
<1>3. CASE StreamEnds /\ OnBtleplug
  BY <1>3, QueuesStay
     DEF StreamEnds, OnBtleplug, IInv, QueueTypes, BeforeListening, BackendsApart
<1> QED BY <1>1, <1>2, <1>3 DEF Peer

LEMMA StepIInv == IInv /\ [Next]_vars => IInv'
<1> SUFFICES ASSUME IInv, [Next]_vars PROVE IInv'
  OBVIOUS
<1>1. CASE UNCHANGED vars
  BY <1>1, QueuesStay
     DEF vars, stackVars, callVars, peerVars, callHistory, linkVars, btleplugVars,
         IInv, QueueTypes, BeforeListening, BackendsApart
<1> QED BY <1>1, ConnectKeepsIInv, ReadKeepsIInv, CallsKeepIInv, BackgroundKeepsIInv,
           PeerKeepsIInv DEF Next

(* However the link, the stack and the background thread behave, read()     *)
(* never skips a notification once the transport listens (bluez.rs read;    *)
(* background_loop and read of btleplug.rs).                                *)
THEOREM NotificationsNeverSkipped == Spec => []NoGap
<1>1. IInv => NoGap
  BY DEF IInv
<1> QED BY <1>1, InitIInv, StepIInv, PTL DEF Spec

-----------------------------------------------------------------------------
(* Induction over the natural numbers, for a set. *)
LEMMA AllNaturals ==
  ASSUME NEW T \in SUBSET Nat, 0 \in T, \A n \in T : n + 1 \in T
  PROVE  \A n \in Nat : n \in T
<1> DEFINE Rest == Nat \ T
           Less == {pair \in Nat \X Nat : pair[1] < pair[2]}
<1> SUFFICES ASSUME Rest # {} PROVE FALSE
  OBVIOUS
<1>1. PICK m \in Rest : \A k \in Rest : ~(<<k, m>> \in Less)
  <2>1. IsWellFoundedOn(Less, Nat)
    BY NatLessThanWellFounded, Zenon DEF OpToRel
  <2>2. Rest \subseteq Nat
    OBVIOUS
  <2> HIDE DEF Rest, Less
  <2> QED BY <2>1, <2>2, WFMin
<1>2. m \in Nat /\ m # 0 /\ m - 1 \in T
  <2>1. m \in Nat /\ m # 0 /\ m - 1 \in Nat
    OBVIOUS
  <2>2. <<m - 1, m>> \in Less
    BY <2>1
  <2> QED BY <1>1, <2>1, <2>2
<1>3. m - 1 + 1 = m
  BY <1>2
<1> QED BY <1>1, <1>2, <1>3

(* What FlattenSeq computes, one sequence at a time. *)
Then(s, t) == s \o t
Joins(f, parts) ==
  f = [i \in 1 .. Len(parts) |-> IF i = 1 THEN parts[i] ELSE Then(f[i - 1], parts[i])]

LEMMA FlattenSteps ==
  ASSUME NEW S, NEW parts \in Seq(Seq(S)), parts # <<>>
  PROVE  \E f : Joins(f, parts) /\ FlattenSeq(parts) = f[Len(parts)]
<1> DEFINE Computes(f, m) == f = [i \in 1 .. m |-> IF i = 1 THEN parts[i] ELSE Then(f[i - 1], parts[i])]
           T == {m \in Nat : \E f : Computes(f, m)}
<1>1. 0 \in T
  <2>1. Computes([i \in 1 .. 0 |-> parts[i]], 0)
    OBVIOUS
  <2> QED BY <2>1
<1>2. ASSUME NEW m \in T PROVE m + 1 \in T
  <2>1. PICK f : Computes(f, m)
    OBVIOUS
  <2> DEFINE h == [i \in 1 .. m + 1 |->
                     IF i <= m THEN f[i] ELSE IF i = 1 THEN parts[i] ELSE Then(f[m], parts[i])]
  <2> m \in Nat
    OBVIOUS
  <2>2. ASSUME NEW i \in 1 .. m + 1
        PROVE  h[i] = IF i = 1 THEN parts[i] ELSE Then(h[i - 1], parts[i])
    <3>1. CASE i = 1
      BY <2>1, <3>1
    <3>2. CASE i \in 2 .. m
      <4>1. h[i] = f[i] /\ h[i - 1] = f[i - 1] /\ f[i] = Then(f[i - 1], parts[i])
        BY <2>1, <3>2
      <4> QED BY <3>2, <4>1
    <3>3. CASE i = m + 1 /\ i # 1
      <4>1. h[i] = Then(f[m], parts[i]) /\ h[i - 1] = f[m]
        BY <3>3
      <4> QED BY <3>3, <4>1
    <3> QED BY <3>1, <3>2, <3>3
  <2>3. Computes(h, m + 1)
    BY <2>2
  <2> HIDE DEF Computes, h
  <2> QED BY <2>3
<1>3. Len(parts) \in T
  <2>1. T \in SUBSET Nat /\ Len(parts) \in Nat
    OBVIOUS
  <2> HIDE DEF T
  <2> QED BY <1>1, <1>2, <2>1, AllNaturals
<1>4. \E f : Joins(f, parts)
  BY <1>3 DEF Joins
<1>5. FlattenSeq(parts) = (CHOOSE f : Joins(f, parts))[Len(parts)]
  BY DEF FlattenSeq, Joins, Then
<1> QED BY <1>4, <1>5, Zenon

LEMMA JoinsStep ==
  ASSUME NEW parts, Len(parts) \in Nat, NEW f, Joins(f, parts)
  PROVE  /\ Len(parts) > 0 => f[1] = parts[1]
         /\ \A i \in Nat : i > 0 /\ i < Len(parts) => f[i + 1] = Then(f[i], parts[i + 1])
<1>1. \A j \in 1 .. Len(parts) : f[j] = IF j = 1 THEN parts[j] ELSE Then(f[j - 1], parts[j])
  BY Zenon DEF Joins
<1>2. ASSUME NEW i \in Nat, i > 0, i < Len(parts) PROVE f[i + 1] = Then(f[i], parts[i + 1])
  <2>1. i + 1 \in 1 .. Len(parts) /\ i + 1 # 1 /\ (i + 1) - 1 = i
    BY <1>2
  <2> QED BY <1>1, <2>1, Zenon
<1>3. Len(parts) > 0 => f[1] = parts[1]
  <2>1. Len(parts) > 0 => 1 \in 1 .. Len(parts)
    OBVIOUS
  <2> QED BY <1>1, <2>1, Zenon
<1> QED BY <1>2, <1>3

LEMMA FlattenNone == FlattenSeq(<<>>) = <<>>
  BY DEF FlattenSeq

LEMMA FlattenType ==
  ASSUME NEW S, NEW parts \in Seq(Seq(S))
  PROVE  FlattenSeq(parts) \in Seq(S)
<1>1. CASE parts = <<>>
  BY <1>1, FlattenNone, EmptySeq
<1>2. CASE parts # <<>>
  <2>1. PICK f : Joins(f, parts) /\ FlattenSeq(parts) = f[Len(parts)]
    BY <1>2, FlattenSteps
  <2>2. /\ f[1] = parts[1] /\ Len(parts) \in Nat /\ Len(parts) > 0
        /\ \A i \in Nat : i > 0 /\ i < Len(parts) => f[i + 1] = Then(f[i], parts[i + 1])
    BY <1>2, <2>1, JoinsStep
  <2> DEFINE T == {m \in Nat : m < Len(parts) => f[m + 1] \in Seq(S)}
  <2>3. 0 \in T
    BY <2>2
  <2>4. ASSUME NEW m \in T PROVE m + 1 \in T
    <3> SUFFICES ASSUME m + 1 < Len(parts) PROVE f[(m + 1) + 1] \in Seq(S)
      OBVIOUS
    <3>1. f[m + 1] \in Seq(S) /\ parts[(m + 1) + 1] \in Seq(S)
      BY <2>2
    <3>2. f[(m + 1) + 1] = Then(f[m + 1], parts[(m + 1) + 1])
      BY <2>2
    <3>3. f[m + 1] \o parts[(m + 1) + 1] \in Seq(S)
      BY <3>1, ConcatProperties
    <3> QED BY <3>2, <3>3, Zenon DEF Then
  <2>5. Len(parts) - 1 \in T
    <3>1. Len(parts) - 1 \in Nat
      BY <2>2
    <3>2. T \in SUBSET Nat
      OBVIOUS
    <3> HIDE DEF T
    <3> QED BY <2>3, <2>4, <3>1, <3>2, AllNaturals
  <2>6. (Len(parts) - 1) + 1 = Len(parts) /\ Len(parts) - 1 < Len(parts)
    BY <2>2
  <2> QED BY <2>1, <2>5, <2>6
<1> QED BY <1>1, <1>2

LEMMA FlattenAppend ==
  ASSUME NEW S, NEW parts \in Seq(Seq(S)), NEW x \in Seq(S)
  PROVE  FlattenSeq(Append(parts, x)) = FlattenSeq(parts) \o x
<1> DEFINE longer == Append(parts, x)
           n == Len(parts)
<1>1. /\ longer \in Seq(Seq(S)) /\ longer # <<>> /\ Len(longer) = n + 1 /\ longer[n + 1] = x
      /\ n \in Nat /\ \A i \in 1 .. n : longer[i] = parts[i]
  BY AppendProperties
<1> HIDE DEF longer
<1>2. PICK g : Joins(g, longer) /\ FlattenSeq(longer) = g[n + 1]
  <2>1. \E g : Joins(g, longer) /\ FlattenSeq(longer) = g[Len(longer)]
    BY <1>1, FlattenSteps
  <2> QED BY <1>1, <2>1
<1>3. /\ g[1] = longer[1]
      /\ \A i \in Nat : i > 0 /\ i < n + 1 => g[i + 1] = Then(g[i], longer[i + 1])
  <2>1. Len(longer) \in Nat
    BY <1>1
  <2>2. /\ Len(longer) > 0 => g[1] = longer[1]
        /\ \A i \in Nat : i > 0 /\ i < Len(longer) => g[i + 1] = Then(g[i], longer[i + 1])
    BY <1>2, <2>1, JoinsStep
  <2> HIDE DEF n
  <2> QED BY <1>1, <2>2
<1>4. CASE parts = <<>>
  <2>1. n = 0
    BY <1>4
  <2>2. g[n + 1] = x
    BY <1>1, <1>3, <2>1
  <2>3. FlattenSeq(parts) \o x = x
    BY <1>4, FlattenNone, ConcatEmptySeq
  <2> QED BY <1>2, <2>2, <2>3 DEF longer
<1>5. CASE parts # <<>>
  <2>1. PICK f : Joins(f, parts) /\ FlattenSeq(parts) = f[n]
    BY <1>5, FlattenSteps
  <2>2. /\ f[1] = parts[1] /\ n > 0
        /\ \A i \in Nat : i > 0 /\ i < n => f[i + 1] = Then(f[i], parts[i + 1])
    BY <1>1, <1>5, <2>1, JoinsStep
  <2> HIDE DEF n
  <2> DEFINE T == {m \in Nat : m < n => f[m + 1] = g[m + 1]}
  <2>3. 0 \in T
    BY <1>1, <1>3, <2>2
  <2>4. ASSUME NEW m \in T PROVE m + 1 \in T
    <3> SUFFICES ASSUME m + 1 < n PROVE f[(m + 1) + 1] = g[(m + 1) + 1]
      OBVIOUS
    <3>1. f[m + 1] = g[m + 1] /\ parts[(m + 1) + 1] = longer[(m + 1) + 1]
      BY <1>1
    <3>2. f[(m + 1) + 1] = Then(f[m + 1], parts[(m + 1) + 1])
      BY <1>1, <2>2
    <3>3. g[(m + 1) + 1] = Then(g[m + 1], longer[(m + 1) + 1])
      BY <1>1, <1>3
    <3> QED BY <3>1, <3>2, <3>3, Zenon
  <2>5. n - 1 \in T
    <3>1. n - 1 \in Nat
      BY <1>1, <2>2
    <3>2. T \in SUBSET Nat
      OBVIOUS
    <3> HIDE DEF T
    <3> QED BY <2>3, <2>4, <3>1, <3>2, AllNaturals
  <2>6. (n - 1) + 1 = n /\ n - 1 < n
    BY <1>1
  <2>7. f[n] = g[n]
    BY <2>5, <2>6
  <2>8. g[n + 1] = Then(g[n], x)
    BY <1>1, <1>3, <2>2
  <2> QED BY <1>2, <2>1, <2>7, <2>8, Zenon DEF longer, Then
<1> QED BY <1>4, <1>5

(* The first of them, by induction on their number. *)
LEMMA FlattenFirst ==
  ASSUME NEW S, NEW parts \in Seq(Seq(S)), NEW x \in Seq(S)
  PROVE  FlattenSeq(<<x>> \o parts) = x \o FlattenSeq(parts)
<1> DEFINE Holds(p) == FlattenSeq(<<x>> \o p) = x \o FlattenSeq(p)
           T == {m \in Nat : \A p \in Seq(Seq(S)) : Len(p) = m => Holds(p)}
<1> HIDE DEF Holds
<1>1. 0 \in T
  <2> SUFFICES ASSUME NEW p \in Seq(Seq(S)), Len(p) = 0 PROVE Holds(p)
    OBVIOUS
  <2>1. p = <<>> /\ <<x>> \o p = Append(<<>>, x)
    OBVIOUS
  <2>2. <<>> \in Seq(Seq(S)) /\ x \o <<>> = x /\ <<>> \o x = x
    BY EmptySeq, ConcatEmptySeq
  <2>3. FlattenSeq(Append(<<>>, x)) = <<>> \o x
    BY <2>2, FlattenAppend, FlattenNone
  <2> QED BY <2>1, <2>2, <2>3, FlattenNone DEF Holds
<1>2. ASSUME NEW m \in T PROVE m + 1 \in T
  <2> SUFFICES ASSUME NEW p \in Seq(Seq(S)), Len(p) = m + 1 PROVE Holds(p)
    OBVIOUS
  <2>1. PICK q \in Seq(Seq(S)), y \in Seq(S) : p = Append(q, y)
    <3>1. p # <<>>
      OBVIOUS
    <3> QED BY <3>1, SequenceEmptyOrAppend
  <2>2. Len(q) = m
    BY <2>1, AppendProperties
  <2>3. Holds(q)
    BY <2>2
  <2>4. <<x>> \o q \in Seq(Seq(S)) /\ <<x>> \o p = Append(<<x>> \o q, y)
    BY <2>1
  <2>5. FlattenSeq(<<x>> \o p) = FlattenSeq(<<x>> \o q) \o y
    BY <2>4, FlattenAppend, Zenon
  <2>6. FlattenSeq(p) = FlattenSeq(q) \o y /\ FlattenSeq(q) \in Seq(S)
    BY <2>1, FlattenAppend, FlattenType, Zenon
  <2>7. (x \o FlattenSeq(q)) \o y = x \o (FlattenSeq(q) \o y)
    BY <2>6, ConcatAssociative
  <2> QED BY <2>3, <2>5, <2>6, <2>7, Zenon DEF Holds
<1>3. Len(parts) \in T
  <2>1. T \in SUBSET Nat /\ Len(parts) \in Nat
    OBVIOUS
  <2> HIDE DEF T
  <2> QED BY <1>1, <1>2, <2>1, AllNaturals
<1> QED BY <1>3 DEF Holds

-----------------------------------------------------------------------------
(* The chunks of writes. *)

ChunkOn(c, called, n) == IF called[n] = c THEN Chunk(n) ELSE <<>>
PartsOn(c, called, numbers) == [k \in DOMAIN numbers |-> ChunkOn(c, called, numbers[k])]

LEMMA ChunkPieced ==
  ASSUME NEW n \in Nat
  PROVE  Chunk(n) \in Seq(Pieced) /\ Len(Chunk(n)) = Pieces /\ Chunk(n) # <<>>
<1>1. Pieces \in Nat /\ Pieces > 0
  BY LinkAssumption
<1>2. Chunk(n) \in [1 .. Pieces -> Pieced]
  BY DEF Chunk, Pieced
<1> QED BY <1>1, <1>2

LEMMA ChunkOnPieced ==
  ASSUME NEW c, NEW called, NEW n \in Nat
  PROVE  ChunkOn(c, called, n) \in Seq(Pieced)
BY ChunkPieced, EmptySeq DEF ChunkOn

LEMMA PartsPieced ==
  ASSUME NEW c, NEW called, NEW numbers \in Seq(Nat)
  PROVE  /\ PartsOn(c, called, numbers) \in Seq(Seq(Pieced))
         /\ ChunksOn(c, called, numbers) = FlattenSeq(PartsOn(c, called, numbers))
         /\ ChunksOn(c, called, numbers) \in Seq(Pieced)
<1>1. \A k \in DOMAIN numbers : numbers[k] \in Nat
  OBVIOUS
<1>2. \A k \in DOMAIN numbers : ChunkOn(c, called, numbers[k]) \in Seq(Pieced)
  BY <1>1, ChunkOnPieced
<1>3. PartsOn(c, called, numbers) \in [1 .. Len(numbers) -> Seq(Pieced)] /\ Len(numbers) \in Nat
  BY <1>2 DEF PartsOn
<1>4. PartsOn(c, called, numbers) \in Seq(Seq(Pieced))
  BY <1>3
<1>5. ChunksOn(c, called, numbers) = FlattenSeq(PartsOn(c, called, numbers))
  BY Zenon DEF ChunksOn, PartsOn, ChunkOn
<1> QED BY <1>4, <1>5, FlattenType

LEMMA ChunksNone ==
  ASSUME NEW c, NEW called
  PROVE  ChunksOn(c, called, <<>>) = <<>>
<1>1. PartsOn(c, called, <<>>) = <<>>
  BY DEF PartsOn
<1>2. <<>> \in Seq(Nat)
  BY EmptySeq
<1> QED BY <1>1, <1>2, PartsPieced, FlattenNone

LEMMA ChunksAppend ==
  ASSUME NEW c, NEW called, NEW numbers \in Seq(Nat), NEW n \in Nat
  PROVE  ChunksOn(c, called, Append(numbers, n)) = ChunksOn(c, called, numbers) \o ChunkOn(c, called, n)
<1>1. Append(numbers, n) \in Seq(Nat)
  OBVIOUS
<1> DEFINE parts == PartsOn(c, called, numbers)
           last == ChunkOn(c, called, n)
<1>2. parts \in Seq(Seq(Pieced)) /\ last \in Seq(Pieced)
  BY PartsPieced, ChunkOnPieced
<1>3. PartsOn(c, called, Append(numbers, n)) = Append(parts, last)
  <2>1. DOMAIN parts = 1 .. Len(numbers) /\ Len(parts) = Len(numbers) /\ Len(numbers) \in Nat
    BY <1>2 DEF PartsOn
  <2>2. \A k \in 1 .. Len(numbers) : parts[k] = ChunkOn(c, called, numbers[k])
    BY DEF PartsOn
  <2>3. /\ DOMAIN PartsOn(c, called, Append(numbers, n)) = 1 .. Len(numbers) + 1
        /\ \A k \in 1 .. Len(numbers) + 1 :
             PartsOn(c, called, Append(numbers, n))[k] = ChunkOn(c, called, Append(numbers, n)[k])
    BY <1>1, <2>1 DEF PartsOn
  <2>4. \A k \in 1 .. Len(numbers) : Append(numbers, n)[k] = numbers[k]
    OBVIOUS
  <2>5. Append(numbers, n)[Len(numbers) + 1] = n
    OBVIOUS
  <2>6. PartsOn(c, called, Append(numbers, n)) \in Seq(Seq(Pieced))
    BY <1>1, PartsPieced
  <2> HIDE DEF parts, last
  <2>7. /\ Append(parts, last) \in Seq(Seq(Pieced)) /\ Len(Append(parts, last)) = Len(numbers) + 1
        /\ \A k \in 1 .. Len(numbers) : Append(parts, last)[k] = parts[k]
        /\ Append(parts, last)[Len(numbers) + 1] = last
    BY <1>2, <2>1, AppendProperties
  <2>8. ASSUME NEW k \in 1 .. Len(numbers) + 1
        PROVE  PartsOn(c, called, Append(numbers, n))[k] = Append(parts, last)[k]
    <3>1. CASE k \in 1 .. Len(numbers)
      BY <2>2, <2>3, <2>4, <2>7, <3>1
    <3>2. CASE k = Len(numbers) + 1
      BY <2>3, <2>5, <2>7, <3>2 DEF last
    <3> QED BY <2>1, <3>1, <3>2
  <2>9. Len(PartsOn(c, called, Append(numbers, n))) = Len(numbers) + 1
    BY <2>1, <2>3, <2>6
  <2> QED BY <2>6, <2>7, <2>8, <2>9, SeqEqual
<1> HIDE DEF parts, last
<1>4. FlattenSeq(Append(parts, last)) = FlattenSeq(parts) \o last
  BY <1>2, FlattenAppend
<1>5. /\ ChunksOn(c, called, Append(numbers, n)) = FlattenSeq(PartsOn(c, called, Append(numbers, n)))
      /\ ChunksOn(c, called, numbers) = FlattenSeq(PartsOn(c, called, numbers))
  BY <1>1, PartsPieced
<1> QED BY <1>3, <1>4, <1>5, Zenon DEF parts, last

LEMMA ChunksFirst ==
  ASSUME NEW c, NEW called, NEW numbers \in Seq(Nat), NEW n \in Nat
  PROVE  ChunksOn(c, called, <<n>> \o numbers) = ChunkOn(c, called, n) \o ChunksOn(c, called, numbers)
<1> DEFINE parts == PartsOn(c, called, numbers)
           first == ChunkOn(c, called, n)
           all == <<n>> \o numbers
<1>1. /\ all \in Seq(Nat) /\ Len(all) = Len(numbers) + 1 /\ all[1] = n
      /\ Len(numbers) \in Nat /\ \A k \in 1 .. Len(numbers) : all[k + 1] = numbers[k]
  OBVIOUS
<1>2. parts \in Seq(Seq(Pieced)) /\ first \in Seq(Pieced)
  BY PartsPieced, ChunkOnPieced
<1> HIDE DEF all
<1>3. PartsOn(c, called, all) = <<first>> \o parts
  <2>1. Len(parts) = Len(numbers)
    BY <1>1, <1>2 DEF PartsOn
  <2>2. \A k \in 1 .. Len(numbers) : parts[k] = ChunkOn(c, called, numbers[k])
    BY DEF PartsOn
  <2>3. \A k \in 1 .. Len(numbers) + 1 : PartsOn(c, called, all)[k] = ChunkOn(c, called, all[k])
    BY <1>1 DEF PartsOn
  <2>4. PartsOn(c, called, all) \in Seq(Seq(Pieced)) /\ DOMAIN PartsOn(c, called, all) = 1 .. Len(numbers) + 1
    <3>1. PartsOn(c, called, all) \in Seq(Seq(Pieced))
      BY <1>1, PartsPieced
    <3>2. DOMAIN PartsOn(c, called, all) = DOMAIN all
      BY DEF PartsOn
    <3> QED BY <1>1, <3>1, <3>2
  <2>5. Len(PartsOn(c, called, all)) = Len(numbers) + 1
    BY <1>1, <2>4
  <2> HIDE DEF parts, first
  <2>6. /\ <<first>> \o parts \in Seq(Seq(Pieced)) /\ Len(<<first>> \o parts) = Len(numbers) + 1
        /\ (<<first>> \o parts)[1] = first
        /\ \A k \in 1 .. Len(numbers) : (<<first>> \o parts)[k + 1] = parts[k]
    BY <1>1, <1>2, <2>1
  <2>7. ASSUME NEW k \in 1 .. Len(numbers) + 1
        PROVE  PartsOn(c, called, all)[k] = (<<first>> \o parts)[k]
    <3>1. CASE k = 1
      BY <1>1, <2>3, <2>6, <3>1 DEF first
    <3>2. CASE k > 1
      <4>1. k - 1 \in 1 .. Len(numbers) /\ (k - 1) + 1 = k
        BY <1>1, <3>2
      <4>2. all[k] = numbers[k - 1] /\ (<<first>> \o parts)[k] = parts[k - 1]
        BY <1>1, <2>6, <4>1, Zenon
      <4> QED BY <2>2, <2>3, <4>1, <4>2
    <3>3. k = 1 \/ k > 1
      BY <1>1
    <3> QED BY <3>1, <3>2, <3>3, Zenon
  <2> QED BY <2>4, <2>5, <2>6, <2>7, SeqEqual
<1> HIDE DEF parts, first
<1>4. FlattenSeq(<<first>> \o parts) = first \o FlattenSeq(parts)
  BY <1>2, FlattenFirst
<1>5. /\ ChunksOn(c, called, all) = FlattenSeq(PartsOn(c, called, all))
      /\ ChunksOn(c, called, numbers) = FlattenSeq(PartsOn(c, called, numbers))
  BY <1>1, PartsPieced
<1> QED BY <1>3, <1>4, <1>5, Zenon DEF parts, first, all

(* A write called later is not among them. *)
LEMMA ChunksCalled ==
  ASSUME NEW c, NEW called \in Seq(Channels), NEW channel \in Channels,
         NEW numbers \in Seq(1 .. Len(called))
  PROVE  ChunksOn(c, Append(called, channel), numbers) = ChunksOn(c, called, numbers)
<1>1. Len(called) \in Nat
  OBVIOUS
<1>2. \A n \in 1 .. Len(called) : Append(called, channel)[n] = called[n]
  OBVIOUS
<1>3. \A k \in DOMAIN numbers : numbers[k] \in 1 .. Len(called)
  OBVIOUS
<1>4. \A k \in DOMAIN numbers :
        ChunkOn(c, Append(called, channel), numbers[k]) = ChunkOn(c, called, numbers[k])
  BY <1>2, <1>3 DEF ChunkOn
<1>5. PartsOn(c, Append(called, channel), numbers) = PartsOn(c, called, numbers)
  BY <1>4 DEF PartsOn
<1>6. numbers \in Seq(Nat)
  BY <1>1, <1>3
<1> QED BY <1>5, <1>6, PartsPieced

Numbers(called) == [n \in DOMAIN called |-> n]

LEMMA NumbersSeq ==
  ASSUME NEW called \in Seq(Channels)
  PROVE  /\ Numbers(called) \in Seq(1 .. Len(called)) /\ Numbers(called) \in Seq(Nat)
         /\ Len(called) \in Nat
BY DEF Numbers

LEMMA OneMoreOn ==
  ASSUME NEW c, NEW called \in Seq(Channels), NEW channel \in Channels
  PROVE  LET n == Len(called) + 1
             more == Append(called, channel) IN
         /\ n \in Nat /\ Len(more) = n /\ more \in Seq(Channels) /\ more[n] = channel
         /\ ChunksOn(c, more, Numbers(more))
              = ChunksOn(c, called, Numbers(called)) \o ChunkOn(c, more, n)
<1> DEFINE n == Len(called) + 1
           more == Append(called, channel)
<1>1. n \in Nat /\ Len(more) = n /\ more \in Seq(Channels) /\ more[n] = channel
  OBVIOUS
<1>2. Numbers(more) = Append(Numbers(called), n)
  <2>1. Len(called) \in Nat /\ Len(Numbers(called)) = Len(called) /\ Numbers(called) \in Seq(Nat)
    BY DEF Numbers
  <2>2. Len(Numbers(more)) = n /\ Numbers(more) \in Seq(Nat)
    BY <1>1 DEF Numbers
  <2>3. Len(Append(Numbers(called), n)) = n /\ Append(Numbers(called), n) \in Seq(Nat)
    BY <1>1, <2>1, AppendProperties
  <2>4. \A k \in 1 .. n : Numbers(more)[k] = k
    BY <1>1 DEF Numbers
  <2>5. \A k \in 1 .. n : Append(Numbers(called), n)[k] = k
    BY <2>1 DEF Numbers
  <2> HIDE DEF n, more
  <2> QED BY <2>2, <2>3, <2>4, <2>5, SeqEqual
<1>3. Numbers(called) \in Seq(1 .. Len(called)) /\ Numbers(called) \in Seq(Nat)
  BY NumbersSeq
<1>4. ChunksOn(c, more, Numbers(called)) = ChunksOn(c, called, Numbers(called))
  BY <1>3, ChunksCalled
<1>5. ChunksOn(c, more, Append(Numbers(called), n))
        = ChunksOn(c, more, Numbers(called)) \o ChunkOn(c, more, n)
  BY <1>1, <1>3, ChunksAppend
<1> QED BY <1>1, <1>2, <1>4, <1>5

-----------------------------------------------------------------------------
(* What has arrived, in front of what is still to come. *)

LEMMA Ahead ==
  ASSUME NEW S, NEW a \in Seq(S), NEW b \in Seq(S)
  PROVE  IsPrefix(a, a \o b)
<1>1. Len(a \o b) = Len(a) + Len(b) /\ Len(a) \in Nat /\ Len(b) \in Nat /\ a \o b \in Seq(S)
  OBVIOUS
<1>2. SubSeq(a, 1, Len(a)) = a
  BY SubSeqFull
<1>3. SubSeq(a \o b, 1, Len(a)) = a
  OBVIOUS
<1> QED BY <1>1, <1>2, <1>3 DEF IsPrefix

LEMMA StillAhead ==
  ASSUME NEW S, NEW a \in Seq(S), NEW b \in Seq(S), NEW x \in Seq(S), IsPrefix(a, b)
  PROVE  IsPrefix(a, b \o x)
<1>1. /\ Len(b \o x) = Len(b) + Len(x) /\ Len(a) \in Nat /\ Len(b) \in Nat /\ Len(x) \in Nat
      /\ Len(a) <= Len(b)
  BY DEF IsPrefix
<1>2. SubSeq(b \o x, 1, Len(a)) = SubSeq(b, 1, Len(a))
  BY <1>1
<1> QED BY <1>1, <1>2 DEF IsPrefix

LEMMA Regrouped ==
  ASSUME NEW r \in Seq(Pieced), NEW s \in Seq(Pieced), NEW t \in Seq(Pieced)
  PROVE  (r \o s) \o t = r \o (s \o t)
BY ConcatAssociative

LEMMA HeadMoved ==
  ASSUME NEW S, NEW r \in Seq(S), NEW s \in Seq(S), s # <<>>
  PROVE  /\ Tail(s) \in Seq(S) /\ Head(s) \in S
         /\ Append(r, Head(s)) \in Seq(S)
         /\ Append(r, Head(s)) \o Tail(s) = r \o s
<1>1. Tail(s) \in Seq(S) /\ Head(s) \in S /\ Append(r, Head(s)) \in Seq(S)
  BY HeadTailProperties, AppendProperties
<1>2. Append(r, Head(s)) = r \o <<Head(s)>>
  BY <1>1, AppendIsConcat
<1>3. s = <<Head(s)>> \o Tail(s)
  BY <1>1, HeadTailProperties
<1>4. (r \o <<Head(s)>>) \o Tail(s) = r \o (<<Head(s)>> \o Tail(s))
  BY <1>1, ConcatAssociative
<1> QED BY <1>1, <1>2, <1>3, <1>4

LEMMA Cut ==
  ASSUME NEW S, NEW s \in Seq(S), NEW k \in 1 .. Len(s)
  PROVE  /\ SubSeq(s, 1, k) \in Seq(S) /\ SubSeq(s, k + 1, Len(s)) \in Seq(S)
         /\ SubSeq(s, 1, k) \o SubSeq(s, k + 1, Len(s)) = s
         /\ k = Len(s) => SubSeq(s, k + 1, Len(s)) = <<>>
<1>1. k \in Nat /\ Len(s) \in Nat /\ k <= Len(s) /\ k > 0
  OBVIOUS
<1>2. SubSeq(s, 1, k) \in Seq(S) /\ Len(SubSeq(s, 1, k)) = k
  BY <1>1, SubSeqProperties
<1>3. SubSeq(s, k + 1, Len(s)) \in Seq(S) /\ Len(SubSeq(s, k + 1, Len(s))) = Len(s) - k
  BY <1>1
<1>6. SubSeq(s, 1, k) \o SubSeq(s, k + 1, Len(s)) = s
  <2>1. SubSeq(s, 1, k) \o SubSeq(s, k + 1, Len(s)) = SubSeq(s, 1, Len(s))
    BY <1>1, ConcatAdjacentSubSeq
  <2> QED BY <2>1, SubSeqFull
<1>7. k = Len(s) => SubSeq(s, k + 1, Len(s)) = <<>>
  BY <1>1
<1> QED BY <1>2, <1>3, <1>6, <1>7

-----------------------------------------------------------------------------
(* The writes that have been called. *)

WriteTypes ==
  /\ writes \in Seq(Channels)
  /\ rest \in Seq(Pieced)
  /\ arrived \in [Channels -> Seq(Pieced)]
  /\ socket \in [Channels -> Seq(Pieced)]
  /\ commands \in Seq(1 .. Len(writes)) /\ Len(commands) <= WriteCap
  /\ inHand \in 0 .. Len(writes)

(* A write is called by a client that has its transport, and is somewhere   *)
(* on the way of its backend only.                                          *)
Calls ==
  /\ backend = "BlueZ" => commands = <<>> /\ inHand = 0
  /\ backend # "BlueZ" => \A c \in Channels : socket[c] = <<>>
  /\ caller = "Writing" => writes # <<>>
  /\ caller = "Writing" /\ backend # "BlueZ" => rest = Chunk(Len(writes))
  /\ caller # "Writing" => rest = <<>>
  /\ inHand # 0 <=> thread = "Writing"
  /\ setup # "Done" =>
       /\ writes = <<>> /\ commands = <<>> /\ inHand = 0
       /\ \A c \in Channels : arrived[c] = <<>> /\ socket[c] = <<>>

AllThere == \A c \in Channels : (arrived[c] \o socket[c]) \o Waiting(c) = On(c)
Kept == link = "Up" /\ thread # "Exited" => AllThere
InFront == \A c \in Channels : IsPrefix(arrived[c], On(c))

(* WritesKept is not inductive: that the next piece to arrive is the next   *)
(* one called depends on where each backend can have pieces.                *)
WInv == IInv /\ WriteTypes /\ Calls /\ Kept /\ InFront

(* The parts a channel's pieces are in. *)
LEMMA Parts ==
  ASSUME WriteTypes, NEW c \in Channels
  PROVE  /\ arrived[c] \in Seq(Pieced) /\ socket[c] \in Seq(Pieced)
         /\ InHand \o commands \in Seq(1 .. Len(writes)) /\ InHand \o commands \in Seq(Nat)
         /\ ChunksOn(c, writes, InHand \o commands) \in Seq(Pieced)
         /\ RestOn(c) \in Seq(Pieced) /\ Waiting(c) \in Seq(Pieced)
         /\ On(c) = ChunksOn(c, writes, Numbers(writes)) /\ On(c) \in Seq(Pieced)
<1>1. arrived[c] \in Seq(Pieced) /\ socket[c] \in Seq(Pieced)
  BY DEF WriteTypes
<1>2. InHand \in Seq(1 .. Len(writes)) /\ commands \in Seq(1 .. Len(writes)) /\ Len(writes) \in Nat
  <2>1. commands \in Seq(1 .. Len(writes)) /\ Len(writes) \in Nat /\ inHand \in 0 .. Len(writes)
    BY DEF WriteTypes
  <2>2. CASE inHand = 0
    BY <2>1, <2>2, EmptySeq DEF InHand
  <2>3. CASE inHand # 0
    <3>1. inHand \in 1 .. Len(writes)
      BY <2>1, <2>3
    <3>2. <<inHand>> \in Seq(1 .. Len(writes))
      BY <3>1
    <3> QED BY <2>1, <2>3, <3>2 DEF InHand
  <2> QED BY <2>2, <2>3
<1>3. InHand \o commands \in Seq(1 .. Len(writes))
  BY <1>2, ConcatProperties
<1>4. InHand \o commands \in Seq(Nat)
  BY <1>2, <1>3, SeqMonotonic
<1>5. ChunksOn(c, writes, InHand \o commands) \in Seq(Pieced)
  BY <1>4, PartsPieced
<1>6. RestOn(c) \in Seq(Pieced)
  BY EmptySeq DEF RestOn, WriteTypes
<1>7. Waiting(c) \in Seq(Pieced)
  BY <1>5, <1>6, ConcatProperties DEF Waiting
<1>8. On(c) = ChunksOn(c, writes, Numbers(writes))
  BY DEF On, Numbers
<1>9. On(c) \in Seq(Pieced)
  <2>1. Numbers(writes) \in Seq(Nat)
    BY NumbersSeq DEF WriteTypes
  <2> QED BY <1>8, <2>1, PartsPieced
<1> QED BY <1>1, <1>3, <1>4, <1>5, <1>6, <1>7, <1>8, <1>9

LEMMA NothingCalled ==
  ASSUME WriteTypes, Calls, setup # "Done", caller # "Writing" PROVE AllThere
<1> SUFFICES ASSUME NEW c \in Channels PROVE (arrived[c] \o socket[c]) \o Waiting(c) = On(c)
  BY DEF AllThere
<1>1. arrived[c] = <<>> /\ socket[c] = <<>> /\ writes = <<>> /\ rest = <<>>
  BY DEF Calls
<1>2. InHand \o commands = <<>> /\ Numbers(writes) = <<>>
  BY ConcatEmptySeq, EmptySeq DEF Calls, InHand, Numbers
<1>3. RestOn(c) = <<>>
  BY <1>1 DEF RestOn
<1>4. Waiting(c) = <<>> \o <<>> /\ On(c) = <<>>
  BY <1>2, <1>3, ChunksNone, Parts DEF Waiting
<1>5. <<>> \o <<>> = <<>>
  BY EmptySeq, ConcatEmptySeq
<1> QED BY <1>1, <1>4, <1>5

(* A step that leaves every write where it is. *)
LEMMA WritesStay ==
  ASSUME WInv, IInv', UNCHANGED <<writes, rest, arrived, socket, commands, inHand, backend>>,
         caller' = "Writing" <=> caller = "Writing",
         thread' = "Writing" <=> thread = "Writing",
         setup = "Done" => setup' = "Done",
         link' = "Up" /\ thread' # "Exited" => (link = "Up" /\ thread # "Exited") \/ setup # "Done"
  PROVE  WInv'
<1>1. WriteTypes' /\ Calls'
  BY DEF WInv, WriteTypes, Calls
<1>2. \A c : Waiting(c)' = Waiting(c) /\ On(c)' = On(c)
  BY DEF Waiting, RestOn, Current, InHand, On
<1>3. InFront'
  BY <1>2 DEF WInv, InFront
<1>4. Kept'
  <2> SUFFICES ASSUME link' = "Up" /\ thread' # "Exited" PROVE AllThere'
    BY DEF Kept
  <2>1. CASE setup = "Done"
    BY <1>2, <2>1 DEF WInv, Kept, AllThere
  <2>2. CASE setup # "Done"
    <3>1. caller # "Writing"
      BY <2>2 DEF WInv, IInv, BeforeListening
    <3>2. AllThere
      BY <2>2, <3>1, NothingCalled DEF WInv
    <3> QED BY <1>2, <3>2 DEF AllThere
  <2> QED BY <2>1, <2>2
<1> QED BY <1>1, <1>3, <1>4 DEF WInv

(* A step after which nothing more arrives. *)
LEMMA WritesEnd ==
  ASSUME WInv, IInv', UNCHANGED <<writes, arrived, backend>>,
         WriteTypes', Calls', link' # "Up" \/ thread' = "Exited"
  PROVE  WInv'
<1>1. \A c : On(c)' = On(c)
  BY DEF On
<1> QED BY <1>1 DEF WInv, InFront, Kept

LEMMA CallKeepsWrites == ASSUME WInv, IInv', Call PROVE WInv'
<1>1. PICK channel \in Channels : BeginWrite(channel)
  BY DEF Call
<1> DEFINE n == Len(writes) + 1
           more == Append(writes, channel)
<1>2. WriteTypes /\ Calls /\ writes \in Seq(Channels) /\ commands \in Seq(1 .. Len(writes))
      /\ Len(writes) \in Nat /\ inHand \in 0 .. Len(writes)
  BY DEF WInv, WriteTypes
<1>3. /\ writes' = more /\ rest' = Chunk(n) /\ caller = "Idle" /\ caller' = "Writing"
      /\ UNCHANGED <<backend, link, setup, arrived, socket, commands, inHand, thread>>
  <2>1. n \in Nat /\ Len(more) = n
    BY <1>2
  <2> QED BY <1>1, <2>1 DEF Call, BeginWrite, stackVars, peerVars, bluezVars, btleplugVars
<1>4. n \in Nat /\ Len(more) = n /\ more \in Seq(Channels) /\ more # <<>> /\ more[n] = channel
  BY <1>2
<1>5. setup = "Done" /\ rest = <<>>
  BY <1>3 DEF WInv, IInv, BeforeListening, Calls
<1>6. Chunk(n) \in Seq(Pieced) /\ Chunk(n) # <<>>
  BY <1>4, ChunkPieced
<1> HIDE DEF n, more
<1>7. WriteTypes'
  <2>1. commands \in Seq(1 .. n) /\ inHand \in 0 .. n
    <3>1. 1 .. Len(writes) \subseteq 1 .. n /\ 0 .. Len(writes) \subseteq 0 .. n
      BY <1>2 DEF n
    <3> QED BY <1>2, <3>1, SeqMonotonic
  <2> QED BY <1>3, <1>4, <1>6, <2>1 DEF WInv, WriteTypes
<1>8. Calls'
  BY <1>3, <1>4, <1>5 DEF WInv, Calls
<1>9. ASSUME NEW c \in Channels
      PROVE  /\ On(c)' = On(c) \o ChunkOn(c, more, n)
             /\ Waiting(c)' = Waiting(c) \o ChunkOn(c, more, n)
             /\ ChunkOn(c, more, n) \in Seq(Pieced)
  <2>1. ChunkOn(c, more, n) \in Seq(Pieced)
    BY <1>4, ChunkOnPieced
  <2>2. On(c)' = ChunksOn(c, more, Numbers(more)) /\ On(c) = ChunksOn(c, writes, Numbers(writes))
    BY <1>3 DEF On, Numbers
  <2>3. ChunksOn(c, more, Numbers(more)) = ChunksOn(c, writes, Numbers(writes)) \o ChunkOn(c, more, n)
    BY <1>2, OneMoreOn DEF n, more
  <2>4. /\ InHand \o commands \in Seq(1 .. Len(writes))
        /\ ChunksOn(c, writes, InHand \o commands) \in Seq(Pieced)
    BY <1>2, Parts
  <2>5. ChunksOn(c, more, InHand \o commands) = ChunksOn(c, writes, InHand \o commands)
    BY <1>2, <2>4, ChunksCalled DEF more
  <2>6. RestOn(c) = <<>> /\ RestOn(c)' = ChunkOn(c, more, n)
    BY <1>3, <1>4, <1>5, <1>6 DEF RestOn, Current, ChunkOn
  <2>7. InHand' = InHand /\ commands' = commands
    BY <1>3 DEF InHand
  <2>8. Waiting(c)' = ChunksOn(c, writes, InHand \o commands) \o ChunkOn(c, more, n)
    BY <1>3, <2>5, <2>6, <2>7, Zenon DEF Waiting
  <2>9. Waiting(c) = ChunksOn(c, writes, InHand \o commands)
    BY <2>4, <2>6, ConcatEmptySeq DEF Waiting
  <2> QED BY <2>1, <2>2, <2>3, <2>8, <2>9, Zenon
<1>10. Kept'
  <2> SUFFICES ASSUME link' = "Up" /\ thread' # "Exited", NEW c \in Channels
               PROVE  (arrived'[c] \o socket'[c]) \o Waiting(c)' = On(c)'
    BY DEF Kept, AllThere
  <2>1. (arrived[c] \o socket[c]) \o Waiting(c) = On(c)
    BY <1>3 DEF WInv, Kept, AllThere
  <2>2. arrived[c] \o socket[c] \in Seq(Pieced) /\ Waiting(c) \in Seq(Pieced)
    BY <1>2, Parts, ConcatProperties
  <2>3. ((arrived[c] \o socket[c]) \o Waiting(c)) \o ChunkOn(c, more, n)
          = (arrived[c] \o socket[c]) \o (Waiting(c) \o ChunkOn(c, more, n))
    BY <1>9, <2>2, Regrouped, Zenon
  <2>4. arrived' = arrived /\ socket' = socket
    BY <1>3
  <2> QED BY <1>9, <2>1, <2>3, <2>4, Zenon
<1>11. InFront'
  <2> SUFFICES ASSUME NEW c \in Channels PROVE IsPrefix(arrived'[c], On(c)')
    BY DEF InFront
  <2>1. IsPrefix(arrived[c], On(c)) /\ arrived[c] \in Seq(Pieced) /\ On(c) \in Seq(Pieced)
    BY <1>2, Parts DEF WInv, InFront
  <2>2. IsPrefix(arrived[c], On(c) \o ChunkOn(c, more, n))
    BY <1>9, <2>1, StillAhead
  <2>3. arrived' = arrived
    BY <1>3
  <2> QED BY <1>9, <2>2, <2>3, Zenon
<1> QED BY <1>7, <1>8, <1>10, <1>11 DEF WInv

(* What is written moves from the caller to the socket. *)
LEMMA SomeKeepsWrites ==
  ASSUME WInv, IInv', OnBlueZ, NEW k \in 1 .. Len(rest), WriteSome(k)
  PROVE  WInv'
<1> DEFINE some == SubSeq(rest, 1, k)
           left == SubSeq(rest, k + 1, Len(rest))
<1>1. WriteTypes /\ Calls /\ writes \in Seq(Channels) /\ rest \in Seq(Pieced)
      /\ commands = <<>> /\ inHand = 0 /\ backend = "BlueZ"
  BY DEF WInv, WriteTypes, Calls, OnBlueZ
<1>2. some \in Seq(Pieced) /\ left \in Seq(Pieced) /\ some \o left = rest
      /\ (k = Len(rest) => left = <<>>)
  BY <1>1, Cut
<1>3. rest # <<>>
  OBVIOUS
<1>4. Current \in Channels
  BY <1>1 DEF WriteSome, Calls, Current
<1> HIDE DEF some, left
<1>5. /\ rest' = left /\ socket' = [socket EXCEPT ![Current] = @ \o some]
      /\ UNCHANGED <<backend, link, setup, arrived, writes, commands, inHand, thread>>
      /\ caller' # "Writing" => rest' = <<>>
      /\ caller = "Writing"
  BY <1>2 DEF WriteSome, EndWrite, OnBlueZ, stackVars, peerVars, btleplugVars, callHistory, some, left
<1>6. \A c \in Channels : socket[c] \in Seq(Pieced) /\ arrived[c] \in Seq(Pieced)
  BY DEF WInv, WriteTypes
<1>7. WriteTypes'
  <2>1. socket' \in [Channels -> Seq(Pieced)]
    BY <1>2, <1>4, <1>5, <1>6, ConcatProperties DEF WInv, WriteTypes
  <2> QED BY <1>2, <1>5, <2>1 DEF WInv, WriteTypes
<1>8. Calls'
  <2>1. setup = "Done" /\ writes # <<>>
    BY <1>1, <1>5 DEF Calls
  <2> QED BY <1>1, <1>5, <2>1 DEF Calls
<1>9. \A c : On(c)' = On(c)
  BY <1>5 DEF On
<1>10. AllThere
  BY <1>1 DEF WInv, Kept, WriteSome, IInv, BackendsApart
<1>11. AllThere'
  <2> SUFFICES ASSUME NEW c \in Channels
               PROVE  (arrived'[c] \o socket'[c]) \o Waiting(c)' = On(c)'
    BY DEF AllThere
  <2>1. arrived[c] \in Seq(Pieced) /\ socket[c] \in Seq(Pieced)
    BY <1>6
  <2>2. InHand \o commands = <<>> /\ (InHand \o commands)' = <<>>
    BY <1>1, <1>5, EmptySeq, ConcatEmptySeq DEF InHand
  <2>3. Waiting(c) = RestOn(c) /\ Waiting(c)' = RestOn(c)'
    <3>1. RestOn(c) \in Seq(Pieced)
      BY <1>1, Parts
    <3>2. RestOn(c)' \in Seq(Pieced)
      BY <1>2, <1>5, EmptySeq DEF RestOn
    <3>3. <<>> \o RestOn(c) = RestOn(c) /\ <<>> \o RestOn(c)' = RestOn(c)'
      BY <3>1, <3>2, ConcatEmptySeq
    <3> QED BY <2>2, <3>3, ChunksNone DEF Waiting
  <2>4. (arrived[c] \o socket[c]) \o RestOn(c) = On(c)
    BY <1>10, <2>3, Zenon DEF AllThere
  <2>5. CASE c = Current
    <3>1. RestOn(c) = rest /\ RestOn(c)' = left /\ socket'[c] = socket[c] \o some
      BY <1>4, <1>5, <2>5 DEF RestOn, Current, WInv, WriteTypes
    <3>2. (arrived[c] \o socket[c]) \o (some \o left) = (arrived[c] \o (socket[c] \o some)) \o left
      <4>1. some \in Seq(Pieced) /\ left \in Seq(Pieced)
        BY <1>2
      <4>2. arrived[c] \o socket[c] \in Seq(Pieced)
        BY <2>1, ConcatProperties
      <4>3. (arrived[c] \o socket[c]) \o (some \o left) = ((arrived[c] \o socket[c]) \o some) \o left
        BY <4>1, <4>2, Regrouped, Zenon
      <4>4. (arrived[c] \o socket[c]) \o some = arrived[c] \o (socket[c] \o some)
        BY <2>1, <4>1, Regrouped, Zenon
      <4> QED BY <4>3, <4>4, Zenon
    <3>4. (arrived[c] \o (socket[c] \o some)) \o left = On(c)
      BY <1>2, <2>4, <3>1, <3>2, Zenon
    <3> QED BY <1>5, <1>9, <2>3, <3>1, <3>4
  <2>6. CASE c # Current
    <3>1. RestOn(c) = <<>> /\ RestOn(c)' = <<>> /\ socket'[c] = socket[c]
      BY <1>3, <1>4, <1>5, <2>6 DEF RestOn, Current, WInv, WriteTypes
    <3> QED BY <1>5, <1>9, <2>3, <2>4, <3>1
  <2> QED BY <2>5, <2>6
<1>12. InFront'
  BY <1>5, <1>9 DEF WInv, InFront
<1> QED BY <1>7, <1>8, <1>11, <1>12 DEF WInv, Kept

(* bluetoothd moves the oldest piece of a socket to the R10. *)
LEMMA DaemonKeepsWrites == ASSUME WInv, IInv', Daemon PROVE WInv'
<1>1. PICK channel \in Channels : Transmit(channel)
  BY DEF Daemon, Bluetoothd
<1>2. /\ arrived' = [arrived EXCEPT ![channel] = Append(@, Head(socket[channel]))]
      /\ socket' = [socket EXCEPT ![channel] = Tail(@)]
      /\ socket[channel] # <<>> /\ link = "Up"
      /\ UNCHANGED <<backend, link, setup, caller, writes, rest, commands, inHand, thread>>
      /\ backend = "BlueZ"
  BY <1>1 DEF Transmit, Daemon, OnBlueZ, stackVars, callVars, callHistory, btleplugVars
<1>3. WriteTypes /\ Calls /\ \A c \in Channels : socket[c] \in Seq(Pieced) /\ arrived[c] \in Seq(Pieced)
  BY DEF WInv, WriteTypes
<1>4. /\ Tail(socket[channel]) \in Seq(Pieced)
      /\ Append(arrived[channel], Head(socket[channel])) \in Seq(Pieced)
      /\ Append(arrived[channel], Head(socket[channel])) \o Tail(socket[channel])
           = arrived[channel] \o socket[channel]
  BY <1>2, <1>3, HeadMoved
<1>5. ASSUME NEW c \in Channels
      PROVE  /\ arrived'[c] \in Seq(Pieced) /\ socket'[c] \in Seq(Pieced)
             /\ arrived'[c] \o socket'[c] = arrived[c] \o socket[c]
  <2>1. CASE c = channel
    <3>1. /\ arrived'[c] = Append(arrived[channel], Head(socket[channel]))
          /\ socket'[c] = Tail(socket[channel])
      BY <1>2, <2>1 DEF WInv, WriteTypes
    <3> QED BY <1>4, <2>1, <3>1, Zenon
  <2>2. CASE c # channel
    <3>1. arrived'[c] = arrived[c] /\ socket'[c] = socket[c]
      BY <1>2, <2>2 DEF WInv, WriteTypes
    <3> QED BY <1>3, <3>1
  <2> QED BY <2>1, <2>2
<1>6. WriteTypes'
  <2>1. arrived' \in [Channels -> Seq(Pieced)] /\ socket' \in [Channels -> Seq(Pieced)]
    <3>1. DOMAIN arrived' = Channels /\ DOMAIN socket' = Channels
      BY <1>2 DEF WInv, WriteTypes
    <3>2. arrived' = [c \in Channels |-> arrived'[c]] /\ socket' = [c \in Channels |-> socket'[c]]
      BY <1>2, <3>1 DEF WInv, WriteTypes
    <3> QED BY <1>5, <3>2
  <2> QED BY <1>2, <1>3, <2>1 DEF WriteTypes
<1>7. setup = "Done"
  BY <1>2, <1>3 DEF Calls
<1>8. Calls'
  BY <1>2, <1>3, <1>7 DEF Calls
<1>9. AllThere
  BY <1>2 DEF WInv, Kept, IInv, BackendsApart
<1>10. \A c : On(c)' = On(c) /\ Waiting(c)' = Waiting(c)
  BY <1>2 DEF On, Waiting, RestOn, Current, InHand
<1>11. AllThere'
  BY <1>5, <1>9, <1>10 DEF AllThere
<1>12. InFront'
  <2> SUFFICES ASSUME NEW c \in Channels PROVE IsPrefix(arrived'[c], On(c)')
    BY DEF InFront
  <2>1. arrived'[c] \in Seq(Pieced) /\ socket'[c] \in Seq(Pieced) /\ Waiting(c) \in Seq(Pieced)
    BY <1>3, <1>5, Parts
  <2>2. (arrived'[c] \o socket'[c]) \o Waiting(c) = On(c)'
    BY <1>10, <1>11 DEF AllThere
  <2>3. (arrived'[c] \o socket'[c]) \o Waiting(c) = arrived'[c] \o (socket'[c] \o Waiting(c))
    BY <2>1, Regrouped, Zenon
  <2>4. socket'[c] \o Waiting(c) \in Seq(Pieced)
    BY <2>1, ConcatProperties
  <2>5. IsPrefix(arrived'[c], arrived'[c] \o (socket'[c] \o Waiting(c)))
    BY <2>1, <2>4, Ahead
  <2> QED BY <2>2, <2>3, <2>5, Zenon
<1> QED BY <1>6, <1>8, <1>11, <1>12 DEF WInv, Kept

(* A write moves from the caller to the channel of writes. *)
LEMMA SendKeepsWrites == ASSUME WInv, IInv', OnBtleplug, SendCommand PROVE WInv'
<1> DEFINE n == Len(writes)
<1>1. /\ commands' = Append(commands, n) /\ rest' = <<>> /\ caller = "Writing" /\ caller' = "Idle"
      /\ Len(commands) < WriteCap /\ thread # "Exited"
      /\ UNCHANGED <<backend, link, setup, arrived, socket, writes, inHand, thread>>
      /\ backend # "BlueZ"
  BY DEF SendCommand, EndWrite, OnBtleplug, stackVars, peerVars, bluezVars
<1>2. /\ WriteTypes /\ Calls /\ writes \in Seq(Channels) /\ commands \in Seq(1 .. n)
      /\ inHand \in 0 .. n /\ rest \in Seq(Pieced)
  BY DEF WInv, WriteTypes
<1>3. writes # <<>> /\ rest = Chunk(n) /\ setup = "Done"
  BY <1>1, <1>2 DEF Calls
<1>4. n \in Nat /\ n \in 1 .. n
  BY <1>2, <1>3
<1>5. rest # <<>>
  BY <1>3, <1>4, ChunkPieced
<1> HIDE DEF n
<1>6. WriteTypes'
  <2>1. Append(commands, n) \in Seq(1 .. n) /\ Len(Append(commands, n)) = Len(commands) + 1
    BY <1>2, <1>4, AppendProperties
  <2>2. Len(commands) + 1 <= WriteCap
    <3>1. Len(commands) \in Nat /\ WriteCap \in Nat
      BY <1>2, BtleplugAssumption
    <3> QED BY <1>1, <3>1
  <2>3. <<>> \in Seq(Pieced)
    BY EmptySeq
  <2> QED BY <1>1, <1>2, <2>1, <2>2, <2>3 DEF WriteTypes, n
<1>7. Calls'
  BY <1>1, <1>2, <1>3 DEF Calls
<1>8. \A c : On(c)' = On(c)
  BY <1>1 DEF On
<1>9. ASSUME NEW c \in Channels PROVE Waiting(c)' = Waiting(c)
  <2>1. InHand \o commands \in Seq(Nat)
    BY <1>2, Parts
  <2>2. (InHand \o commands)' = InHand \o Append(commands, n)
    BY <1>1 DEF InHand
  <2>3. InHand \o Append(commands, n) = Append(InHand \o commands, n)
    <3>1. InHand \in Seq(Nat) /\ commands \in Seq(Nat)
      <4>1. commands \in Seq(Nat)
        BY <1>2, <1>4, SeqMonotonic
      <4>2. InHand \in Seq(Nat)
        BY <1>2, <1>4, EmptySeq DEF InHand
      <4> QED BY <4>1, <4>2
    <3> QED BY <1>4, <3>1, ConcatAppend
  <2>4. ChunksOn(c, writes, Append(InHand \o commands, n))
          = ChunksOn(c, writes, InHand \o commands) \o ChunkOn(c, writes, n)
    BY <1>4, <2>1, ChunksAppend
  <2>5. RestOn(c) = ChunkOn(c, writes, n) /\ RestOn(c)' = <<>>
    BY <1>1, <1>3, <1>5 DEF RestOn, Current, ChunkOn, n
  <2>6. Waiting(c) \in Seq(Pieced) /\ Waiting(c) = ChunksOn(c, writes, InHand \o commands) \o ChunkOn(c, writes, n)
    BY <1>2, <2>5, Parts DEF Waiting
  <2>7. Waiting(c)' = Waiting(c) \o <<>>
    BY <1>1, <2>2, <2>3, <2>4, <2>5, <2>6, Zenon DEF Waiting
  <2> QED BY <2>6, <2>7, ConcatEmptySeq
<1>10. AllThere => AllThere'
  BY <1>1, <1>8, <1>9 DEF AllThere
<1>11. InFront'
  BY <1>1, <1>8 DEF WInv, InFront
<1> QED BY <1>1, <1>6, <1>7, <1>10, <1>11 DEF WInv, Kept

(* One more write is in hand, and one less in the channel. *)
LEMMA TakeKeepsWrites == ASSUME WInv, IInv', OnBtleplug, TakeCommand PROVE WInv'
<1>1. /\ thread = "Selecting" /\ thread' = "Writing" /\ commands # <<>>
      /\ inHand' = Head(commands) /\ commands' = Tail(commands)
      /\ UNCHANGED <<backend, link, setup, caller, arrived, socket, writes, rest>>
      /\ backend # "BlueZ"
  BY DEF TakeCommand, OnBtleplug, bluezVars, linkVars, stackVars, callVars, peerVars, callHistory
<1>2. /\ WriteTypes /\ Calls /\ commands \in Seq(1 .. Len(writes)) /\ inHand = 0
      /\ Len(writes) \in Nat
  BY <1>1 DEF WInv, WriteTypes, Calls
<1>3. /\ Head(commands) \in 1 .. Len(writes) /\ Tail(commands) \in Seq(1 .. Len(writes))
      /\ Len(Tail(commands)) <= Len(commands) /\ <<Head(commands)>> \o Tail(commands) = commands
  BY <1>1, <1>2
<1>4. setup = "Done"
  BY <1>1, <1>2 DEF Calls
<1>5. WriteTypes'
  <2>1. Len(Tail(commands)) <= WriteCap
    <3>1. Len(Tail(commands)) \in Nat /\ Len(commands) \in Nat /\ WriteCap \in Nat /\ Len(commands) <= WriteCap
      BY <1>2, <1>3, BtleplugAssumption DEF WriteTypes
    <3> QED BY <1>3, <3>1
  <2> QED BY <1>1, <1>2, <1>3, <2>1 DEF WriteTypes
<1>6. Calls'
  BY <1>1, <1>2, <1>3, <1>4 DEF Calls
<1>7. (InHand \o commands)' = InHand \o commands
  <2>1. InHand = <<>> /\ InHand' = <<Head(commands)>>
    BY <1>1, <1>2, <1>3 DEF InHand
  <2>2. <<>> \o commands = commands
    BY <1>2, ConcatEmptySeq
  <2> QED BY <1>1, <1>3, <2>1, <2>2, Zenon
<1>8. \A c : On(c)' = On(c) /\ Waiting(c)' = Waiting(c)
  BY <1>1, <1>7 DEF On, Waiting, RestOn, Current
<1>9. AllThere => AllThere'
  BY <1>1, <1>8 DEF AllThere
<1>10. InFront'
  BY <1>1, <1>8 DEF WInv, InFront
<1> QED BY <1>1, <1>5, <1>6, <1>9, <1>10 DEF WInv, Kept

(* The write in hand reaches the R10 as a whole. *)
LEMMA DoneKeepsWrites == ASSUME WInv, IInv', OnBtleplug, WriteDone PROVE WInv'
<1> DEFINE n == inHand
<1>1. /\ thread = "Writing" /\ thread' = "Selecting" /\ link = "Up" /\ inHand' = 0
      /\ arrived' = [arrived EXCEPT ![writes[n]] = @ \o Chunk(n)]
      /\ UNCHANGED <<backend, link, setup, caller, socket, writes, rest, commands>>
      /\ backend # "BlueZ"
  BY DEF WriteDone, OnBtleplug, bluezVars, stackVars, callVars, callHistory
<1>2. /\ WriteTypes /\ Calls /\ commands \in Seq(1 .. Len(writes)) /\ n \in 1 .. Len(writes)
      /\ writes \in Seq(Channels) /\ Len(writes) \in Nat /\ arrived \in [Channels -> Seq(Pieced)]
  BY <1>1 DEF WInv, WriteTypes, Calls
<1>3. n \in Nat /\ writes[n] \in Channels /\ commands \in Seq(Nat)
  <2>1. 1 .. Len(writes) \subseteq Nat
    BY <1>2
  <2> QED BY <1>2, <2>1, SeqMonotonic
<1>4. setup = "Done" /\ InHand = <<n>> /\ InHand' = <<>>
  BY <1>1, <1>2 DEF Calls, InHand
<1>5. AllThere
  BY <1>1 DEF WInv, Kept
<1> HIDE DEF n
<1>6. ASSUME NEW c \in Channels
      PROVE  /\ ChunkOn(c, writes, n) \in Seq(Pieced)
             /\ arrived'[c] = arrived[c] \o ChunkOn(c, writes, n)
             /\ arrived'[c] \in Seq(Pieced)
  <2>1. ChunkOn(c, writes, n) \in Seq(Pieced)
    BY <1>3, ChunkOnPieced
  <2>2. arrived[c] \in Seq(Pieced)
    BY <1>2
  <2>3. arrived'[c] = arrived[c] \o ChunkOn(c, writes, n)
    <3>1. CASE writes[n] = c
      BY <1>1, <1>2, <3>1 DEF ChunkOn
    <3>2. CASE writes[n] # c
      <4>1. arrived'[c] = arrived[c] /\ ChunkOn(c, writes, n) = <<>>
        BY <1>1, <1>2, <3>2 DEF ChunkOn
      <4> QED BY <2>2, <4>1, ConcatEmptySeq
    <3> QED BY <3>1, <3>2
  <2> QED BY <2>1, <2>2, <2>3, ConcatProperties
<1>7. WriteTypes'
  <2>1. arrived' = [c \in Channels |-> arrived'[c]]
    BY <1>1, <1>2
  <2>2. arrived' \in [Channels -> Seq(Pieced)]
    BY <1>6, <2>1
  <2> QED BY <1>1, <1>2, <2>2 DEF WriteTypes
<1>8. Calls'
  BY <1>1, <1>2, <1>4 DEF Calls
<1>9. \A c : On(c)' = On(c)
  BY <1>1 DEF On
<1>10. ASSUME NEW c \in Channels
       PROVE  /\ (arrived'[c] \o socket'[c]) \o Waiting(c)' = On(c)'
              /\ IsPrefix(arrived'[c], On(c)')
  <2> DEFINE a == arrived[c]
             x == ChunkOn(c, writes, n)
             y == ChunksOn(c, writes, commands)
             z == RestOn(c)
  <2>1. a \in Seq(Pieced) /\ x \in Seq(Pieced) /\ y \in Seq(Pieced) /\ z \in Seq(Pieced)
    BY <1>2, <1>3, <1>6, PartsPieced, Parts
  <2>2. socket[c] = <<>> /\ socket'[c] = <<>>
    BY <1>1, <1>2 DEF Calls
  <2>3. Waiting(c) = (x \o y) \o z
    <3>1. ChunksOn(c, writes, <<n>> \o commands) = x \o y
      BY <1>3, ChunksFirst
    <3> QED BY <1>4, <3>1 DEF Waiting
  <2>4. Waiting(c)' = y \o z
    <3>1. (InHand \o commands)' = commands
      BY <1>1, <1>2, <1>4, ConcatEmptySeq
    <3>2. RestOn(c)' = z
      BY <1>1 DEF RestOn, Current
    <3> QED BY <1>1, <3>1, <3>2 DEF Waiting
  <2>5. (a \o socket[c]) \o Waiting(c) = On(c)
    BY <1>5 DEF AllThere
  <2>6. arrived'[c] = a \o x
    BY <1>6
  <2> HIDE DEF a, x, y, z
  <2>7. a \o socket[c] = a /\ (a \o x) \o socket'[c] = a \o x /\ a \o x \in Seq(Pieced) /\ y \o z \in Seq(Pieced)
    BY <2>1, <2>2, ConcatEmptySeq, ConcatProperties
  <2>8. (x \o y) \o z = x \o (y \o z)
    BY <2>1, Regrouped, Zenon
  <2>9. a \o (x \o (y \o z)) = (a \o x) \o (y \o z)
    BY <2>1, <2>7, Regrouped, Zenon
  <2>10. (a \o x) \o (y \o z) = On(c)
    BY <2>3, <2>5, <2>7, <2>8, <2>9, Zenon
  <2>11. IsPrefix(a \o x, (a \o x) \o (y \o z))
    BY <2>7, Ahead
  <2> QED BY <1>9, <2>4, <2>6, <2>7, <2>10, <2>11, Zenon
<1>11. InFront' /\ AllThere'
  BY <1>10 DEF InFront, AllThere
<1> QED BY <1>7, <1>8, <1>11 DEF WInv, Kept

LEMMA ExitKeepsWrites ==
  ASSUME WInv, IInv', OnBtleplug, Exits, thread # "None" PROVE WInv'
<1>1. /\ thread' = "Exited" /\ commands' = <<>> /\ inHand' = 0
      /\ UNCHANGED <<backend, setup, caller, rest, writes, arrived, socket>>
      /\ backend # "BlueZ"
  BY DEF Exits, OnBtleplug, bluezVars, callVars, callHistory, peerVars
<1>2. WriteTypes'
  <2>1. <<>> \in Seq(1 .. Len(writes)) /\ Len(<<>>) <= WriteCap /\ 0 \in 0 .. Len(writes)
    BY EmptySeq, BtleplugAssumption DEF WInv, WriteTypes
  <2> QED BY <1>1, <2>1 DEF WInv, WriteTypes
<1>3. Calls'
  BY <1>1 DEF WInv, Calls
<1> QED BY <1>1, <1>2, <1>3, WritesEnd

LEMMA RefusedKeepsWrites ==
  ASSUME WInv, IInv', (OnBlueZ /\ WriteRefused) \/ (OnBtleplug /\ SendRefused) PROVE WInv'
<1>1. /\ rest' = <<>> /\ caller = "Writing" /\ caller' = "Idle"
      /\ link' # "Up" \/ thread' = "Exited"
      /\ UNCHANGED <<backend, setup, thread, writes, arrived, socket, commands, inHand>>
  BY DEF WriteRefused, SendRefused, EndWrite, OnBlueZ, OnBtleplug, stackVars, peerVars,
         bluezVars, btleplugVars
<1>2. WriteTypes'
  BY <1>1, EmptySeq DEF WInv, WriteTypes
<1>3. Calls'
  BY <1>1 DEF WInv, Calls
<1> QED BY <1>1, <1>2, <1>3, WritesEnd

LEMMA ConnectKeepsWrites == ASSUME WInv, IInv', Connect PROVE WInv'
<1>1. setup # "Done" /\ caller = "Connecting" /\ thread = "None"
  BY DEF Connect, BlueZSetup, Find, EnsureConnected, Resolving, ServicesResolved, NotResolvedYet,
         AcquireFds, AcquireNotify, BtleplugSetup, Scan, Spawn, SetupFails, SetupStep, Asked,
         Connected, WInv, IInv, BeforeListening
<1>2. UNCHANGED <<writes, rest, arrived, socket, commands, inHand, backend>>
  <2> USE DEF stackVars, callVars, peerVars, callHistory, linkVars, bluezVars, btleplugVars,
              OnBlueZ, OnBtleplug
  <2>1. CASE BlueZSetup /\ OnBlueZ
    BY <2>1 DEF BlueZSetup, Find, EnsureConnected, Resolving, ServicesResolved, NotResolvedYet,
                AcquireFds, AcquireNotify, SetupStep, Asked, Connected
  <2>2. CASE BtleplugSetup /\ OnBtleplug
    BY <2>2 DEF BtleplugSetup, Scan, Spawn, SetupStep, Asked, Connected
  <2>3. CASE SetupFails /\ UNCHANGED <<backend, bluezVars, btleplugVars>>
    BY <2>3 DEF SetupFails
  <2> QED BY <2>1, <2>2, <2>3 DEF Connect
<1>3. caller' # "Writing" /\ thread' # "Writing"
  <2> USE <1>1 DEF bluezVars, btleplugVars, linkVars, callVars, OnBlueZ, OnBtleplug
  <2>1. CASE BlueZSetup /\ OnBlueZ
    BY <2>1 DEF BlueZSetup, Find, EnsureConnected, Resolving, ServicesResolved, NotResolvedYet,
                AcquireFds, AcquireNotify, SetupStep, Asked, Connected
  <2>2. CASE BtleplugSetup /\ OnBtleplug
    BY <2>2 DEF BtleplugSetup, Scan, Spawn, SetupStep, Asked, Connected
  <2>3. CASE SetupFails /\ UNCHANGED <<backend, bluezVars, btleplugVars>>
    BY <2>3 DEF SetupFails
  <2> QED BY <2>1, <2>2, <2>3 DEF Connect
<1> QED BY <1>1, <1>2, <1>3, WritesStay

LEMMA OthersKeepWrites ==
  ASSUME WInv, IInv', Read \/ DropTransport \/ Peer \/ UNCHANGED vars PROVE WInv'
<1> USE DEF stackVars, callVars, peerVars, callHistory, linkVars, bluezVars, btleplugVars,
            OnBlueZ, OnBtleplug
<1>1. CASE Read
  <2>1. /\ UNCHANGED <<writes, rest, arrived, socket, commands, inHand, backend>>
        /\ UNCHANGED <<caller, thread, setup, link>>
    BY <1>1 DEF Read, BlueZRead, BtleplugRead, ReadFrom
  <2> QED BY <2>1, WritesStay
<1>2. CASE DropTransport
  <2>1. /\ UNCHANGED <<writes, rest, arrived, socket, commands, inHand, backend>>
        /\ UNCHANGED <<thread, setup, link>> /\ caller = "Idle" /\ caller' = "Dropped"
    BY <1>2 DEF DropTransport, BlueZDrop, BtleplugDrop, Drop
  <2> QED BY <2>1, WritesStay
<1>3. CASE Peer
  <2>1. /\ UNCHANGED <<writes, rest, arrived, socket, commands, inHand, backend>>
        /\ UNCHANGED <<caller, thread, setup>> /\ (link' = link \/ link' = "Down")
    BY <1>3 DEF Peer, Notification, LinkLost, StreamEnds
  <2> QED BY <2>1, WritesStay
<1>4. CASE UNCHANGED vars
  <2>1. /\ UNCHANGED <<writes, rest, arrived, socket, commands, inHand, backend>>
        /\ UNCHANGED <<caller, thread, setup, link>>
    BY <1>4 DEF vars
  <2> QED BY <2>1, WritesStay
<1> QED BY <1>1, <1>2, <1>3, <1>4

LEMMA BackgroundKeepsWrites == ASSUME WInv, IInv', Background PROVE WInv'
<1>1. OnBtleplug /\ BackgroundLoop
  BY DEF Background
<1>2. CASE Exits /\ thread # "None"
  BY <1>1, <1>2, ExitKeepsWrites
<1>3. CASE TakeCommand
  BY <1>1, <1>3, TakeKeepsWrites
<1>4. CASE WriteDone
  BY <1>1, <1>4, DoneKeepsWrites
<1>5. CASE ~(Exits /\ thread # "None") /\ (OpenStream \/ Forward \/ WriteFailed \/ AllBranchesDisabled)
  <2>1. /\ UNCHANGED <<writes, rest, arrived, socket, commands, inHand, backend>>
        /\ UNCHANGED <<caller, setup, link>>
        /\ thread \in {"Starting", "Selecting"} /\ thread' = "Selecting"
    BY <1>1, <1>5
       DEF OpenStream, Forward, WriteFailed, AllBranchesDisabled, OnBtleplug,
           stackVars, callVars, peerVars, callHistory, linkVars, bluezVars
  <2> QED BY <2>1, WritesStay
<1> QED BY <1>1, <1>2, <1>3, <1>4, <1>5 DEF BackgroundLoop

LEMMA StepWInv == WInv /\ [Next]_vars => WInv'
<1> SUFFICES ASSUME WInv, [Next]_vars PROVE WInv'
  OBVIOUS
<1>1. IInv'
  BY StepIInv DEF WInv
<1>2. CASE Write
  <2>1. ASSUME NEW k \in 1 .. Len(rest), WriteSome(k), OnBlueZ PROVE WInv'
    BY <1>1, <2>1, SomeKeepsWrites
  <2>2. CASE (OnBlueZ /\ WriteRefused) \/ (OnBtleplug /\ SendRefused)
    BY <1>1, <2>2, RefusedKeepsWrites
  <2>3. CASE OnBtleplug /\ SendCommand
    BY <1>1, <2>3, SendKeepsWrites
  <2> QED BY <1>2, <2>1, <2>2, <2>3 DEF Write, BlueZWrite, BtleplugWrite
<1> QED BY <1>1, <1>2, ConnectKeepsWrites, OthersKeepWrites, CallKeepsWrites, DaemonKeepsWrites,
           BackgroundKeepsWrites DEF Next

LEMMA InitWInv == Init => WInv
<1> SUFFICES ASSUME Init PROVE WInv
  OBVIOUS
<1> USE DEF Init, LinkInit, BlueZInit, BtleplugInit
<1>1. IInv
  BY InitIInv
<1>2. WriteTypes
  <2>1. Len(<<>>) = 0 /\ 0 <= WriteCap
    BY BtleplugAssumption
  <2>2. writes = <<>> /\ rest = <<>> /\ commands = <<>> /\ inHand = 0
    OBVIOUS
  <2>3. arrived \in [Channels -> Seq(Pieced)] /\ socket \in [Channels -> Seq(Pieced)]
    BY EmptySeq
  <2> QED BY <2>1, <2>2, <2>3, EmptySeq DEF WriteTypes
<1>3. Calls
  BY DEF Calls
<1>4. AllThere
  <2>1. setup # "Done" /\ caller # "Writing"
    BY DEF BlueZSteps, BtleplugSteps
  <2> QED BY <1>2, <1>3, <2>1, NothingCalled
<1>5. InFront
  <2> SUFFICES ASSUME NEW c \in Channels PROVE IsPrefix(arrived[c], On(c))
    BY DEF InFront
  <2>1. arrived[c] = <<>> /\ On(c) \in Seq(Pieced) /\ <<>> \in Seq(Pieced)
    BY <1>2, Parts, EmptySeq
  <2>2. IsPrefix(<<>>, <<>> \o On(c)) /\ <<>> \o On(c) = On(c)
    BY <2>1, Ahead, ConcatEmptySeq
  <2> QED BY <2>1, <2>2
<1> QED BY <1>1, <1>2, <1>3, <1>4, <1>5 DEF WInv, Kept

(* On each characteristic the R10 gets whole writes in the order of the     *)
(* calls, and none of what was handed to the transport is lost or repeated  *)
(* while the link is up and the background thread runs, however write(2)    *)
(* takes its pieces and whatever is queued (write_all_fd; background_loop). *)
THEOREM WritesInOrder == Spec => []WritesKept
<1>1. WInv => WritesKept
  BY DEF WInv, WritesKept, InFront, Kept, AllThere
<1> QED BY <1>1, InitWInv, StepWInv, PTL DEF Spec

-----------------------------------------------------------------------------
(* The types of the other variables. *)

Places ==
  /\ backend \in {"BlueZ", "Btleplug"}
  /\ link \in {"Up", "Down"}
  /\ setup \in Setups
  /\ caller \in {"Connecting", "Idle", "Writing", "Dropped"}
  /\ result \in {"None", "Chunk", "WouldBlock", "Zero", "Written", "Error"}
  /\ thread \in {"None", "Starting", "Selecting", "Writing", "Exited"}

Numbered ==
  /\ answers \subseteq Nat
  /\ tries \in 0 .. MaxTries
  /\ errors \in 0 .. MaxErrors

Flags == reported \in BOOLEAN /\ tried \in BOOLEAN /\ ended \in BOOLEAN

LEMMA StepPlaces == ASSUME Places, [Next]_vars PROVE Places'
<1> USE DEF vars, stackVars, callVars, peerVars, callHistory, linkVars, bluezVars, btleplugVars,
            OnBlueZ, OnBtleplug, Places, Setups
<1>1. CASE Connect
  BY <1>1 DEF Connect, BlueZSetup, Find, EnsureConnected, Resolving, ServicesResolved, NotResolvedYet,
              AcquireFds, AcquireNotify, BtleplugSetup, Scan, Spawn, SetupFails, SetupStep, Asked,
              Connected
<1>2. CASE Read
  BY <1>2 DEF Read, BlueZRead, BtleplugRead, ReadFrom, Returns
<1>3. CASE Call
  BY <1>3 DEF Call, BeginWrite
<1>4. CASE Write
  BY <1>4 DEF Write, BlueZWrite, BtleplugWrite, WriteRefused, WriteSome, SendCommand, SendRefused,
              EndWrite, Returns
<1>5. CASE DropTransport
  BY <1>5 DEF DropTransport, BlueZDrop, BtleplugDrop, Drop
<1>6. CASE Daemon
  BY <1>6 DEF Daemon, Bluetoothd, Transmit
<1>7. CASE Background
  BY <1>7 DEF Background, BackgroundLoop, OpenStream, Forward, TakeCommand, WriteFailed, WriteDone,
              AllBranchesDisabled, Exits
<1>8. CASE Peer
  BY <1>8 DEF Peer, Notification, LinkLost, StreamEnds
<1>9. CASE UNCHANGED vars
  BY <1>9
<1> QED BY <1>1, <1>2, <1>3, <1>4, <1>5, <1>6, <1>7, <1>8, <1>9 DEF Next

LEMMA StepNumbered == ASSUME Numbered, notified \in Nat, [Next]_vars PROVE Numbered'
<1> USE DEF vars, stackVars, callVars, peerVars, callHistory, linkVars, bluezVars, btleplugVars,
            OnBlueZ, OnBtleplug, Numbered
<1>1. MaxTries \in Nat /\ MaxErrors \in Nat
  BY BlueZAssumption, BtleplugAssumption
<1>2. CASE Connect
  <2>1. UNCHANGED <<answers, errors>>
    BY <1>2 DEF Connect, BlueZSetup, Find, EnsureConnected, Resolving, ServicesResolved,
                NotResolvedYet, AcquireFds, AcquireNotify, BtleplugSetup, Scan, Spawn, SetupFails,
                Asked, Connected
  <2>2. tries' = tries \/ (tries > 0 /\ tries' = tries - 1)
    BY <1>2 DEF Connect, BlueZSetup, Find, EnsureConnected, Resolving, ServicesResolved,
                NotResolvedYet, AcquireFds, AcquireNotify, BtleplugSetup, Scan, Spawn, SetupFails,
                Asked, Connected
  <2> QED BY <1>1, <2>1, <2>2
<1>3. CASE Read \/ Call \/ DropTransport \/ Daemon \/ UNCHANGED vars
  BY <1>3 DEF Read, BlueZRead, BtleplugRead, ReadFrom, Call, BeginWrite, DropTransport, BlueZDrop,
              BtleplugDrop, Drop, Daemon, Bluetoothd, Transmit
<1>4. CASE Write
  BY <1>4 DEF Write, BlueZWrite, BtleplugWrite, WriteRefused, WriteSome, SendCommand, SendRefused,
              EndWrite
<1>5. CASE Background
  <2>1. UNCHANGED <<answers, tries>>
    BY <1>5 DEF Background, BackgroundLoop, OpenStream, Forward, TakeCommand, WriteFailed,
                WriteDone, AllBranchesDisabled, Exits
  <2>2. errors' = errors \/ (errors < MaxErrors /\ errors' = errors + 1)
    BY <1>5 DEF Background, BackgroundLoop, OpenStream, Forward, TakeCommand, WriteFailed,
                WriteDone, AllBranchesDisabled, Exits
  <2> QED BY <1>1, <2>1, <2>2
<1>6. CASE Peer
  BY <1>6 DEF Peer, Notification, LinkLost, StreamEnds
<1> QED BY <1>2, <1>3, <1>4, <1>5, <1>6 DEF Next

LEMMA StepFlags == ASSUME Flags, [Next]_vars PROVE Flags'
<1> USE DEF vars, stackVars, callVars, peerVars, callHistory, linkVars, bluezVars, btleplugVars,
            OnBlueZ, OnBtleplug, Flags
<1>1. CASE Connect
  BY <1>1 DEF Connect, BlueZSetup, Find, EnsureConnected, Resolving, ServicesResolved, NotResolvedYet,
              AcquireFds, AcquireNotify, BtleplugSetup, Scan, Spawn, SetupFails, SetupStep, Asked,
              Connected
<1>2. CASE Read
  BY <1>2 DEF Read, BlueZRead, BtleplugRead, ReadFrom, Returns
<1>3. CASE Call
  BY <1>3 DEF Call, BeginWrite
<1>4. CASE Write
  BY <1>4 DEF Write, BlueZWrite, BtleplugWrite, WriteRefused, WriteSome, SendCommand, SendRefused,
              EndWrite, Returns
<1>5. CASE DropTransport
  BY <1>5 DEF DropTransport, BlueZDrop, BtleplugDrop, Drop
<1>6. CASE Daemon
  BY <1>6 DEF Daemon, Bluetoothd, Transmit
<1>7. CASE Background
  BY <1>7 DEF Background, BackgroundLoop, OpenStream, Forward, TakeCommand, WriteFailed, WriteDone,
              AllBranchesDisabled, Exits
<1>8. CASE Peer
  BY <1>8 DEF Peer, Notification, LinkLost, StreamEnds
<1>9. CASE UNCHANGED vars
  BY <1>9
<1> QED BY <1>1, <1>2, <1>3, <1>4, <1>5, <1>6, <1>7, <1>8, <1>9 DEF Next

(* The variables of either backend keep their types, and the channel of     *)
(* writes its bound.                                                        *)
THEOREM TypeCorrect == Spec => []TypeOK
<1> DEFINE TInv == WInv /\ Places /\ Numbered /\ Flags
<1>1. Init => TInv
  <2> SUFFICES ASSUME Init PROVE Places /\ Numbered /\ Flags
    BY InitWInv
  <2> USE DEF Init, LinkInit, BlueZInit, BtleplugInit
  <2>1. Places
    BY DEF Places, Setups, BlueZSteps, BtleplugSteps
  <2>2. Numbered
    BY BlueZAssumption, BtleplugAssumption DEF Numbered
  <2>3. Flags
    BY DEF Flags
  <2> QED BY <2>1, <2>2, <2>3
<1>2. TInv /\ [Next]_vars => TInv'
  BY StepWInv, StepPlaces, StepNumbered, StepFlags DEF WInv, IInv, QueueTypes
<1>3. TInv => TypeOK
  <2> SUFFICES ASSUME TInv PROVE TypeOK
    OBVIOUS
  <2>1. Len(writes) \in Nat /\ commands \in Seq(1 .. Len(writes)) /\ inHand \in 0 .. Len(writes)
    BY DEF WInv, WriteTypes
  <2>2. commands \in Seq(Nat) /\ inHand \in Nat
    BY <2>1, SeqMonotonic
  <2>3. Len(commands) <= WriteCap
    BY DEF WInv, WriteTypes
  <2> QED BY <2>2, <2>3 DEF TypeOK, WInv, IInv, QueueTypes, WriteTypes, Places, Numbered, Flags
<1> QED BY <1>1, <1>2, <1>3, PTL DEF Spec
===============================================================================
