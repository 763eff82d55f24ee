------------------------------- MODULE Multilink -------------------------------
(***************************************************************************)
(* src/src/multilink.rs: the REGISTER exchange, and the handle that goes   *)
(* before every chunk of the byte stream.  Bytes are numbers.              *)
(***************************************************************************)
EXTENDS Naturals, Sequences

LittleEndian(n, width) == [i \in 1 .. width |-> (n \div 256^(i - 1)) % 256]
U16(d, i) == d[i] + 256 * d[i + 1]

(* <<reserved, REGISTER>>, the transaction id, the service, the flags. *)
BuildRegister(txnId, service) ==
  <<0, 0>> \o LittleEndian(txnId, 4) \o <<0, 0, 0, 0>> \o LittleEndian(service, 2) \o <<0>>

Statuses == <<"Success", "InvalidServiceId", "PendingAuth", "AlreadyInUse", "Rejected">>

NoResponse == [ok |-> FALSE]

(* Mutant: the second byte is not looked at. *)
ParseAnyResponse(d) ==
  IF Len(d) >= 15 /\ d[13] < Len(Statuses)
  THEN [ok |-> TRUE, status |-> Statuses[d[13] + 1], handle |-> d[14], flags |-> d[15]]
  ELSE NoResponse

ParseRegisterResponse(d) ==
  IF Len(d) >= 15 /\ d[2] = 1 /\ d[13] < Len(Statuses)
  THEN [ok |-> TRUE, status |-> Statuses[d[13] + 1], handle |-> d[14], flags |-> d[15]]
  ELSE NoResponse

HasHandle(chunk, handle) == chunk # <<>> /\ chunk[1] = handle
StripHandle(chunk) == Tail(chunk)

(* Mutant: the room for the handle is forgotten. *)
PerChunkFull(mtu) == mtu

PerChunk(mtu) == IF mtu = 0 THEN 0 ELSE mtu - 1

ChunkCount(n, size) == IF size = 0 THEN 0 ELSE (n + size - 1) \div size

ChunkWithHandle(data, handle, mtu) ==
  LET size == PerChunk(mtu)
      Upto(i) == IF i * size < Len(data) THEN i * size ELSE Len(data)
  IN  [i \in 1 .. ChunkCount(Len(data), size) |->
         <<handle>> \o SubSeq(data, (i - 1) * size + 1, Upto(i))]
===============================================================================
