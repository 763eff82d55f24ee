--------------------------------- MODULE Cobs ---------------------------------
(* The COBS codec of src/src/cobs.rs, and the standard algorithm beside it.  *)
EXTENDS Naturals, Sequences, FiniteSetsExt

CONSTANT MaxRun   \* most bytes in a block, 0xFE in the code
ASSUME CobsAssumption == MaxRun \in Nat \ {0}

FullCode == MaxRun + 1   \* 0xFF: the block does not imply a zero

(* Bytes of the block that starts at d[i]: up to a zero, the bound or the end. *)
Run(d, i) ==
  Min({MaxRun, Len(d) - i + 1} \cup {j - i : j \in {k \in i .. Len(d) : d[k] = 0}})

(* Mutant: the code does not count itself. *)
BlockCodeShort(d, i) == Run(d, i)

BlockCode(d, i) == Run(d, i) + 1

(* A zero after the block is skipped, after a full block too. *)
NextBlock(d, i) ==
  LET after == i + Run(d, i) IN
  IF after <= Len(d) /\ d[after] = 0 THEN after + 1 ELSE after

Encode(d) ==
  LET from[i \in 1 .. Len(d) + 1] ==
        IF i > Len(d) THEN <<>>
        ELSE <<BlockCode(d, i)>> \o SubSeq(d, i, i + Run(d, i) - 1) \o from[NextBlock(d, i)]
  IN from[1]

(* Mutant: a full block implies a zero too. *)
ImpliesZeroFull(e, i) == i + e[i] <= Len(e)

(* The zero behind the block whose code is e[i]. *)
ImpliesZero(e, i) == e[i] < FullCode /\ i + e[i] <= Len(e)

(* Where the blocks of e start, up to the end, a zero, or a block that is    *)
(* cut off; and what they stand for.                                         *)
BlockFits(e, i) == i + e[i] <= Len(e) + 1

Unstuffed(e) ==
  LET from[i \in 1 .. Len(e) + 1] ==
        IF i > Len(e) \/ e[i] = 0 THEN [ok |-> TRUE, out |-> <<>>]
        ELSE IF ~BlockFits(e, i) THEN [ok |-> FALSE, out |-> <<>>]
        ELSE LET rest == from[i + e[i]] IN
             [ok  |-> rest.ok,
              out |-> SubSeq(e, i + 1, i + e[i] - 1)
                        \o (IF ImpliesZero(e, i) THEN <<0>> ELSE <<>>) \o rest.out]
  IN from[1]

EndsInZero(d) == d # <<>> /\ d[Len(d)] = 0

(* decode: what remains is stripped of a trailing zero. *)
Stripped(d) == IF EndsInZero(d) THEN SubSeq(d, 1, Len(d) - 1) ELSE d
Decode(e) ==
  LET u == Unstuffed(e) IN [ok |-> u.ok, out |-> Stripped(u.out)]

-----------------------------------------------------------------------------
(* The algorithm of Cheshire and Baker: the data and a phantom zero, cut     *)
(* into blocks of fewer than MaxRun bytes with their zero and of MaxRun      *)
(* bytes without.                                                            *)
StandardEncode(data) ==
  LET d == Append(data, 0)
      from[i \in 1 .. Len(d) + 1] ==
        IF i > Len(d) THEN <<>>
        ELSE LET run == Run(d, i) IN
             <<run + 1>> \o SubSeq(d, i, i + run - 1)
               \o from[IF run = MaxRun THEN i + run ELSE i + run + 1]
  IN from[1]
===============================================================================
