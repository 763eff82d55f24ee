-------------------------------- MODULE Crc16 --------------------------------
(* CRC-16/ARC as src/src/crc.rs computes it, a nibble at a time.            *)
EXTENDS Naturals, Sequences

Table == <<
  \h0000, \hCC01, \hD801, \h1400, \hF001, \h3C00, \h2800, \hE401,
  \hA001, \h6C00, \h7800, \hB401, \h5000, \h9C01, \h8801, \h4400>>

XorBit(a, b, i) == (a \div 2^i + b \div 2^i) % 2

XorNibble ==
  [p \in (0 .. 15) \X (0 .. 15) |->
    XorBit(p[1], p[2], 0) + 2 * XorBit(p[1], p[2], 1)
      + 4 * XorBit(p[1], p[2], 2) + 8 * XorBit(p[1], p[2], 3)]

Xor16(a, b) ==
  LET at(i) == XorNibble[(a \div 16^i) % 16, (b \div 16^i) % 16] * 16^i
  IN at(0) + at(1) + at(2) + at(3)

AddNibble(crc, nibble) ==
  Xor16(Xor16(crc \div 16, Table[(crc % 16) + 1]), Table[nibble + 1])

AddByte(crc, byte) == AddNibble(AddNibble(crc, byte % 16), byte \div 16)

Crc(data) ==
  LET upto[n \in 0 .. Len(data)] ==
        IF n = 0 THEN 0 ELSE AddByte(upto[n - 1], data[n])
  IN upto[Len(data)]

(* The check value of CRC-16/ARC, for "123456789", which a test asserts. *)
ASSUME CheckValue == Crc(<<49, 50, 51, 52, 53, 54, 55, 56, 57>>) = \hBB3D
===============================================================================
