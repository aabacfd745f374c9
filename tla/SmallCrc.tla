------------------------------ MODULE SmallCrc ------------------------------
(***************************************************************************)
(* The reflected CRC loop of crc32_update (relay_stream.c, relay_spool.c)  *)
(* scaled down for model checking: one-bit bytes and a two-bit register    *)
(* with polynomial 3.                                                      *)
(***************************************************************************)
LOCAL INSTANCE Naturals
LOCAL INSTANCE Sequences

\* One byte of crc32_update: xor it in, shift right, and xor the polynomial
\* if the bit shifted out was 1.
CrcByte(crc, b) ==
    LET x == 2 * (crc \div 2) + ((crc + b) % 2)
    IN  IF x % 2 = 1 THEN 3 - (x \div 2) ELSE x \div 2

SmallCrc(crc, s) ==
    LET reg[i \in 0 .. Len(s)] == IF i = 0 THEN crc ELSE CrcByte(reg[i - 1], s[i])
    IN  reg[Len(s)]
=============================================================================
