--------------------------- MODULE MCRelayStream ---------------------------
(***************************************************************************)
(* Instance of RelayStream: one-bit bytes, the two-bit checksum of         *)
(* SmallCrc, and payloads of one byte and of twice the chunk size.         *)
(***************************************************************************)
EXTENDS RelayStream, SmallCrc

MCFiles == [bytes : {1, 4}, crc : {0, 1}]
=============================================================================
