---------------------------- MODULE MCRelaySpool ----------------------------
(***************************************************************************)
(* Instance of RelaySpool with the checksum of SmallCrc: files of one, two *)
(* and four bytes, so that a pass takes one read or several.               *)
(***************************************************************************)
EXTENDS RelaySpool, SmallCrc

MCFiles == [bytes : {1, 2, 4}, crc : {0, 1, 2}]
=============================================================================
