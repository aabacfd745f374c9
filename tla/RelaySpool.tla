----------------------------- MODULE RelaySpool -----------------------------
(***************************************************************************)
(* The flash spool of main/relay_spool.c with the serial task that fills   *)
(* it, the sender that reads it through its source callbacks, and power    *)
(* loss.  Flash survives a restart, everything else starts from zero and   *)
(* relay_spool_init looks for a committed header.                          *)
(*                                                                         *)
(* The spool state has no lock: what keeps the serial task from changing   *)
(* it under the sender is that RELAY BEGIN first clears the registry.      *)
(***************************************************************************)
EXTENDS OutgoingRegistry, Naturals, Sequences

CONSTANTS
    Bytes, CrcMax,
    crc32_update(_, _),
    Capacity,       \* bound: data bytes of the storage partition
    WorkspaceBytes, \* sizeof(upload_workspace)
    Erased, Torn,   \* header sector: all ones, or not what was written
    Builds,         \* values of CONFIG_ESPDROP_AIRDROP_UPLOAD_LAB
    Refusals        \* builds whose run request or BLE wake may fail

Crcs == 0 .. CrcMax
Strings == UNION {[1 .. n -> Bytes] : n \in 0 .. Capacity}

ASSUME SpoolAssumption ==
    /\ CrcMax \in Nat /\ Capacity \in Nat
    /\ WorkspaceBytes \in Nat \ {0}
    /\ Files \subseteq [bytes : 1 .. Capacity, crc : Crcs]
    /\ Erased \notin Files /\ Torn \notin Files
    /\ Builds \subseteq BOOLEAN /\ Refusals \subseteq Builds

ASSUME SpoolCrcAssumption ==
    /\ \A c \in Crcs, s \in Strings : crc32_update(c, s) \in Crcs
    /\ \A c \in Crcs, s, t \in Strings :
            s \o t \in Strings
                => crc32_update(crc32_update(c, s), t) = crc32_update(c, s \o t)
    /\ \A c \in Crcs : crc32_update(c, <<>>) = c

\* crc32_bytes
Crc(s) == CrcMax - crc32_update(CrcMax, s)

VARIABLES
    flash_header, flash_data,       \* the storage partition
    upload_lab,                     \* which build was flashed, never changes
    header, ready, writing,         \* relay_spool_state_t
    cursor, write_cursor, write_crc32,
    serial,                         \* serial task: program point
    sender, outgoing,               \* sender task: program point, descriptor,
    body                            \*   bytes of the pass it is making

flashVars  == <<flash_header, flash_data, upload_lab>>
spoolVars  == <<header, ready, writing, cursor, write_cursor, write_crc32>>
senderVars == <<sender, outgoing, body>>
vars == <<registryVars, flashVars, spoolVars, serial, senderVars>>

SerialPoint == {"boot", "idle", "erase_header", "erase_data", "receive",
                "commit", "publish", "request", "abort"}
SenderPoint == {"idle", "ask", "sizing", "sizing_read", "rewind", "upload",
                "upload_read", "respond", "failing", "release"}

TypeOK ==
    /\ RegistryTypeOK
    /\ flash_header \in Files \cup {Erased, Torn}
    /\ flash_data \in Strings
    /\ upload_lab \in Builds
    /\ header \in Files \cup {NoFile}
    /\ ready \in BOOLEAN /\ writing \in BOOLEAN
    /\ cursor \in 0 .. Capacity
    /\ write_cursor \in 0 .. Capacity
    /\ write_crc32 \in Crcs
    /\ serial \in SerialPoint
    /\ sender \in SenderPoint
    /\ outgoing \in Files \cup {NoFile}
    /\ body \in Strings

\* RAM after reset.
Reset ==
    /\ registered' = FALSE /\ acquired' = FALSE
    /\ registered_file' = NoFile /\ transfer_result' = "none"
    /\ header' = NoFile /\ ready' = FALSE /\ writing' = FALSE
    /\ cursor' = 0 /\ write_cursor' = 0 /\ write_crc32' = 0
    /\ serial' = "boot"
    /\ sender' = "idle" /\ outgoing' = NoFile /\ body' = <<>>

Init ==
    /\ RegistryInit
    /\ flash_header = Erased /\ flash_data = <<>>
    /\ upload_lab \in Builds
    /\ header = NoFile /\ ready = FALSE /\ writing = FALSE
    /\ cursor = 0 /\ write_cursor = 0 /\ write_crc32 = 0
    /\ serial = "boot"
    /\ sender = "idle" /\ outgoing = NoFile /\ body = <<>>

\* Power loss, a crash or ESPDROP RESTART.
Restart == Reset /\ UNCHANGED flashVars

\* relay_spool_init: a header that validates makes the file ready; builds
\* without the upload lab register it at once.
Boot ==
    LET found == flash_header \in Files
    IN  /\ serial = "boot"
        /\ ready' = found
        /\ header' = IF found THEN flash_header ELSE NoFile
        /\ IF found /\ ~upload_lab THEN outgoing_set(header')
                                   ELSE UNCHANGED registryVars
        /\ serial' = "idle"
        /\ UNCHANGED <<flashVars, writing, cursor, write_cursor, write_crc32,
                       senderVars>>

-----------------------------------------------------------------------------
(***************************************************************************)
(* Serial task.                                                            *)
(***************************************************************************)

\* Mutant: the old registration is left in place.
RelayBegin_keeps_registration ==
    /\ serial = "idle"
    /\ ~acquired
    /\ serial' = "erase_header"
    /\ UNCHANGED <<registryVars, flashVars, spoolVars, senderVars>>

\* ESPDROP RELAY BEGIN: clear the registry (RELAY-BUSY if a sender holds the
\* file) and enter relay_spool_begin.
RelayBegin ==
    /\ serial = "idle"
    /\ outgoing_clear
    /\ serial' = "erase_header"
    /\ UNCHANGED <<flashVars, spoolVars, senderVars>>

\* Mutant: the header sector is left until the new header is written.
EraseHeader_not ==
    /\ serial = "erase_header"
    /\ serial' = "erase_data"
    /\ UNCHANGED <<registryVars, flashVars, spoolVars, senderVars>>

\* esp_partition_erase_range goes from the first sector on: the header ...
EraseHeader ==
    /\ serial = "erase_header"
    /\ flash_header' = Erased
    /\ serial' = "erase_data"
    /\ UNCHANGED <<registryVars, flash_data, upload_lab, spoolVars, senderVars>>

\* ... then the data sectors, and the state of the declared file is set up.
EraseData(file) ==
    /\ serial = "erase_data"
    /\ flash_data' = <<>>
    /\ header' = file
    /\ cursor' = 0 /\ write_cursor' = 0 /\ write_crc32' = CrcMax
    /\ ready' = FALSE /\ writing' = TRUE
    /\ serial' = "receive"
    /\ UNCHANGED <<registryVars, flash_header, upload_lab, senderVars>>

\* A sector does not erase: RELAY-FAILED, the spool state is left as it was.
EraseFails ==
    /\ serial \in {"erase_header", "erase_data"}
    /\ serial' = "idle"
    /\ UNCHANGED <<registryVars, flashVars, spoolVars, senderVars>>

\* The bound relay_spool_write puts on a piece of n bytes.
WriteFits(n) == write_cursor + n <= header.bytes

\* relay_spool_write of bytes from the host; the last ones lead to finish.
RelayWrite(s) ==
    /\ serial = "receive"
    /\ WriteFits(Len(s))
    /\ flash_data' = flash_data \o s
    /\ write_crc32' = crc32_update(write_crc32, s)
    /\ write_cursor' = write_cursor + Len(s)
    /\ serial' = IF write_cursor' = header.bytes THEN "commit" ELSE "receive"
    /\ UNCHANGED <<registryVars, flash_header, upload_lab, header, ready,
                   writing, cursor, senderVars>>

\* Mutant: no timeout while the host's bytes are awaited.
RelayInterrupted_never == FALSE /\ UNCHANGED vars

\* The write fails (RELAY-FAILED), or fifteen seconds pass (RELAY-TIMEOUT).
RelayInterrupted ==
    /\ serial = "receive"
    /\ serial' = "abort"
    /\ UNCHANGED <<registryVars, flashVars, spoolVars, senderVars>>

\* Mutant: the CRC of what was written is not looked at.
WrittenAsDeclared_length == write_cursor = header.bytes

\* The test relay_spool_finish makes before it commits.
WrittenAsDeclared ==
    /\ write_cursor = header.bytes
    /\ CrcMax - write_crc32 = header.crc

\* relay_spool_finish commits the header.
Commit ==
    /\ serial = "commit"
    /\ WrittenAsDeclared
    /\ flash_header' = header
    /\ writing' = FALSE /\ ready' = TRUE /\ cursor' = 0
    /\ serial' = "publish"
    /\ UNCHANGED <<registryVars, flash_data, upload_lab, header,
                   write_cursor, write_crc32, senderVars>>

\* CRC-ERROR, or the header write fails and leaves anything in its sector
\* but a header that validates.
CommitFails ==
    /\ serial = "commit"
    /\ IF WrittenAsDeclared THEN flash_header' = Torn
                            ELSE UNCHANGED flash_header
    /\ serial' = "abort"
    /\ UNCHANGED <<registryVars, flash_data, upload_lab, spoolVars, senderVars>>

\* finish_relay_upload registers the spooled file.
Publish ==
    /\ serial = "publish"
    /\ outgoing_set(header)
    /\ serial' = "request"
    /\ UNCHANGED <<flashVars, spoolVars, senderVars>>

\* The run request is granted: RELAY-STORED.
RunGranted ==
    /\ serial = "request"
    /\ serial' = "idle"
    /\ UNCHANGED <<registryVars, flashVars, spoolVars, senderVars>>

\* It is refused: RELAY-FAILED and relay_spool_abort, the registration stays.
RunRefused ==
    /\ serial = "request" /\ upload_lab \in Refusals
    /\ ready' = FALSE /\ cursor' = 0 /\ write_cursor' = 0
    /\ serial' = "abort"
    /\ UNCHANGED <<registryVars, flashVars, header, writing, write_crc32,
                   senderVars>>

\* relay_spool_abort, down to its memset of the header.
Abort ==
    /\ serial = "abort"
    /\ writing' = FALSE /\ ready' = FALSE
    /\ cursor' = 0 /\ write_cursor' = 0 /\ header' = NoFile
    /\ serial' = "idle"
    /\ UNCHANGED <<registryVars, flashVars, write_crc32, senderVars>>

-----------------------------------------------------------------------------
(***************************************************************************)
(* Sender task (builds with the upload lab).                               *)
(***************************************************************************)

SenderAcquire ==
    /\ upload_lab
    /\ sender = "idle"
    /\ outgoing_acquire
    /\ outgoing' = registered_file
    /\ sender' = "ask"
    /\ UNCHANGED <<flashVars, spoolVars, serial, body>>

\* The Ask is accepted and the sizing pass begins, or it is not.
AskAnswered(ok) ==
    /\ sender = "ask"
    /\ sender' = IF ok THEN "sizing" ELSE "failing"
    /\ UNCHANGED <<registryVars, flashVars, spoolVars, serial, outgoing, body>>

\* source_read looks at ready and writing ...
SourceCheck ==
    /\ sender \in {"sizing", "upload"}
    /\ sender' = IF ~ready \/ writing THEN "failing"
                 ELSE IF sender = "sizing" THEN "sizing_read" ELSE "upload_read"
    /\ UNCHANGED <<registryVars, flashVars, spoolVars, serial, outgoing, body>>

\* What is left behind the cursor.  size_bytes and cursor are read without a
\* lock; a zeroed header has size 0.
SourceRemaining == (IF header = NoFile THEN 0 ELSE header.bytes) - cursor

Least(a, b) == IF a <= b THEN a ELSE b

\* ... and then reads and advances the cursor.  The archive pass ends with
\* the declared number of bytes.
SourceRead ==
    LET count == Least(SourceRemaining,
                       Least(WorkspaceBytes, outgoing.bytes - Len(body)))
        bytes == SubSeq(flash_data, cursor + 1, cursor + count)
    IN  /\ sender \in {"sizing_read", "upload_read"}
        /\ count > 0
        /\ cursor' = cursor + count
        /\ body' = body \o bytes
        /\ sender' = IF Len(body') < outgoing.bytes
                     THEN (IF sender = "sizing_read" THEN "sizing" ELSE "upload")
                     ELSE (IF sender = "sizing_read" THEN "rewind" ELSE "respond")
        /\ UNCHANGED <<registryVars, flashVars, header, ready, writing,
                       write_cursor, write_crc32, serial, outgoing>>

\* Nothing left, or the flash does not read.
SourceFails ==
    /\ sender \in {"sizing_read", "upload_read"}
    /\ sender' = "failing"
    /\ UNCHANGED <<registryVars, flashVars, spoolVars, serial, outgoing, body>>

\* source_rewind between the sizing and the upload pass.
SourceRewind ==
    /\ sender = "rewind"
    /\ body' = <<>>
    /\ IF ready /\ ~writing
       THEN cursor' = 0 /\ sender' = "upload"
       ELSE sender' = "failing" /\ UNCHANGED cursor
    /\ UNCHANGED <<registryVars, flashVars, header, ready, writing,
                   write_cursor, write_crc32, serial, outgoing>>

\* The Upload body is complete and answered, or an earlier step failed.
TransferCompletes(state) ==
    /\ sender = "respond" \/ (sender = "failing" /\ state = "failed")
    /\ outgoing_complete(state)
    /\ sender' = "release"
    /\ UNCHANGED <<flashVars, spoolVars, serial, outgoing, body>>

SenderRelease ==
    /\ sender = "release"
    /\ outgoing_release
    /\ sender' = "idle" /\ outgoing' = NoFile /\ body' = <<>>
    /\ UNCHANGED <<flashVars, spoolVars, serial>>

-----------------------------------------------------------------------------

HostStep ==
    \/ RelayBegin
    \/ \E s \in Strings \ {<<>>} : RelayWrite(s)

SerialStep ==
    \/ Boot
    \/ EraseHeader \/ (\E file \in Files : EraseData(file)) \/ EraseFails
    \/ RelayInterrupted
    \/ Commit \/ CommitFails \/ Publish \/ RunGranted \/ RunRefused \/ Abort

TransferStep ==
    \/ \E ok \in BOOLEAN : AskAnswered(ok)
    \/ SourceCheck \/ SourceRead \/ SourceFails \/ SourceRewind
    \/ \E state \in {"success", "failed"} : TransferCompletes(state)
    \/ SenderRelease

Next == HostStep \/ SerialStep \/ SenderAcquire \/ TransferStep \/ Restart

\* The tasks run; neither the host nor the power supply owes anything.
Spec == Init /\ [][Next]_vars /\ WF_vars(SerialStep) /\ WF_vars(TransferStep)

-----------------------------------------------------------------------------
(***************************************************************************)
(* Properties.                                                             *)
(***************************************************************************)

\* A header that validates stands before its whole payload: whenever power
\* is lost, the next relay_spool_init finds the complete file or none
\* ("verifies the raw-file CRC, and commits metadata last", README.md:156).
CommittedIsComplete ==
    flash_header \in Files =>
        /\ Len(flash_data) = flash_header.bytes
        /\ Crc(flash_data) = flash_header.crc

\* The registry never offers a spooled file that is no longer in flash: the
\* erase comes after the clear, the registration after the commit.
RegisteredIsStored == registered => flash_header = registered_file

\* A complete Upload body is the declared file ("streams the same source
\* into /Upload", docs/send-flow.md:120): the lock-free source callbacks
\* never mix two positions or two files.
UploadIsStored ==
    sender = "respond" =>
        /\ Len(body) = outgoing.bytes
        /\ Crc(body) = outgoing.crc

\* The serial task comes back to its commands: a host that stops in the
\* middle of a file (15 s timeout), flash errors and restarts included.
SpoolReturns == (serial # "idle") ~> (serial = "idle")

=============================================================================
