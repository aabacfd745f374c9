---------------------------- MODULE FlashProofs ----------------------------
(***************************************************************************)
(* What flash holds is right after power was lost at any step: the spooled *)
(* file of RelaySpool, for any storage size, file set and checksum that    *)
(* composes over concatenation, and the app slots of OtaUpdate, for any    *)
(* images, URLs and faults.                                                *)
(***************************************************************************)
EXTENDS RelaySpool, OtaUpdate, SequenceTheorems, TLAPS

\* Flash: a header that validates stands before its whole file, the file on
\* offer is that one, and there is none while a file is written.
FlashInv ==
    /\ CommittedIsComplete
    /\ RegisteredIsStored
    /\ serial \in {"erase_data", "receive", "commit"} => flash_header \notin Files

\* Serial task: nothing is on offer from BEGIN to the registration, and the
\* running length and CRC are those of what flash holds.
WriteInv ==
    /\ serial \in {"boot", "erase_header", "erase_data", "receive", "commit",
                   "publish"}
            => ~registered
    /\ serial \in {"receive", "commit"} =>
            /\ header \in Files
            /\ Len(flash_data) = write_cursor
            /\ write_crc32 = crc32_update(CrcMax, flash_data)
    /\ serial = "publish" => /\ header \in Files /\ flash_header = header
                             /\ ready /\ ~writing
    /\ serial = "boot" => ~writing
    /\ serial \in {"boot", "publish"} => cursor = 0

\* Ownership: the sender works on the file on offer, which the spool state
\* describes until a refused run zeroes it.
OwnerInv ==
    /\ acquired <=> sender # "idle"
    /\ sender # "idle" => registered /\ upload_lab /\ outgoing = registered_file
    /\ registered => header \in {NoFile, registered_file}
    /\ registered /\ upload_lab \notin Refusals
            => ready /\ ~writing /\ header = registered_file
    /\ serial = "abort" /\ upload_lab \notin Refusals => ~registered

\* The pass of the sender: it never runs past the file, and the upload pass
\* has what lies before the cursor.
PassInv ==
    /\ registered /\ header # NoFile => cursor <= header.bytes
    /\ sender \in {"idle", "ask"} => body = <<>>
    /\ sender # "idle" => Len(body) <= outgoing.bytes
    /\ upload_lab \notin Refusals /\ sender \in {"upload", "upload_read"}
            => body = SubSeq(flash_data, 1, cursor)
    /\ upload_lab \notin Refusals /\ sender = "respond" => body = flash_data

SpoolInv == TypeOK /\ FlashInv /\ WriteInv /\ OwnerInv /\ PassInv

-----------------------------------------------------------------------------

\* Strings are exactly the byte sequences that fit the storage.
LEMMA StringIsSeq ==
    ASSUME NEW s \in Strings
    PROVE  s \in Seq(Bytes) /\ Len(s) \in Nat /\ Len(s) <= Capacity
<1>1. PICK n \in 0 .. Capacity : s \in [1 .. n -> Bytes]
  BY DEF Strings
<1>2. n \in Nat /\ s \in Seq(Bytes) /\ Len(s) = n
  BY <1>1, SpoolAssumption
<1> QED BY <1>1, <1>2, SpoolAssumption

LEMMA SeqIsString ==
    ASSUME NEW s \in Seq(Bytes), Len(s) <= Capacity
    PROVE  s \in Strings
<1>1. s \in [1 .. Len(s) -> Bytes] /\ Len(s) \in 0 .. Capacity
  BY SpoolAssumption
<1> QED BY <1>1 DEF Strings

LEMMA EmptyString == <<>> \in Strings /\ Len(<<>>) = 0
<1>1. <<>> \in [1 .. 0 -> Bytes] /\ 0 \in 0 .. Capacity
  BY SpoolAssumption
<1> QED BY <1>1 DEF Strings

\* A declared file fits the storage.
LEMMA FileFits ==
    ASSUME NEW file \in Files
    PROVE  /\ file.bytes \in Nat /\ 0 < file.bytes /\ file.bytes <= Capacity
           /\ file.crc \in Crcs /\ file # NoFile
  BY SpoolAssumption, NoFileAssumption

\* A stretch of a string is a string of its length.
LEMMA Stretch ==
    ASSUME NEW s \in Seq(Bytes), NEW a \in Nat, NEW b \in Nat,
           a <= b, b <= Len(s)
    PROVE  /\ SubSeq(s, a + 1, b) \in Seq(Bytes)
           /\ Len(SubSeq(s, a + 1, b)) = b - a
  OBVIOUS

\* Concatenation adds lengths.
LEMMA Concatenation ==
    ASSUME NEW s \in Seq(Bytes), NEW t \in Seq(Bytes)
    PROVE  s \o t \in Seq(Bytes) /\ Len(s \o t) = Len(s) + Len(t)
  OBVIOUS

\* A prefix has its length.
LEMMA PrefixLength ==
    ASSUME NEW s \in Seq(Bytes), NEW b \in Nat, b <= Len(s)
    PROVE  Len(SubSeq(s, 1, b)) = b
  OBVIOUS

\* What lies before b and what follows it up to c lie together before c.
LEMMA PrefixGrows ==
    ASSUME NEW s \in Seq(Bytes), NEW b \in Nat, NEW c \in Nat,
           b <= c, c <= Len(s)
    PROVE  SubSeq(s, 1, b) \o SubSeq(s, b + 1, c) = SubSeq(s, 1, c)
<1> DEFINE l == SubSeq(s, 1, b) \o SubSeq(s, b + 1, c)
           r == SubSeq(s, 1, c)
<1>1. /\ SubSeq(s, 1, b) \in Seq(Bytes) /\ Len(SubSeq(s, 1, b)) = b
      /\ SubSeq(s, b + 1, c) \in Seq(Bytes) /\ Len(SubSeq(s, b + 1, c)) = c - b
      /\ r \in Seq(Bytes) /\ Len(r) = c
  OBVIOUS
<1>2. l \in Seq(Bytes) /\ Len(l) = c
  BY <1>1
<1>3. \A i \in 1 .. c : l[i] = r[i]
  BY <1>1
<1> QED BY <1>1, <1>2, <1>3, SeqEqual

\* The longest prefix is the string, the shortest is empty.
LEMMA WholeAndEmpty ==
    ASSUME NEW s \in Seq(Bytes)
    PROVE  SubSeq(s, 1, Len(s)) = s /\ SubSeq(s, 1, 0) = <<>>
<1>1. SubSeq(s, 1, Len(s)) = s
  BY SeqEqual
<1>2. SubSeq(s, 1, 0) = <<>>
  OBVIOUS
<1> QED BY <1>1, <1>2

-----------------------------------------------------------------------------

\* RAM after a reset, and flash as it was found.
AfterReset ==
    /\ registered = FALSE /\ acquired = FALSE
    /\ registered_file = NoFile /\ transfer_result = "none"
    /\ header = NoFile /\ ready = FALSE /\ writing = FALSE
    /\ cursor = 0 /\ write_cursor = 0 /\ write_crc32 = 0
    /\ serial = "boot"
    /\ sender = "idle" /\ outgoing = NoFile /\ body = <<>>
    /\ flash_header \in Files \cup {Erased, Torn} /\ flash_data \in Strings
    /\ upload_lab \in Builds
    /\ CommittedIsComplete

\* After a reset RAM says nothing, so what flash holds decides alone
\* (power loss at any step of relay_spool_begin, _write and _finish).
LEMMA ResetInv == AfterReset => SpoolInv
<1> SUFFICES ASSUME AfterReset PROVE SpoolInv
  OBVIOUS
<1> USE DEF AfterReset
<1>1. TypeOK
  <2>1. 0 \in 0 .. Capacity /\ 0 \in Crcs
    BY SpoolAssumption DEF Crcs
  <2>2. <<>> \in Strings
    BY EmptyString
  <2>3. RegistryTypeOK
    BY DEF RegistryTypeOK, ResultState
  <2>4. ready \in BOOLEAN /\ writing \in BOOLEAN
    BY Zenon
  <2> QED BY <2>1, <2>2, <2>3, <2>4 DEF TypeOK, SerialPoint, SenderPoint
<1>2. FlashInv /\ WriteInv
  BY DEF FlashInv, WriteInv, RegisteredIsStored
<1>3. OwnerInv
  BY DEF OwnerInv
<1>4. PassInv
  BY DEF PassInv
<1> QED BY <1>1, <1>2, <1>3, <1>4 DEF SpoolInv

\* A device whose storage partition was never written.
LEMMA InitInv == Init => SpoolInv
<1> SUFFICES ASSUME Init PROVE AfterReset
  BY ResetInv
<1>1. Erased \notin Files
  BY SpoolAssumption
<1> QED BY <1>1, EmptyString DEF Init, RegistryInit, AfterReset, CommittedIsComplete

\* Power is lost, or the host restarts the device.
LEMMA RestartInv == ASSUME SpoolInv, Restart PROVE SpoolInv'
<1>1. AfterReset'
  BY DEF Restart, Reset, AfterReset, SpoolInv, TypeOK, FlashInv,
     CommittedIsComplete, Crc, flashVars
<1>2. AfterReset' => SpoolInv'
  BY ResetInv, PTL
<1> QED BY <1>1, <1>2

\* Writing starts from empty flash and an empty CRC, with no file on offer.
LEMMA EraseDataInv ==
    ASSUME SpoolInv, NEW file \in Files, EraseData(file)
    PROVE  SpoolInv'
<1> USE DEF SpoolInv, EraseData, registryVars, senderVars
<1>1. ~registered /\ sender = "idle" /\ ~acquired
  BY DEF WriteInv, OwnerInv
<1>2. flash_data' = <<>> /\ <<>> \in Strings /\ Len(<<>>) = 0
  BY EmptyString
<1>3. 0 \in 0 .. Capacity /\ CrcMax \in Crcs
  BY SpoolAssumption DEF Crcs
<1>4. TypeOK'
  BY <1>2, <1>3 DEF TypeOK, RegistryTypeOK, SerialPoint
<1>5. FlashInv'
  BY <1>1 DEF FlashInv, CommittedIsComplete, RegisteredIsStored
<1>6. WriteInv'
  BY <1>1, <1>2, <1>3, SpoolCrcAssumption DEF WriteInv
<1>7. OwnerInv' /\ PassInv'
  BY <1>1, <1>2 DEF OwnerInv, PassInv
<1> QED BY <1>4, <1>5, <1>6, <1>7

\* A piece is appended in flash, to the length and to the CRC alike.
LEMMA RelayWriteInv ==
    ASSUME SpoolInv, NEW s \in Strings, RelayWrite(s)
    PROVE  SpoolInv'
<1> USE DEF SpoolInv, RelayWrite, registryVars, senderVars
<1>1. /\ ~registered /\ sender = "idle" /\ ~acquired
      /\ header \in Files /\ Len(flash_data) = write_cursor
      /\ write_crc32 = crc32_update(CrcMax, flash_data)
  BY DEF WriteInv, OwnerInv
<1>2. /\ s \in Seq(Bytes) /\ Len(s) \in Nat
      /\ flash_data \in Strings /\ flash_data \in Seq(Bytes)
  BY StringIsSeq DEF TypeOK
<1>3. /\ write_cursor \in Nat /\ write_cursor + Len(s) <= Capacity
      /\ write_cursor' = write_cursor + Len(s) /\ write_cursor' \in 0 .. Capacity
  BY <1>1, <1>2, FileFits, SpoolAssumption DEF TypeOK, WriteFits
<1>4. flash_data' \in Seq(Bytes) /\ Len(flash_data') = write_cursor'
  BY <1>1, <1>2, <1>3
<1>5. flash_data' \in Strings
  BY <1>3, <1>4, SeqIsString, SpoolAssumption
<1>6. write_crc32' = crc32_update(CrcMax, flash_data') /\ write_crc32' \in Crcs
  <2>1. CrcMax \in Crcs
    BY SpoolAssumption DEF Crcs
  <2>2. flash_data' = flash_data \o s
    OBVIOUS
  <2> QED BY <1>1, <1>2, <1>5, <2>1, <2>2, SpoolCrcAssumption
<1>7. TypeOK'
  BY <1>3, <1>5, <1>6 DEF TypeOK, RegistryTypeOK, SerialPoint
<1>8. FlashInv'
  BY <1>1 DEF FlashInv, CommittedIsComplete, RegisteredIsStored
<1>9. WriteInv'
  BY <1>1, <1>4, <1>6 DEF WriteInv
<1>10. OwnerInv' /\ PassInv'
  BY <1>1 DEF OwnerInv, PassInv
<1> QED BY <1>7, <1>8, <1>9, <1>10

\* The header is written when length and CRC of what flash holds are those
\* that were declared.
LEMMA CommitInv == ASSUME SpoolInv, Commit PROVE SpoolInv'
<1> USE DEF SpoolInv, Commit, registryVars, senderVars
<1>1. /\ ~registered /\ sender = "idle" /\ ~acquired
      /\ header \in Files /\ Len(flash_data) = write_cursor
      /\ write_crc32 = crc32_update(CrcMax, flash_data)
  BY DEF WriteInv, OwnerInv
<1>2. Len(flash_data) = header.bytes /\ Crc(flash_data) = header.crc
  BY <1>1 DEF WrittenAsDeclared, Crc
<1>3. TypeOK'
  <2>1. 0 \in 0 .. Capacity /\ serial' \in SerialPoint
    BY SpoolAssumption DEF SerialPoint
  <2>2. ready' \in BOOLEAN /\ writing' \in BOOLEAN
    BY Zenon
  <2> QED BY <1>1, <2>1, <2>2 DEF TypeOK, RegistryTypeOK
<1>4. FlashInv'
  BY <1>1, <1>2 DEF FlashInv, CommittedIsComplete, RegisteredIsStored, Crc
<1>5. WriteInv'
  BY <1>1 DEF WriteInv
<1>6. OwnerInv' /\ PassInv'
  BY <1>1 DEF OwnerInv, PassInv
<1> QED BY <1>3, <1>4, <1>5, <1>6

\* What the sender holds is on offer, is in flash, and is a whole file.
LEMMA HeldFile ==
    ASSUME SpoolInv, sender # "idle"
    PROVE  /\ registered /\ acquired /\ upload_lab
           /\ outgoing = registered_file /\ outgoing = flash_header
           /\ outgoing \in Files /\ outgoing # NoFile
           /\ outgoing.bytes \in Nat /\ outgoing.bytes <= Capacity
           /\ flash_data \in Seq(Bytes) /\ Len(flash_data) = outgoing.bytes
           /\ body \in Seq(Bytes) /\ Len(body) \in Nat
           /\ Len(body) <= outgoing.bytes /\ cursor \in Nat
           /\ header # NoFile => header = outgoing /\ cursor <= outgoing.bytes
<1>1. /\ registered /\ acquired /\ upload_lab /\ outgoing = registered_file
      /\ outgoing = flash_header /\ outgoing \in Files
  BY DEF SpoolInv, OwnerInv, FlashInv, RegisteredIsStored, TypeOK, RegistryTypeOK
<1>2. /\ flash_data \in Seq(Bytes) /\ body \in Seq(Bytes) /\ Len(body) \in Nat
      /\ cursor \in Nat
  BY StringIsSeq, SpoolAssumption DEF SpoolInv, TypeOK
<1>3. Len(flash_data) = outgoing.bytes /\ Len(body) <= outgoing.bytes
  BY <1>1 DEF SpoolInv, FlashInv, CommittedIsComplete, PassInv
<1>4. header # NoFile => header = outgoing /\ cursor <= outgoing.bytes
  BY <1>1 DEF SpoolInv, OwnerInv, PassInv
<1> QED BY <1>1, <1>2, <1>3, <1>4, FileFits

\* The sender reads behind the cursor and moves it on: within the file, and
\* in the upload pass what it has stays what lies before the cursor.
LEMMA SourceReadInv == ASSUME SpoolInv, SourceRead PROVE SpoolInv'
<1> DEFINE count == Least(SourceRemaining,
                          Least(WorkspaceBytes, outgoing.bytes - Len(body)))
           bytes == SubSeq(flash_data, cursor + 1, cursor + count)
<1>0. /\ sender \in {"sizing_read", "upload_read"} /\ count > 0
      /\ cursor' = cursor + count /\ body' = body \o bytes
      /\ sender' = IF Len(body') < outgoing.bytes
                   THEN (IF sender = "sizing_read" THEN "sizing" ELSE "upload")
                   ELSE (IF sender = "sizing_read" THEN "rewind" ELSE "respond")
      /\ UNCHANGED <<registered, acquired, registered_file, transfer_result,
                     flash_header, flash_data, upload_lab, header, ready,
                     writing, write_cursor, write_crc32, serial, outgoing>>
  BY DEF SourceRead, registryVars, flashVars
<1>1. /\ registered /\ outgoing = registered_file /\ outgoing \in Files
      /\ outgoing # NoFile /\ outgoing.bytes \in Nat
      /\ outgoing.bytes <= Capacity
      /\ flash_data \in Seq(Bytes) /\ Len(flash_data) = outgoing.bytes
      /\ body \in Seq(Bytes) /\ Len(body) \in Nat
      /\ Len(body) <= outgoing.bytes /\ cursor \in Nat
      /\ header # NoFile => header = outgoing /\ cursor <= outgoing.bytes
  BY <1>0, HeldFile
<1>2. /\ header = outgoing /\ count \in Nat /\ cursor + count <= outgoing.bytes
      /\ Len(body) + count <= outgoing.bytes
  <2>1. header # NoFile
    BY <1>0, <1>1, SpoolAssumption DEF Least, SourceRemaining
  <2>2. /\ header = outgoing /\ SourceRemaining = outgoing.bytes - cursor
        /\ SourceRemaining \in Nat /\ outgoing.bytes - Len(body) \in Nat
        /\ WorkspaceBytes \in Nat
    BY <1>1, <2>1, SpoolAssumption DEF SourceRemaining
  <2>3. /\ count \in Nat /\ count <= SourceRemaining
        /\ count <= outgoing.bytes - Len(body)
    BY <2>2 DEF Least
  <2> HIDE DEF count
  <2> QED BY <1>1, <2>2, <2>3
<1> HIDE DEF count
<1>3. bytes \in Seq(Bytes) /\ Len(bytes) = count
  BY <1>1, <1>2, Stretch
<1> HIDE DEF bytes
<1>4. body' \in Seq(Bytes) /\ Len(body') = Len(body) + count
  <2>1. body' = body \o bytes
    BY <1>0
  <2>2. body \in Seq(Bytes)
    BY <1>1
  <2> QED BY <1>3, <2>1, <2>2, Concatenation
<1>5. Len(body') <= outgoing.bytes /\ cursor' <= outgoing.bytes /\ cursor' \in Nat
  BY <1>0, <1>1, <1>2, <1>4
<1>6. body' \in Strings
  BY <1>1, <1>4, <1>5, SeqIsString, SpoolAssumption
<1>7. TypeOK'
  BY <1>0, <1>1, <1>5, <1>6, SpoolAssumption
  DEF SpoolInv, TypeOK, RegistryTypeOK, SenderPoint
<1>8. FlashInv' /\ WriteInv'
  BY <1>0, <1>1 DEF SpoolInv, FlashInv, WriteInv, CommittedIsComplete,
     RegisteredIsStored, Crc
<1>9. OwnerInv'
  BY <1>0 DEF SpoolInv, OwnerInv
<1>10. ASSUME upload_lab \notin Refusals, sender = "upload_read"
       PROVE  /\ body' = SubSeq(flash_data, 1, cursor')
              /\ sender' = "respond" => body' = flash_data
  <2>1. body = SubSeq(flash_data, 1, cursor)
    BY <1>10 DEF SpoolInv, PassInv
  <2>2. body' = SubSeq(flash_data, 1, cursor')
    BY <1>0, <1>1, <1>2, <2>1, PrefixGrows DEF bytes
  <2>3. Len(body') = cursor'
    BY <1>1, <1>5, <2>2, PrefixLength
  <2>4. sender' = "respond" => cursor' = Len(flash_data)
    BY <1>0, <1>1, <1>5, <2>3
  <2> QED BY <1>1, <2>2, <2>4, WholeAndEmpty
<1>11. PassInv'
  BY <1>0, <1>1, <1>2, <1>5, <1>10 DEF SpoolInv, PassInv
<1> QED BY <1>7, <1>8, <1>9, <1>11 DEF SpoolInv

\* The rewind starts the upload pass at the beginning of the file.
LEMMA SourceRewindInv == ASSUME SpoolInv, SourceRewind PROVE SpoolInv'
<1> USE DEF SourceRewind, registryVars, flashVars
<1>1. /\ registered /\ outgoing.bytes \in Nat /\ outgoing # NoFile
      /\ outgoing = registered_file /\ flash_data \in Seq(Bytes)
      /\ header # NoFile => header = outgoing /\ cursor <= outgoing.bytes
  BY HeldFile
<1>2. body' = <<>> /\ <<>> \in Strings /\ Len(<<>>) = 0
  BY EmptyString
<1>3. cursor' \in {0, cursor} /\ sender' \in {"upload", "failing"}
      /\ (sender' = "upload" => cursor' = 0)
  OBVIOUS
<1>4. TypeOK'
  BY <1>2, <1>3, SpoolAssumption DEF SpoolInv, TypeOK, RegistryTypeOK, SenderPoint
<1>5. FlashInv' /\ WriteInv'
  BY <1>1 DEF SpoolInv, FlashInv, WriteInv, CommittedIsComplete,
     RegisteredIsStored, Crc
<1>6. OwnerInv'
  BY DEF SpoolInv, OwnerInv
<1>7. PassInv'
  <2>1. SubSeq(flash_data', 1, 0) = <<>>
    BY <1>1, WholeAndEmpty
  <2>2. header' # NoFile => cursor' <= header'.bytes
    BY <1>1, <1>3
  <2>3. outgoing' = outgoing /\ Len(body') <= outgoing'.bytes
    BY <1>1, <1>2
  <2> QED BY <1>2, <1>3, <2>1, <2>2, <2>3 DEF PassInv
<1> QED BY <1>4, <1>5, <1>6, <1>7 DEF SpoolInv

\* The boot finds a whole file or none, and offers it where no sender runs.
LEMMA BootInv == ASSUME SpoolInv, Boot PROVE SpoolInv'
<1> USE DEF SpoolInv, Boot, registryVars, flashVars, senderVars
<1>1. /\ ~registered /\ ~writing /\ cursor = 0 /\ sender = "idle" /\ ~acquired
      /\ body = <<>>
  BY DEF WriteInv, OwnerInv, PassInv, TypeOK, RegistryTypeOK
<1>2. CASE flash_header \in Files /\ ~upload_lab
  <2>1. /\ header' = flash_header /\ ready' = TRUE /\ outgoing_set(flash_header)
        /\ serial' = "idle"
    BY <1>2
  <2>2. TypeOK'
    BY <1>2, <2>1 DEF TypeOK, RegistryTypeOK, ResultState, SerialPoint, outgoing_set
  <2>3. FlashInv' /\ WriteInv'
    BY <1>2, <2>1 DEF FlashInv, WriteInv, CommittedIsComplete, RegisteredIsStored,
       Crc, outgoing_set
  <2>4. OwnerInv'
    BY <1>1, <2>1 DEF OwnerInv, outgoing_set
  <2>5. PassInv'
    BY <1>1, <1>2, <2>1, FileFits DEF PassInv
  <2> QED BY <2>2, <2>3, <2>4, <2>5
<1>3. CASE ~(flash_header \in Files /\ ~upload_lab)
  <2>1. UNCHANGED <<registered, acquired, registered_file, transfer_result>>
    BY <1>3
  <2>2. header' \in Files \cup {NoFile} /\ ready' \in BOOLEAN
    OBVIOUS
  <2>3. TypeOK'
    BY <2>1, <2>2 DEF TypeOK, RegistryTypeOK, SerialPoint
  <2>4. FlashInv' /\ WriteInv'
    BY <1>1, <2>1 DEF FlashInv, WriteInv, CommittedIsComplete, RegisteredIsStored,
       Crc
  <2>5. OwnerInv' /\ PassInv'
    BY <1>1, <2>1 DEF OwnerInv, PassInv
  <2> QED BY <2>3, <2>4, <2>5
<1> QED BY <1>2, <1>3

\* Every step of host, serial task, sender and power keeps the invariant.
LEMMA NextInv == SpoolInv /\ [Next]_vars => SpoolInv'
<1> SUFFICES ASSUME SpoolInv, [Next]_vars PROVE SpoolInv'
  OBVIOUS
<1> USE DEF SpoolInv, registryVars, flashVars, spoolVars, senderVars
<1>1. CASE RelayBegin
  <2> USE <1>1 DEF RelayBegin, outgoing_clear
  <2>1. TypeOK'
    BY DEF TypeOK, RegistryTypeOK, ResultState, SerialPoint
  <2>2. FlashInv'
    BY DEF FlashInv, WriteInv, CommittedIsComplete, RegisteredIsStored, Crc
  <2>3. WriteInv'
    BY DEF WriteInv, OwnerInv
  <2>4. OwnerInv'
    BY DEF TypeOK, RegistryTypeOK, WriteInv, OwnerInv
  <2>5. PassInv'
    BY DEF TypeOK, RegistryTypeOK, WriteInv, OwnerInv, PassInv
  <2> QED BY <2>1, <2>2, <2>3, <2>4, <2>5
<1>2. CASE EraseHeader
  <2> USE <1>2 DEF EraseHeader
  <2>1. TypeOK'
    BY DEF TypeOK, RegistryTypeOK, SerialPoint
  <2>2. FlashInv'
    BY SpoolAssumption DEF FlashInv, WriteInv, CommittedIsComplete, RegisteredIsStored, Crc
  <2>3. WriteInv'
    BY DEF WriteInv, OwnerInv
  <2>4. OwnerInv'
    BY DEF TypeOK, RegistryTypeOK, WriteInv, OwnerInv
  <2>5. PassInv'
    BY DEF PassInv
  <2> QED BY <2>1, <2>2, <2>3, <2>4, <2>5
<1>3. CASE EraseFails
  <2> USE <1>3 DEF EraseFails
  <2>1. TypeOK'
    BY DEF TypeOK, RegistryTypeOK, SerialPoint
  <2>2. FlashInv'
    BY DEF FlashInv, WriteInv, CommittedIsComplete, RegisteredIsStored, Crc
  <2>3. WriteInv'
    BY DEF WriteInv, OwnerInv
  <2>4. OwnerInv'
    BY DEF TypeOK, RegistryTypeOK, WriteInv, OwnerInv
  <2>5. PassInv'
    BY DEF PassInv
  <2> QED BY <2>1, <2>2, <2>3, <2>4, <2>5
<1>4. CASE RelayInterrupted
  <2> USE <1>4 DEF RelayInterrupted
  <2>1. TypeOK'
    BY DEF TypeOK, RegistryTypeOK, SerialPoint
  <2>2. FlashInv'
    BY DEF FlashInv, WriteInv, CommittedIsComplete, RegisteredIsStored, Crc
  <2>3. WriteInv'
    BY DEF WriteInv, OwnerInv
  <2>4. OwnerInv'
    BY DEF TypeOK, RegistryTypeOK, WriteInv, OwnerInv
  <2>5. PassInv'
    BY DEF PassInv
  <2> QED BY <2>1, <2>2, <2>3, <2>4, <2>5
<1>5. CASE CommitFails
  <2> USE <1>5 DEF CommitFails, WrittenAsDeclared
  <2>1. TypeOK'
    BY DEF TypeOK, RegistryTypeOK, SerialPoint
  <2>2. FlashInv'
    BY SpoolAssumption DEF FlashInv, WriteInv, CommittedIsComplete, RegisteredIsStored, Crc
  <2>3. WriteInv'
    BY DEF WriteInv, OwnerInv
  <2>4. OwnerInv'
    BY DEF TypeOK, RegistryTypeOK, WriteInv, OwnerInv
  <2>5. PassInv'
    BY DEF PassInv
  <2> QED BY <2>1, <2>2, <2>3, <2>4, <2>5
<1>6. CASE Publish
  <2> USE <1>6 DEF Publish, outgoing_set
  <2>1. TypeOK'
    BY DEF TypeOK, RegistryTypeOK, ResultState, SerialPoint, WriteInv
  <2>2. FlashInv'
    BY DEF FlashInv, WriteInv, CommittedIsComplete, RegisteredIsStored, Crc
  <2>3. WriteInv'
    BY DEF WriteInv, OwnerInv
  <2>4. OwnerInv'
    BY DEF TypeOK, RegistryTypeOK, WriteInv, OwnerInv
  <2>5. PassInv'
    BY FileFits DEF TypeOK, RegistryTypeOK, WriteInv, OwnerInv, PassInv
  <2> QED BY <2>1, <2>2, <2>3, <2>4, <2>5
<1>7. CASE RunGranted
  <2> USE <1>7 DEF RunGranted
  <2>1. TypeOK'
    BY DEF TypeOK, RegistryTypeOK, SerialPoint
  <2>2. FlashInv'
    BY DEF FlashInv, WriteInv, CommittedIsComplete, RegisteredIsStored, Crc
  <2>3. WriteInv'
    BY DEF WriteInv, OwnerInv
  <2>4. OwnerInv'
    BY DEF TypeOK, RegistryTypeOK, WriteInv, OwnerInv
  <2>5. PassInv'
    BY DEF PassInv
  <2> QED BY <2>1, <2>2, <2>3, <2>4, <2>5
<1>8. CASE RunRefused
  <2> USE <1>8 DEF RunRefused
  <2>1. TypeOK'
    <3>1. 0 \in 0 .. Capacity /\ serial' \in SerialPoint
      BY SpoolAssumption DEF SerialPoint
    <3>2. ready' \in BOOLEAN /\ writing' \in BOOLEAN
      BY Zenon DEF TypeOK
    <3> QED BY <3>1, <3>2 DEF TypeOK, RegistryTypeOK
  <2>2. FlashInv'
    BY DEF FlashInv, WriteInv, CommittedIsComplete, RegisteredIsStored, Crc
  <2>3. WriteInv'
    BY DEF WriteInv, OwnerInv
  <2>4. OwnerInv'
    BY DEF TypeOK, RegistryTypeOK, WriteInv, OwnerInv
  <2>5. PassInv'
    BY FileFits DEF TypeOK, RegistryTypeOK, WriteInv, OwnerInv, PassInv
  <2> QED BY <2>1, <2>2, <2>3, <2>4, <2>5
<1>9. CASE Abort
  <2> USE <1>9 DEF Abort
  <2>1. TypeOK'
    <3>1. 0 \in 0 .. Capacity /\ serial' \in SerialPoint
      BY SpoolAssumption DEF SerialPoint
    <3>2. ready' \in BOOLEAN /\ writing' \in BOOLEAN
      BY Zenon DEF TypeOK
    <3> QED BY <3>1, <3>2 DEF TypeOK, RegistryTypeOK
  <2>2. FlashInv'
    BY DEF FlashInv, WriteInv, CommittedIsComplete, RegisteredIsStored, Crc
  <2>3. WriteInv'
    BY DEF WriteInv, OwnerInv
  <2>4. OwnerInv'
    BY DEF TypeOK, RegistryTypeOK, WriteInv, OwnerInv
  <2>5. PassInv'
    BY FileFits DEF TypeOK, RegistryTypeOK, WriteInv, OwnerInv, PassInv
  <2> QED BY <2>1, <2>2, <2>3, <2>4, <2>5
<1>10. CASE SenderAcquire
  <2> USE <1>10 DEF SenderAcquire, outgoing_acquire, outgoing_ready
  <2>1. TypeOK'
    BY DEF TypeOK, RegistryTypeOK, SenderPoint
  <2>2. FlashInv'
    BY DEF FlashInv, WriteInv, CommittedIsComplete, RegisteredIsStored, Crc
  <2>3. WriteInv'
    BY DEF WriteInv, OwnerInv
  <2>4. OwnerInv'
    BY DEF TypeOK, RegistryTypeOK, WriteInv, OwnerInv
  <2>5. PassInv'
    BY EmptyString, FileFits DEF TypeOK, RegistryTypeOK, WriteInv, OwnerInv, PassInv
  <2> QED BY <2>1, <2>2, <2>3, <2>4, <2>5
<1>11. ASSUME NEW ok \in BOOLEAN, AskAnswered(ok)
       PROVE  SpoolInv'
  <2> USE <1>11 DEF AskAnswered
  <2>1. TypeOK'
    BY DEF TypeOK, RegistryTypeOK, SenderPoint
  <2>2. FlashInv'
    BY DEF FlashInv, WriteInv, CommittedIsComplete, RegisteredIsStored, Crc
  <2>3. WriteInv'
    BY DEF WriteInv, OwnerInv
  <2>4. OwnerInv'
    BY DEF TypeOK, RegistryTypeOK, WriteInv, OwnerInv
  <2>5. PassInv'
    BY DEF PassInv
  <2> QED BY <2>1, <2>2, <2>3, <2>4, <2>5
<1>12. CASE SourceCheck
  <2> USE <1>12 DEF SourceCheck
  <2>1. TypeOK'
    BY DEF TypeOK, RegistryTypeOK, SenderPoint
  <2>2. FlashInv'
    BY DEF FlashInv, WriteInv, CommittedIsComplete, RegisteredIsStored, Crc
  <2>3. WriteInv'
    BY DEF WriteInv, OwnerInv
  <2>4. OwnerInv'
    BY DEF TypeOK, RegistryTypeOK, WriteInv, OwnerInv
  <2>5. PassInv'
    BY DEF PassInv
  <2> QED BY <2>1, <2>2, <2>3, <2>4, <2>5
<1>13. CASE SourceFails
  <2> USE <1>13 DEF SourceFails
  <2>1. TypeOK'
    BY DEF TypeOK, RegistryTypeOK, SenderPoint
  <2>2. FlashInv'
    BY DEF FlashInv, WriteInv, CommittedIsComplete, RegisteredIsStored, Crc
  <2>3. WriteInv'
    BY DEF WriteInv, OwnerInv
  <2>4. OwnerInv'
    BY DEF TypeOK, RegistryTypeOK, WriteInv, OwnerInv
  <2>5. PassInv'
    BY DEF PassInv
  <2> QED BY <2>1, <2>2, <2>3, <2>4, <2>5
<1>14. ASSUME NEW outcome \in {"success", "failed"}, TransferCompletes(outcome)
       PROVE  SpoolInv'
  <2> USE <1>14 DEF TransferCompletes, outgoing_complete
  <2>1. TypeOK'
    BY DEF TypeOK, RegistryTypeOK, ResultState, SenderPoint
  <2>2. FlashInv'
    BY DEF FlashInv, WriteInv, CommittedIsComplete, RegisteredIsStored, Crc
  <2>3. WriteInv'
    BY DEF WriteInv, OwnerInv
  <2>4. OwnerInv'
    BY DEF TypeOK, RegistryTypeOK, WriteInv, OwnerInv
  <2>5. PassInv'
    BY DEF PassInv
  <2> QED BY <2>1, <2>2, <2>3, <2>4, <2>5
<1>15. CASE SenderRelease
  <2> USE <1>15 DEF SenderRelease, outgoing_release
  <2>1. TypeOK'
    BY EmptyString DEF TypeOK, RegistryTypeOK, SenderPoint
  <2>2. FlashInv'
    BY DEF FlashInv, WriteInv, CommittedIsComplete, RegisteredIsStored, Crc
  <2>3. WriteInv'
    BY DEF WriteInv, OwnerInv
  <2>4. OwnerInv'
    BY DEF TypeOK, RegistryTypeOK, WriteInv, OwnerInv
  <2>5. PassInv'
    BY DEF PassInv
  <2> QED BY <2>1, <2>2, <2>3, <2>4, <2>5
<1>16. CASE UNCHANGED vars
  BY <1>16 DEF vars, TypeOK, RegistryTypeOK, FlashInv, WriteInv, OwnerInv, PassInv,
     CommittedIsComplete, RegisteredIsStored, Crc
<1> HIDE DEF SpoolInv
<1> QED
  BY <1>1, <1>2, <1>3, <1>4, <1>5, <1>6, <1>7, <1>8,
     <1>9, <1>10, <1>11, <1>12, <1>13, <1>14, <1>15, <1>16,
     RestartInv, BootInv, EraseDataInv, RelayWriteInv, CommitInv,
     SourceReadInv, SourceRewindInv
  DEF Next, HostStep, SerialStep, TransferStep

\* The invariant holds whatever the host, the receiver and the power do.
THEOREM SpoolInvariant == Spec => []SpoolInv
<1>1. Init => SpoolInv
  BY InitInv
<1>2. SpoolInv /\ [Next]_vars => SpoolInv'
  BY NextInv
<1> QED BY <1>1, <1>2, PTL DEF Spec

\* Type correctness of the spool: in particular neither cursor ever passes the
\* storage (relay_spool_write, source_read).
THEOREM TypeCorrect == Spec => []TypeOK
<1>1. SpoolInv => TypeOK
  BY DEF SpoolInv
<1> QED BY <1>1, SpoolInvariant, PTL

\* Whenever power is lost, the next boot finds a whole file or none
\* (relay_spool_finish writes the header last, relay_spool_begin erases it
\* first).
THEOREM CommitIsAtomic == Spec => []CommittedIsComplete
<1>1. SpoolInv => CommittedIsComplete
  BY DEF SpoolInv, FlashInv
<1> QED BY <1>1, SpoolInvariant, PTL

\* The file on offer is the one in flash (finish_relay_upload, RELAY BEGIN's
\* outgoing_clear, relay_spool_init).
THEOREM OfferIsStored == Spec => []RegisteredIsStored
<1>1. SpoolInv => RegisteredIsStored
  BY DEF SpoolInv, FlashInv
<1> QED BY <1>1, SpoolInvariant, PTL

\* Where no run request is refused, the source callbacks, which take no lock,
\* deliver exactly the file that was declared (source_read, source_rewind).
THEOREM UploadIsWhole == Spec => [](upload_lab \notin Refusals => UploadIsStored)
<1>1. SpoolInv => (upload_lab \notin Refusals => UploadIsStored)
  <2> SUFFICES ASSUME SpoolInv, upload_lab \notin Refusals, sender = "respond"
               PROVE  Len(body) = outgoing.bytes /\ Crc(body) = outgoing.crc
    BY DEF UploadIsStored
  <2>1. outgoing = flash_header /\ outgoing \in Files
    BY HeldFile
  <2>2. body = flash_data
    BY DEF SpoolInv, PassInv
  <2> QED BY <2>1, <2>2 DEF SpoolInv, FlashInv, CommittedIsComplete
<1> QED BY <1>1, SpoolInvariant, PTL

-----------------------------------------------------------------------------
(***************************************************************************)
(* The other half of flash: the app slots, and the request that NVS holds. *)
(***************************************************************************)

\* The slots: whoever runs was selected, a slot that waits for confirmation
\* has a sound one to go back to, and nothing foreign is selected or returned
\* to.
SlotInv ==
    /\ Recoverable
    /\ SelectedIsGenuine
    /\ state[boot] # "valid" => image[Other(boot)] \in Genuine
    /\ phase # "off" => running = boot /\ state[boot] # "new"
    /\ phase = "download" => incoming \in Genuine

\* The request against the slots: a new image is selected only when no
\* request is left, so no maintenance runs on it before it is confirmed.
RequestInv ==
    /\ state[boot] = "new" => ~ota_pending
    /\ phase = "start" /\ ota_pending => state[boot] = "valid"
    /\ phase \in Maintenance => state[boot] = "valid"
    /\ phase \in {"apply", "consume"} => ota_pending
    /\ phase \in {"consume_url", "net", "download"} => ~ota_pending
    /\ ota_serial # "idle" => phase \in {"init", "ready"}

\* The request against its history: attempts, the URL requested and the one
\* stored last.
AttemptInv ==
    /\ OneAttempt
    /\ ota_pending \/ phase = "consume_url" => attempts = 0
    /\ ota_url \in {NoUrl, armed_url}
    /\ armed => armed_url = requested /\ requested # NoUrl
    /\ armed /\ ota_pending => ota_url = requested
    /\ ota_serial \in {"pending", "url"} => request # NoUrl
    /\ ota_serial = "url" => requested = request
    /\ phase \in Maintenance \ {"apply"} =>
            IF armed THEN url = requested ELSE url \in {GithubUrl, armed_url}

OtaInv == OtaTypeOK /\ SlotInv /\ RequestInv /\ AttemptInv

USE OtaAssumption DEF OtaAssumption, Slots

\* The other slot (esp_ota_get_next_update_partition) is another slot, and its
\* other one is the first again.
LEMMA OtherSlot ==
    \A s \in Slots :
        Other(s) \in Slots /\ Other(s) # s /\ Other(Other(s)) = s
BY DEF Other

\* A device flashed over USB satisfies the invariant.
LEMMA InitOtaInv == OtaInit => OtaInv
<1> SUFFICES ASSUME OtaInit PROVE OtaInv
  OBVIOUS
<1>1. OtaTypeOK
  <2>1. First \in Images
    OBVIOUS
  <2>2. image \in [Slots -> Images \cup {Partial}]
    BY <2>1 DEF OtaInit
  <2>3. state \in [Slots -> {"undefined", "new", "pending_verify", "valid", "aborted"}]
    BY DEF OtaInit
  <2>4. ota_pending \in BOOLEAN /\ wifi_ready \in BOOLEAN /\ armed \in BOOLEAN
    BY Zenon DEF OtaInit
  <2>5. boot \in Slots /\ running \in Slots /\ attempts \in 0 .. 2
    BY DEF OtaInit
  <2>6. /\ phase = "off" /\ url = NoUrl /\ incoming = Partial /\ ota_serial = "idle"
        /\ request = NoUrl /\ armed_url = NoUrl /\ ota_url = NoUrl
        /\ requested = NoUrl
    BY DEF OtaInit
  <2> QED BY <2>2, <2>3, <2>4, <2>5, <2>6 DEF OtaTypeOK, Maintenance, Normal
<1>2. SlotInv
  BY OtherSlot DEF OtaInit, SlotInv, Recoverable, Sound, SelectedIsGenuine
<1>3. RequestInv
  BY DEF OtaInit, RequestInv, Maintenance
<1>4. AttemptInv
  BY DEF OtaInit, AttemptInv, OneAttempt, Maintenance
<1> QED BY <1>1, <1>2, <1>3, <1>4 DEF OtaInv

\* A restart leaves only what is in NVS and flash, and the invariant speaks of
\* nothing else while the device is off.
LEMMA TurnOffKeeps ==
    ASSUME OtaInv, TurnOff, UNCHANGED <<nvsVars, slotVars, historyVars>>
    PROVE  OtaInv'
<1> USE DEF OtaInv, TurnOff, nvsVars, slotVars, historyVars
<1>1. OtaTypeOK'
  BY DEF OtaTypeOK, Maintenance, Normal
<1>2. SlotInv'
  BY DEF SlotInv, Recoverable, Sound, SelectedIsGenuine
<1>3. RequestInv'
  BY DEF RequestInv, Maintenance
<1>4. AttemptInv'
  BY DEF AttemptInv, OneAttempt, Maintenance
<1> QED BY <1>1, <1>2, <1>3, <1>4

\* Every step of device, host, network and power keeps the invariant.
LEMMA NextOtaInv == OtaInv /\ [OtaNext]_otaVars => OtaInv'
<1> SUFFICES ASSUME OtaInv, [OtaNext]_otaVars PROVE OtaInv'
  OBVIOUS
<1> USE DEF nvsVars, slotVars, mainVars, serialVars, historyVars
<1>1. CASE Bootloader
  <2> USE <1>1 DEF OtaInv, Bootloader
  <2>1. OtaTypeOK'
    BY OtherSlot DEF OtaTypeOK, Maintenance, Normal
  <2>2. SlotInv'
    BY OtherSlot DEF OtaTypeOK, SlotInv, Recoverable, Sound,
       SelectedIsGenuine, RequestInv, Maintenance
  <2>3. RequestInv'
    BY OtherSlot DEF OtaTypeOK, SlotInv, Recoverable, Sound, RequestInv,
       Maintenance, Normal
  <2>4. AttemptInv'
    BY DEF OtaTypeOK, RequestInv, AttemptInv, OneAttempt, Maintenance, Normal
  <2> QED BY <2>1, <2>2, <2>3, <2>4
<1>2. CASE Start
  <2> USE <1>2 DEF OtaInv, Start
  <2>1. OtaTypeOK'
    BY OtherSlot DEF OtaTypeOK, Maintenance, Normal
  <2>2. SlotInv'
    BY OtherSlot DEF OtaTypeOK, SlotInv, Recoverable, Sound,
       SelectedIsGenuine
  <2>3. RequestInv'
    BY OtherSlot DEF OtaTypeOK, SlotInv, Recoverable, Sound, RequestInv,
       Maintenance, Normal
  <2>4. AttemptInv'
    BY DEF OtaTypeOK, RequestInv, AttemptInv, OneAttempt, Maintenance, Normal
  <2> QED BY <2>1, <2>2, <2>3, <2>4
<1>3. CASE NvsErased
  <2> USE <1>3 DEF OtaInv, NvsErased
  <2>1. OtaTypeOK'
    BY OtherSlot DEF OtaTypeOK, Maintenance, Normal
  <2>2. SlotInv'
    BY OtherSlot DEF OtaTypeOK, SlotInv, Recoverable, Sound,
       SelectedIsGenuine
  <2>3. RequestInv'
    BY OtherSlot DEF OtaTypeOK, SlotInv, Recoverable, Sound, RequestInv,
       Maintenance, Normal
  <2>4. AttemptInv'
    BY DEF OtaTypeOK, RequestInv, AttemptInv, OneAttempt, Maintenance, Normal
  <2> QED BY <2>1, <2>2, <2>3, <2>4
<1>4. CASE ReadUrl
  <2> USE <1>4 DEF OtaInv, ReadUrl
  <2>1. OtaTypeOK'
    BY OtherSlot DEF OtaTypeOK, Maintenance, Normal
  <2>2. SlotInv'
    BY OtherSlot DEF OtaTypeOK, SlotInv, Recoverable, Sound,
       SelectedIsGenuine
  <2>3. RequestInv'
    BY OtherSlot DEF OtaTypeOK, SlotInv, Recoverable, Sound, RequestInv,
       Maintenance, Normal
  <2>4. AttemptInv'
    BY DEF OtaTypeOK, RequestInv, AttemptInv, OneAttempt, Maintenance, Normal
  <2> QED BY <2>1, <2>2, <2>3, <2>4
<1>5. CASE Consume
  <2> USE <1>5 DEF OtaInv, Consume
  <2>1. OtaTypeOK'
    BY OtherSlot DEF OtaTypeOK, Maintenance, Normal
  <2>2. SlotInv'
    BY OtherSlot DEF OtaTypeOK, SlotInv, Recoverable, Sound,
       SelectedIsGenuine
  <2>3. RequestInv'
    BY OtherSlot DEF OtaTypeOK, SlotInv, Recoverable, Sound, RequestInv,
       Maintenance, Normal
  <2>4. AttemptInv'
    BY DEF OtaTypeOK, RequestInv, AttemptInv, OneAttempt, Maintenance, Normal
  <2> QED BY <2>1, <2>2, <2>3, <2>4
<1>6. CASE ConsumeUrl
  <2> USE <1>6 DEF OtaInv, ConsumeUrl
  <2>1. OtaTypeOK'
    BY OtherSlot DEF OtaTypeOK, Maintenance, Normal
  <2>2. SlotInv'
    BY OtherSlot DEF OtaTypeOK, SlotInv, Recoverable, Sound,
       SelectedIsGenuine
  <2>3. RequestInv'
    BY OtherSlot DEF OtaTypeOK, SlotInv, Recoverable, Sound, RequestInv,
       Maintenance, Normal
  <2>4. AttemptInv'
    BY DEF OtaTypeOK, RequestInv, AttemptInv, OneAttempt, Maintenance, Normal
  <2> QED BY <2>1, <2>2, <2>3, <2>4
<1>7. ASSUME NEW img \in Images, Fetch(img) PROVE OtaInv'
  <2> USE <1>7 DEF OtaInv, Fetch
  <2>1. OtaTypeOK'
    BY OtherSlot DEF OtaTypeOK, Maintenance, Normal, Installable
  <2>2. SlotInv'
    BY OtherSlot DEF OtaTypeOK, SlotInv, Recoverable, Sound,
       SelectedIsGenuine, Installable, RequestInv, Maintenance
  <2>3. RequestInv'
    BY OtherSlot DEF OtaTypeOK, SlotInv, Recoverable, Sound, RequestInv,
       Maintenance, Normal
  <2>4. AttemptInv'
    BY DEF OtaTypeOK, RequestInv, AttemptInv, OneAttempt, Maintenance, Normal
  <2> QED BY <2>1, <2>2, <2>3, <2>4
<1>8. CASE Install
  <2> USE <1>8 DEF OtaInv, Install, TurnOff
  <2>1. OtaTypeOK'
    BY OtherSlot DEF OtaTypeOK, Maintenance, Normal
  <2>2. SlotInv'
    BY OtherSlot DEF OtaTypeOK, SlotInv, Recoverable, Sound,
       SelectedIsGenuine, RequestInv, Maintenance
  <2>3. RequestInv'
    BY OtherSlot DEF OtaTypeOK, SlotInv, Recoverable, Sound, RequestInv,
       Maintenance, Normal
  <2>4. AttemptInv'
    BY DEF OtaTypeOK, RequestInv, AttemptInv, OneAttempt, Maintenance, Normal
  <2> QED BY <2>1, <2>2, <2>3, <2>4
<1>9. CASE Confirm
  <2> USE <1>9 DEF OtaInv, Confirm
  <2>1. OtaTypeOK'
    BY OtherSlot DEF OtaTypeOK, Maintenance, Normal
  <2>2. SlotInv'
    BY OtherSlot DEF OtaTypeOK, SlotInv, Recoverable, Sound,
       SelectedIsGenuine, RequestInv, Maintenance
  <2>3. RequestInv'
    BY OtherSlot DEF OtaTypeOK, SlotInv, Recoverable, Sound, RequestInv,
       Maintenance, Normal
  <2>4. AttemptInv'
    BY DEF OtaTypeOK, RequestInv, AttemptInv, OneAttempt, Maintenance, Normal
  <2> QED BY <2>1, <2>2, <2>3, <2>4
<1>10. CASE Provision
  <2> USE <1>10 DEF OtaInv, Provision, TurnOff
  <2>1. OtaTypeOK'
    BY OtherSlot DEF OtaTypeOK, Maintenance, Normal
  <2>2. SlotInv'
    BY OtherSlot DEF OtaTypeOK, SlotInv, Recoverable, Sound,
       SelectedIsGenuine
  <2>3. RequestInv'
    BY OtherSlot DEF OtaTypeOK, SlotInv, Recoverable, Sound, RequestInv,
       Maintenance, Normal
  <2>4. AttemptInv'
    BY DEF OtaTypeOK, RequestInv, AttemptInv, OneAttempt, Maintenance, Normal
  <2> QED BY <2>1, <2>2, <2>3, <2>4
<1>11. ASSUME NEW u \in Urls, OtaCommand(u) PROVE OtaInv'
  <2> USE <1>11 DEF OtaInv, OtaCommand
  <2>1. OtaTypeOK'
    BY OtherSlot DEF OtaTypeOK, Maintenance, Normal
  <2>2. SlotInv'
    BY OtherSlot DEF OtaTypeOK, SlotInv, Recoverable, Sound,
       SelectedIsGenuine
  <2>3. RequestInv'
    BY OtherSlot DEF OtaTypeOK, SlotInv, Recoverable, Sound, RequestInv,
       Maintenance, Normal
  <2>4. AttemptInv'
    BY DEF OtaTypeOK, RequestInv, AttemptInv, OneAttempt, Maintenance, Normal
  <2> QED BY <2>1, <2>2, <2>3, <2>4
<1>12. CASE RequestPending
  <2> USE <1>12 DEF OtaInv, RequestPending
  <2>5. ota_pending' \in BOOLEAN /\ armed' \in BOOLEAN
    BY Zenon DEF OtaTypeOK
  <2>1. OtaTypeOK'
    BY <2>5, OtherSlot DEF OtaTypeOK, Maintenance, Normal
  <2>2. SlotInv'
    BY OtherSlot DEF OtaTypeOK, SlotInv, Recoverable, Sound,
       SelectedIsGenuine
  <2>3. RequestInv'
    BY OtherSlot DEF OtaTypeOK, SlotInv, Recoverable, Sound, RequestInv,
       Maintenance, Normal
  <2>4. AttemptInv'
    BY DEF OtaTypeOK, RequestInv, AttemptInv, OneAttempt, Maintenance, Normal
  <2> QED BY <2>1, <2>2, <2>3, <2>4
<1>13. CASE RequestUrl
  <2> USE <1>13 DEF OtaInv, RequestUrl
  <2>5. armed' \in BOOLEAN
    BY Zenon
  <2>1. OtaTypeOK'
    BY <2>5, OtherSlot DEF OtaTypeOK, Maintenance, Normal
  <2>2. SlotInv'
    BY OtherSlot DEF OtaTypeOK, SlotInv, Recoverable, Sound,
       SelectedIsGenuine
  <2>3. RequestInv'
    BY OtherSlot DEF OtaTypeOK, SlotInv, Recoverable, Sound, RequestInv,
       Maintenance, Normal
  <2>4. AttemptInv'
    BY DEF OtaTypeOK, RequestInv, AttemptInv, OneAttempt, Maintenance, Normal
  <2> QED BY <2>1, <2>2, <2>3, <2>4
<1>14. CASE RequestFails
  <2> USE <1>14 DEF OtaInv, RequestFails
  <2>1. OtaTypeOK'
    BY OtherSlot DEF OtaTypeOK, Maintenance, Normal
  <2>2. SlotInv'
    BY OtherSlot DEF OtaTypeOK, SlotInv, Recoverable, Sound,
       SelectedIsGenuine
  <2>3. RequestInv'
    BY OtherSlot DEF OtaTypeOK, SlotInv, Recoverable, Sound, RequestInv,
       Maintenance, Normal
  <2>4. AttemptInv'
    BY DEF OtaTypeOK, RequestInv, AttemptInv, OneAttempt, Maintenance, Normal
  <2> QED BY <2>1, <2>2, <2>3, <2>4
<1>15. CASE PowerFails \/ HostRestart \/ ConsumeFails \/ NetFails
          \/ DownloadFails \/ StartupPanics \/ ArmedRestart
  BY <1>15, TurnOffKeeps
     DEF PowerFails, HostRestart, ConsumeFails, NetFails,
         DownloadFails, StartupPanics, ArmedRestart
<1>16. CASE UNCHANGED otaVars
  BY <1>16 DEF otaVars, OtaInv, OtaTypeOK, SlotInv, RequestInv, AttemptInv,
     Recoverable, Sound, SelectedIsGenuine, OneAttempt
<1> QED
  BY <1>1, <1>2, <1>3, <1>4, <1>5, <1>6, <1>7, <1>8, <1>9,
     <1>10, <1>11, <1>12, <1>13, <1>14, <1>15, <1>16
     DEF OtaNext, DeviceStep, Environment

\* The invariant holds whatever the network, the images and the power do.
THEOREM OtaInvariant == OtaSpec => []OtaInv
<1>1. OtaInit => OtaInv
  BY InitOtaInv
<1>2. OtaInv /\ [OtaNext]_otaVars => OtaInv'
  BY NextOtaInv
<1> QED BY <1>1, <1>2, PTL DEF OtaSpec

\* Type correctness of the OTA update: past its first step, maintenance always
\* has a URL (ota_update_apply_pending).
THEOREM OtaTypeCorrect == OtaSpec => []OtaTypeOK
<1>1. OtaInv => OtaTypeOK
  BY DEF OtaInv
<1> QED BY <1>1, OtaInvariant, PTL

\* A request reaches the network at most once, with power and NVS failing
\* anywhere (the order of ota_update_apply_pending).
THEOREM AtMostOneAttempt == OtaSpec => []OneAttempt
<1>1. OtaInv => OneAttempt
  BY DEF OtaInv, AttemptInv
<1> QED BY <1>1, OtaInvariant, PTL

\* Maintenance overwrites the inactive slot only when a confirmed image runs
\* (ota_update_apply_pending, ota_update_confirm_running).
THEOREM ConfirmedInMaintenance ==
    OtaSpec => []MaintenanceOnConfirmed
<1>1. OtaInv => MaintenanceOnConfirmed
  BY DEF OtaInv, SlotInv, RequestInv, Maintenance, MaintenanceOnConfirmed
<1> QED BY <1>1, OtaInvariant, PTL

\* The bootloader always has a confirmed image that starts (the update of the
\* inactive slot, ota_update_confirm_running).
THEOREM AlwaysRecoverable == OtaSpec => []Recoverable
<1>1. OtaInv => Recoverable
  BY DEF OtaInv, SlotInv
<1> QED BY <1>1, OtaInvariant, PTL

\* Only espDrop images are selected, by an update or by a rollback
\* (validate_description).
THEOREM GenuineSelected == OtaSpec => []SelectedIsGenuine
<1>1. OtaInv => SelectedIsGenuine
  BY DEF OtaInv, SlotInv
<1> QED BY <1>1, OtaInvariant, PTL

\* For any order of requests, failures and restarts, a request whose URL was
\* stored is fetched from it, and one cut off before that from the URL stored
\* last or from GitHub (write_request, read_request_url).
THEOREM ArmedIsFetched == OtaSpec => []FetchesArmed
<1>1. OtaInv => FetchesArmed
  BY DEF OtaInv, AttemptInv, FetchesArmed, Maintenance
<1> QED BY <1>1, OtaInvariant, PTL

=============================================================================
