---------------------------- MODULE RelayStream ----------------------------
(***************************************************************************)
(* The host-to-receiver byte stream: main/relay_stream.c together with the *)
(* two tasks that drive it.                                                *)
(*                                                                         *)
(*   serial task   (main/maintenance_serial.c) arms a stream, receives the *)
(*                 host's chunks, checks them and pushes them into a       *)
(*                 FreeRTOS stream buffer;                                 *)
(*   sender task   (core/src/awdl_netif.c, core/src/airdrop_tls.c)         *)
(*                 acquires the registered file, asks the receiver, pulls  *)
(*                 the payload out of the buffer into the Upload body and  *)
(*                 publishes the result.                                   *)
(*                                                                         *)
(* A step is what one task does between two points where the other may     *)
(* interfere: one critical section, one blocking call, one registry call.  *)
(* The host and the receiver are unconstrained: any command, any chunk     *)
(* header, any data bytes, any answer.                                     *)
(***************************************************************************)
EXTENDS OutgoingRegistry, Naturals, Sequences

CONSTANTS
    Bytes,              \* values of a payload byte
    CrcMax,             \* UINT32_MAX: all-ones register value
    crc32_update(_, _), \* the register after feeding it a byte sequence
    MaxPayload,         \* bound: largest payload a host declares
    ChunkMax,           \* RELAY_STREAM_CHUNK_MAX
    BufferBytes,        \* RELAY_STREAM_BUFFER_BYTES
    WorkspaceBytes      \* sizeof(upload_workspace): largest read request

Crcs == 0 .. CrcMax

\* The byte sequences a stream can carry.
Strings == UNION {[1 .. n -> Bytes] : n \in 0 .. MaxPayload}

ASSUME SizesAssumption ==
    /\ CrcMax \in Nat
    /\ MaxPayload \in Nat
    /\ ChunkMax \in Nat \ {0}
    /\ WorkspaceBytes \in Nat \ {0}
    /\ BufferBytes \in Nat
    /\ BufferBytes >= ChunkMax

\* A registered stream descriptor is its declared length and CRC; a zero
\* length is refused by start_stream_upload and relay_stream_begin.
ASSUME FilesAssumption ==
    Files \subseteq [bytes : 1 .. MaxPayload, crc : Crcs]

\* crc32_update walks its input byte by byte, so feeding two pieces in turn
\* is feeding their concatenation.  Nothing else is assumed of it.
ASSUME CrcAssumption ==
    /\ \A c \in Crcs, s \in Strings : crc32_update(c, s) \in Crcs
    /\ \A c \in Crcs, s, t \in Strings :
            s \o t \in Strings
                => crc32_update(crc32_update(c, s), t) = crc32_update(c, s \o t)
    /\ \A c \in Crcs : crc32_update(c, <<>>) = c

\* register ^ UINT32_MAX
Finish(c) == CrcMax - c

-----------------------------------------------------------------------------

VARIABLES
    armed, go_sent, failed,             \* relay_stream_state_t
    payload_bytes, payload_crc32,
    input_bytes, input_crc32, next_sequence,
    output_bytes,
    pushed, taken,      \* the stream buffer: bytes sent into it since its
                        \* last reset, and how many of them were received
    serial, chunk,      \* serial task: program point and chunk being handled
    sender, outgoing,   \* sender task: program point and descriptor copy
    remaining, got,     \*   upload loop counter, bytes of the current read
    body,               \* history: payload bytes of the current Upload body
    accepted            \* history: a receiver accepted this stream's Ask

streamVars == <<armed, go_sent, failed, payload_bytes, payload_crc32>>
inputVars  == <<input_bytes, input_crc32, next_sequence>>
bufferVars == <<pushed, taken>>
serialVars == <<serial, chunk>>
senderVars == <<sender, outgoing, remaining, got, body>>

vars == <<registryVars, streamVars, inputVars, output_bytes, bufferVars,
          serialVars, senderVars, accepted>>

SerialPoint == {"idle", "arming", "receiving", "sending", "account"}
SenderPoint == {"idle", "ask", "read", "notify", "receive", "count",
                "respond", "failing", "release"}

\* What the serial task knows of the chunk it handles; data is empty until
\* the announced bytes have arrived.
Chunk == [seq : Nat, size : 1 .. ChunkMax, crc : Crcs, data : Seq(Bytes)]
NoChunk == [seq |-> 0, size |-> 0, crc |-> 0, data |-> <<>>]

TypeOK ==
    /\ RegistryTypeOK
    /\ armed \in BOOLEAN /\ go_sent \in BOOLEAN /\ failed \in BOOLEAN
    /\ payload_bytes \in 0 .. MaxPayload
    /\ payload_crc32 \in Crcs
    /\ input_bytes \in 0 .. MaxPayload
    /\ input_crc32 \in Crcs
    /\ next_sequence \in Nat
    /\ output_bytes \in 0 .. MaxPayload
    /\ pushed \in Strings
    /\ taken \in 0 .. MaxPayload
    /\ serial \in SerialPoint
    /\ chunk \in Chunk \cup {NoChunk}
    /\ sender \in SenderPoint
    /\ outgoing \in Files \cup {NoFile}
    /\ remaining \in 0 .. MaxPayload
    /\ got \in 0 .. MaxPayload
    /\ body \in Strings
    /\ accepted \in BOOLEAN

Init ==
    /\ RegistryInit
    /\ armed = FALSE /\ go_sent = FALSE /\ failed = FALSE
    /\ payload_bytes = 0 /\ payload_crc32 = 0
    /\ input_bytes = 0 /\ input_crc32 = 0 /\ next_sequence = 0
    /\ output_bytes = 0
    /\ pushed = <<>> /\ taken = 0
    /\ serial = "idle" /\ chunk = NoChunk
    /\ sender = "idle" /\ outgoing = NoFile
    /\ remaining = 0 /\ got = 0 /\ body = <<>>
    /\ accepted = FALSE

\* Bytes waiting in the stream buffer.
Buffered == Len(pushed) - taken

Least(a, b) == IF a <= b THEN a ELSE b

-----------------------------------------------------------------------------
(***************************************************************************)
(* Serial task.                                                            *)
(***************************************************************************)

\* relay_stream_begin: reset the buffer and every field of the state.
relay_stream_begin(file) ==
    /\ pushed' = <<>> /\ taken' = 0
    /\ payload_bytes' = file.bytes
    /\ payload_crc32' = file.crc
    /\ input_bytes' = 0 /\ input_crc32' = CrcMax /\ next_sequence' = 0
    /\ output_bytes' = 0
    /\ go_sent' = FALSE /\ failed' = FALSE /\ armed' = TRUE
    /\ accepted' = FALSE

\* relay_stream_abort
relay_stream_abort ==
    /\ armed' = FALSE
    /\ failed' = TRUE
    /\ UNCHANGED <<go_sent, payload_bytes, payload_crc32>>

\* Mutant: the stream is restarted before the registry is asked; the set is
\* refused while a sender holds the file.
StreamBegin_before_clear(file) ==
    /\ serial = "idle"
    /\ IF acquired THEN UNCHANGED registryVars ELSE outgoing_set(file)
    /\ relay_stream_begin(file)
    /\ serial' = "arming"
    /\ UNCHANGED <<chunk, senderVars>>

\* ESPDROP STREAM BEGIN up to the registration: clear the registry (BUSY if
\* a sender holds it), begin the stream, set the new descriptor.  Between
\* the clear and the set no sender can acquire, so the three are one step.
StreamBegin(file) ==
    /\ serial = "idle"
    /\ outgoing_set(file)
    /\ relay_stream_begin(file)
    /\ serial' = "arming"
    /\ UNCHANGED <<chunk, senderVars>>

\* The rest of the handler: espdrop_awdl_tx_lab_request_run and the BLE wake
\* succeed and the host reads STREAM-ARMED.
StreamArmed ==
    /\ serial = "arming"
    /\ serial' = "idle"
    /\ UNCHANGED <<registryVars, streamVars, inputVars, output_bytes,
                   bufferVars, chunk, senderVars, accepted>>

\* One of them fails: the stream is aborted, the registration stays.
StreamArmFailed ==
    /\ serial = "arming"
    /\ relay_stream_abort
    /\ serial' = "idle"
    /\ UNCHANGED <<registryVars, inputVars, output_bytes, bufferVars, chunk,
                   senderVars, accepted>>

\* Mutant: cancel empties the slot although a sender holds it.
StreamCancel_forced ==
    /\ serial = "idle"
    /\ relay_stream_abort
    /\ registered' = FALSE /\ registered_file' = NoFile
    /\ transfer_result' = "none"
    /\ UNCHANGED <<acquired, inputVars, output_bytes, bufferVars, serialVars,
                   senderVars, accepted>>

\* ESPDROP STREAM CANCEL: abort, then clear the registry unless a sender
\* holds it (CANCELLED or CANCEL-PENDING).
StreamCancel ==
    /\ serial = "idle"
    /\ relay_stream_abort
    /\ IF acquired THEN UNCHANGED registryVars ELSE outgoing_clear
    /\ UNCHANGED <<inputVars, output_bytes, bufferVars, serialVars,
                   senderVars, accepted>>

\* Mutant: data is accepted as soon as the stream is armed.
validate_chunk_before_go(seq, size) ==
    /\ size \in 1 .. ChunkMax
    /\ armed /\ ~failed
    /\ seq = next_sequence
    /\ input_bytes <= payload_bytes
    /\ size <= payload_bytes - input_bytes

\* relay_stream_validate_chunk
relay_stream_validate_chunk(seq, size) ==
    /\ size \in 1 .. ChunkMax
    /\ armed /\ go_sent /\ ~failed
    /\ seq = next_sequence
    /\ input_bytes <= payload_bytes
    /\ size <= payload_bytes - input_bytes

\* ESPDROP STREAM DATA with a header that validates; one that does not is
\* answered DATA-INVALID and changes nothing.
StreamData(seq, size, crc) ==
    /\ serial = "idle"
    /\ relay_stream_validate_chunk(seq, size)
    /\ chunk' = [seq |-> seq, size |-> size, crc |-> crc, data |-> <<>>]
    /\ serial' = "receiving"
    /\ UNCHANGED <<registryVars, streamVars, inputVars, output_bytes,
                   bufferVars, senderVars, accepted>>

\* Mutant: no chunk timeout.
ChunkTimeout_never == FALSE

\* Fifteen seconds without a byte of the announced chunk.
ChunkTimeout ==
    /\ serial = "receiving"
    /\ relay_stream_abort
    /\ serial' = "idle" /\ chunk' = NoChunk
    /\ UNCHANGED <<registryVars, inputVars, output_bytes, bufferVars,
                   senderVars, accepted>>

\* Mutant: only the chunk's own CRC is checked.
ChunkAcceptable_chunk_crc(data) ==
    /\ relay_stream_validate_chunk(chunk.seq, chunk.size)
    /\ Finish(crc32_update(CrcMax, data)) = chunk.crc

\* The checks of relay_stream_push_chunk that precede the send: the header
\* validated again, the chunk's CRC, and on the last chunk the stream's CRC.
ChunkAcceptable(data) ==
    /\ relay_stream_validate_chunk(chunk.seq, chunk.size)
    /\ Finish(crc32_update(CrcMax, data)) = chunk.crc
    /\ input_bytes + chunk.size = payload_bytes
            => Finish(crc32_update(input_crc32, data)) = payload_crc32

\* The last announced byte arrives and the chunk passes the checks.
ChunkArrives(data) ==
    /\ serial = "receiving"
    /\ ChunkAcceptable(data)
    /\ chunk' = [chunk EXCEPT !.data = data]
    /\ serial' = "sending"
    /\ UNCHANGED <<registryVars, streamVars, inputVars, output_bytes,
                   bufferVars, senderVars, accepted>>

\* It does not: CHUNK-ERROR, and the serial task aborts the stream.
ChunkRejected(data) ==
    /\ serial = "receiving"
    /\ ~ChunkAcceptable(data)
    /\ relay_stream_abort
    /\ serial' = "idle" /\ chunk' = NoChunk
    /\ UNCHANGED <<registryVars, inputVars, output_bytes, bufferVars,
                   senderVars, accepted>>

\* xStreamBufferSend finds room for the whole chunk.
ChunkSent ==
    /\ serial = "sending"
    /\ chunk.size <= BufferBytes - Buffered
    /\ pushed' = pushed \o chunk.data
    /\ serial' = "account"
    /\ UNCHANGED <<registryVars, streamVars, inputVars, output_bytes, taken,
                   chunk, senderVars, accepted>>

\* xStreamBufferSend gives up after thirty seconds without enough room, having
\* stored what fits; the push fails and the serial task aborts the stream.
ChunkSendTimeout ==
    /\ serial = "sending"
    /\ chunk.size > BufferBytes - Buffered
    /\ pushed' = pushed \o SubSeq(chunk.data, 1, BufferBytes - Buffered)
    /\ relay_stream_abort
    /\ serial' = "idle" /\ chunk' = NoChunk
    /\ UNCHANGED <<registryVars, inputVars, output_bytes, taken, senderVars,
                   accepted>>

\* The closing critical section of relay_stream_push_chunk, then STREAM-ACK.
ChunkCounted ==
    /\ serial = "account"
    /\ input_crc32' = crc32_update(input_crc32, chunk.data)
    /\ input_bytes' = input_bytes + chunk.size
    /\ next_sequence' = next_sequence + 1
    /\ serial' = "idle" /\ chunk' = NoChunk
    /\ UNCHANGED <<registryVars, streamVars, output_bytes, bufferVars,
                   senderVars, accepted>>

-----------------------------------------------------------------------------
(***************************************************************************)
(* Sender task.                                                            *)
(***************************************************************************)

\* espdrop_airdrop_outgoing_acquire on a connected socket.
SenderAcquire ==
    /\ sender = "idle"
    /\ outgoing_acquire
    /\ outgoing' = registered_file
    /\ remaining' = registered_file.bytes
    /\ body' = <<>>
    /\ sender' = "ask"
    /\ UNCHANGED <<streamVars, inputVars, output_bytes, bufferVars,
                   serialVars, got, accepted>>

\* The TLS handshake, the Ask or its answer fail, or the receiver declines.
AskFails ==
    /\ sender = "ask"
    /\ sender' = "failing"
    /\ UNCHANGED <<registryVars, streamVars, inputVars, output_bytes,
                   bufferVars, serialVars, outgoing, remaining, got, body,
                   accepted>>

\* HTTP 200 to the Ask and the Upload head written: the read loop starts.
AskAccepted ==
    /\ sender = "ask"
    /\ sender' = "read"
    /\ accepted' = TRUE
    /\ UNCHANGED <<registryVars, streamVars, inputVars, output_bytes,
                   bufferVars, serialVars, outgoing, remaining, got, body>>

\* Where prepared_source_read goes once the GO question is settled: nothing
\* left in the stream ends the Upload as truncated, otherwise it receives.
AfterGo == IF payload_bytes = output_bytes THEN "failing" ELSE "receive"

\* First critical section of prepared_source_read: latch go_sent.  The
\* difference payload_bytes - output_bytes it computes changes only by this
\* task's own reads, so it is recomputed where it is used.
ReadEnter ==
    /\ sender = "read"
    /\ IF armed /\ ~failed
       THEN /\ go_sent' = TRUE
            /\ sender' = IF go_sent THEN AfterGo ELSE "notify"
       ELSE /\ sender' = "failing"
            /\ UNCHANGED go_sent
    /\ UNCHANGED <<registryVars, armed, failed, payload_bytes, payload_crc32,
                   inputVars, output_bytes, bufferVars, serialVars, outgoing,
                   remaining, got, body, accepted>>

\* STREAM-GO reaches the host.
GoWritten ==
    /\ sender = "notify"
    /\ sender' = AfterGo
    /\ UNCHANGED <<registryVars, streamVars, inputVars, output_bytes,
                   bufferVars, serialVars, outgoing, remaining, got, body,
                   accepted>>

\* Writing STREAM-GO fails (serial_write times out).
GoFails ==
    /\ sender = "notify"
    /\ failed' = TRUE
    /\ sender' = "failing"
    /\ UNCHANGED <<registryVars, armed, go_sent, payload_bytes,
                   payload_crc32, inputVars, output_bytes, bufferVars,
                   serialVars, outgoing, remaining, got, body, accepted>>

\* The three limits on one read: the workspace, the Upload's own counter and
\* the stream's count of what it has not handed out.
ReadRequest ==
    Least(Least(remaining, WorkspaceBytes), payload_bytes - output_bytes)

\* xStreamBufferReceive returns as soon as one byte is there, with at most
\* the requested number.
ReadReceives ==
    /\ sender = "receive"
    /\ Buffered > 0
    /\ got' = Least(ReadRequest, Buffered)
    /\ taken' = taken + got'
    /\ body' = body \o SubSeq(pushed, taken + 1, taken + got')
    /\ sender' = "count"
    /\ UNCHANGED <<registryVars, streamVars, inputVars, output_bytes, pushed,
                   serialVars, outgoing, remaining, accepted>>

\* Mutant: the source is waited for without a bound (portMAX_DELAY).
ReadTimeout_never == FALSE

\* Mutant: an empty read is taken as the end of the payload.
ReadTimeout_as_end ==
    /\ sender = "receive"
    /\ Buffered = 0
    /\ sender' = "respond"
    /\ UNCHANGED <<registryVars, streamVars, inputVars, output_bytes,
                   bufferVars, serialVars, outgoing, remaining, got, body,
                   accepted>>

\* Thirty seconds with an empty buffer: STREAM-SOURCE-TIMEOUT.
ReadTimeout ==
    /\ sender = "receive"
    /\ Buffered = 0
    /\ failed' = TRUE
    /\ sender' = "failing"
    /\ UNCHANGED <<registryVars, armed, go_sent, payload_bytes,
                   payload_crc32, inputVars, output_bytes, bufferVars,
                   serialVars, outgoing, remaining, got, body, accepted>>

\* Second critical section of prepared_source_read, then the Upload loop
\* buffers the bytes for the socket and goes on, ends or fails to write.
ReadCounted(written) ==
    /\ sender = "count"
    /\ output_bytes' = output_bytes + got
    /\ remaining' = IF written THEN remaining - got ELSE remaining
    /\ sender' = IF ~written THEN "failing"
                 ELSE IF remaining = got THEN "respond" ELSE "read"
    /\ got' = 0
    /\ UNCHANGED <<registryVars, streamVars, inputVars, bufferVars,
                   serialVars, outgoing, body, accepted>>

\* The body is complete: terminator written, final HTTP answer parsed or not.
UploadAnswered(state) ==
    /\ sender = "respond"
    /\ outgoing_complete(state)
    /\ sender' = "release"
    /\ UNCHANGED <<streamVars, inputVars, output_bytes, bufferVars,
                   serialVars, outgoing, remaining, got, body, accepted>>

\* An earlier stage failed: the result is published as FAILED.
TransferFails ==
    /\ sender = "failing"
    /\ outgoing_complete("failed")
    /\ sender' = "release"
    /\ UNCHANGED <<streamVars, inputVars, output_bytes, bufferVars,
                   serialVars, outgoing, remaining, got, body, accepted>>

SenderRelease ==
    /\ sender = "release"
    /\ outgoing_release
    /\ sender' = "idle" /\ outgoing' = NoFile
    /\ remaining' = 0 /\ body' = <<>>
    /\ UNCHANGED <<streamVars, inputVars, output_bytes, bufferVars,
                   serialVars, got, accepted>>

-----------------------------------------------------------------------------

\* Steps the host decides on.
HostStep ==
    \/ \E file \in Files : StreamBegin(file)
    \/ StreamCancel
    \/ \E seq \in 0 .. MaxPayload, size \in 1 .. ChunkMax, crc \in Crcs :
            StreamData(seq, size, crc)
    \/ \E data \in [1 .. chunk.size -> Bytes] :
            ChunkArrives(data) \/ ChunkRejected(data)

\* Steps the serial task takes by itself, timeouts included.
SerialStep ==
    \/ StreamArmed
    \/ StreamArmFailed
    \/ ChunkTimeout
    \/ ChunkSent
    \/ ChunkSendTimeout
    \/ ChunkCounted

\* Steps of a transfer the sender task has begun; each is bounded by a
\* timeout of the socket, the serial port or the stream buffer.
TransferStep ==
    \/ AskFails \/ AskAccepted
    \/ ReadEnter \/ GoWritten \/ GoFails
    \/ ReadReceives \/ ReadTimeout
    \/ \E written \in BOOLEAN : ReadCounted(written)
    \/ \E state \in {"success", "failed"} : UploadAnswered(state)
    \/ TransferFails \/ SenderRelease

Next == HostStep \/ SerialStep \/ SenderAcquire \/ TransferStep

\* Both tasks keep running; neither the host nor the discovery that leads to
\* an acquire is obliged to do anything.
Spec == Init /\ [][Next]_vars /\ WF_vars(SerialStep) /\ WF_vars(TransferStep)

-----------------------------------------------------------------------------
(***************************************************************************)
(* Properties.                                                             *)
(***************************************************************************)

\* The sender is between acquire and release.
Sending == sender # "idle"

\* A complete Upload body is the whole payload the host declared: its length
\* and its CRC, over the bytes that really went into this body.  Holds across
\* retransmitted, corrupted, short and late chunks, partial buffer writes,
\* and a second Upload of a stream an earlier attempt has partly consumed
\* (relay_stream_push_chunk, prepared_source_read, perform_upload's loop).
BodyIntact ==
    sender = "respond" =>
        /\ Len(body) = outgoing.bytes
        /\ Finish(crc32_update(CrcMax, body)) = outgoing.crc

\* SUCCESS in the registry means that every payload byte left the stream and
\* that the stream's CRC was the declared one; no later command of the host
\* short of a new BEGIN or a CANCEL makes it untrue.
SuccessIsWholePayload ==
    transfer_result = "success" =>
        /\ output_bytes = payload_bytes
        /\ Len(pushed) = payload_bytes
        /\ Finish(crc32_update(CrcMax, pushed)) = payload_crc32

\* The buffer holds payload only of a stream whose Ask was accepted: no host
\* data is taken before the receiver said yes and the Upload asked for its
\* first bytes ("Only after acceptance does /Upload request the prepared
\* source", docs/send-flow.md:150).  It does not say that the GO marker was
\* written: a chunk is checked against go_sent, which is set before.
PayloadAfterAccept == pushed # <<>> => accepted /\ go_sent

\* What a step may do to a stream whose file is held before and after.
HeldStreamStep ==
    acquired /\ acquired' =>
        /\ payload_bytes' = payload_bytes /\ payload_crc32' = payload_crc32
        /\ Len(pushed) <= Len(pushed') /\ SubSeq(pushed', 1, Len(pushed)) = pushed
        /\ output_bytes <= output_bytes'

\* While a sender holds the file, the stream it reads is not restarted under
\* it: the declared size and CRC stay, and the bytes already pushed stay
\* (StreamBegin's outgoing_clear is what forbids it).
HeldStream == [][HeldStreamStep]_vars

\* A transfer that was begun ends and gives the file back, whatever the host
\* and the receiver do (the 30 s wait of prepared_source_read).
TransferEnds == (sender # "idle") ~> (sender = "idle")

\* The serial task always comes back to reading commands: a host that dies in
\* the middle of a chunk, or a sender that stops reading, cannot hold it
\* (15 s chunk timeout, 30 s xStreamBufferSend).
SerialReturns == (serial # "idle") ~> (serial = "idle")

\* The registry as this composition uses it keeps every promise of
\* OutgoingClients: RelayStream implements it with one sender.
Clients == INSTANCE OutgoingClients
           WITH Senders <- {"netif"}, held <- [s \in {"netif"} |-> outgoing]

\* Refinement of the registry's abstract specification.
ImplementsClients == Clients!Spec

-----------------------------------------------------------------------------
(***************************************************************************)
(* The inductive invariant behind these properties.                        *)
(***************************************************************************)

\* The sender holds the registered file exactly while it is busy.
OwnerInv ==
    /\ acquired <=> sender # "idle"
    /\ sender # "idle" => registered /\ outgoing = registered_file
    /\ sender = "idle" => outgoing = NoFile
    /\ registered => /\ payload_bytes = registered_file.bytes
                     /\ payload_crc32 = registered_file.crc
    /\ serial = "arming" => pushed = <<>>

\* The handled chunk, once its bytes are in, fits the stream and is the piece
\* the checks were made on.
ChunkInv ==
    /\ serial \in {"receiving", "sending", "account"} =>
            /\ chunk \in Chunk
            /\ go_sent
            /\ chunk.size <= payload_bytes - input_bytes
    /\ serial \in {"sending", "account"} =>
            /\ Len(chunk.data) = chunk.size
            /\ input_bytes + chunk.size = payload_bytes =>
                Finish(crc32_update(input_crc32, chunk.data)) = payload_crc32
    /\ serial \in {"sending", "receiving"} => Len(pushed) = input_bytes

\* The counters against the buffer: everything counted as input was pushed,
\* what was pushed beyond it is the chunk in flight or the partial last write
\* of a stream that has failed.
CountInv ==
    /\ input_bytes <= Len(pushed)
    /\ Len(pushed) <= payload_bytes
    /\ taken <= Len(pushed)
    /\ Buffered <= BufferBytes
    /\ output_bytes + got = taken
    /\ got > 0 => sender = "count"
    /\ serial = "account" => Len(pushed) = input_bytes + chunk.size
    /\ ~failed /\ serial # "account" => Len(pushed) = input_bytes

\* The running CRC is the CRC of the counted bytes, and a full buffer history
\* has the declared CRC.
CrcInv ==
    payload_bytes > 0 =>
        /\ input_crc32 = crc32_update(CrcMax, SubSeq(pushed, 1, input_bytes))
        /\ serial = "account" =>
                pushed = SubSeq(pushed, 1, input_bytes) \o chunk.data
        /\ Len(pushed) = payload_bytes =>
                Finish(crc32_update(CrcMax, pushed)) = payload_crc32

\* The Upload body is the last stretch taken out of the buffer, and together
\* with the loop counter it makes up the declared length.
BodyInv ==
    /\ Len(body) <= taken
    /\ body = SubSeq(pushed, taken - Len(body) + 1, taken)
    /\ sender \in {"ask", "read", "notify", "receive"} =>
            Len(body) + remaining = outgoing.bytes
    /\ sender = "count" => /\ Len(body) + remaining = outgoing.bytes + got
                           /\ got <= remaining
    /\ sender \in {"ask", "read", "notify", "receive"} => remaining > 0
    /\ sender = "respond" => Len(body) = outgoing.bytes
    /\ sender = "idle" => body = <<>>
    /\ sender = "receive" => output_bytes < payload_bytes

\* Streamed bytes presuppose an accepted Ask.
AcceptInv ==
    /\ pushed # <<>> => go_sent
    /\ go_sent => accepted
    /\ sender \in {"read", "notify", "receive", "count", "respond"} => accepted

StreamInv ==
    /\ TypeOK
    /\ OwnerInv
    /\ ChunkInv
    /\ CountInv
    /\ CrcInv
    /\ BodyInv
    /\ AcceptInv
    /\ SuccessIsWholePayload

=============================================================================
