--------------------------- MODULE AirdropExchange ---------------------------
(***************************************************************************)
(* One connection to a receiver: handshake, Ask, Upload (run_tls and what  *)
(* it calls in airdrop_tls.c, the archive in airdrop_upload.c), and what   *)
(* probe_airdrop_tcp_service makes of it.  The task runs alone; the        *)
(* network takes and delivers bytes in any pieces, may fail or stay silent,*)
(* the file source may read less than asked, fail, or be reset by the      *)
(* serial task (relay_spool_abort), and time passes.                       *)
(*                                                                         *)
(* Headers of the archive and of its entries count as one byte each, a     *)
(* dvzip block header as two.  Identities (TransferID, pseudonym, token)   *)
(* are copied and left out.                                                *)
(***************************************************************************)
EXTENDS AirdropHttp

CONSTANTS
    Labs,           \* what the build does once connected: "discover", "ask", "upload"
    Sources,        \* outgoing files: how they are read and what they hold
    MaxTransfer,    \* CONFIG_ESPDROP_MAX_TRANSFER_BYTES
    OdcBlock,       \* ESPDROP_AIRDROP_ODC_BLOCK_BYTES
    DvzipBlock,     \* ESPDROP_AIRDROP_DVZIP_STREAM_BLOCK_BYTES
    Workspace,      \* AIRDROP_UPLOAD_WORKSPACE_BYTES
    NetworkBuffer,  \* AIRDROP_UPLOAD_NETWORK_BUFFER_BYTES
    Answers,        \* what receivers answer
    ResponseBytes,  \* AIRDROP_*_RESPONSE_BYTES
    crc32(_),       \* checksum of a file
    Deflate(_)      \* the zlib stream of an archive

\* "prepared": the host made the payload and it is sent as it is; "spool": can
\* be read twice; "single": cannot.
SourceKind == {"prepared", "spool", "single"}

\* The bytes of a request's body; those that frame it are of other kinds.
BodyKinds == {"odc", "path", "data", "trailer", "zero", "stored", "zlib", "bytes",
              "payload"}
Content == BodyKinds \X Nat

ASSUME ExchangeAssumption ==
    /\ Labs \subseteq {"discover", "ask", "upload"}
    /\ \A s \in Sources : s.kind \in SourceKind
                        /\ s.bytes \in Seq(Nat) /\ s.payload \in Seq(Content)
    /\ \A n \in {MaxTransfer, OdcBlock, DvzipBlock, Workspace, NetworkBuffer,
                 ResponseBytes} : n \in Nat \ {0}
    /\ Answers \subseteq Answer

VARIABLES
    lab, source,    \* what this connection is for
    phase,          \* where the task is
    request,        \* the request in hand
    out,            \* bytes of the write_tls_request in hand, still to be written
    wire,           \* history: what the request in hand has written
    at,             \* cursor of the source
    pass,           \* the pass over the source in hand
    sizing,         \* what the sizing pass found
    data, sink,     \* bytes on their way to the sink, bytes in its buffer
    answer, got,    \* the receiver's answer and how much of it has been read
    closed,         \* the receiver has closed its side
    late,           \* the deadline of the request has passed
    consent,        \* history: status of the answer that the Ask was given
    result          \* what the connection came to

sourceVars == <<at, pass, sizing, data, sink>>
netVars == <<answer, got, closed>>
exchangeVars == <<lab, source, phase, request, out, wire, sourceVars, netVars, late,
          consent, result>>

\* Stage, error, status and length of the answer; response_complete goes with
\* no error.
Result(stage, error, status, body) ==
    [stage |-> stage, error |-> error, status |-> status, body |-> body]
NoResult == Result("none", "none", 0, 0)
NoSource == [kind |-> "none", bytes |-> <<>>, payload |-> <<>>]
NoSizing == [zlib |-> FALSE, bytes |-> 0, crc |-> 0]

\* A pass: which part of the archive comes next, the bytes of the file read so
\* far, those waiting in the workspace, the archive bytes handed to the
\* compressor, and what is left of the archive and of the stored block.
NewPass(archive_bytes) ==
    [part |-> "header", file |-> <<>>, workspace |-> <<>>, fed |-> <<>>,
     left |-> archive_bytes, block |-> 0]
NoPass == NewPass(0)

ExchangeInit ==
    /\ lab \in Labs /\ source = NoSource
    /\ phase = "idle" /\ request = "none" /\ out = <<>> /\ wire = <<>>
    /\ at = 0 /\ pass = NoPass /\ sizing = NoSizing /\ data = <<>> /\ sink = <<>>
    /\ answer = NoAnswer /\ got = 0 /\ closed = FALSE /\ late = FALSE
    /\ consent = 0 /\ result = NoResult

-----------------------------------------------------------------------------
(***************************************************************************)
(* Sizes and encodings.                                                    *)
(***************************************************************************)

Ceiling(n, unit) == (n + unit - 1) \div unit

\* Two headers, the path and the name of the trailer.
FixedBytes == 4
BlockHeaderBytes == 2

\* espdrop_airdrop_plan_stored_dvzip
Plan(file_bytes) ==
    LET archive == Ceiling(FixedBytes + file_bytes, OdcBlock) * OdcBlock
        blocks == Ceiling(archive, DvzipBlock)
    IN  [archive_bytes |-> archive, dvzip_blocks |-> blocks,
         payload_bytes |-> archive + blocks * BlockHeaderBytes]

FileBytes == Len(source.bytes)

write_odc_header(file_bytes) == Byte("odc", file_bytes)

\* espdrop_airdrop_build_dvzip_block_header
BlockHeader(bytes, stored) == <<Byte(IF stored THEN "stored" ELSE "zlib", 0),
                                Byte("bytes", bytes)>>

\* espdrop_airdrop_should_use_single_zlib_block
use_single_zlib_block(archive_bytes, compressed_bytes) ==
    /\ compressed_bytes > 0 /\ compressed_bytes < archive_bytes
    /\ compressed_bytes <= DvzipBlock

\* write_stored_archive_bytes: before the first byte of a block its header.
StoredByte(w, b) ==
    LET size == IF w.block # 0 THEN w.block ELSE Min({w.left, DvzipBlock})
    IN  [out |-> w.out \o (IF w.block = 0 THEN BlockHeader(size, TRUE) ELSE <<>>) \o <<b>>,
         left |-> w.left - 1, block |-> size - 1]

write_stored_archive_bytes(bytes, archive_remaining, block_remaining) ==
    LET written[i \in 0 .. Len(bytes)] ==
            IF i = 0
            THEN [out |-> <<>>, left |-> archive_remaining, block |-> block_remaining]
            ELSE StoredByte(written[i - 1], bytes[i])
    IN  written[Len(bytes)]

\* espdrop_airdrop_build_upload_head, _build_chunk_terminator
UploadHead(total_bytes) == <<Byte("head", total_bytes)>>
Terminator == <<Byte("end", 0)>>

\* What flush_upload_chunk writes: nothing for an empty buffer.
Chunk(buffer) ==
    IF buffer = <<>> THEN <<>>
    ELSE <<Byte("size", Len(buffer))>> \o buffer \o <<Byte("crlf", 0)>>

-----------------------------------------------------------------------------
(***************************************************************************)
(* The course of a connection.                                             *)
(***************************************************************************)

\* The connection has come to this; what it used is dead.
Ends(outcome) ==
    /\ phase' = "done" /\ result' = outcome
    /\ out' = <<>> /\ data' = <<>> /\ sink' = <<>>
    /\ UNCHANGED <<lab, source, request, wire, at, pass, sizing, answer, closed,
                   late, consent>>

StageOf == IF request = "upload" THEN "upload" ELSE "ask"
Fails(error) == Ends(Result(StageOf, error, 0, 0)) /\ UNCHANGED got

\* A question and its deadline begin.
Asks(name, bytes) ==
    /\ phase' = "question" /\ request' = name /\ out' = bytes
    /\ late' = FALSE
    /\ UNCHANGED <<lab, source, wire, sourceVars, netVars, consent, result>>

\* probe_airdrop_tcp_service has connected and acquired a file.
Connect(file) ==
    /\ phase = "idle"
    /\ phase' = "handshake" /\ source' = file
    /\ UNCHANGED <<lab, request, out, wire, sourceVars, netVars, late,
                   consent, result>>

\* perform_discover
perform_discover == Asks("discover", <<Byte("discover", 0), Byte("body", 0)>>)

\* perform_ask: the Ask tells the size of the file.
perform_ask == Asks("ask", <<Byte("ask", 0), Byte("body", FileBytes)>>)

\* run_tls after a successful handshake, which may also be the one begun just
\* before the deadline.
HandshakeDone ==
    /\ phase = "handshake"
    /\ IF lab = "discover" THEN perform_discover ELSE perform_ask

\* No random numbers, no certificate, or the handshake is refused or takes too
\* long.
HandshakeFails(error) ==
    phase = "handshake" /\ Ends(Result("tls", error, 0, 0)) /\ UNCHANGED got
HandshakeTimeout == late /\ HandshakeFails("timeout")

\* No random numbers, or the request cannot be built.
RequestNotBuilt ==
    /\ \/ phase = "question" /\ wire = <<>>
       \/ phase = "head" /\ out = <<>> /\ wire = <<>>
    /\ Fails("build")

\* perform_upload: a file of no size or too large a one is refused; a source
\* that can be read twice is sized first.
UploadBegins ==
    /\ request' = "upload" /\ wire' = <<>> /\ answer' = NoAnswer /\ late' = FALSE
    /\ pass' = NewPass(Plan(FileBytes).archive_bytes)
    /\ IF FileBytes \in 1 .. MaxTransfer
          /\ (source.kind = "prepared" => source.payload # <<>>)
       THEN /\ phase' = IF source.kind = "spool" THEN "sizing" ELSE "head"
            /\ UNCHANGED result
       ELSE /\ phase' = "done"
            /\ result' = Result("upload", "archive", 0, 0)
    /\ UNCHANGED <<lab, source, out, at, sizing, data, sink, closed>>

-----------------------------------------------------------------------------
(***************************************************************************)
(* write_tls_request.                                                      *)
(***************************************************************************)

Writing == out # <<>> /\ phase \in {"question", "head", "body", "last"}

\* mbedtls_ssl_write takes some of it.
WriteSome(n) ==
    /\ Writing /\ ~late
    /\ n \in 1 .. Len(out)
    /\ wire' = wire \o SubSeq(out, 1, n)
    /\ out' = SubSeq(out, n + 1, Len(out))
    /\ UNCHANGED <<lab, source, phase, request, sourceVars, netVars, late,
                   consent, result>>

\* The connection is broken.
WriteFails == Writing /\ ~late /\ Fails("io")

\* Mutant: instead of giving up the request is given more time.
WriteTimeout_renewed ==
    /\ Writing /\ late /\ late' = FALSE
    /\ UNCHANGED <<lab, source, phase, request, out, wire, sourceVars, netVars,
                   consent, result>>

WriteTimeout == Writing /\ late /\ Fails("timeout")

\* The request is written.
Written ==
    /\ out = <<>> /\ phase \in {"question", "last"} /\ wire # <<>>
    /\ phase' = "reading"
    /\ UNCHANGED <<lab, source, request, out, wire, sourceVars, netVars, late,
                   consent, result>>

-----------------------------------------------------------------------------
(***************************************************************************)
(* The answer.                                                             *)
(***************************************************************************)

\* What each answer is on the wire.
Stream == [a \in Answers \cup {NoAnswer} |-> Encode(a)]

Received(n) == SubSeq(Stream[answer], 1, n)

\* The receiver makes up its mind.
ReceiverAnswers(a) ==
    /\ phase = "reading" /\ answer = NoAnswer /\ ~closed
    /\ answer' = a
    /\ UNCHANGED <<lab, source, phase, request, out, wire, sourceVars, got,
                   closed, late, consent, result>>

\* The receiver closes its side, whether or not it has sent everything.
ReceiverCloses ==
    /\ phase = "reading" /\ ~closed
    /\ closed' = TRUE
    /\ UNCHANGED <<lab, source, phase, request, out, wire, sourceVars, answer,
                   got, late, consent, result>>

\* An answer has been understood: an accepted Ask is followed by the Upload.
Accepted(parsed) ==
    request = "ask" /\ lab = "upload" /\ parsed.state = "complete"
        /\ parsed.status_code = 200

Understood(parsed) ==
    IF ~Accepted(parsed)
    THEN Ends(Result(StageOf, IF parsed.state = "complete" THEN "none" ELSE "parse",
                     parsed.status_code, parsed.body_bytes))
    ELSE consent' = answer.status /\ UploadBegins

\* What has come in is parsed from its beginning.
Taken(n, end_of_stream) ==
    LET parsed == parse_discover_response(Received(n), end_of_stream)
    IN  /\ got' = IF Accepted(parsed) THEN 0 ELSE n
        /\ IF parsed.state # "incomplete" THEN Understood(parsed)
           ELSE UNCHANGED <<lab, source, phase, request, out, wire, sourceVars,
                            answer, closed, late, consent, result>>

ReadSome(n) ==
    /\ phase = "reading" /\ ~late
    /\ got < ResponseBytes
    /\ n \in got + 1 .. Min({ResponseBytes, Len(Stream[answer])})
    /\ Taken(n, FALSE)

\* The end of the stream.
ReadEof ==
    /\ phase = "reading" /\ ~late /\ closed
    /\ got < ResponseBytes
    /\ Taken(got, TRUE)

ReadFails == phase = "reading" /\ ~late /\ got < ResponseBytes /\ Fails("io")

ReadOverflow == phase = "reading" /\ ~late /\ got = ResponseBytes /\ Fails("overflow")

\* Time is up: the status is reported if it has come in.
ReadTimeout ==
    /\ phase = "reading" /\ late
    /\ LET parsed == parse_discover_response(Received(got), FALSE)
       IN  Ends(Result(StageOf, "timeout",
                   IF parsed.state = "invalid" THEN 0 ELSE parsed.status_code, 0))
    /\ UNCHANGED got
-----------------------------------------------------------------------------
(***************************************************************************)
(* A pass over the source: espdrop_airdrop_stream_odc into the compressor  *)
(* (compress_odc_pass) or into stored blocks                               *)
(* (espdrop_airdrop_stream_stored_dvzip).                                  *)
(***************************************************************************)

OnlyPass == UNCHANGED <<lab, source, phase, request, out, wire, sizing, sink,
                        netVars, late, consent, result>>

\* The sink has taken what it was given.
SinkTook == data = <<>> /\ out = <<>>

InPass(part) ==
    /\ phase \in {"sizing", "body"} /\ source.kind # "prepared"
    /\ SinkTook /\ pass.part = part

Compressing == phase = "sizing" \/ sizing.zlib

\* What perform_upload calls a pass that failed.
PassError == IF phase = "sizing" THEN "compress" ELSE "stream"

\* write_odc_bytes, into the compressor or into blocks.
Emit(next, bytes) ==
    IF Compressing
    THEN /\ pass' = [next EXCEPT !.fed = @ \o bytes, !.left = @ - Len(bytes)]
         /\ UNCHANGED data
    ELSE LET w == write_stored_archive_bytes(bytes, next.left, next.block)
         IN  /\ pass' = [next EXCEPT !.left = w.left, !.block = w.block]
             /\ data' = w.out

PassHeader ==
    /\ InPass("header")
    /\ Emit([pass EXCEPT !.part = "file"], <<write_odc_header(FileBytes), Byte("path", 0)>>)
    /\ UNCHANGED at /\ OnlyPass

Remaining == FileBytes - Len(pass.file)
Requested == Min({Remaining, Workspace})

\* The position of a source that has been aborted: it is not ready any more.
Lost == FileBytes + 1

\* source->read: some of what is asked for, from where the cursor is or, when
\* relay_spool_abort resets it under the read, from the beginning.
SourceReads(n, from) ==
    /\ InPass("file") /\ n \in 1 .. Requested - Len(pass.workspace)
    /\ from + n <= FileBytes
    /\ pass' = [pass EXCEPT !.workspace = @ \o SubSeq(source.bytes, from + 1, from + n)]
    /\ at' = IF from = at THEN at + n ELSE Lost
    /\ UNCHANGED data /\ OnlyPass

\* The read fails or comes to an end too early.
SourceFails ==
    /\ InPass("file") /\ Len(pass.workspace) < Requested
    /\ Fails(PassError)

\* The workspace is full, or has the rest of the file.
PassFile ==
    /\ InPass("file") /\ Len(pass.workspace) = Requested
    /\ LET file == pass.file \o pass.workspace
       IN  Emit([pass EXCEPT !.file = file, !.workspace = <<>>,
                    !.part = IF Len(file) = FileBytes THEN "trailer" ELSE "file"],
                [i \in DOMAIN pass.workspace |-> Byte("data", pass.workspace[i])])
    /\ UNCHANGED at /\ OnlyPass

PassTrailer ==
    /\ InPass("trailer")
    /\ Emit([pass EXCEPT !.part = "padding"], <<write_odc_header(0), Byte("trailer", 0)>>)
    /\ UNCHANGED at /\ OnlyPass

PassPadding ==
    /\ InPass("padding") /\ pass.left > 0
    /\ Emit(pass, [i \in 1 .. Min({pass.left, Workspace}) |-> Byte("zero", 0)])
    /\ UNCHANGED at /\ OnlyPass

\* TDEFL_FINISH: the compressor gives its output to the sink.
PassCompressed ==
    /\ InPass("padding") /\ pass.left = 0 /\ phase = "body" /\ sizing.zlib
    /\ pass' = [pass EXCEPT !.part = "compressed"]
    /\ data' = Deflate(pass.fed)
    /\ UNCHANGED at /\ OnlyPass

\* No memory for the compressor, or it fails.
CompressorFails ==
    /\ phase \in {"sizing", "body"} /\ Compressing /\ source.kind # "prepared"
    /\ SinkTook /\ pass.part = "header"
    /\ Fails(PassError)

-----------------------------------------------------------------------------
(***************************************************************************)
(* The Upload.                                                             *)
(***************************************************************************)

\* After the sizing pass: rewind and decide how the archive is sent.
Sized ==
    /\ InPass("padding") /\ pass.left = 0 /\ phase = "sizing"
    /\ \/ /\ at # Lost
          /\ at' = 0 /\ phase' = "head"
          /\ sizing' = [zlib |-> use_single_zlib_block(Len(pass.fed), Len(Deflate(pass.fed))),
                        bytes |-> Len(Deflate(pass.fed)), crc |-> crc32(pass.file)]
          /\ pass' = NewPass(Len(pass.fed))
          /\ UNCHANGED <<lab, source, request, out, wire, data, sink, netVars,
                         late, consent, result>>
       \/ Fails("stream")

\* TotalBytes
payload_bytes ==
    IF source.kind = "prepared" THEN Len(source.payload)
    ELSE IF sizing.zlib THEN BlockHeaderBytes + sizing.bytes
    ELSE Plan(FileBytes).payload_bytes

\* The head, and with it the deadline of the Upload.
HeadBuilt ==
    /\ phase = "head" /\ out = <<>> /\ wire = <<>>
    /\ out' = UploadHead(payload_bytes)
    /\ UNCHANGED <<lab, source, phase, request, wire, sourceVars, netVars, late,
                   consent, result>>

BodyBegins ==
    /\ phase = "head" /\ out = <<>> /\ wire # <<>>
    /\ phase' = "body"
    /\ data' = IF sizing.zlib THEN BlockHeader(sizing.bytes, FALSE) ELSE <<>>
    /\ UNCHANGED <<lab, source, request, out, wire, at, pass, sizing, sink, netVars,
                   late, consent, result>>

\* A prepared payload is copied as it is read.
PreparedReads(n) ==
    /\ phase = "body" /\ source.kind = "prepared" /\ SinkTook
    /\ n \in 1 .. Min({Workspace, Len(source.payload) - at})
    /\ data' = SubSeq(source.payload, at + 1, at + n)
    /\ at' = at + n
    /\ UNCHANGED pass /\ OnlyPass

PreparedFails ==
    /\ phase = "body" /\ source.kind = "prepared" /\ SinkTook
    /\ at < Len(source.payload)
    /\ Fails("stream")

\* A round of buffer_upload_chunk: a full buffer is sent first.
buffer_upload_chunk ==
    /\ phase = "body" /\ out = <<>> /\ data # <<>>
    /\ IF Len(sink) = NetworkBuffer
       THEN out' = Chunk(sink) /\ sink' = <<>> /\ UNCHANGED data
       ELSE LET portion == Min({Len(data), NetworkBuffer - Len(sink)})
            IN  /\ sink' = sink \o SubSeq(data, 1, portion)
                /\ data' = SubSeq(data, portion + 1, Len(data))
                /\ UNCHANGED out
    /\ UNCHANGED <<lab, source, phase, request, wire, at, pass, sizing, netVars,
                   late, consent, result>>

\* Mutant: the second pass is not held against the first.
SameAsSized_unchecked == TRUE

\* The compressed body is what the sizing pass announced.
SameAsSized ==
    Len(Deflate(pass.fed)) = sizing.bytes /\ crc32(pass.file) = sizing.crc

\* The whole body has been given to the sink.
BodyGiven ==
    /\ phase = "body" /\ SinkTook
    /\ IF source.kind = "prepared" THEN at = Len(source.payload)
       ELSE pass.part = (IF sizing.zlib THEN "compressed" ELSE "padding") /\ pass.left = 0

\* The rest of the buffer and the terminator.
BodyEnds ==
    /\ BodyGiven /\ (sizing.zlib => SameAsSized)
    /\ phase' = "last"
    /\ out' = Chunk(sink) \o Terminator /\ sink' = <<>>
    /\ UNCHANGED <<lab, source, request, wire, at, pass, sizing, data, netVars, late,
                   consent, result>>

BodyDiffers == BodyGiven /\ sizing.zlib /\ ~SameAsSized /\ Fails("stream")

\* Time passes; neither sizing nor the building of the head has a deadline.
DeadlinePasses ==
    /\ ~late
    /\ \/ phase \in {"handshake", "question", "reading", "body", "last"}
       \/ phase = "head" /\ (out # <<>> \/ wire # <<>>)
    /\ late' = TRUE
    /\ UNCHANGED <<lab, source, phase, request, out, wire, sourceVars, netVars,
                   consent, result>>

\* Mutant: the status alone decides.
upload_accepted_status == result.stage = "upload" /\ result.status = 200

\* What probe_airdrop_tcp_service publishes: success or failure.
upload_accepted ==
    result.stage = "upload" /\ result.error = "none" /\ result.status = 200

\* The socket is closed and the file released.
Close ==
    /\ phase = "done"
    /\ source' = NoSource
    /\ phase' = "idle" /\ request' = "none" /\ wire' = <<>>
    /\ at' = 0 /\ pass' = NoPass /\ sizing' = NoSizing
    /\ answer' = NoAnswer /\ got' = 0 /\ closed' = FALSE /\ late' = FALSE
    /\ consent' = 0 /\ result' = NoResult
    /\ UNCHANGED <<lab, out, data, sink>>

SourceStep ==
    \/ \E n \in 1 .. Workspace :
        PreparedReads(n) \/ \E from \in {0, at} : SourceReads(n, from)
    \/ SourceFails \/ PreparedFails

TaskStep ==
    \/ HandshakeTimeout \/ Written \/ WriteTimeout \/ ReadOverflow \/ ReadTimeout
    \/ PassHeader \/ PassFile \/ PassTrailer \/ PassPadding \/ PassCompressed
    \/ SourceStep
    \/ Sized \/ HeadBuilt \/ BodyBegins \/ buffer_upload_chunk
    \/ BodyEnds \/ BodyDiffers \/ Close

NetworkStep ==
    \/ WriteFails \/ ReadEof \/ ReadFails \/ ReceiverCloses
    \/ \E n \in 1 .. NetworkBuffer + 3 : WriteSome(n)
    \/ \E n \in 1 .. ResponseBytes : ReadSome(n)
    \/ \E a \in Answers : ReceiverAnswers(a)

ExchangeNext ==
    \/ \E file \in Sources : Connect(file)
    \/ HandshakeDone \/ HandshakeFails("refused")
    \/ RequestNotBuilt \/ CompressorFails \/ DeadlinePasses
    \/ TaskStep \/ NetworkStep

\* The task is scheduled, its source reads or fails, and time passes.  Nothing
\* is expected of the network.
Fairness == WF_exchangeVars(TaskStep) /\ WF_exchangeVars(DeadlinePasses)

ExchangeSpec == ExchangeInit /\ [][ExchangeNext]_exchangeVars /\ Fairness

-----------------------------------------------------------------------------
(***************************************************************************)
(* Properties.                                                             *)
(***************************************************************************)

\* The receiver's side of chunked transfer encoding: the bytes of the chunks,
\* each of its announced size and followed by a line end.  What is no chunk
\* ends them.
AfterChunk(s, i) == i + Value(s[i]) + 2
IsChunk(s, i) ==
    /\ i <= Len(s) /\ Kind(s[i]) = "size" /\ AfterChunk(s, i) <= Len(s) + 1
    /\ s[AfterChunk(s, i) - 1] = Byte("crlf", 0)

Dechunked(s) ==
    LET chunks[i \in 1 .. Len(s) + 1] ==
            IF IsChunk(s, i)
            THEN SubSeq(s, i + 1, AfterChunk(s, i) - 2) \o chunks[AfterChunk(s, i)]
            ELSE <<>>
    IN  chunks[1]

Archive(file) ==
    LET entries == <<write_odc_header(Len(file)), Byte("path", 0)>>
                   \o [i \in DOMAIN file |-> Byte("data", file[i])]
                   \o <<write_odc_header(0), Byte("trailer", 0)>>
        padding == (OdcBlock - (Len(entries) % OdcBlock)) % OdcBlock
    IN  entries \o [i \in 1 .. padding |-> Byte("zero", 0)]

\* The compressor makes bytes of the archive of whatever was read.
ASSUME CompressorAssumption ==
    \A s \in Sources : \A file \in [DOMAIN s.bytes -> ToSet(s.bytes)] :
        Deflate(Archive(file)) \in Seq(Content)

\* An archive in stored blocks of at most DvzipBlock bytes: which block a byte
\* of the stream is in, and where in it.
StoredBlocks(archive) ==
    LET unit == BlockHeaderBytes + DvzipBlock
        block(j) == (j - 1) \div unit
        place(j) == (j - 1) % unit
        size(j) == Min({DvzipBlock, Len(archive) - block(j) * DvzipBlock})
    IN  [j \in 1 .. Len(archive) + Ceiling(Len(archive), DvzipBlock) * BlockHeaderBytes |->
            IF place(j) < BlockHeaderBytes THEN BlockHeader(size(j), TRUE)[place(j) + 1]
            ELSE archive[block(j) * DvzipBlock + place(j) - BlockHeaderBytes + 1]]

\* A request that was written to its end is one the receiver can read: its
\* chunks hold as many bytes as TotalBytes announced, and these are the host's
\* payload, or the archive of a file of the size announced in the Ask, in
\* stored blocks within the limit or in one compressed block of the file that
\* was sized.  However the source was read and the network took it, and even
\* if the source was reset in between.
RequestDecodes ==
    request = "upload" /\ phase \in {"reading", "done"} /\ wire # <<>>
        /\ Last(wire) = Byte("end", 0) =>
    LET body == Dechunked(SubSeq(wire, 2, Len(wire) - 1))
    IN  /\ Len(body) = Value(wire[1])
        /\ IF source.kind = "prepared" THEN body = source.payload
           ELSE /\ Len(pass.file) = FileBytes
                /\ body = IF sizing.zlib
                          THEN BlockHeader(Len(body) - BlockHeaderBytes, FALSE)
                               \o Deflate(Archive(pass.file))
                          ELSE StoredBlocks(Archive(pass.file))
                /\ sizing.zlib =>
                        /\ crc32(pass.file) = sizing.crc
                        /\ Len(body) < Len(Archive(pass.file)) + BlockHeaderBytes

\* The answer can be told complete without the end of the stream.
SelfDelimited == answer.framing \in {"length", "chunked"}

AllRead == got = Len(Stream[answer])

\* What the task makes of an answer does not depend on how it was split: it is
\* complete when all of it has come in and not before, whatever the content
\* looks like; status and length are the ones sent; it is called malformed only
\* if it is, or was cut short; and no file is sent without a complete 200.
AnswerAsSent ==
    /\ phase = "reading" /\ answer # NoAnswer /\ AllRead => answer.framing = "close"
    /\ phase = "done" /\ result.error = "none" =>
        /\ result.status = answer.status
        /\ \/ SelfDelimited /\ AllRead /\ result.body = Len(BodyOf(answer))
           \/ answer.framing = "close" /\ closed
    /\ phase = "done" /\ result.error = "parse" => answer.framing = "malformed" \/ closed
    /\ phase = "done" => result.status \in {0, answer.status}
    /\ request = "upload" => consent = 200

\* Success is published for an Upload whose request was written to its end and
\* was answered with 200 in full, and for every one whose answer was read to
\* its end.
SuccessAsAnswered ==
    phase = "done" =>
        LET sent == request = "upload" /\ wire # <<>> /\ Last(wire) = Byte("end", 0)
        IN  /\ upload_accepted => sent /\ answer.status = 200 /\ answer.framing # "malformed"
            /\ sent /\ SelfDelimited /\ AllRead /\ answer.status = 200 => upload_accepted

\* Every connection comes to an end, whatever the receiver does or leaves
\* undone: each wait has a deadline.
ExchangeEnds == (phase # "idle") ~> (phase = "idle")
=============================================================================
