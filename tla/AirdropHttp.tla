----------------------------- MODULE AirdropHttp -----------------------------
(***************************************************************************)
(* The HTTP answers of a receiver and the function that reads them         *)
(* (airdrop_http.c).  The parser starts afresh on everything received so   *)
(* far each time more has come in.                                         *)
(*                                                                         *)
(* A byte is its kind and a value.  The text of a status or header line is *)
(* one byte; line ends, chunk sizes and the content are kept apart, because*)
(* an answer may be split anywhere in them and content may look like a     *)
(* line end.                                                               *)
(***************************************************************************)
EXTENDS Naturals, FiniteSets, Sequences, SequencesExt

Kinds == {"status", "length", "chunked", "header", "text", "cr", "lf", "digit", "semicolon"}
Octets == Kinds \X Nat
Byte(kind, value) == <<kind, value>>
Kind(byte) == byte[1]
Value(byte) == byte[2]

CRLF == <<Byte("cr", 0), Byte("lf", 0)>>
Line(text) == <<text>> \o CRLF

\* Where pattern first stands in s at or after from, or 0.
FirstAt(s, pattern, from) ==
    LET places == {i \in from .. Len(s) - Len(pattern) + 1 :
                    \A j \in DOMAIN pattern : s[i + j - 1] = pattern[j]}
    IN  IF places = {} THEN 0 ELSE Min(places)

-----------------------------------------------------------------------------
(***************************************************************************)
(* What a receiver sends.                                                  *)
(***************************************************************************)

\* An answer: its status, how it tells where the content ends, the content in
\* pieces (one chunk each), and whether chunk sizes carry an extension and a
\* trailer follows the last chunk.
Framing == {"length", "chunked", "close", "malformed"}
Answer == [status : Nat, framing : Framing, pieces : Seq(Seq(Octets) \ {<<>>}),
           extended : BOOLEAN]

BodyOf(a) == FlattenSeq(a.pieces)

SizeLine(bytes, extended) ==
    IF extended THEN <<Byte("digit", bytes), Byte("semicolon", 0)>> \o Line(Byte("text", 0))
    ELSE Line(Byte("digit", bytes))
ChunkOf(piece, extended) == SizeLine(Len(piece), extended) \o piece \o CRLF

Chunks(a) == [i \in DOMAIN a.pieces |-> ChunkOf(a.pieces[i], a.extended)]
LastChunk(a) ==
    Line(Byte("digit", 0))
        \o (IF a.extended THEN Line(Byte("header", 0)) \o CRLF ELSE CRLF)

NoAnswer == [status |-> 0, framing |-> "none", pieces |-> <<>>, extended |-> FALSE]

\* Its header line, and what follows the empty line.
HeaderOf(a) ==
    CASE a.framing = "length" -> Byte("length", Len(BodyOf(a)))
      [] a.framing = "chunked" -> Byte("chunked", 0)
      [] a.framing = "close" -> Byte("header", 0)
      [] a.framing = "malformed" -> Byte("text", 0)
Carried(a) ==
    CASE a.framing \in {"length", "close"} -> BodyOf(a)
      [] a.framing = "chunked" -> FlattenSeq(Chunks(a)) \o LastChunk(a)
      [] a.framing = "malformed" -> <<>>

Encode(a) ==
    IF a = NoAnswer THEN <<>>
    ELSE Line(Byte("status", a.status)) \o Line(HeaderOf(a)) \o CRLF \o Carried(a)

-----------------------------------------------------------------------------
(***************************************************************************)
(* The parser.                                                             *)
(***************************************************************************)

\* espdrop_airdrop_http_parse_t and the fields of the result that the callers
\* decide on.
Parsed(state, status, body_bytes) ==
    [state |-> state, status_code |-> status, body_bytes |-> body_bytes]

\* What is missing will not come any more once the stream has ended.
Unfinished(end_of_stream) == IF end_of_stream THEN "invalid" ELSE "incomplete"

\* hex_digit of every digit of a chunk size.
ChunkBytes(digits) ==
    LET number[i \in 0 .. Len(digits)] ==
            IF i = 0 THEN 0 ELSE number[i - 1] * 16 + Value(digits[i])
    IN  number[Len(digits)]

\* Mutant: the last chunk ends the answer, its own line end is not awaited.
after_last_chunk_early(s, offset) == TRUE

\* After the chunk of size zero: the empty line, or the end of a trailer.
after_last_chunk(s, offset) ==
    FirstAt(s, CRLF, offset) = offset \/ FirstAt(s, CRLF \o CRLF, offset) # 0

\* Where the line of a chunk ends, its digits (an extension follows them after
\* a semicolon) and where its data begins.
LineEnd(s, at) == FirstAt(s, CRLF, at)
Digits(s, at) ==
    LET semicolon == FirstAt(s, <<Byte("semicolon", 0)>>, at)
    IN  SubSeq(s, at, (IF semicolon \in at .. LineEnd(s, at) THEN semicolon
                       ELSE LineEnd(s, at)) - 1)
Data(s, at) == LineEnd(s, at) + 2

HasSize(s, at) ==
    /\ Digits(s, at) # <<>>
    /\ \A i \in DOMAIN Digits(s, at) : Kind(Digits(s, at)[i]) = "digit"
Size(s, at) == ChunkBytes(Digits(s, at))
NextChunk(s, at) == Data(s, at) + Size(s, at) + 2

\* A whole chunk, and not the last one, begins here.
WholeChunk(s, at) ==
    /\ at <= Len(s) /\ LineEnd(s, at) # 0 /\ HasSize(s, at) /\ Size(s, at) # 0
    /\ NextChunk(s, at) <= Len(s) + 1
    /\ SubSeq(s, NextChunk(s, at) - 2, NextChunk(s, at) - 1) = CRLF

\* What the parser makes of anything else.
LastOfChunks(s, at, end_of_stream, status) ==
    LET unfinished == Parsed(Unfinished(end_of_stream), status, 0)
        invalid == Parsed("invalid", status, 0)
    IN  IF at > Len(s) \/ LineEnd(s, at) = 0 THEN unfinished
        ELSE IF ~HasSize(s, at) THEN invalid
        ELSE IF Size(s, at) = 0
        THEN IF after_last_chunk(s, Data(s, at)) THEN Parsed("complete", status, 0)
             ELSE unfinished
        ELSE IF NextChunk(s, at) > Len(s) + 1 THEN unfinished
        ELSE invalid

\* The bytes of a chunk count if the chunks after it are complete.
Counted(rest, bytes) ==
    IF rest.state = "complete" THEN [rest EXCEPT !.body_bytes = @ + bytes] ELSE rest

\* The chunks of s from offset on, each to the next.
parse_chunked_body(s, offset, end_of_stream, status) ==
    LET chunks[at \in 1 .. Len(s) + 1] ==
            IF WholeChunk(s, at) THEN Counted(chunks[NextChunk(s, at)], Size(s, at))
            ELSE LastOfChunks(s, at, end_of_stream, status)
    IN  chunks[offset]

\* espdrop_airdrop_parse_discover_response, which the Ask and the Upload use
\* too: a header line without a colon is refused; a Content-Length is used
\* before chunks are considered; without either the content ends with the
\* stream.
parse_discover_response(s, end_of_stream) ==
    LET blank == FirstAt(s, CRLF \o CRLF, 1)
        header_bytes == blank + 3
        fields == SubSeq(s, 2, header_bytes)
        lengths == {i \in DOMAIN fields : Kind(fields[i]) = "length"}
        available == Len(s) - header_bytes
        status == Value(s[1])
    IN  IF blank = 0 THEN Parsed(Unfinished(end_of_stream), 0, 0)
        ELSE IF Kind(s[1]) # "status" THEN Parsed("invalid", 0, 0)
        ELSE IF \E i \in DOMAIN fields : Kind(fields[i]) = "text"
        THEN Parsed("invalid", status, 0)
        ELSE IF lengths # {}
        THEN LET content_length == Value(fields[Max(lengths)])
             IN  IF available < content_length
                 THEN Parsed(Unfinished(end_of_stream), status, 0)
                 ELSE Parsed("complete", status, content_length)
        ELSE IF \E i \in DOMAIN fields : Kind(fields[i]) = "chunked"
        THEN parse_chunked_body(s, header_bytes + 1, end_of_stream, status)
        ELSE IF ~end_of_stream THEN Parsed("incomplete", status, 0)
        ELSE Parsed("complete", status, available)
=============================================================================
