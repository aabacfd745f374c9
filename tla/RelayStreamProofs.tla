------------------------- MODULE RelayStreamProofs -------------------------
(***************************************************************************)
(* Proofs about RelayStream: the stream invariant is inductive, and what   *)
(* it implies holds for every payload length, chunk size, buffer size and  *)
(* checksum that composes over concatenation.                              *)
(***************************************************************************)
EXTENDS RelayStream, SequenceTheorems, TLAPS

\* Strings are exactly the byte sequences of at most MaxPayload bytes.
LEMMA StringIsSeq ==
    ASSUME NEW s \in Strings
    PROVE  s \in Seq(Bytes) /\ Len(s) \in Nat /\ Len(s) <= MaxPayload
<1>1. PICK n \in 0 .. MaxPayload : s \in [1 .. n -> Bytes]
  BY DEF Strings
<1>2. n \in Nat /\ s \in Seq(Bytes) /\ Len(s) = n
  BY <1>1, SizesAssumption
<1> QED BY <1>1, <1>2, SizesAssumption

LEMMA SeqIsString ==
    ASSUME NEW s \in Seq(Bytes), Len(s) <= MaxPayload
    PROVE  s \in Strings
<1>1. s \in [1 .. Len(s) -> Bytes] /\ Len(s) \in 0 .. MaxPayload
  BY SizesAssumption
<1> QED BY <1>1 DEF Strings

LEMMA EmptyString == <<>> \in Strings /\ Len(<<>>) = 0
<1>1. <<>> \in [1 .. 0 -> Bytes] /\ 0 \in 0 .. MaxPayload
  BY SizesAssumption
<1> QED BY <1>1 DEF Strings

\* Concatenation adds lengths.
LEMMA Concatenation ==
    ASSUME NEW s \in Seq(Bytes), NEW t \in Seq(Bytes)
    PROVE  s \o t \in Seq(Bytes) /\ Len(s \o t) = Len(s) + Len(t)
  OBVIOUS

\* Taking two adjacent stretches of a sequence is taking one.
LEMMA AdjacentStretches ==
    ASSUME NEW s \in Seq(Bytes), NEW a \in Nat, NEW b \in Nat, NEW c \in Nat,
           a <= b, b <= c, c <= Len(s)
    PROVE  /\ SubSeq(s, a + 1, b) \in Seq(Bytes)
           /\ Len(SubSeq(s, a + 1, b)) = b - a
           /\ SubSeq(s, a + 1, b) \o SubSeq(s, b + 1, c) = SubSeq(s, a + 1, c)
<1>1. /\ SubSeq(s, a + 1, b) \in Seq(Bytes) /\ Len(SubSeq(s, a + 1, b)) = b - a
      /\ SubSeq(s, b + 1, c) \in Seq(Bytes) /\ Len(SubSeq(s, b + 1, c)) = c - b
      /\ SubSeq(s, a + 1, c) \in Seq(Bytes) /\ Len(SubSeq(s, a + 1, c)) = c - a
  OBVIOUS
<1> DEFINE l == SubSeq(s, a + 1, b) \o SubSeq(s, b + 1, c)
           r == SubSeq(s, a + 1, c)
<1>2. l \in Seq(Bytes) /\ Len(l) = c - a
  BY <1>1
<1>3. \A i \in 1 .. (c - a) : l[i] = r[i]
  BY <1>1
<1>4. l = r
  BY <1>1, <1>2, <1>3, SeqEqual
<1> QED BY <1>1, <1>4

\* Appending to a sequence changes none of its stretches.
LEMMA StretchOfPrefix ==
    ASSUME NEW s \in Seq(Bytes), NEW t \in Seq(Bytes),
           NEW a \in Nat, NEW b \in Nat, a <= b, b <= Len(s)
    PROVE  SubSeq(s \o t, a + 1, b) = SubSeq(s, a + 1, b)
<1>1. /\ s \o t \in Seq(Bytes) /\ Len(s \o t) = Len(s) + Len(t)
      /\ SubSeq(s, a + 1, b) \in Seq(Bytes) /\ Len(SubSeq(s, a + 1, b)) = b - a
  OBVIOUS
<1>2. SubSeq(s \o t, a + 1, b) \in Seq(Bytes) /\ Len(SubSeq(s \o t, a + 1, b)) = b - a
  BY <1>1
<1>3. \A i \in 1 .. (b - a) : SubSeq(s \o t, a + 1, b)[i] = SubSeq(s, a + 1, b)[i]
  BY <1>1
<1> QED BY <1>1, <1>2, <1>3, SeqEqual

\* A sequence is its own longest stretch, and the shortest one is empty.
LEMMA WholeAndEmpty ==
    ASSUME NEW s \in Seq(Bytes)
    PROVE  /\ SubSeq(s, 1, Len(s)) = s
           /\ \A n \in Nat : SubSeq(s, n + 1, n) = <<>>
           /\ SubSeq(s, 1, 0) = <<>>
<1>1. SubSeq(s, 1, Len(s)) = s
  BY SeqEqual
<1>2. \A n \in Nat : SubSeq(s, n + 1, n) = <<>>
  OBVIOUS
<1> QED BY <1>1, <1>2
-----------------------------------------------------------------------------

\* Bounds and types of the counters and of the two sequences.
CounterFacts ==
    /\ pushed \in Seq(Bytes) /\ Len(pushed) \in Nat
    /\ payload_bytes \in Nat /\ payload_bytes <= MaxPayload
    /\ Len(pushed) <= payload_bytes
    /\ input_bytes \in Nat /\ output_bytes \in Nat /\ taken \in Nat
    /\ got \in Nat /\ remaining \in Nat
    /\ taken <= Len(pushed) /\ output_bytes + got = taken
    /\ body \in Seq(Bytes) /\ Len(body) \in Nat /\ Len(body) <= taken
    /\ CrcMax \in Crcs /\ input_crc32 \in Crcs

\* The invariant gives those bounds.
LEMMA Facts == ASSUME StreamInv PROVE CounterFacts
<1>1. pushed \in Strings /\ body \in Strings
  BY DEF StreamInv, TypeOK
<1>2. /\ pushed \in Seq(Bytes) /\ Len(pushed) \in Nat
      /\ body \in Seq(Bytes) /\ Len(body) \in Nat
  BY <1>1, StringIsSeq
<1> QED
  BY <1>2, SizesAssumption
  DEF CounterFacts, StreamInv, TypeOK, CountInv, BodyInv, Crcs

\* The stream invariant holds initially: nothing armed, nothing registered.
LEMMA InitInv == Init => StreamInv
<1> SUFFICES ASSUME Init PROVE StreamInv
  OBVIOUS
<1> USE SizesAssumption DEF Init, RegistryInit
<1>0. <<>> \in Strings
  BY EmptyString
<1>1. TypeOK
  <2>1. pushed \in Strings /\ body \in Strings
    BY <1>0, Zenon
  <2>2. RegistryTypeOK
    BY DEF RegistryTypeOK, ResultState
  <2>3. /\ 0 \in 0 .. MaxPayload /\ 0 \in Crcs /\ 0 \in Nat
        /\ serial \in SerialPoint /\ sender \in SenderPoint
    BY DEF Crcs, SerialPoint, SenderPoint
  <2> QED BY <2>1, <2>2, <2>3, Zenon DEF TypeOK
<1>2. OwnerInv /\ ChunkInv /\ CountInv /\ CrcInv
  BY EmptyString DEF OwnerInv, ChunkInv, CountInv, CrcInv, Buffered
<1>3. BodyInv /\ AcceptInv /\ SuccessIsWholePayload
  BY EmptyString, WholeAndEmpty DEF BodyInv, AcceptInv, SuccessIsWholePayload
<1> QED BY <1>1, <1>2, <1>3 DEF StreamInv

\* Arming a stream: buffer and counters start over, and no sender is there to
\* notice.
LEMMA StreamBeginInv ==
    ASSUME StreamInv, NEW file \in Files, StreamBegin(file)
    PROVE  StreamInv'
<1>0. CounterFacts
  BY Facts
<1> USE DEF CounterFacts
<1> USE DEF StreamBegin, relay_stream_begin, outgoing_set, serialVars, senderVars
<1>1. file.bytes \in 1 .. MaxPayload /\ file.crc \in Crcs
  BY FilesAssumption
<1>2. pushed' = <<>> /\ Len(pushed') = 0 /\ pushed' \in Strings
  BY EmptyString
<1>3. sender = "idle" /\ body = <<>> /\ got = 0 /\ outgoing = NoFile
  BY <1>0 DEF StreamInv, OwnerInv, BodyInv, CountInv
<1>4. TypeOK'
  <2>1. /\ payload_bytes' \in 0 .. MaxPayload /\ payload_crc32' \in Crcs
        /\ input_bytes' \in 0 .. MaxPayload /\ input_crc32' \in Crcs
        /\ output_bytes' \in 0 .. MaxPayload /\ taken' \in 0 .. MaxPayload
    BY <1>1, SizesAssumption DEF Crcs
  <2>2. next_sequence' \in Nat /\ pushed' \in Strings
    BY <1>2
  <2> QED BY <2>1, <2>2
  DEF StreamInv, TypeOK, RegistryTypeOK, ResultState, SerialPoint, Crcs
<1>5. OwnerInv'
  BY <1>2, <1>3 DEF OwnerInv, StreamInv
<1>6. ChunkInv' /\ CountInv'
  BY <1>1, <1>2, <1>3, SizesAssumption DEF ChunkInv, CountInv, Buffered
<1>7. CrcInv'
  <2>1. SubSeq(<<>>, 1, 0) = <<>>
    OBVIOUS
  <2>2. crc32_update(CrcMax, <<>>) = CrcMax
    BY CrcAssumption, SizesAssumption DEF Crcs
  <2>3. /\ pushed' = <<>> /\ Len(pushed') = 0 /\ input_bytes' = 0
        /\ input_crc32' = CrcMax /\ payload_bytes' # 0 /\ serial' # "account"
    BY <1>1, <1>2
  <2> QED BY <2>1, <2>2, <2>3 DEF CrcInv
<1>8. BodyInv'
  BY <1>2, <1>3, EmptyString DEF BodyInv
<1>9. AcceptInv' /\ SuccessIsWholePayload'
  BY <1>2, <1>3 DEF AcceptInv, SuccessIsWholePayload
<1> QED BY <1>4, <1>5, <1>6, <1>7, <1>8, <1>9 DEF StreamInv

\* The bytes of the chunk are in: the record keeps header and data.
LEMMA ChunkArrivesInv ==
    ASSUME StreamInv, NEW data \in [1 .. chunk.size -> Bytes], ChunkArrives(data)
    PROVE  StreamInv'
<1> USE DEF ChunkArrives, registryVars, streamVars, inputVars, bufferVars, senderVars
<1>1. chunk \in Chunk /\ chunk.size \in Nat
  BY SizesAssumption DEF StreamInv, ChunkInv, Chunk
<1>2. data \in Seq(Bytes) /\ Len(data) = chunk.size
  BY <1>1
<1>3. /\ chunk' \in Chunk
      /\ chunk'.size = chunk.size /\ chunk'.data = data
  BY <1>1, <1>2 DEF Chunk
<1>4. TypeOK'
  BY <1>3 DEF StreamInv, TypeOK, RegistryTypeOK, SerialPoint
<1>5. OwnerInv' /\ AcceptInv'
  BY DEF StreamInv, OwnerInv, AcceptInv
<1>6. ChunkInv'
  BY <1>2, <1>3 DEF StreamInv, ChunkInv, ChunkAcceptable
<1>7. CountInv'
  BY DEF StreamInv, CountInv, Buffered
<1>8. CrcInv'
  BY DEF StreamInv, CrcInv
<1>9. BodyInv' /\ SuccessIsWholePayload'
  BY DEF StreamInv, BodyInv, SuccessIsWholePayload
<1> QED BY <1>4, <1>5, <1>6, <1>7, <1>8, <1>9 DEF StreamInv

\* A whole chunk enters the buffer: it extends the history by a piece whose
\* CRC continues the running one.
LEMMA ChunkSentInv == ASSUME StreamInv, ChunkSent PROVE StreamInv'
<1>0. CounterFacts
  BY Facts
<1> USE DEF CounterFacts
<1> USE DEF ChunkSent, registryVars, streamVars, inputVars, senderVars
<1>1. /\ chunk.data \in Seq(Bytes) /\ chunk.size \in Nat
      /\ Len(chunk.data) = chunk.size /\ chunk.size > 0
      /\ Len(pushed) = input_bytes
      /\ chunk.size <= payload_bytes - input_bytes
  BY SizesAssumption DEF StreamInv, ChunkInv, Chunk
<1>2. Len(pushed) + chunk.size <= payload_bytes
  BY <1>1, <1>0
<1>3. pushed' \in Seq(Bytes) /\ Len(pushed') = Len(pushed) + chunk.size
  <2>1. pushed' = pushed \o chunk.data
    OBVIOUS
  <2> QED BY <1>0, <1>1, <2>1, Concatenation
<1>4. pushed' \in Strings /\ chunk.data \in Strings /\ pushed \in Strings
  <2>1. Len(pushed') <= MaxPayload /\ Len(chunk.data) <= MaxPayload
    BY SMTT(30), <1>0, <1>1, <1>2, <1>3, SizesAssumption
  <2>2. pushed' \in Strings
    BY <1>3, <2>1, SeqIsString
  <2>3. chunk.data \in Strings
    BY <1>1, <2>1, SeqIsString
  <2> QED BY <2>2, <2>3 DEF StreamInv, TypeOK
<1>5. TypeOK'
  BY <1>4 DEF StreamInv, TypeOK, RegistryTypeOK, SerialPoint
<1>6. OwnerInv' /\ ChunkInv'
  BY DEF StreamInv, OwnerInv, ChunkInv
<1>7. CountInv'
  <2>1. /\ input_bytes' = input_bytes /\ payload_bytes' = payload_bytes
        /\ taken' = taken /\ output_bytes' = output_bytes /\ got' = got
        /\ sender' = sender /\ chunk' = chunk /\ serial' = "account"
    OBVIOUS
  <2>2. Buffered' <= BufferBytes
    BY SMTT(30), <1>0, <1>1, <1>3, <2>1, SizesAssumption DEF Buffered
  <2> HIDE DEF ChunkSent
  <2> QED BY <1>0, <1>1, <1>2, <1>3, <2>1, <2>2 DEF StreamInv, CountInv
<1>8. CrcInv'
  <2>1. SubSeq(pushed', 1, input_bytes) = pushed
    <3>1. SubSeq(pushed', 0 + 1, input_bytes) = SubSeq(pushed, 0 + 1, input_bytes)
      BY <1>1, <1>0, StretchOfPrefix
    <3>2. SubSeq(pushed, 1, input_bytes) = pushed
      BY <1>1, <1>0, WholeAndEmpty
    <3>3. 0 + 1 = 1
      OBVIOUS
    <3> QED BY <3>1, <3>2, <3>3, Zenon
  <2>2. input_crc32 = crc32_update(CrcMax, pushed)
    <3>1. SubSeq(pushed, 1, input_bytes) = pushed
      BY <1>1, <1>0, WholeAndEmpty
    <3>2. payload_bytes > 0
      BY <1>1, <1>2, <1>0
    <3> QED BY <3>1, <3>2 DEF StreamInv, CrcInv
  <2>3. crc32_update(input_crc32, chunk.data) = crc32_update(CrcMax, pushed')
    BY <1>4, <2>2, <1>0, CrcAssumption
  <2>4. Len(pushed') = payload_bytes =>
            Finish(crc32_update(CrcMax, pushed')) = payload_crc32
    BY <1>1, <1>3, <2>3, <1>0 DEF StreamInv, ChunkInv
  <2> QED BY <2>1, <2>2, <2>4 DEF CrcInv
<1>9. BodyInv'
  <2> DEFINE a == taken - Len(body)
  <2>1. a \in Nat /\ a <= taken /\ taken <= Len(pushed) /\ taken \in Nat
    BY <1>0
  <2>2. SubSeq(pushed', a + 1, taken) = SubSeq(pushed, a + 1, taken)
    BY SMTT(30), <1>1, <2>1, <1>0, StretchOfPrefix
  <2> QED BY <2>2 DEF StreamInv, BodyInv
<1>10. AcceptInv'
  BY DEF StreamInv, AcceptInv, ChunkInv
<1>11. SuccessIsWholePayload'
  BY <1>1, <1>2, <1>0 DEF StreamInv, SuccessIsWholePayload
<1> QED BY <1>5, <1>6, <1>7, <1>8, <1>9, <1>10, <1>11 DEF StreamInv

\* A partial write leaves the history short of the declared length, in a
\* stream that has failed.
LEMMA ChunkSendTimeoutInv == ASSUME StreamInv, ChunkSendTimeout PROVE StreamInv'
<1>0. CounterFacts
  BY Facts
<1> USE DEF CounterFacts
<1> USE DEF ChunkSendTimeout, relay_stream_abort, registryVars, inputVars, senderVars
<1> DEFINE room == BufferBytes - Buffered
           part == SubSeq(chunk.data, 1, room)
<1>1. /\ chunk.data \in Seq(Bytes) /\ chunk.size \in Nat
      /\ Len(chunk.data) = chunk.size /\ chunk.size > 0
      /\ Len(pushed) = input_bytes
      /\ chunk.size <= payload_bytes - input_bytes
  BY SizesAssumption DEF StreamInv, ChunkInv, Chunk
<1>2. room \in Nat /\ room < chunk.size
  BY <1>1, <1>0, SizesAssumption DEF StreamInv, CountInv, Buffered
<1>3. part \in Seq(Bytes) /\ Len(part) = room
  BY <1>1, <1>2
<1>4. pushed' = pushed \o part
  OBVIOUS
<1> HIDE DEF room, part
<1>5. pushed' \in Seq(Bytes) /\ Len(pushed') = Len(pushed) + room
  BY <1>3, <1>4, <1>0, Concatenation
<1>6. Len(pushed') < payload_bytes
  BY <1>1, <1>2, <1>5, <1>0
<1>7. pushed' \in Strings
  <2>1. Len(pushed') <= MaxPayload
    BY <1>0, <1>5, <1>6, SizesAssumption
  <2> QED BY <1>5, <2>1, SeqIsString
<1>8. TypeOK'
  BY <1>7 DEF StreamInv, TypeOK, RegistryTypeOK, SerialPoint
<1>9. OwnerInv' /\ ChunkInv'
  BY DEF StreamInv, OwnerInv, ChunkInv
<1>10. CountInv'
  BY <1>1, <1>2, <1>5, <1>6, <1>0, SizesAssumption
  DEF StreamInv, CountInv, Buffered, room
<1>11. CrcInv'
  <2>1. SubSeq(pushed', 0 + 1, input_bytes) = SubSeq(pushed, 0 + 1, input_bytes)
    BY <1>1, <1>3, <1>4, <1>0, StretchOfPrefix
  <2>2. Len(pushed') # payload_bytes
    BY <1>5, <1>6, <1>0
  <2>3. 0 + 1 = 1
    OBVIOUS
  <2> QED BY <2>1, <2>2, <2>3 DEF StreamInv, CrcInv
<1>12. BodyInv'
  <2> DEFINE a == taken - Len(body)
  <2>1. a \in Nat /\ a <= taken /\ taken <= Len(pushed) /\ taken \in Nat
    BY <1>0
  <2>2. SubSeq(pushed', a + 1, taken) = SubSeq(pushed, a + 1, taken)
    <3> HIDE DEF a
    <3>1. SubSeq(pushed \o part, a + 1, taken) = SubSeq(pushed, a + 1, taken)
      BY <1>3, <2>1, <1>0, StretchOfPrefix
    <3> QED BY <1>4, <3>1
  <2> QED BY <2>2 DEF StreamInv, BodyInv
<1>13. AcceptInv'
  BY DEF StreamInv, AcceptInv, ChunkInv
<1>14. SuccessIsWholePayload'
  BY <1>1, <1>2, <1>0 DEF StreamInv, SuccessIsWholePayload
<1> QED BY <1>8, <1>9, <1>10, <1>11, <1>12, <1>13, <1>14 DEF StreamInv

\* Counting the chunk makes the running CRC the CRC of the whole history.
LEMMA ChunkCountedInv == ASSUME StreamInv, ChunkCounted PROVE StreamInv'
<1>0. CounterFacts
  BY Facts
<1> USE DEF CounterFacts
<1> USE DEF ChunkCounted, registryVars, streamVars, bufferVars, senderVars
<1>1. /\ chunk.data \in Seq(Bytes) /\ chunk.size \in Nat
      /\ Len(chunk.data) = chunk.size /\ chunk.size > 0
      /\ input_bytes + chunk.size = Len(pushed)
  BY SizesAssumption DEF StreamInv, ChunkInv, CountInv, Chunk
<1>2. payload_bytes > 0
  BY <1>1, <1>0
<1> DEFINE counted == SubSeq(pushed, 1, input_bytes)
<1>3. counted \in Seq(Bytes) /\ Len(counted) = input_bytes
  BY <1>1, <1>0
<1>4. /\ pushed = counted \o chunk.data
      /\ input_crc32 = crc32_update(CrcMax, counted)
  BY <1>2 DEF StreamInv, CrcInv
<1> HIDE DEF counted
<1>5. counted \in Strings /\ chunk.data \in Strings /\ pushed \in Strings
  BY SMTT(30), <1>1, <1>3, <1>0, SizesAssumption, SeqIsString
<1>6. input_crc32' = crc32_update(CrcMax, pushed) /\ input_crc32' \in Crcs
  BY <1>4, <1>5, <1>0, CrcAssumption
<1>7. input_bytes' = Len(pushed)
  BY <1>1
<1>8. TypeOK'
  BY <1>6, <1>7, <1>0, SizesAssumption DEF StreamInv, TypeOK, RegistryTypeOK, SerialPoint
<1>9. OwnerInv' /\ ChunkInv'
  BY DEF StreamInv, OwnerInv, ChunkInv
<1>10. CountInv'
  BY <1>7, <1>0 DEF StreamInv, CountInv, Buffered
<1>11. CrcInv'
  <2>1. SubSeq(pushed, 1, input_bytes') = pushed
    BY <1>7, <1>0, WholeAndEmpty
  <2> QED BY <1>6, <2>1 DEF StreamInv, CrcInv
<1>12. BodyInv' /\ AcceptInv' /\ SuccessIsWholePayload'
  BY DEF StreamInv, BodyInv, AcceptInv, SuccessIsWholePayload
<1> QED BY <1>8, <1>9, <1>10, <1>11, <1>12 DEF StreamInv

\* A read appends to the body the stretch that follows what it already has.
LEMMA ReadReceivesInv == ASSUME StreamInv, ReadReceives PROVE StreamInv'
<1>0. CounterFacts
  BY Facts
<1> USE DEF CounterFacts
<1> USE DEF ReadReceives, registryVars, streamVars, inputVars, serialVars
<1>1. got = 0 /\ output_bytes = taken /\ remaining > 0 /\ taken < Len(pushed)
  BY <1>0 DEF StreamInv, CountInv, BodyInv, Buffered
<1>2. /\ got' \in Nat /\ got' > 0 /\ got' <= remaining
      /\ taken + got' <= Len(pushed) /\ taken' = taken + got'
  BY SMTT(30), <1>1, <1>0, SizesAssumption DEF ReadRequest, Least, Buffered
<1> DEFINE a == taken - Len(body)
           c == taken + got'
<1>3. a \in Nat /\ c \in Nat /\ a <= taken /\ taken <= c /\ c <= Len(pushed)
  BY <1>2, <1>0
<1>4. body = SubSeq(pushed, a + 1, taken)
  BY DEF StreamInv, BodyInv
<1>5. body' = body \o SubSeq(pushed, taken + 1, c)
  OBVIOUS
<1>6. taken' = c /\ c - a = Len(body) + got'
  BY <1>2, <1>0
<1> HIDE DEF a, c
<1>7. /\ body' = SubSeq(pushed, a + 1, c)
      /\ body' \in Seq(Bytes) /\ Len(body') = c - a
  <2>1. /\ SubSeq(pushed, a + 1, taken) \o SubSeq(pushed, taken + 1, c)
                = SubSeq(pushed, a + 1, c)
        /\ SubSeq(pushed, a + 1, c) \in Seq(Bytes)
        /\ Len(SubSeq(pushed, a + 1, c)) = c - a
    BY <1>3, <1>0, AdjacentStretches
  <2>2. body' = SubSeq(pushed, a + 1, c)
    BY <1>4, <1>5, <2>1
  <2> QED BY <2>1, <2>2
<1>8. Len(body') = Len(body) + got' /\ Len(body') <= MaxPayload
  <2>1. Len(body') = Len(body) + got'
    BY <1>6, <1>7
  <2>2. Len(body) + got' <= MaxPayload
    BY <1>0, <1>2, SizesAssumption
  <2> QED BY <2>1, <2>2
<1>9. TypeOK'
  <2>1. body' \in Strings
    BY <1>7, <1>8, SeqIsString
  <2>2. got' \in 0 .. MaxPayload /\ taken' \in 0 .. MaxPayload
    BY SMTT(30), <1>2, <1>0, SizesAssumption
  <2> QED BY <2>1, <2>2 DEF StreamInv, TypeOK, RegistryTypeOK, SenderPoint
<1>10. OwnerInv' /\ ChunkInv'
  BY DEF StreamInv, OwnerInv, ChunkInv
<1>11. CountInv'
  BY SMTT(30), <1>1, <1>2, <1>0, SizesAssumption DEF StreamInv, CountInv, Buffered
<1>12. CrcInv'
  BY DEF StreamInv, CrcInv
<1>13. BodyInv'
  <2>1. taken' - Len(body') = a /\ Len(body') <= taken'
    BY <1>3, <1>6, <1>7
  <2>2. body' = SubSeq(pushed', taken' - Len(body') + 1, taken')
    BY <1>6, <1>7, <2>1
  <2>3. Len(body') + remaining' = outgoing'.bytes + got' /\ got' <= remaining'
    BY SMTT(30), <1>2, <1>8, <1>0 DEF StreamInv, BodyInv
  <2> QED BY <2>1, <2>2, <2>3 DEF BodyInv
<1>14. AcceptInv' /\ SuccessIsWholePayload'
  BY DEF StreamInv, AcceptInv, SuccessIsWholePayload
<1> QED BY <1>9, <1>10, <1>11, <1>12, <1>13, <1>14 DEF StreamInv

\* SUCCESS is published only for a body that used up the whole stream.
LEMMA UploadAnsweredInv ==
    ASSUME StreamInv, NEW state \in {"success", "failed"}, UploadAnswered(state)
    PROVE  StreamInv'
<1>0. CounterFacts
  BY Facts
<1> USE DEF CounterFacts
<1> USE DEF UploadAnswered, outgoing_complete, streamVars, inputVars, bufferVars, serialVars
<1>1. TypeOK'
  BY DEF StreamInv, TypeOK, RegistryTypeOK, ResultState, SenderPoint
<1>2. OwnerInv' /\ ChunkInv'
  BY DEF StreamInv, OwnerInv, ChunkInv
<1>3. CountInv'
  BY DEF StreamInv, CountInv, Buffered
<1>4. CrcInv'
  BY DEF StreamInv, CrcInv
<1>5. BodyInv' /\ AcceptInv'
  BY DEF StreamInv, BodyInv, AcceptInv
<1>6. SuccessIsWholePayload'
  <2>1. payload_bytes = outgoing.bytes /\ Len(body) = outgoing.bytes /\ got = 0
    BY <1>0 DEF StreamInv, OwnerInv, BodyInv, CountInv
  <2>2. outgoing \in Files
    BY DEF StreamInv, OwnerInv, TypeOK, RegistryTypeOK
  <2>3. payload_bytes > 0
    BY <2>1, <2>2, FilesAssumption
  <2>4. Len(pushed) = payload_bytes /\ output_bytes = payload_bytes
    BY <2>1, <1>0
  <2>5. Finish(crc32_update(CrcMax, pushed)) = payload_crc32
    BY <2>3, <2>4 DEF StreamInv, CrcInv
  <2> QED BY <2>4, <2>5 DEF SuccessIsWholePayload
<1> QED BY <1>1, <1>2, <1>3, <1>4, <1>5, <1>6 DEF StreamInv

\* Every step of either task, of the host or of the receiver preserves the
\* invariant; the steps that move bytes have lemmas of their own above.
LEMMA NextInv == ASSUME StreamInv, [Next]_vars PROVE StreamInv'
<1> USE SizesAssumption, FilesAssumption, NoFileAssumption
    DEF StreamInv, TypeOK, RegistryTypeOK, OwnerInv, ChunkInv, CountInv,
        CrcInv, BodyInv, AcceptInv, SuccessIsWholePayload, registryVars,
        streamVars, inputVars, bufferVars, serialVars, senderVars
<1>1. CASE \E file \in Files : StreamBegin(file)
  BY <1>1, StreamBeginInv
<1>2. CASE StreamArmed
  <2> USE <1>2 DEF StreamArmed, SerialPoint
  <2>1. TypeOK'
    OBVIOUS
  <2>2. OwnerInv' /\ ChunkInv' /\ AcceptInv'
    OBVIOUS
  <2>3. CountInv'
    BY DEF Buffered
  <2>4. CrcInv' /\ BodyInv' /\ SuccessIsWholePayload'
    OBVIOUS
  <2> QED BY <2>1, <2>2, <2>3, <2>4
<1>3. CASE StreamArmFailed
  <2> USE <1>3 DEF StreamArmFailed, relay_stream_abort, SerialPoint
  <2>1. TypeOK'
    OBVIOUS
  <2>2. OwnerInv' /\ ChunkInv' /\ AcceptInv'
    OBVIOUS
  <2>3. CountInv'
    BY DEF Buffered
  <2>4. CrcInv' /\ BodyInv' /\ SuccessIsWholePayload'
    OBVIOUS
  <2> QED BY <2>1, <2>2, <2>3, <2>4
<1>4. CASE StreamCancel
  <2> USE <1>4 DEF StreamCancel, relay_stream_abort, outgoing_clear, ResultState
  <2>1. TypeOK'
    OBVIOUS
  <2>2. OwnerInv' /\ ChunkInv' /\ AcceptInv'
    OBVIOUS
  <2>3. CountInv'
    BY DEF Buffered
  <2>4. CrcInv' /\ BodyInv' /\ SuccessIsWholePayload'
    OBVIOUS
  <2> QED BY <2>1, <2>2, <2>3, <2>4
<1>5. CASE \E seq \in 0 .. MaxPayload, size \in 1 .. ChunkMax, crc \in Crcs :
           StreamData(seq, size, crc)
  <2> USE <1>5 DEF StreamData, relay_stream_validate_chunk, Chunk, SerialPoint
  <2>1. TypeOK'
    OBVIOUS
  <2>2. OwnerInv' /\ ChunkInv' /\ AcceptInv'
    OBVIOUS
  <2>3. CountInv'
    BY DEF Buffered
  <2>4. CrcInv' /\ BodyInv' /\ SuccessIsWholePayload'
    OBVIOUS
  <2> QED BY <2>1, <2>2, <2>3, <2>4
<1>6. CASE ChunkTimeout
  <2> USE <1>6 DEF ChunkTimeout, relay_stream_abort, SerialPoint
  <2>1. TypeOK'
    OBVIOUS
  <2>2. OwnerInv' /\ ChunkInv' /\ AcceptInv'
    OBVIOUS
  <2>3. CountInv'
    BY DEF Buffered
  <2>4. CrcInv' /\ BodyInv' /\ SuccessIsWholePayload'
    OBVIOUS
  <2> QED BY <2>1, <2>2, <2>3, <2>4
<1>7. CASE \E data \in [1 .. chunk.size -> Bytes] : ChunkArrives(data)
  BY <1>7, ChunkArrivesInv
<1>8. CASE \E data \in [1 .. chunk.size -> Bytes] : ChunkRejected(data)
  <2>0. PICK data \in [1 .. chunk.size -> Bytes] : ChunkRejected(data)
    BY <1>8
  <2> USE <2>0 DEF ChunkRejected, relay_stream_abort, SerialPoint
  <2>1. TypeOK'
    OBVIOUS
  <2>2. OwnerInv' /\ ChunkInv' /\ AcceptInv'
    OBVIOUS
  <2>3. CountInv'
    BY DEF Buffered
  <2>4. CrcInv' /\ BodyInv' /\ SuccessIsWholePayload'
    OBVIOUS
  <2> QED BY <2>1, <2>2, <2>3, <2>4
<1>9. CASE ChunkSent
  BY <1>9, ChunkSentInv
<1>10. CASE ChunkSendTimeout
  BY <1>10, ChunkSendTimeoutInv
<1>11. CASE ChunkCounted
  BY <1>11, ChunkCountedInv
<1>12. CASE SenderAcquire
  <2> USE <1>12 DEF SenderAcquire, outgoing_acquire, outgoing_ready, SenderPoint
  <2>1. TypeOK'
    OBVIOUS
  <2>2. OwnerInv' /\ ChunkInv' /\ AcceptInv'
    OBVIOUS
  <2>3. CountInv'
    BY DEF Buffered
  <2>4. CrcInv' /\ SuccessIsWholePayload'
    OBVIOUS
  <2>5. BodyInv'
    OBVIOUS
  <2> QED BY <2>1, <2>2, <2>3, <2>4, <2>5
<1>13. CASE AskFails
  <2> USE <1>13 DEF AskFails, SenderPoint
  <2>1. TypeOK'
    OBVIOUS
  <2>2. OwnerInv' /\ ChunkInv' /\ AcceptInv'
    OBVIOUS
  <2>3. CountInv'
    BY DEF Buffered
  <2>4. CrcInv' /\ BodyInv' /\ SuccessIsWholePayload'
    OBVIOUS
  <2> QED BY <2>1, <2>2, <2>3, <2>4
<1>14. CASE AskAccepted
  <2> USE <1>14 DEF AskAccepted, SenderPoint
  <2>1. TypeOK'
    OBVIOUS
  <2>2. OwnerInv' /\ ChunkInv' /\ AcceptInv'
    OBVIOUS
  <2>3. CountInv'
    BY DEF Buffered
  <2>4. CrcInv' /\ BodyInv' /\ SuccessIsWholePayload'
    OBVIOUS
  <2> QED BY <2>1, <2>2, <2>3, <2>4
<1>15. CASE ReadEnter
  <2> USE <1>15 DEF ReadEnter, AfterGo, SenderPoint
  <2>1. TypeOK'
    OBVIOUS
  <2>2. OwnerInv' /\ ChunkInv' /\ AcceptInv'
    OBVIOUS
  <2>3. CountInv'
    BY DEF Buffered
  <2>4. CrcInv' /\ SuccessIsWholePayload'
    OBVIOUS
  <2>5. BodyInv'
    OBVIOUS
  <2> QED BY <2>1, <2>2, <2>3, <2>4, <2>5
<1>16. CASE GoWritten
  <2> USE <1>16 DEF GoWritten, AfterGo, SenderPoint
  <2>1. TypeOK'
    OBVIOUS
  <2>2. OwnerInv' /\ ChunkInv' /\ AcceptInv'
    OBVIOUS
  <2>3. CountInv'
    BY DEF Buffered
  <2>4. CrcInv' /\ SuccessIsWholePayload'
    OBVIOUS
  <2>5. BodyInv'
    OBVIOUS
  <2> QED BY <2>1, <2>2, <2>3, <2>4, <2>5
<1>17. CASE GoFails
  <2> USE <1>17 DEF GoFails, SenderPoint
  <2>1. TypeOK'
    OBVIOUS
  <2>2. OwnerInv' /\ ChunkInv' /\ AcceptInv'
    OBVIOUS
  <2>3. CountInv'
    BY DEF Buffered
  <2>4. CrcInv' /\ BodyInv' /\ SuccessIsWholePayload'
    OBVIOUS
  <2> QED BY <2>1, <2>2, <2>3, <2>4
<1>18. CASE ReadReceives
  BY <1>18, ReadReceivesInv
<1>19. CASE ReadTimeout
  <2> USE <1>19 DEF ReadTimeout, SenderPoint
  <2>1. TypeOK'
    OBVIOUS
  <2>2. OwnerInv' /\ ChunkInv' /\ AcceptInv'
    OBVIOUS
  <2>3. CountInv'
    BY DEF Buffered
  <2>4. CrcInv' /\ BodyInv' /\ SuccessIsWholePayload'
    OBVIOUS
  <2> QED BY <2>1, <2>2, <2>3, <2>4
<1>20. CASE \E written \in BOOLEAN : ReadCounted(written)
  <2>0. PICK written \in BOOLEAN : ReadCounted(written)
    BY <1>20
  <2> USE <2>0 DEF ReadCounted, SenderPoint
  <2>1. TypeOK'
    <3>1. output_bytes' \in 0 .. MaxPayload /\ remaining' \in 0 .. MaxPayload
      OBVIOUS
    <3>2. got' \in 0 .. MaxPayload /\ sender' \in SenderPoint
      OBVIOUS
    <3> QED BY <3>1, <3>2
  <2>2. OwnerInv' /\ ChunkInv' /\ AcceptInv'
    OBVIOUS
  <2>3. CountInv'
    BY DEF Buffered
  <2>4. CrcInv'
    OBVIOUS
  <2>5. BodyInv'
    OBVIOUS
  <2>6. SuccessIsWholePayload'
    OBVIOUS
  <2> QED BY <2>1, <2>2, <2>3, <2>4, <2>5, <2>6
<1>21. CASE \E state \in {"success", "failed"} : UploadAnswered(state)
  BY <1>21, UploadAnsweredInv
<1>22. CASE TransferFails
  <2> USE <1>22 DEF TransferFails, outgoing_complete, ResultState, SenderPoint
  <2>1. TypeOK'
    OBVIOUS
  <2>2. OwnerInv' /\ ChunkInv' /\ AcceptInv'
    OBVIOUS
  <2>3. CountInv'
    BY DEF Buffered
  <2>4. CrcInv' /\ BodyInv' /\ SuccessIsWholePayload'
    OBVIOUS
  <2> QED BY <2>1, <2>2, <2>3, <2>4
<1>23. CASE SenderRelease
  <2> USE <1>23 DEF SenderRelease, outgoing_release, SenderPoint
  <2>1. TypeOK'
    <3>1. <<>> \in Strings
      BY EmptyString
    <3>2. body' \in Strings
      BY <3>1, Zenon
    <3>3. RegistryTypeOK'
      OBVIOUS
    <3>4. sender' \in SenderPoint /\ remaining' \in 0 .. MaxPayload
      OBVIOUS
    <3> HIDE DEF RegistryTypeOK, SenderPoint
    <3> QED BY <3>2, <3>3, <3>4, Zenon
  <2>2. OwnerInv' /\ ChunkInv' /\ AcceptInv'
    OBVIOUS
  <2>3. CountInv'
    BY DEF Buffered
  <2>4. CrcInv' /\ SuccessIsWholePayload'
    OBVIOUS
  <2>5. BodyInv'
    OBVIOUS
  <2> QED BY <2>1, <2>2, <2>3, <2>4, <2>5
<1>24. CASE UNCHANGED vars
  <2> USE <1>24 DEF vars
  <2>1. TypeOK'
    OBVIOUS
  <2>2. OwnerInv' /\ ChunkInv' /\ AcceptInv'
    OBVIOUS
  <2>3. CountInv'
    BY DEF Buffered
  <2>4. CrcInv' /\ BodyInv' /\ SuccessIsWholePayload'
    OBVIOUS
  <2> QED BY <2>1, <2>2, <2>3, <2>4
<1> HIDE DEF StreamInv
<1> QED
  BY <1>1, <1>2, <1>3, <1>4, <1>5, <1>6, <1>7, <1>8, <1>9, <1>10, <1>11, <1>12, <1>13, <1>14, <1>15, <1>16, <1>17, <1>18, <1>19, <1>20, <1>21, <1>22, <1>23, <1>24
  DEF Next, HostStep, SerialStep, TransferStep

-----------------------------------------------------------------------------

\* The stream invariant holds in every reachable state.
THEOREM StreamInvariant == Spec => []StreamInv
<1>1. StreamInv /\ [Next]_vars => StreamInv'
  BY NextInv
<1> QED BY InitInv, <1>1, PTL DEF Spec

\* Every variable of the two tasks, the stream and the registry keeps its
\* type: in particular no counter of relay_stream.c passes the declared size.
THEOREM TypeCorrect == Spec => []TypeOK
<1>1. StreamInv => TypeOK
  BY DEF StreamInv
<1> QED BY StreamInvariant, <1>1, PTL

\* A body that is the whole length is the whole buffer history, whose CRC is
\* the declared one.
LEMMA WholeBody == ASSUME StreamInv PROVE BodyIntact
<1> SUFFICES ASSUME sender = "respond"
             PROVE  /\ Len(body) = outgoing.bytes
                    /\ Finish(crc32_update(CrcMax, body)) = outgoing.crc
  BY DEF BodyIntact
<1>0. /\ pushed \in Seq(Bytes) /\ Len(pushed) \in Nat
      /\ taken \in Nat /\ taken <= Len(pushed) /\ Len(pushed) <= payload_bytes
      /\ Len(body) \in Nat /\ Len(body) <= taken /\ payload_bytes \in Nat
  BY Facts DEF CounterFacts
<1>1. /\ registered /\ outgoing = registered_file
      /\ payload_bytes = outgoing.bytes /\ payload_crc32 = outgoing.crc
  BY DEF StreamInv, OwnerInv
<1>2. Len(body) = payload_bytes
  BY <1>1 DEF StreamInv, BodyInv
<1>3. taken = Len(pushed) /\ Len(body) = Len(pushed) /\ Len(pushed) = payload_bytes
  BY <1>0, <1>2
<1>4. body = SubSeq(pushed, taken - Len(body) + 1, taken)
  BY DEF StreamInv, BodyInv
<1>5. taken - Len(body) + 1 = 1
  BY <1>0, <1>3
<1>6. body = pushed
  BY <1>0, <1>3, <1>4, <1>5, WholeAndEmpty
<1>7. registered_file \in Files
  BY <1>1 DEF StreamInv, TypeOK, RegistryTypeOK
<1>8. payload_bytes > 0
  BY <1>1, <1>7, FilesAssumption, SizesAssumption
<1>9. Finish(crc32_update(CrcMax, pushed)) = payload_crc32
  BY <1>3, <1>8 DEF StreamInv, CrcInv
<1> QED BY <1>1, <1>2, <1>6, <1>9

\* A finished Upload body is the declared payload, byte count and CRC, for
\* every payload size, chunk size, buffer size and interleaving of the tasks.
THEOREM BodyAlwaysIntact == Spec => []BodyIntact
<1>1. StreamInv => BodyIntact
  BY WholeBody
<1> QED BY StreamInvariant, <1>1, PTL

\* A published SUCCESS vouches for the whole payload.
THEOREM SuccessVouches == Spec => []SuccessIsWholePayload
<1>1. StreamInv => SuccessIsWholePayload
  BY DEF StreamInv
<1> QED BY StreamInvariant, <1>1, PTL

\* No payload byte enters the buffer before the receiver accepted the Ask.
THEOREM NoEarlyPayload == Spec => []PayloadAfterAccept
<1>1. StreamInv => PayloadAfterAccept
  BY DEF StreamInv, AcceptInv, PayloadAfterAccept
<1> QED BY StreamInvariant, <1>1, PTL

\* Steps that do not touch the buffer history keep it whole.
LEMMA HistoryKept ==
    ASSUME StreamInv, UNCHANGED <<pushed, payload_bytes, payload_crc32>>,
           output_bytes' = output_bytes \/ output_bytes' = output_bytes + got
    PROVE  HeldStreamStep
<1>0. /\ pushed \in Seq(Bytes) /\ Len(pushed) \in Nat
      /\ output_bytes \in Nat /\ got \in Nat
  BY Facts DEF CounterFacts
<1>1. SubSeq(pushed, 1, Len(pushed)) = pushed
  BY <1>0, WholeAndEmpty
<1>2. output_bytes <= output_bytes'
  BY <1>0
<1> QED BY <1>0, <1>1, <1>2 DEF HeldStreamStep

\* Appending keeps the history as a prefix.
LEMMA HistoryExtended ==
    ASSUME StreamInv, NEW more \in Seq(Bytes), pushed' = pushed \o more,
           UNCHANGED <<output_bytes, payload_bytes, payload_crc32>>
    PROVE  HeldStreamStep
<1>0. pushed \in Seq(Bytes) /\ Len(pushed) \in Nat /\ output_bytes \in Nat
  BY Facts DEF CounterFacts
<1>1. Len(pushed') = Len(pushed) + Len(more) /\ Len(more) \in Nat
  BY <1>0, Concatenation
<1>2. SubSeq(pushed \o more, 0 + 1, Len(pushed)) = SubSeq(pushed, 0 + 1, Len(pushed))
  BY <1>0, StretchOfPrefix
<1>3. SubSeq(pushed, 1, Len(pushed)) = pushed
  BY <1>0, WholeAndEmpty
<1>4. SubSeq(pushed', 1, Len(pushed)) = pushed
  BY <1>2, <1>3
<1>5. Len(pushed) <= Len(pushed') /\ output_bytes <= output_bytes'
  BY <1>0, <1>1
<1> QED BY <1>4, <1>5 DEF HeldStreamStep

\* While a sender holds the file its stream is only ever extended.
THEOREM HeldStreamKept == Spec => HeldStream
<1>1. ASSUME StreamInv, [Next]_vars PROVE [HeldStreamStep]_vars
  <2> SUFFICES ASSUME Next PROVE HeldStreamStep
    BY <1>1
  <2> USE <1>1
  <2>1. CASE \E file \in Files : StreamBegin(file)
    BY <2>1 DEF StreamBegin, outgoing_set, HeldStreamStep
  <2>2. CASE ChunkSent
    <3>1. chunk.data \in Seq(Bytes)
      BY <2>2 DEF ChunkSent, StreamInv, ChunkInv, Chunk
    <3> QED BY <2>2, <3>1, HistoryExtended DEF ChunkSent, streamVars
  <2>3. CASE ChunkSendTimeout
    <3> DEFINE more == SubSeq(chunk.data, 1, BufferBytes - Buffered)
    <3>1. chunk.data \in Seq(Bytes) /\ Len(chunk.data) = chunk.size
      BY <2>3 DEF ChunkSendTimeout, StreamInv, ChunkInv, Chunk
    <3>2. BufferBytes - Buffered \in Nat /\ BufferBytes - Buffered <= Len(chunk.data)
      <4>1. /\ Len(pushed) \in Nat /\ taken \in Nat /\ taken <= Len(pushed)
            /\ Len(chunk.data) \in Nat
        BY Facts, <3>1 DEF CounterFacts
      <4> QED BY <2>3, <3>1, <4>1, SizesAssumption
        DEF ChunkSendTimeout, StreamInv, CountInv, Buffered
    <3>3. more \in Seq(Bytes)
      BY <3>1, <3>2
    <3>4. pushed' = pushed \o more /\ UNCHANGED <<output_bytes, payload_bytes, payload_crc32>>
      BY <2>3 DEF ChunkSendTimeout, relay_stream_abort
    <3> HIDE DEF more
    <3> QED BY <3>3, <3>4, HistoryExtended
  <2>4. CASE \E written \in BOOLEAN : ReadCounted(written)
    BY <2>4, HistoryKept DEF ReadCounted, streamVars, bufferVars
  <2>5. CASE /\ ~ \E file \in Files : StreamBegin(file)
             /\ ~ ChunkSent /\ ~ ChunkSendTimeout
             /\ ~ \E written \in BOOLEAN : ReadCounted(written)
    <3>1. UNCHANGED <<pushed, payload_bytes, payload_crc32, output_bytes>>
      BY <2>5 DEF Next, HostStep, SerialStep, TransferStep, StreamArmed,
         StreamArmFailed, StreamCancel, StreamData, ChunkTimeout, ChunkArrives,
         ChunkRejected, ChunkCounted, SenderAcquire, AskFails, AskAccepted,
         ReadEnter, GoWritten, GoFails, ReadReceives, ReadTimeout,
         UploadAnswered, TransferFails, SenderRelease, relay_stream_abort,
         streamVars, bufferVars
    <3> QED BY <3>1, HistoryKept
  <2> QED BY <2>1, <2>2, <2>3, <2>4, <2>5
<1> QED BY StreamInvariant, <1>1, PTL DEF Spec, HeldStream

-----------------------------------------------------------------------------

\* Each registry call of the two tasks is a step of OutgoingClients with the
\* sender task as its only sender; every other step is a stutter.
LEMMA StepImplementsClients ==
    ASSUME StreamInv, [Next]_vars
    PROVE  [Clients!Next]_(Clients!vars)
<1> USE DEF Clients!Next, Clients!vars, Clients!HostSet, Clients!HostClear,
        Clients!SenderAcquire, Clients!SenderComplete, Clients!SenderRelease,
        Clients!outgoing_set, Clients!outgoing_clear, Clients!outgoing_acquire,
        Clients!outgoing_ready, Clients!outgoing_complete, Clients!outgoing_release
<1>1. CASE \E file \in Files : StreamBegin(file)
  <2>1. PICK file \in Files : StreamBegin(file)
    BY <1>1
  <2>2. Clients!HostSet(file)
    BY <2>1 DEF StreamBegin, outgoing_set, senderVars
  <2> QED BY <2>2
<1>2. CASE StreamCancel
  BY <1>2 DEF StreamCancel, outgoing_clear, registryVars, senderVars
<1>3. CASE SenderAcquire
  <2>1. outgoing = NoFile
    BY <1>3 DEF SenderAcquire, StreamInv, OwnerInv
  <2>2. Clients!SenderAcquire("netif")
    BY <1>3, <2>1 DEF SenderAcquire, outgoing_acquire, outgoing_ready
  <2> QED BY <2>2
<1>4. CASE \E state \in {"success", "failed"} : UploadAnswered(state)
  <2>1. PICK state \in {"success", "failed"} : UploadAnswered(state)
    BY <1>4
  <2>2. outgoing # NoFile
    BY <2>1, NoFileAssumption
    DEF UploadAnswered, StreamInv, OwnerInv, TypeOK, RegistryTypeOK
  <2>3. Clients!SenderComplete("netif", state)
    BY <2>1, <2>2 DEF UploadAnswered, outgoing_complete
  <2> QED BY <2>3
<1>5. CASE TransferFails
  <2>1. outgoing # NoFile
    BY <1>5, NoFileAssumption
    DEF TransferFails, StreamInv, OwnerInv, TypeOK, RegistryTypeOK
  <2>2. Clients!SenderComplete("netif", "failed")
    BY <1>5, <2>1 DEF TransferFails, outgoing_complete
  <2> QED BY <2>2
<1>6. CASE SenderRelease
  <2>1. outgoing # NoFile
    BY <1>6, NoFileAssumption
    DEF SenderRelease, StreamInv, OwnerInv, TypeOK, RegistryTypeOK
  <2>2. Clients!SenderRelease("netif")
    BY <1>6, <2>1 DEF SenderRelease, outgoing_release
  <2> QED BY <2>2
<1>7. CASE /\ ~ \E file \in Files : StreamBegin(file)
           /\ ~ StreamCancel /\ ~ SenderAcquire /\ ~ TransferFails /\ ~ SenderRelease
           /\ ~ \E state \in {"success", "failed"} : UploadAnswered(state)
  <2>1. UNCHANGED <<registryVars, outgoing>>
    BY <1>7 DEF Next, HostStep, SerialStep, TransferStep, StreamArmed,
       StreamArmFailed, StreamData, ChunkTimeout, ChunkArrives, ChunkRejected,
       ChunkSent, ChunkSendTimeout, ChunkCounted, AskFails, AskAccepted,
       ReadEnter, GoWritten, GoFails, ReadReceives, ReadTimeout, ReadCounted,
       vars, senderVars
  <2> QED BY <2>1 DEF registryVars
<1> QED BY <1>1, <1>2, <1>3, <1>4, <1>5, <1>6, <1>7

\* The stream and its two tasks implement the registry's abstract
\* specification: every promise of OutgoingClients holds of them.
THEOREM StreamImplementsClients == Spec => ImplementsClients
<1>1. Init => Clients!Init
  BY DEF Init, RegistryInit, Clients!Init, Clients!RegistryInit
<1>2. StreamInv /\ [Next]_vars => [Clients!Next]_(Clients!vars)
  BY StepImplementsClients
<1> QED BY StreamInvariant, <1>1, <1>2, PTL DEF Spec, ImplementsClients, Clients!Spec

=============================================================================
