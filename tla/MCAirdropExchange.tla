------------------------- MODULE MCAirdropExchange -------------------------
(***************************************************************************)
(* Instance of AirdropExchange: the checksum of SmallCrc, and a compressor *)
(* that folds runs of equal bytes.                                         *)
(***************************************************************************)
EXTENDS AirdropExchange, SmallCrc

MCCrc32(file) == 3 - SmallCrc(3, file)

\* A run is its byte, with 16 for each repetition.
MCDeflate(s) ==
    FoldLeft(LAMBDA z, b :
        IF z # <<>> /\ Kind(Last(z)) = Kind(b) /\ Value(Last(z)) % 16 = Value(b)
        THEN [z EXCEPT ![Len(z)] = Byte(Kind(b), Value(@) + 16)] ELSE Append(z, b),
        <<>>, s)

File(kind, bytes) == [kind |-> kind, bytes |-> bytes, payload |-> <<>>]

MCSources ==
    {File("spool", f) : f \in {<<0>>, <<1, 0, 0, 0>>, <<1, 0, 1, 1>>, <<0, 1, 0, 1, 0>>}}
    \cup {File("single", <<1, 0, 0>>)}
    \cup {[kind |-> "prepared", bytes |-> <<0, 1>>,
           payload |-> [i \in 1 .. 5 |-> Byte("payload", i)]]}

x == Byte("text", 0)
cr == Byte("cr", 0)
lf == Byte("lf", 0)

MCAnswer(status, framing, pieces, extended) ==
    [status |-> status, framing |-> framing, pieces |-> pieces, extended |-> extended]

\* One fills the response buffer to its end, one is too long for it.
MCAnswers ==
    {MCAnswer(200, "length", <<<<x, cr, lf>>>>, FALSE),
     MCAnswer(200, "chunked", <<<<cr, lf>>, <<x>>>>, FALSE),
     MCAnswer(200, "chunked", <<<<cr, lf>>>>, TRUE),
     MCAnswer(200, "close", <<<<x>>>>, FALSE),
     MCAnswer(200, "malformed", <<>>, FALSE),
     MCAnswer(406, "chunked", <<>>, FALSE),
     MCAnswer(500, "length", <<[i \in 1 .. 19 |-> x]>>, FALSE)}
=============================================================================
