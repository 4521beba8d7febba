---------------------------- MODULE HttpResponse ----------------------------
(***************************************************************************)
(* How TickDbImpl::executeRequest reads the answer to a request: the       *)
(* header byte by byte up to the empty line, the code, and a body that is  *)
(* counted, chunked, or lasts until the server closes the connection (each *)
(* request says Connection: close).  What came before the connection ended *)
(* is a sequence of bytes; the text of a header line stands as one number  *)
(* from 1000 on.  Numbers do not overflow here, and the message that is    *)
(* picked out of an HTML page of Tomcat's is left out.                     *)
(***************************************************************************)
EXTENDS Integers, Sequences, SequencesExt, FiniteSetsExt

CR == 13
LF == 10
Semicolon == 59
CRLFCRLF == <<CR, LF, CR, LF>>

\* The lines of a header: HTTP/1.1 and a code, the status line of another
\* version, Content-Length, Encoding: chunked, others.
StatusLine(code) == 1000 + code
OtherVersion == 2000
ContentLength(n) == 3000 + n
Chunked == 4000
OtherLine == 4001
TooLongLine == 4002    \* makes the header longer than 0x380 characters

Thrown(why) == [thrown |-> why, code |-> 0, body |-> <<>>]
Answer(code, body) == [thrown |-> "no", code |-> code, body |-> body]

-----------------------------------------------------------------------------
\* readResponseHeader: how many bytes the header takes and how many of the last
\* four it has matched; a byte that does not match begins the search anew, and is
\* not itself taken for the first of the four.
ReadByte(h, ch) ==
    IF h.match = 4 THEN h
    ELSE [size |-> h.size + 1, match |-> IF CRLFCRLF[h.match + 1] = ch THEN h.match + 1 ELSE 0]

readResponseHeader(wire) == FoldLeft(ReadByte, [size |-> 0, match |-> 0], wire)

\* parse: the code; 0 for another version, unless the header is long.
Code(header) ==
    IF header[1] = OtherVersion
    THEN IF Contains(header, TooLongLine) THEN Thrown("long header") ELSE Answer(0, <<>>)
    ELSE LET code == header[1] - 1000
         IN IF code \in 100..599 THEN Answer(code, <<>>) ELSE Thrown("unknown code")

\* parseContentLength: 0 when the header says nothing, -1 for chunks.
LengthOf(header) ==
    LET said == {i \in DOMAIN header : header[i] \in ContentLength(0)..ContentLength(999)}
    IN IF said # {} THEN header[Min(said)] - ContentLength(0)
       ELSE IF Contains(header, Chunked) THEN -1 ELSE 0

-----------------------------------------------------------------------------
HexValue(ch) == CASE ch \in 48..57 -> ch - 48
                  [] ch \in 97..102 -> ch - 87
                  [] ch \in 65..70 -> ch - 55
                  [] OTHER -> -1

IsHex(ch) == HexValue(ch) # -1

\* What readResponseBody leaves: cut is an exception, bad is false returned.
Read(how, body) == [how |-> how, body |-> body]

ReadCounted(wire, p, length) ==
    IF p + length - 1 > Len(wire) THEN Read("cut", <<>>)
    ELSE Read("ok", SubSeq(wire, p, p + length - 1))

\* No end of the body but the connection's: its loss is not an error here.
ReadUntilClosed(wire, p) == Read("ok", SubSeq(wire, p, Len(wire)))

\* Chunks from p on; the chunk of size zero is the last, and what follows its
\* line's CR is not read.
ReadChunked(wire, first) ==
    LET n == Len(wire)
        read[p \in 1..n + 1] ==
            LET after == {q \in p..n : ~IsHex(wire[q])}
                q == Min(after)
                size == FoldLeft(LAMBDA x, ch : x * 16 + HexValue(ch), 0, SubSeq(wire, p, q - 1))
                ends == {r \in q..n : wire[r] = CR}
                data == Min(ends) + 2
                next == data + size + 2
            IN IF after = {} THEN Read("cut", <<>>)
               ELSE IF wire[q] \notin {Semicolon, CR} THEN Read("bad", <<>>)
               ELSE IF ends = {} THEN Read("cut", <<>>)
               ELSE IF q = p THEN Read("bad", <<>>)
               ELSE IF size = 0 THEN Read("ok", <<>>)
               ELSE IF next > n + 1 THEN Read("cut", <<>>)
               ELSE [read[next] EXCEPT !.body = SubSeq(wire, data, data + size - 1) \o @]
    IN read[first]

readResponseBody(wire, p, length) ==
    IF length > 0 THEN ReadCounted(wire, p, length)
    ELSE IF length = 0 THEN ReadUntilClosed(wire, p)
    ELSE ReadChunked(wire, p)

-----------------------------------------------------------------------------
HttpSuccess(code) == code \div 100 = 2

\* executeRequest, of an open database, once the request is sent.  An answer
\* that is not a success has the status line's text for a body it lacks.
executeRequest(wire) ==
    LET read == readResponseHeader(wire)
        header == SubSeq(wire, 1, read.size)
        status == Code(header)
        body == readResponseBody(wire, read.size + 1, LengthOf(header))
    IN IF read.match < 4 THEN Thrown("disconnected")
       ELSE IF status.thrown # "no" THEN status
       ELSE IF body.how = "cut" THEN Thrown("disconnected")
       ELSE IF HttpSuccess(status.code)
            THEN Answer(IF body.how = "ok" THEN status.code ELSE 0, body.body)
       ELSE Answer(status.code,
                   IF body.how = "ok" /\ body.body # <<>> THEN body.body ELSE <<header[1]>>)

-----------------------------------------------------------------------------
(* What a server writes, apart from the code *)

\* A response: its status line and another, the way its body is framed, and the
\* pieces of the body.
Digit(d, upper) == IF d < 10 THEN 48 + d ELSE IF upper THEN 55 + d ELSE 87 + d
Hex(n, upper) == IF n < 16 THEN <<Digit(n, upper)>>
                 ELSE <<Digit(n \div 16, upper), Digit(n % 16, upper)>>
ChunkOf(r, piece) ==
    Hex(Len(piece), r.upper) \o (IF r.extension THEN <<Semicolon, 97>> ELSE <<>>)
        \o <<CR, LF>> \o piece \o (IF piece = <<>> THEN <<>> ELSE <<CR, LF>>)

Framing(r) == CASE r.framing = "counted" -> <<ContentLength(Len(FlattenSeq(r.pieces))), CR, LF>>
                [] r.framing = "chunked" -> <<Chunked, CR, LF>>
                [] r.framing = "close" -> <<>>

Wire(r) ==
    <<r.status, CR, LF, r.line, CR, LF>> \o Framing(r) \o <<CR, LF>>
    \o IF r.framing = "chunked"
       THEN FlattenSeq([i \in DOMAIN r.pieces |-> ChunkOf(r, r.pieces[i])])
            \o ChunkOf(r, <<>>) \o <<CR, LF>>
       ELSE FlattenSeq(r.pieces)

\* What a caller is to learn from a response it gets whole.
Told(r) ==
    LET body == FlattenSeq(r.pieces)
        code == IF r.status = OtherVersion THEN 0 ELSE r.status - 1000
    IN IF r.status = OtherVersion /\ r.line = TooLongLine THEN Thrown("long header")
       ELSE IF code # 0 /\ code \notin 100..599 THEN Thrown("unknown code")
       ELSE Answer(code, IF body = <<>> /\ ~HttpSuccess(code) THEN <<r.status>> ELSE body)

\* Of a response cut after n bytes the caller learns it whole or gets the
\* exception of a lost connection; only a body that ends with the connection
\* may be told in part (tickdb_http.cpp:1041 takes the loss for the end).
ToldWholeOrThrown(r, n) ==
    LET told == executeRequest(SubSeq(Wire(r), 1, n))
    IN \/ told = Told(r)
       \/ n < Len(Wire(r)) /\ told = Thrown("disconnected")
       \/ /\ n < Len(Wire(r)) /\ r.framing = "close"
          /\ told.thrown = "no" /\ told.code = Told(r).code
          /\ IsPrefix(told.body, FlattenSeq(r.pieces)) \/ told.body = <<r.status>>
=============================================================================
