---------------------------- MODULE MessageReader ----------------------------
(***************************************************************************)
(* The reader of a cursor's response (data_reader.cpp, data_reader_impl.h, *)
(* data_reader_http.cpp): a buffer filled from the socket, the chunks of   *)
(* HTTP, the messages inside them and the containers inside a message.     *)
(*                                                                         *)
(* One barrier, dataEnd, stands for all four layers: a read below it only  *)
(* moves dataPtr, a read across it takes the slow path modelled here, which *)
(* may move the bytes it has, read more, and must then put the barrier and *)
(* every pointer to the end of a content back where they belong.           *)
(*                                                                         *)
(* Payload byte number i is the number i, so the model sees at once whether *)
(* the bytes delivered are the ones the server meant.  The sizes inside the *)
(* payload (of messages, of containers) are chosen when they are read: the *)
(* server may have written any.                                            *)
(***************************************************************************)
EXTENDS Integers, Sequences, FiniteSets, SequencesExt

CONSTANTS BufferSize,  \* bufferEnd - bufferStart
          Word,        \* sizeof(uint64), the unit of the small moves
          SkipAhead,   \* 0x400, what skipping asks for at most beside a header
          Wires,       \* the responses: records [chunked, chunks]
          Fields,      \* sizes of the fields read or skipped in one call
          Lengths,     \* sizes of messages, containers and strings
          MaxNested,   \* READER_MAX_NESTED_OBJECTS
          Careless     \* TRUE: next() may be called with containers open

CR == -1
LF == -2
Digit(d) == -10 - d
IsDigit(b) == b <= Digit(0) /\ b >= Digit(9)

HeaderMin == 5         \* CHUNK_HEADER_SIZE_MIN

HeaderMax == 7         \* CHUNK_HEADER_SIZE_MAX, with three digits for seven

\* The header of a chunk: the line end of what came before, the size, written
\* with up to two leading zeros, and a line end.
Header(n, zeros) ==
    <<CR, LF>> \o [i \in 1..zeros |-> Digit(0)] \o <<Digit(n), CR, LF>>

\* How many bytes of payload the first i chunks have.
PayloadOf(chunks) ==
    LET payload[i \in 0..Len(chunks)] ==
            IF i = 0 THEN 0 ELSE payload[i - 1] + chunks[i].size
    IN payload

\* The first i chunks, each behind its header.
BytesOf(chunks) ==
    LET bytes[i \in 0..Len(chunks)] ==
            IF i = 0 THEN <<>>
            ELSE bytes[i - 1] \o Header(chunks[i].size, chunks[i].zeros)
                 \o [k \in 1..chunks[i].size |-> PayloadOf(chunks)[i - 1] + k]
    IN bytes

ChunkedBytes(chunks) ==
    BytesOf(chunks)[Len(chunks)] \o Header(0, 0) \o <<CR, LF>>

Body(w) == IF w.chunked THEN ChunkedBytes(w.chunks)
           ELSE [i \in 1..w.chunks[1].size |-> i]

Minimum(a, b) == IF a < b THEN a ELSE b

ASSUME ReaderAssumption ==
    /\ {BufferSize, Word, SkipAhead, MaxNested} \subseteq Nat \ {0}
    /\ Lengths \subseteq Nat \ {0}
    /\ Fields \subseteq {n \in Nat : n > 0 /\ n + HeaderMax < BufferSize}
    /\ SkipAhead \in HeaderMax..BufferSize
    /\ Careless \in BOOLEAN
    /\ \A w \in Wires :
          /\ w.chunked \in BOOLEAN
          /\ w.chunks \in Seq([size : Nat, zeros : Nat]) \ {<<>>}
          /\ w.chunked => \A i \in DOMAIN w.chunks :
                w.chunks[i].size \in 1..9 /\ w.chunks[i].zeros \in 0..2

VARIABLES
    chunked,        \* which reader: DataReaderMsgHTTPchunked or DataReaderMsg
    wire,           \* the bytes of the response body
    taken,          \* how many of them s->read() has returned
    mem,            \* the buffer with its guard areas
    dataPtr, dataEnd, dataEnd0, streamDataEnd, contentEnd, chunkEnd,
    depth, eOfs,    \* the open containers: what their parents have left
    pc,             \* where the reader stands
    call,           \* the read or skip across the barrier that is under way
    pos,            \* history: payload bytes read or skipped
    ends,           \* history: where the message and its containers end
    out             \* history: the bytes the last read returned

buffers  == <<mem, streamDataEnd, taken>>
barriers == <<dataPtr, dataEnd, dataEnd0, contentEnd, chunkEnd>>
nesting  == <<depth, eOfs>>
history  == <<pos, ends, out>>
vars == <<chunked, wire, buffers, barriers, nesting, pc, call, history>>

Far == 1000             \* UINTPTR_MAX - READ_BUFFER_ALLOC_SIZE: no content

Memory == (0 - Word)..(BufferSize + Word)

NoCall == [skip |-> FALSE, from |-> 0, size |-> 0, remaining |-> 0,
           hdr |-> 0, end |-> 0, want |-> 0, left |-> 0, then |-> "user"]

\* Bytes already passed are never looked at again: they are made equal so that
\* states which differ in nothing else agree.
Live(m, lo, hi) == [a \in Memory |-> IF a >= lo /\ a < hi THEN m[a] ELSE 0]

\* Lay bytes first+1 .. first+k of the wire down at address e.
Lay(m, e, first, k) ==
    [a \in Memory |-> IF a >= e /\ a < e + k THEN wire[first + a - e + 1]
                      ELSE m[a]]

\* memmove
Moved(m, to, from, n) ==
    [a \in Memory |-> IF a >= to /\ a < to + n THEN m[from + a - to] ELSE m[a]]

Bytes(m, from, n) == [i \in 1..n |-> m[from + i - 1]]

-----------------------------------------------------------------------------
(***************************************************************************)
(* The buffer.  Each operator gives the set of results of one call: how    *)
(* many bytes s->read() returns, at least what it was asked for and at     *)
(* most what there is room for, is up to the network.                      *)
(***************************************************************************)

Left == Len(wire) - taken

Result(m, e, f, k) ==
    [mem |-> Lay(m, e, taken, k), end |-> e + k, from |-> f, taken |-> taken + k]

\* mutant of Room: the byte for the terminating zero is counted too
RoomAndZero(e) == BufferSize - e + 1

\* The room behind address e.
Room(e) == BufferSize - e

\* getFromStream: n bytes from address f on are in the buffer when it returns;
\* the data starts at f, at the start of the buffer if nothing is left, or
\* there because the rest was moved down to make room.
GetFromStream(f, n) ==
    LET have == streamDataEnd - f
        need == n - have
        Fill(m, e, to) == {Result(m, e, to, k) :
                              k \in need..Minimum(Room(e), Left)}
    IN IF n <= have
       THEN {[mem |-> mem, end |-> streamDataEnd, from |-> f, taken |-> taken]}
       ELSE IF have = 0 THEN Fill(mem, 0, 0)
       ELSE IF need > Room(streamDataEnd)
       THEN Fill(Moved(mem, 0, f, have), have, 0)
       ELSE Fill(mem, streamDataEnd, f)

\* skipStream: "from" is where dataPtr ends.  What is not in the buffer is read
\* into it from the start, whole buffers at a time while more than that is left.
SkipStream(f, n) ==
    LET have  == streamDataEnd - f
        whole == (n - have - 1) \div BufferSize
        last  == n - have - whole * BufferSize
        first == taken + whole * BufferSize
    IN IF n <= have
       THEN {[mem |-> mem, end |-> streamDataEnd, from |-> f + n, taken |-> taken]}
       ELSE {[mem |-> Lay(mem, 0, first, k), end |-> k, from |-> last,
              taken |-> first + k] :
                k \in last..Minimum(BufferSize, Len(wire) - first)}

\* The data ends inside the size or between the two bytes of the line end.
Unfinished(m, stop, end) == stop = end \/ (m[stop] = CR /\ stop + 1 = end)

\* parseChunkHeader over the bytes in [start, end): the header is "malformed",
\* or "more" of it has to be read, or it says how many bytes follow and where.
\* (A size longer than seven digits and an empty one are not sent here.)
ParseChunkHeader(m, start, end) ==
    LET digits == {k \in 0..(end - start - 2) :
                      \A i \in 1..k : IsDigit(m[start + 1 + i])}
        n == CHOOSE k \in digits : \A j \in digits : j <= k
        stop == start + 2 + n
        number[k \in 0..n] == IF k = 0 THEN 0
                              ELSE number[k - 1] * 10 + (Digit(0) - m[start + 1 + k])
        lines(a) == m[a] = CR /\ m[a + 1] = LF
    IN IF end - start < HeaderMin \/ ~lines(start) THEN [is |-> "malformed"]
       ELSE IF Unfinished(m, stop, end) THEN [is |-> "more"]
       ELSE IF ~lines(stop) THEN [is |-> "malformed"]
       ELSE [is |-> "header", size |-> number[n], end |-> stop + 2]

-----------------------------------------------------------------------------
(***************************************************************************)
(* One read or skip.                                                       *)
(***************************************************************************)

\* Between two steps of the reader nothing but the state named is touched.
Keep(vs) == UNCHANGED vs

\* The barrier is crossed: DataReaderMsg::get/skip and their chunked siblings
\* refuse what reaches beyond the content, then the chunk in hand decides.
Cross(from, n, skip, left, then) ==
    IF from + n > contentEnd
    THEN /\ pc' = "threw"
         /\ call' = NoCall
    ELSE LET rest == IF chunked THEN chunkEnd - from ELSE n
         IN /\ call' = [skip |-> skip, from |-> from, size |-> n,
                        remaining |-> rest, hdr |-> HeaderMin,
                        end |-> from + n, want |-> n, left |-> left, then |-> then]
            /\ pc' = IF rest >= n THEN "fill" ELSE IF skip THEN "chunk" ELSE "header"

\* DataReader::bytes(n), or DataReader::skip(n), then go on at "then".
Access(n, skip, then) ==
    /\ UNCHANGED <<chunked, wire, streamDataEnd, taken, dataEnd, dataEnd0,
                   contentEnd, chunkEnd, ends>>
    /\ IF dataPtr + n <= dataEnd
       THEN /\ dataPtr' = dataPtr + n
            /\ out' = IF skip THEN <<>> ELSE Bytes(mem, dataPtr, n)
            /\ mem' = Live(mem, dataPtr + n, streamDataEnd)
            /\ pos' = pos + n
            /\ pc' = then
            /\ call' = NoCall
       ELSE /\ out' = <<>>
            /\ UNCHANGED <<mem, dataPtr, pos>>
            /\ Cross(dataPtr, n, skip, 0, then)

\* mutant of ContentAt: the content stays where it was while the data moves
ContentAtOld(ptr) == contentEnd

\* Where the content ends once the read or skip that was to leave dataPtr at
\* call.end leaves it at ptr.
ContentAt(ptr) == contentEnd + ptr - call.end

\* The barrier: the valid data, and of it what belongs to the content.
Within(content, end) == Minimum(content, end)

\* The slow path returns: r is the buffer, restInChunk what the chunk still has
\* beyond r.from.  The content moves with the data, the barrier is set again.
Finish(r, restInChunk) ==
    LET ptr     == IF call.skip THEN r.from ELSE r.from + call.want
        copying == call.then = "copying"
        chunk   == r.from + restInChunk
        data    == IF chunked THEN Minimum(chunk, r.end) ELSE r.end
        content == ContentAt(ptr)
    IN /\ taken' = r.taken
       /\ streamDataEnd' = r.end
       /\ chunkEnd' = IF chunked THEN chunk ELSE chunkEnd
       /\ contentEnd' = content
       /\ dataEnd0' = data
       /\ dataEnd' = Within(content, data)
       /\ mem' = Live(r.mem, IF copying THEN r.from ELSE ptr, r.end)
       /\ dataPtr' = IF copying THEN r.from ELSE ptr
       /\ pos' = IF copying THEN pos ELSE pos + call.want
       /\ out' = CASE copying -> out
                   [] call.skip -> <<>>
                   [] OTHER -> Bytes(r.mem, r.from, call.want)
       /\ pc' = call.then
       /\ call' = IF copying THEN [NoCall EXCEPT !.from = r.from, !.left = call.left]
                  ELSE NoCall
       /\ UNCHANGED <<chunked, wire, nesting, ends>>

\* The chunk in hand has enough (or the response has no chunks).
FillFromChunk ==
    /\ pc = "fill"
    /\ IF call.skip
       THEN \E r \in SkipStream(call.from, call.size) :
                Finish(r, call.remaining - call.size)
       ELSE \E r \in GetFromStream(call.from, call.size) :
                Finish(r, call.remaining)

\* Skipping: the rest of the chunk goes first.
SkipRestOfChunk ==
    /\ pc = "chunk"
    /\ \E r \in SkipStream(call.from, call.remaining) :
          /\ mem' = Live(r.mem, r.from, r.end)
          /\ streamDataEnd' = r.end
          /\ taken' = r.taken
          /\ dataPtr' = r.from
          /\ call' = [call EXCEPT !.from = r.from, !.remaining = 0,
                                  !.size = @ - call.remaining]
    /\ pc' = "header"
    /\ UNCHANGED <<chunked, wire, dataEnd, dataEnd0, contentEnd, chunkEnd,
                   nesting, history>>

\* mutant of HeaderNeeds: room for the longest header is asked for at once
HeaderNeedsLongest == call.size + HeaderMax

\* How many bytes the loop wants in the buffer before it looks for a header.
HeaderNeeds == IF call.skip THEN Minimum(call.size + call.hdr, SkipAhead)
               ELSE call.size + call.hdr

\* mutant of DropHeader: the bytes not consumed fit in one word
DropHeaderWord(m, from, rest, start, stop, end) ==
    IF end > stop + Word
    THEN [mem  |-> Moved(m, stop - Word, start - Word, Word),
          from |-> from + (stop - start), end |-> end]
    ELSE [mem  |-> Moved(m, start, stop, Word),
          from |-> from, end |-> end - (stop - start)]

\* The bytes not consumed are moved over the header, or, when little of the new
\* chunk is there, what there is of it is moved down over the header.
DropHeader(m, from, rest, start, stop, end) ==
    IF end > stop + Word
    THEN [mem  |-> CASE rest = 0 -> m
                     [] rest \in 1..Word -> Moved(m, stop - Word, start - Word, Word)
                     [] OTHER -> Moved(m, stop - rest, from, rest),
          from |-> from + (stop - start),
          end  |-> end]
    ELSE [mem  |-> Moved(m, start, stop, Word),
          from |-> from,
          end  |-> end - (stop - start)]

\* Read the header of the next chunk and join its data to the rest.  In a build
\* with assertions a skip may stop here (data_reader_http.cpp:218, from is too near
\* to the end of the buffer); the build without goes on, and makes the room.
NextChunk ==
    /\ pc = "header"
    /\ \E r \in GetFromStream(call.from, HeaderNeeds) :
          LET start == r.from + call.remaining
              h == ParseChunkHeader(r.mem, start, r.end)
          IN /\ taken' = r.taken
             /\ CASE h.is = "malformed" ->
                       /\ pc' = "malformed"
                       /\ UNCHANGED <<mem, streamDataEnd, call>>
                  [] h.is = "more" ->
                       /\ mem' = r.mem
                       /\ streamDataEnd' = r.end
                       /\ call' = [call EXCEPT !.from = r.from, !.hdr = @ + 2]
                       /\ pc' = "header"
                  [] OTHER ->
                       LET d == IF call.skip
                                THEN [mem |-> r.mem, from |-> h.end, end |-> r.end]
                                ELSE DropHeader(r.mem, r.from, call.remaining,
                                                start, h.end, r.end)
                           rest == call.remaining + h.size
                       IN /\ mem' = Live(d.mem, d.from, d.end)
                          /\ streamDataEnd' = d.end
                          /\ call' = [call EXCEPT !.from = d.from, !.hdr = HeaderMin,
                                                  !.remaining = rest]
                          /\ pc' = IF rest >= call.size THEN "fill"
                                   ELSE IF call.skip THEN "chunk" ELSE "header"
    /\ UNCHANGED <<chunked, wire, barriers, nesting, history>>

-----------------------------------------------------------------------------
(***************************************************************************)
(* Messages and containers, driven by next() and by the application.       *)
(***************************************************************************)

\* The length of the next message is read (readNextMessageInBlock) ...
ReadSize ==
    /\ pc = "between"
    /\ Access(1, FALSE, "sized")
    /\ Keep(nesting)

\* ... and becomes its content (setMessageSize).
SetMessageSize ==
    /\ pc = "sized"
    /\ \E m \in Lengths :
          /\ contentEnd' = dataPtr + m
          /\ dataEnd' = Within(dataPtr + m, dataEnd)
          /\ ends' = <<pos + m>>
    /\ dataEnd0' = dataEnd
    /\ depth' = 0
    /\ pc' = "user"
    /\ UNCHANGED <<chunked, wire, buffers, dataPtr, chunkEnd, eOfs, call, pos, out>>

\* The application reads or skips a field, in a content that is not at its end
\* (endOfContent() gives NULL without touching anything).
Field ==
    /\ pc = "user"
    /\ dataPtr # contentEnd
    /\ \E n \in Fields, skip \in BOOLEAN : Access(n, skip, "user")
    /\ Keep(nesting)

\* getBytes, the body of a string: what the buffer has is copied, then one byte
\* more is asked for, until call.left bytes are copied; only then dataPtr moves.
ReadString ==
    /\ pc = "user"
    /\ dataPtr # contentEnd
    /\ \E n \in Lengths :
          call' = [NoCall EXCEPT !.from = dataPtr, !.left = n]
    /\ pc' = "copying"
    /\ out' = <<>>
    /\ UNCHANGED <<chunked, wire, buffers, barriers, nesting, pos, ends>>

CopyBytes ==
    /\ pc = "copying"
    /\ LET have == dataEnd - call.from
       IN IF have >= call.left
          THEN /\ out' = out \o Bytes(mem, call.from, call.left)
               /\ pos' = pos + call.left
               /\ dataPtr' = call.from + call.left
               /\ mem' = Live(mem, dataPtr', streamDataEnd)
               /\ call' = NoCall
               /\ pc' = "user"
          ELSE /\ out' = out \o Bytes(mem, call.from, have)
               /\ pos' = pos + have
               /\ Cross(call.from + have, 1, FALSE, call.left - have, "copying")
               /\ UNCHANGED <<mem, dataPtr>>
    /\ UNCHANGED <<chunked, wire, streamDataEnd, taken, dataEnd, dataEnd0,
                   contentEnd, chunkEnd, nesting, ends>>

\* A container starts with its size; 0 is NULL, and a size beyond the rest of
\* the content around it is cut (openContainer).
OpenContainer ==
    /\ pc = "user"
    /\ dataPtr # contentEnd
    /\ Access(1, FALSE, "opening")
    /\ Keep(nesting)

SetContainer ==
    /\ pc = "opening"
    /\ \E s \in Lengths \cup {0} :
          LET rest == contentEnd - dataPtr
              size == Minimum(s, rest)
          IN IF s = 0
             THEN /\ pc' = "user"
                  /\ UNCHANGED <<barriers, nesting, ends>>
             ELSE IF depth >= MaxNested
             THEN /\ pc' = "threw"
                  /\ UNCHANGED <<barriers, nesting, ends>>
             ELSE /\ depth' = depth + 1
                  /\ eOfs' = [eOfs EXCEPT ![depth] = rest - size]
                  /\ contentEnd' = contentEnd - (rest - size)
                  /\ dataEnd' = Within(contentEnd', dataEnd0)
                  /\ ends' = Append(ends, Minimum(pos + s, Last(ends)))
                  /\ pc' = "user"
                  /\ UNCHANGED <<dataPtr, dataEnd0, chunkEnd>>
    /\ UNCHANGED <<chunked, wire, buffers, call, pos, out>>

\* closeContainer skips what is left of the contents ...
CloseContainer ==
    /\ pc = "user"
    /\ depth > 0
    /\ depth' = depth - 1
    /\ Access(contentEnd - dataPtr, TRUE, "closing")
    /\ Keep(eOfs)

\* ... and goes back to the content around it.
LeaveContainer ==
    /\ pc = "closing"
    /\ contentEnd' = contentEnd + eOfs[depth]
    /\ dataEnd' = Within(contentEnd', dataEnd0)
    /\ ends' = Front(ends)
    /\ pc' = "user"
    /\ UNCHANGED <<chunked, wire, buffers, dataPtr, dataEnd0, chunkEnd, nesting,
                   call, pos, out>>

\* skipArray, skipObject.
SkipContainer ==
    /\ pc = "user"
    /\ dataPtr # contentEnd
    /\ Access(1, FALSE, "skipping")
    /\ Keep(nesting)

SkipContents ==
    /\ pc = "skipping"
    /\ \E s \in Lengths \cup {0} :
          Access(Minimum(s, contentEnd - dataPtr), TRUE, "user")
    /\ Keep(nesting)

\* mutant of Unread: what the buffer holds of the message
UnreadInBuffer == dataEnd - dataPtr

\* The bytes of the message not read yet: the open containers are unwound, at
\* the index the code uses, to find the end of the message.
Unread ==
    LET unwound[d \in 0..depth] == IF d = 0 THEN 0 ELSE unwound[d - 1] + eOfs[d]
    IN contentEnd + unwound[depth] - dataPtr

\* nextMessage() and, when the message was not read to its end or containers
\* are open, skipUnreadMessageBody(): what is left is skipped.
NextMessage ==
    /\ pc = "user"
    /\ depth > 0 => Careless
    /\ LET clean == contentEnd = dataPtr /\ depth = 0
       IN /\ call' = [NoCall EXCEPT !.want = IF clean THEN 0 ELSE Unread]
          /\ pc' = IF clean THEN "between" ELSE "unread"
    /\ contentEnd' = Far
    /\ dataEnd' = dataEnd0
    /\ depth' = 0
    /\ out' = <<>>
    /\ UNCHANGED <<chunked, wire, buffers, dataPtr, dataEnd0, chunkEnd, eOfs, pos, ends>>

SkipUnread ==
    /\ pc = "unread"
    /\ Access(call.want, TRUE, "between")
    /\ Keep(nesting)

-----------------------------------------------------------------------------
\* How many bytes the call under way wants in the buffer, from call.from on.
Asked == CASE pc = "fill"   -> call.size
           [] pc = "chunk"  -> call.remaining
           [] pc = "header" -> HeaderNeeds

Missing == Asked - (streamDataEnd - call.from)

InCall == {"fill", "chunk", "header"}

\* s->read() finds the connection closed.
EndOfStream ==
    /\ pc \in InCall
    /\ Missing > Left
    /\ pc' = "threw"
    /\ call' = NoCall
    /\ out' = <<>>
    /\ UNCHANGED <<chunked, wire, buffers, barriers, nesting, pos, ends>>

\* The cursor does not use a reader that threw but to close it.
Stopped == pc = "threw" /\ UNCHANGED vars

Read == FillFromChunk \/ SkipRestOfChunk \/ NextChunk \/ EndOfStream
Cursor == ReadSize \/ SetMessageSize \/ NextMessage \/ SkipUnread
Application == Field \/ ReadString \/ CopyBytes \/ OpenContainer \/ SetContainer
               \/ CloseContainer \/ LeaveContainer \/ SkipContainer \/ SkipContents

Next == Read \/ Cursor \/ Application \/ Stopped

\* The HTTP header was read into the buffer together with some of the body; of
\* a chunked one the last line end belongs to the first chunk's header.
Init ==
    /\ \E w \in Wires : chunked = w.chunked /\ wire = Body(w)
    /\ taken \in (IF chunked THEN 2 ELSE 0)..Minimum(BufferSize, Len(wire))
    /\ mem = [a \in Memory |-> IF a \in 0..(taken - 1) THEN wire[a + 1] ELSE 0]
    /\ streamDataEnd = taken
    /\ dataPtr = 0
    /\ dataEnd = IF chunked THEN 0 ELSE taken
    /\ dataEnd0 = dataEnd
    /\ chunkEnd = 0
    /\ contentEnd = Far
    /\ depth = 0
    /\ eOfs \in [0..MaxNested -> IF Careless THEN {0, 1} ELSE {0}]
    /\ pc = "between"
    /\ call = NoCall
    /\ pos = 0
    /\ ends = <<0>>
    /\ out = <<>>

Spec == Init /\ [][Next]_vars

-----------------------------------------------------------------------------
Idle == {"between", "sized", "user", "opening", "closing", "skipping", "unread"}

\* Every pointer stays in the buffer and below the one that bounds it, however
\* the data is moved, dropped and read again.
TypeOK ==
    /\ streamDataEnd \in 0..BufferSize
    /\ taken \in 0..Len(wire)
    /\ pc \in Idle \cup InCall \cup {"copying", "threw", "malformed"}
    /\ pc \in Idle => dataPtr \in 0..dataEnd /\ dataEnd \in 0..streamDataEnd
    /\ pc \in InCall => call.from \in 0..streamDataEnd
    /\ depth \in 0..MaxNested

\* What a read returns is the payload that follows what was read and skipped
\* before: no byte of a chunk's header, none twice, none left out, wherever the
\* chunks and the socket's segments cut it (get, getBytes, getOrSkipChunked).
BytesInOrder == \A i \in 1..Len(out) : out[i] = pos - Len(out) + i

\* contentEnd and the offsets saved for the open containers are where the
\* server's sizes put them, although the data moved in the buffer since they
\* were computed (openContainer, closeContainer, get, skip).
ContentsEndWhereTheyShould ==
    pc \in {"user", "opening", "skipping"} =>
        /\ contentEnd - dataPtr = Last(ends) - pos
        /\ contentEnd >= dataPtr
        /\ Len(ends) = depth + 1
        /\ \A d \in 1..depth : eOfs[d - 1] = ends[d] - ends[d + 1]

\* next() goes on at the end of the last message, whatever of it was read
\* (nextMessage, skipUnreadMessageBody "Unwind stack to restore message end
\* pointer").
MessageIsLeftAtItsEnd ==
    /\ pc = "unread" => pos + call.want = ends[1]
    /\ pc = "between" => pos = ends[1]

Payload == Cardinality({i \in 1..Len(wire) : wire[i] > 0})

WireEnd(p) == CHOOSE i \in 1..Len(wire) : wire[i] = p

\* A read does not wait for more of the response than what it returns, so that
\* a live cursor gets a message when its last byte is there and not when the
\* next one is; and a well-formed header of a chunk is never refused, in however
\* many pieces it comes (the sizes getOrSkipChunked asks getFromStream for, and
\* parseChunkHeader: "In rare cases, we must reparse").
HeadersAreReadAsTheyCome ==
    /\ pc # "malformed"
    /\ pc \in InCall /\ pos + call.want <= Payload =>
          taken + Missing <= WireEnd(pos + call.want)
=============================================================================
