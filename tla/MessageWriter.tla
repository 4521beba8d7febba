---------------------------- MODULE MessageWriter ----------------------------
(***************************************************************************)
(* How a loader builds messages in its buffer (data_writer.cpp,            *)
(* data_writer_impl.h, and the calls of tickloader_http.cpp that start, end *)
(* and give up a message).  A nested container is opened with one byte for  *)
(* its length.  When it turns out to need two or three, the place is noted  *)
(* (an expansion point) and the bytes are moved apart when the message ends. *)
(*                                                                         *)
(* The bytes of fields are those of the code (DataFields).  The length of a *)
(* container is packed the way the code packs it, with a byte of B values   *)
(* instead of 256, so that lengths of one, two and three bytes all occur in *)
(* messages of a few dozen bytes.                                          *)
(***************************************************************************)
EXTENDS DataFields

CONSTANTS B,            \* values of a byte of a container's length: 256
          MaxNested,    \* LOADER_MAX_NESTED_OBJECTS
          Capacity,     \* dataEnd - bufferStart
          HeaderBytes,  \* time, entity and type of a message
          Blocks,       \* sizes of the plain bytes one call writes
          FieldLists,   \* lists of encoded fields written one after the other
          Counts,       \* element counts of arrays, type indices of objects
          MaxMessages,  \* bound: messages in the buffer
          MaxCalls,     \* bound: calls that write, in the messages of the buffer
          NestLarge     \* TRUE: a container inside another may need more bytes

VARIABLES w,        \* the DataWriter: a record of its buffer and its containers
          pc,       \* "idle", "body" (MESSAGE_BODY), "threw", "broken"
          start,    \* messageStart_
          tokens,   \* what the application wrote into the current message
          written   \* and into each message before it

vars == <<w, pc, start, tokens, written>>

Q == B \div 4       \* values in the low bits beside the two that tell the size
One == B \div 2     \* 0x80, the first length that one byte cannot hold
Two == Q * B        \* 0x4000, the first that two cannot

\* The bytes of fields written one after the other.
Encoded(fs) == FlattenSeq([i \in DOMAIN fs |-> Write(fs[i])])

ASSUME WriterAssumption ==
    /\ B % 4 = 0 /\ B <= 256
    /\ {B, MaxNested, Capacity, HeaderBytes} \subseteq Nat \ {0}
    /\ Capacity < Two * B
    /\ Blocks \subseteq Nat \ {0}
    /\ Counts \subseteq 1..(One - 1)
    /\ {MaxMessages, MaxCalls} \subseteq Nat
    /\ NestLarge \in BOOLEAN
    /\ \A fs \in FieldLists : Encoded(fs) \in Seq(0..255)

-----------------------------------------------------------------------------
(* The length of a container.                                              *)

\* writePackedUInt22, and what closeContainer leaves for expandHeaders.
Packed(v) ==
    CASE v < One -> <<v>>
      [] v \in One..(Two - 1) -> <<(v % Q) + 2 * Q, (v \div Q) % B>>
      [] OTHER -> <<(v % Q) + 3 * Q, (v \div Q) % B, (v \div Two) % B>>

\* getPackedUInt22.
GetPackedUInt22(bs, p) ==
    LET n == (bs[p] \div Q) - 1
        rest == FoldLeft(LAMBDA x, b : x * B + b, 0, Reverse(At(bs, p + 1, n)))
    IN IF bs[p] < One THEN [value |-> bs[p], next |-> p + 1]
       ELSE [value |-> (bs[p] % Q) + Q * rest, next |-> p + 1 + n]

-----------------------------------------------------------------------------
(* The steps of the writer, on the record w.                               *)

Put(v, bytes) == [v EXCEPT !.buf = @ \o bytes]
Fits(v) == Len(v.buf) <= Capacity
Depth(v) == Len(v.open)

MayNest(v) == Depth(v) < MaxNested

\* startMessage: room for the length of the message, nothing nested yet.
Started(v) ==
    [Put(v, LE(0, 4)) EXCEPT !.points = <<>>, !.extra[0] = 0, !.open = <<>>]

\* openContainer, then the count of an array or the type of an object.
Opened(v, isArray, count) ==
    [Put(v, <<0>> \o Packed(count)) EXCEPT
        !.open = Append(@, [header |-> Len(v.buf), isArray |-> isArray]),
        !.extra[Depth(v) + 1] = 0]

\* The length of the container that closes, as it will be once expanded.
LengthOf(v) == Len(v.buf) - Last(v.open).header - 1 + v.extra[Depth(v)]

\* closeContainer: a length too big for its byte is noted, with its place.
Closed(v) ==
    LET d == Depth(v) - 1
        content == Last(v.open).header + 1
        length == LengthOf(v)
        small == [v EXCEPT !.open = Front(@), !.buf[content] = length % B]
    IN IF length < One THEN small
       ELSE [small EXCEPT
                !.extra[d] = @ + Len(Packed(length)) - 1,
                !.points = Append(@, [at |-> content, packed |-> Packed(length)])]

\* mutant of MoveApart: the header is put where its one byte was.
MoveApartNotHeader(s, point) ==
    LET end == point.at - 1
        offset == s.offset - (Len(point.packed) - 1)
    IN [buf |-> [i \in DOMAIN s.buf |->
                    CASE i - s.offset \in (point.at + 1)..s.end -> s.buf[i - s.offset]
                      [] i - end \in DOMAIN point.packed -> point.packed[i - end]
                      [] OTHER -> s.buf[i]],
        end |-> end, offset |-> offset,
        sane |-> s.sane /\ point.at <= s.end /\ offset >= 0]

\* mutant of MoveApart: the last byte is not moved.
MoveApartShort(s, point) ==
    LET end == point.at - 1
        offset == s.offset - (Len(point.packed) - 1)
        header == end + offset
    IN [buf |-> [i \in DOMAIN s.buf |->
                    CASE i - s.offset \in (point.at + 1)..(s.end - 1) -> s.buf[i - s.offset]
                      [] i - header \in DOMAIN point.packed -> point.packed[i - header]
                      [] OTHER -> s.buf[i]],
        end |-> end, offset |-> offset,
        sane |-> s.sane /\ point.at <= s.end /\ offset >= 0]

\* One turn of expandHeadersImplBasic: the bytes behind a header move by the
\* offset, and the header, grown, fills the gap.  The size to move wraps when
\* the point is behind the end, and the assertion fails on an offset below 0.
MoveApart(s, point) ==
    LET end == point.at - 1
        offset == s.offset - (Len(point.packed) - 1)
        header == end + offset
    IN [buf |-> [i \in DOMAIN s.buf |->
                    CASE i - s.offset \in (point.at + 1)..s.end -> s.buf[i - s.offset]
                      [] i - header \in DOMAIN point.packed -> point.packed[i - header]
                      [] OTHER -> s.buf[i]],
        end |-> end, offset |-> offset,
        sane |-> s.sane /\ point.at <= s.end /\ offset >= 0]

\* expandHeaders: from the last point to the first.
Expanded(v, from) ==
    LET extra == v.extra[0]
        n == Len(v.points)
        moved[k \in 0..n] ==
            IF k = 0 THEN [buf |-> v.buf \o LE(0, extra), end |-> Len(v.buf),
                           offset |-> extra, sane |-> TRUE]
            ELSE MoveApart(moved[k - 1], v.points[n - k + 1])
        s == moved[n]
    IN [v |-> [v EXCEPT !.buf = s.buf],
        sane |-> s.sane /\ s.offset = 0 /\ s.end > from]

\* mutant of TooBig: only the bytes before the expansion are counted.
TooBigBefore(v) == Len(v.buf) > Capacity

\* finishMessage: the expanded message must fit as well.
TooBig(v) == Len(v.buf) + v.extra[0] > Capacity

\* endMessage: what is left of the writer, and how it went.
Ended(v, from) ==
    LET e == Expanded(v, from)
        done == IF v.extra[0] = 0 THEN v ELSE e.v
        size == BE(Len(done.buf) - from, 4)
    IN CASE Depth(v) # 0 \/ (v.extra[0] # 0 /\ TooBig(v)) -> [v |-> v, pc |-> "threw"]
         [] Depth(v) = 0 /\ v.extra[0] # 0 /\ ~TooBig(v) /\ ~e.sane ->
                [v |-> v, pc |-> "broken"]
         [] OTHER -> [pc |-> "idle",
                      v |-> [done EXCEPT !.buf = [i \in DOMAIN @ |->
                                IF i \in (from - 3)..from THEN size[i - from + 4]
                                ELSE @[i]]]]

\* cancelMessage.
Cancelled(v, from) == [v EXCEPT !.buf = SubSeq(@, 1, from - 4)]

-----------------------------------------------------------------------------
(* The calls of the application.                                           *)

CallsFor(token) == IF token.call = "fields" THEN Len(token.fields) ELSE 1
CallsMade == FoldLeft(LAMBDA n, t : n + CallsFor(t), 0, FlattenSeq(written) \o tokens)

\* startMessage, the time and the entity.  The four bytes of startMessage fit:
\* endMessage sends what is collected from minChunkSize_ on, 8 KB of a buffer of
\* 4 MB (that the bytes are sent is not modelled here: they stay in buf)
Start(v) ==
    LET s == Started(v)
        h == Put(s, LE(0, HeaderBytes))
    IN /\ Fits(s)
       /\ w' = h
       /\ start' = Len(s.buf)
       /\ pc' = IF Fits(h) THEN "body" ELSE "threw"
       /\ tokens' = <<>>

\* nextInternal<true> (next) and nextInternal<false> (beginMessage): the message
\* that is being written is ended or given up, then another one starts.
NextMessage(shouldCommit) ==
    \/ /\ pc = "idle" /\ Len(written) < MaxMessages
       /\ Start(w)
       /\ UNCHANGED written
    \/ /\ pc = "body" /\ shouldCommit /\ Len(written) + 1 < MaxMessages
       /\ LET e == Ended(w, start)
          IN IF e.pc = "idle"
             THEN Start(e.v) /\ written' = Append(written, tokens)
             ELSE /\ w' = e.v /\ pc' = e.pc
                  /\ UNCHANGED <<start, tokens, written>>
    \/ /\ pc \in {"body", "threw"} /\ ~shouldCommit
       /\ Start(Cancelled(w, start))
       /\ UNCHANGED written

\* commitMessage.
CommitMessage ==
    /\ pc = "body"
    /\ LET e == Ended(w, start)
       IN /\ w' = e.v
          /\ pc' = e.pc
          /\ IF e.pc = "idle" THEN written' = Append(written, tokens) /\ tokens' = <<>>
             ELSE UNCHANGED <<written, tokens>>
    /\ UNCHANGED start

\* A call that only appends: it throws when the bytes do not fit.
Appended(v, token) ==
    /\ w' = v
    /\ pc' = IF Fits(v) THEN "body" ELSE "threw"
    /\ tokens' = Append(tokens, token)
    /\ UNCHANGED <<start, written>>

Throws(v) == w' = v /\ pc' = "threw" /\ UNCHANGED <<start, tokens, written>>

CanWrite(calls) == pc = "body" /\ CallsMade + calls <= MaxCalls

\* n bytes, each another one.
Plain(n) == [i \in 1..n |-> i % 256]

\* putBytes and the writers of plain numbers.
WriteBlock(n) ==
    /\ CanWrite(1)
    /\ Appended(Put(w, Plain(n)), [call |-> "block", size |-> n])

WriteFields(fs) ==
    /\ CanWrite(Len(fs))
    /\ Appended(Put(w, Encoded(fs)), [call |-> "fields", fields |-> fs])

\* writeArrayStart, writeObjectStart.
OpenContainer(isArray, count) ==
    /\ CanWrite(1)
    /\ IF ~MayNest(w) THEN Throws(w)
       ELSE Appended(Opened(w, isArray, count),
                     [call |-> "open", isArray |-> isArray, count |-> count])

\* writeArrayEnd, writeObjectEnd.
CloseContainer(isArray) ==
    /\ CanWrite(1)
    /\ Depth(w) >= 2 => NestLarge \/ LengthOf(w) < One
    /\ IF Depth(w) = 0 THEN Throws(w)
       ELSE IF Last(w.open).isArray # isArray THEN Throws([w EXCEPT !.open = Front(@)])
       ELSE Appended(Closed(w), [call |-> "close"])

Init ==
    /\ w = [buf |-> <<>>, open |-> <<>>, points |-> <<>>,
            extra |-> [d \in 0..MaxNested |-> 0]]
    /\ pc = "idle" /\ start = 0 /\ tokens = <<>> /\ written = <<>>

Next ==
    \/ \E shouldCommit \in BOOLEAN : NextMessage(shouldCommit)
    \/ CommitMessage
    \/ \E n \in Blocks : WriteBlock(n)
    \/ \E fs \in FieldLists : WriteFields(fs)
    \/ \E isArray \in BOOLEAN, count \in Counts : OpenContainer(isArray, count)
    \/ \E isArray \in BOOLEAN : CloseContainer(isArray)

Spec == Init /\ [][Next]_vars

-----------------------------------------------------------------------------
(* What the server reads (data_reader.cpp): the messages by their lengths,  *)
(* and in each the calls that were made to write it.                       *)

Reading(p, end) == [p |-> p, ends |-> <<end>>, ok |-> TRUE]

ReadNextField(r, f) ==
    LET x == ReadField(f, w.buf, r.p)
    IN IF ~r.ok \/ r.p > Head(r.ends) THEN [r EXCEPT !.ok = FALSE]
       ELSE [r EXCEPT !.p = x.next,
                      !.ok = x.next <= Head(r.ends) + 1 /\ Means(f, x.value)]

ReadCall(r, token) ==
    LET end == Head(r.ends)
        length == GetPackedUInt22(w.buf, r.p)
        count == GetPackedUInt22(w.buf, length.next)
    IN CASE ~r.ok \/ (token.call # "close" /\ r.p > end) -> [r EXCEPT !.ok = FALSE]
         [] r.ok /\ token.call = "block" ->
              [r EXCEPT !.p = @ + token.size,
                        !.ok = /\ r.p + token.size <= end + 1
                               /\ At(w.buf, r.p, token.size) = Plain(token.size)]
         [] r.ok /\ token.call = "fields" -> FoldLeft(ReadNextField, r, token.fields)
         [] r.ok /\ token.call = "open" ->
              [r EXCEPT !.p = count.next,
                        !.ends = <<length.next + length.value - 1>> \o @,
                        !.ok = /\ length.next + length.value - 1 <= end
                               /\ count.value = token.count]
         [] OTHER -> [r EXCEPT !.ends = Tail(@), !.ok = r.p = end + 1]

\* A message: its length, its header, what was written and nothing else.
ReadMessage(r, ts) ==
    LET body == r.p + 4
        end == body + FromBE(At(w.buf, r.p, 4)) - 1
        m == FoldLeft(ReadCall, Reading(body + HeaderBytes, end), ts)
    IN IF ~r.ok THEN r
       ELSE IF end > Len(w.buf) THEN [r EXCEPT !.ok = FALSE]
       ELSE [r EXCEPT !.p = end + 1, !.ok = m.ok /\ m.p = end + 1]

-----------------------------------------------------------------------------
(* Properties.                                                             *)

\* The variables have the types the code gives them, and a call that returns
\* leaves the message inside the buffer, its headers expanded or not.
TypeOK ==
    /\ pc \in {"idle", "body"} => Fits(w)
    /\ w.buf \in Seq(0..255)
    /\ w.open \in Seq([header : 0..Capacity, isArray : BOOLEAN])
    /\ Depth(w) <= MaxNested
    /\ w.points \in Seq([at : 1..Capacity, packed : Seq(0..(B - 1))])
    /\ w.extra \in [0..MaxNested -> 0..Capacity]
    /\ pc \in {"idle", "body", "threw", "broken"}
    /\ start \in 0..(Capacity + 4)

\* When no message is being written, the buffer holds the messages that were
\* committed, and each reads back as it was written: every field has its value,
\* every container its length, wherever the bytes were moved to.
CommittedReadsBack ==
    pc = "idle" =>
        LET r == FoldLeft(ReadMessage, [p |-> 1, ok |-> TRUE], written)
        IN r.ok /\ r.p = Len(w.buf) + 1

\* How much the headers at the first n of the points grow.
Growth(points, n) ==
    LET sum[k \in 0..Len(points)] ==
            IF k = 0 THEN 0 ELSE sum[k - 1] + Len(points[k].packed) - 1
    IN sum[n]

\* The room kept for the headers that will grow is what they grow by, so that
\* the bytes moved apart close up exactly (data_writer_impl.h:237, the assertion
\* on extraSize and the expansion points).
ExtraIsWhatPointsNeed ==
    pc = "body" /\ Depth(w) = 0 => w.extra[0] = Growth(w.points, Len(w.points))

\* The place of the k-th header that grows; the buffer begins and ends with one.
PlaceOf(v, k) ==
    CASE k = 0 -> 0
      [] k \in DOMAIN v.points -> v.points[k].at
      [] OTHER -> Len(v.buf) + 1

\* The room is exact, and a message that is committed has every header that
\* grew where its one byte was, and between two of them the bytes that were
\* between them: nothing is overwritten before it is moved, and no byte of it or
\* of a message before it is lost (the length in front of the message aside,
\* which is filled in).
HeadersGrowInPlace ==
    /\ []ExtraIsWhatPointsNeed
    /\ [][written' # written =>
            \A k \in 0..Len(w.points) :
               LET shift == Growth(w.points, k)
                   packed == w.points[k].packed
                   grown == PlaceOf(w, k) + shift - Len(packed) + 1
               IN /\ \A p \in (PlaceOf(w, k) + 1)..(PlaceOf(w, k + 1) - 1) :
                        p \in (start - 3)..start \/ w'.buf[p + shift] = w.buf[p]
                  /\ k = 0 \/ At(w'.buf, grown, Len(packed)) = packed]_vars

\* The headers of a message can always be expanded: data_writer.cpp:1135 asserts
\* that the offset left is not negative, and 1138 throws when anything is left over.
NoLogicError == pc # "broken"
=============================================================================
