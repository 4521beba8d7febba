----------------------------- MODULE TickLoader -----------------------------
(***************************************************************************)
(* What a tick loader writes: the calls of one application thread on an    *)
(* open TickLoaderImpl (tickloader_http.cpp), from the message buffer to   *)
(* the connection, and what the server makes of it.                        *)
(*                                                                         *)
(* The data is a sequence of tokens: message blocks (BLOCK, messages,      *)
(* BLOCK_END), instrument blocks, each of which declares the next entity   *)
(* id and stands between message blocks, and one TERMINATOR.               *)
(*                                                                         *)
(* A call is a step; finish() is two, with the wait for the writing thread *)
(* in between, in which that thread may go on calling.  The steps of a     *)
(* call are operators on the writer `w`: an exception (`thrown`) skips     *)
(* those that are left.                                                    *)
(***************************************************************************)
EXTENDS Integers, Sequences, FiniteSets, SequencesExt

CONSTANTS Symbols,      \* instruments the application writes messages of
          MaxMessages,  \* bound: the messages it begins
          MinChunk,     \* minChunkSize_, in tokens: 0 for minLatency
          EntityLimit   \* the first entity id that does not fit the header

ASSUME BoundsAssumption ==
    MaxMessages \in Nat /\ MinChunk \in Nat /\ EntityLimit \in Nat

VARIABLES
    w,             \* the writer, see TypeOK
    interruption,  \* interruption_: "over" is any value beyond STOPPING
    up,            \* sending on the connection works
    finishing,     \* finishInternal is between its two parts
    broken         \* history: the server ended the upload, or the connection
                   \* broke, while the loader was writing

vars == <<w, interruption, up, finishing, broken>>

-----------------------------------------------------------------------------

NotInterrupted == {"working", "stopping"}

\* a message under construction: whole once its header is complete, nested
\* while an array or object in it is not closed; symbol is what the application
\* means by its entity
NoMessage == [id |-> 0, entity |-> 0, symbol |-> "", whole |-> TRUE, nested |-> FALSE]
NewMessage(i, e, s) ==
    [NoMessage EXCEPT !.id = i, !.entity = e, !.symbol = s]

BLOCK           == [tag |-> "block"]
BLOCK_END       == [tag |-> "block_end"]
TERMINATOR      == [tag |-> "terminator"]
Instrument(s)   == [tag |-> "instrument", symbol |-> s]
MessageToken(m) == [tag |-> "message", id |-> m.id, entity |-> m.entity, whole |-> m.whole]

\* the writer of a loader that open() returns
Opened ==
    [state  |-> "not_in_block",  \* state_, see enum State
     open   |-> NoMessage,       \* the message being written
     buf    |-> <<>>,            \* writePtr_ .. dataPtr, without `open`
     table  |-> <<>>,            \* tables_.instruments: entity id e is at e + 1
     sent   |-> <<>>,            \* what the connection took
     begun  |-> 0,               \* history: the messages begun so far
     ended  |-> <<>>,            \* history: the messages endMessage ended
     thrown |-> FALSE,           \* an exception is on its way out
     cut    |-> FALSE]           \* history: one came out of a half done call

isWriting == w.state # "finished"

Init ==
    /\ w = Opened
    /\ interruption = "working" /\ up = TRUE
    /\ finishing = FALSE /\ broken = FALSE

-----------------------------------------------------------------------------
(* The steps of a call.                                                    *)

Throw(v) == [v EXCEPT !.thrown = TRUE]
Put(v, token) == [v EXCEPT !.buf = Append(@, token)]

\* mutant: the writer is not told
checkNothing(v) == v

checkWriterInterruption(v) == IF interruption = "working" THEN v ELSE Throw(v)

\* flushOutputInternal: an interrupted loader drops what it holds; a write that
\* throws keeps it
Flush(v) ==
    IF interruption \notin NotInterrupted THEN [v EXCEPT !.buf = <<>>]
    ELSE IF up THEN [v EXCEPT !.sent = @ \o v.buf, !.buf = <<>>]
    ELSE Throw(v)

\* when it throws, the message stays open and is ended, or cancelled, again
endMessage(v) ==
    LET full   == [Put(v, MessageToken(v.open)) EXCEPT
                      !.ended = Append(@, [id |-> v.open.id, symbol |-> v.open.symbol])]
        tested == IF Len(full.buf) >= MinChunk THEN Flush(full) ELSE full
    IN  IF v.open.nested THEN [Throw(v) EXCEPT !.cut = TRUE]
        ELSE IF tested.thrown THEN Throw(v)
        ELSE [tested EXCEPT !.state = "start", !.open = NoMessage]

cancelMessage(v) == [v EXCEPT !.state = "start", !.open = NoMessage]

endMessageBlockIfNeeded(v) ==
    LET e == IF v.state = "body" THEN endMessage(v) ELSE v
    IN  IF e.thrown \/ e.state # "start" THEN e
        ELSE Put([e EXCEPT !.state = "not_in_block"], BLOCK_END)

\* mutant: the block of messages is not ended first
writeInstrumentInBlock(v, s) ==
    LET c == checkWriterInterruption(v)
    IN  IF c.thrown THEN c ELSE Put(c, Instrument(s))

writeInstrumentBlock(v, s) ==
    LET e == endMessageBlockIfNeeded(v)
        c == IF e.thrown THEN e ELSE checkWriterInterruption(e)
    IN  IF c.thrown THEN c ELSE Put(c, Instrument(s))

\* mutant: every call registers the symbol
getNewInstrumentId(v, s) ==
    writeInstrumentBlock([v EXCEPT !.table = Append(@, s)], s)

\* a new symbol enters the table before its block is written
getInstrumentId(v, s) ==
    IF s \in Range(v.table) THEN v
    ELSE writeInstrumentBlock([v EXCEPT !.table = Append(@, s)], s)

\* m is the new message; an entity id that is too big is noticed in the middle
\* of its header
nextInternal(v, m, shouldCommit) ==
    LET p == CASE v.state = "not_in_block" -> Put([v EXCEPT !.state = "start"], BLOCK)
               [] v.state = "body" /\ shouldCommit -> endMessage(v)
               [] v.state = "body" /\ ~shouldCommit -> cancelMessage(v)
               [] v.state = "start" -> v
               [] OTHER -> Throw(v)
        c == IF p.thrown THEN p ELSE checkWriterInterruption(p)
    IN  IF c.thrown THEN c
        ELSE LET b == [c EXCEPT !.state = "body", !.begun = m.id, !.open = m] IN
             IF m.entity < EntityLimit THEN b
             ELSE [Throw(b) EXCEPT !.open.whole = FALSE, !.cut = TRUE]

\* mutant: only a terminator follows what was sent so far
endAbruptly(v) ==
    LET e == endMessageBlockIfNeeded(v)
    IN  [IF e.thrown THEN e ELSE Flush([e EXCEPT !.buf = <<TERMINATOR>>])
            EXCEPT !.state = "finished"]

\* endWriting and flushOutput
endWriting(v) ==
    LET e == endMessageBlockIfNeeded(v)
        f == IF e.thrown THEN e ELSE Flush(e)
    IN  [IF f.thrown THEN f ELSE Flush(Put(f, TERMINATOR)) EXCEPT !.state = "finished"]

-----------------------------------------------------------------------------
(* The calls.                                                              *)

\* the application has caught what the call threw; it may still be calling
\* while another thread of it waits in finish()
Call(v) ==
    /\ w' = [v EXCEPT !.thrown = FALSE]
    /\ UNCHANGED <<interruption, up, finishing, broken>>

\* next and beginMessage with an entity id: with an unknown type or id they
\* throw and change nothing
BeginById(e, shouldCommit) ==
    /\ w.begun < MaxMessages
    /\ e \in 0 .. Len(w.table) - 1
    /\ Call(nextInternal(w, NewMessage(w.begun + 1, e, w.table[e + 1]), shouldCommit))

\* next and beginMessage with a symbol: the type is looked up second
BeginBySymbol(s, known, shouldCommit) ==
    LET v == getInstrumentId(w, s)
        e == CHOOSE i \in 0 .. Len(v.table) - 1 : v.table[i + 1] = s
    IN  /\ w.begun < MaxMessages
        /\ Call(IF v.thrown \/ ~known THEN Throw(v)
                ELSE nextInternal(v, NewMessage(v.begun + 1, e, s), shouldCommit))

GetInstrumentId(s) == Call(getInstrumentId(w, s))

\* the fields of a message: an array or object in it is started or finished
WriteField ==
    /\ w.state = "body" /\ w.open.whole
    /\ Call([w EXCEPT !.open.nested = ~@])

CommitMessage == w.state = "body" /\ Call(endMessage(w))

FlushBuffer == w.state = "start" /\ Call(Flush(w))

\* finish(), up to the end of the wait, which a timeout may end with a message
\* still open
BeginFinish ==
    /\ isWriting /\ ~finishing
    /\ interruption' = "stopping" /\ finishing' = TRUE
    /\ UNCHANGED <<w, up, broken>>

\* ... and its rest: the answer of the server may have come meanwhile
EndFinish ==
    LET v == IF w.state = "body" THEN cancelMessage(w) ELSE w IN
    /\ finishing
    /\ w' = [IF interruption \in NotInterrupted THEN endWriting(v)
             ELSE [v EXCEPT !.state = "finished"] EXCEPT !.thrown = FALSE]
    /\ finishing' = FALSE
    /\ UNCHANGED <<interruption, up, broken>>

-----------------------------------------------------------------------------
(* The other side: the manager's thread reads the final answer of the      *)
(* server, or a broken connection, which the writer may also meet first.   *)

Interrupt ==
    /\ isWriting /\ interruption \in NotInterrupted
    /\ interruption' = "over" /\ broken' = TRUE
    /\ UNCHANGED <<w, up, finishing>>

Break ==
    /\ isWriting /\ up
    /\ up' = FALSE /\ broken' = TRUE
    /\ UNCHANGED <<w, interruption, finishing>>

Next ==
    \/ \E e \in 0 .. MaxMessages, c \in BOOLEAN : BeginById(e, c)
    \/ \E s \in Symbols, k, c \in BOOLEAN : BeginBySymbol(s, k, c)
    \/ \E s \in Symbols : GetInstrumentId(s)
    \/ WriteField \/ CommitMessage \/ FlushBuffer
    \/ BeginFinish \/ EndFinish
    \/ Interrupt \/ Break

Spec == Init /\ [][Next]_vars

-----------------------------------------------------------------------------
(* The server, external: it reads tokens from the first to the last, gives *)
(* the instruments numbers in the order in which they come, and resolves   *)
(* the entity id of a message with them.                                   *)

ReadStart == [place |-> "between", names |-> <<>>, messages |-> <<>>]

ReadToken(r, t) ==
    CASE r.place = "between" /\ t.tag = "block"      -> [r EXCEPT !.place = "inside"]
      [] r.place = "between" /\ t.tag = "instrument" -> [r EXCEPT !.names = Append(@, t.symbol)]
      [] r.place = "between" /\ t.tag = "terminator" -> [r EXCEPT !.place = "end"]
      [] r.place = "inside" /\ t.tag = "block_end"   -> [r EXCEPT !.place = "between"]
      [] /\ r.place = "inside" /\ t.tag = "message"
         /\ t.whole /\ t.entity + 1 \in DOMAIN r.names ->
             [r EXCEPT !.messages = Append(@, [id |-> t.id, symbol |-> r.names[t.entity + 1]])]
      [] OTHER -> [r EXCEPT !.place = "error"]

ServerRead(tokens) ==
    LET read[n \in 0 .. Len(tokens)] ==
            IF n = 0 THEN ReadStart ELSE ReadToken(read[n - 1], tokens[n])
    IN  read[Len(tokens)]

-----------------------------------------------------------------------------

IdsOf(seq) == [i \in DOMAIN seq |-> seq[i].id]
MessagesOf(tokens) ==
    LET ids[n \in 0 .. Len(tokens)] ==
            IF n = 0 THEN <<>>
            ELSE IF tokens[n].tag = "message" THEN Append(ids[n - 1], tokens[n].id)
            ELSE ids[n - 1]
    IN  ids[Len(tokens)]

TypeOK ==
    /\ w.state \in {"not_in_block", "start", "body", "finished"}
    /\ w.open.id \in 0 .. w.begun /\ w.begun \in 0 .. MaxMessages
    /\ w.open # NoMessage <=> w.state = "body"
    /\ Range(w.table) \subseteq Symbols /\ Len(w.table) = Cardinality(Range(w.table))
    /\ w.thrown = FALSE /\ w.cut \in BOOLEAN
    /\ interruption \in NotInterrupted \cup {"over"}
    /\ up \in BOOLEAN /\ finishing \in BOOLEAN /\ broken \in BOOLEAN

\* While no answer of the server and no exception out of a half done call
\* disturbs the loader, what is sent and what is still in the buffer read, on
\* the other side, as exactly the messages the application ended, in their
\* order and each under the symbol it was written for: blocks are closed
\* before instruments, an instrument comes before the first use of its id, ids
\* agree with the server's count (getInstrumentId, writeInstrumentBlock)
ServerReadsWhatWasWritten ==
    (~broken /\ ~w.cut) =>
        LET r == ServerRead(w.sent \o w.buf) IN
        r.place # "error" /\ r.messages = w.ended

\* flush() and commitMessage() do not look at interruption_, so messages the
\* application ended can vanish without an exception; but then the next
\* message cannot be begun any more
Lost == \E i \in DOMAIN w.ended :
            w.ended[i].id \notin Range(MessagesOf(w.sent \o w.buf))

LossStopsTheWriter == [][Lost => w'.begun = w.begun]_vars

\* The loader keeps the promise
Promise == INSTANCE LoaderPromise WITH
    accepted  <- IdsOf(w.ended),
    delivered <- MessagesOf(w.sent),
    status    <- CASE broken -> "failed"
                   [] ~broken /\ isWriting -> "open"
                   [] ~broken /\ ~isWriting -> "complete"

KeepsPromise == Promise!Spec
=============================================================================
