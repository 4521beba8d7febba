# TimeBaseClientCpp in TLA+

A verification development for the C++ client of TimeBase (`src/dxapi`): TLA+
modules translated from its source, TLC configurations that check them on small
instances, and TLAPS proofs for what should hold in every instance. Paths below
are relative to `src/dxapi/native/tickdb/` unless they say otherwise.

## 1. The system and its parts

An application opens a database (`TickDbImpl`). The client then has three kinds
of connections to the server: one HTTP request per administrative call; one
*session* connection, on which the server announces what happens to streams; and
one connection per loader (upload) and per cursor (download). Two background
threads live in the client: the session's, and the one that polls all loaders
for answers. Everything else runs on the application's threads.

| Component | State it keeps | Operations | Talks to |
|---|---|---|---|
| Loader manager (`loader_manager.cpp`, `util/concurrent_object_set.h`) | the set of loaders, the set of those being removed, two locks, its thread | `add`, `remove` with or without waiting for the server, `processAll`/`process`, `start`, `stop` | calls `processResponse` of every loader on its own thread |
| Tick loader (`http/tickloader_http.cpp`, `data_writer*.{cpp,h}`) | the state of the writer, a message buffer, tables of instruments and types, `interruption_`, the stream | `open`, `next`, `beginMessage`, `commitMessage`, `flush`, `getInstrumentId`, the fields, `finish`, `close`, the destructor, `processResponse` | the socket; the manager; listeners of the application |
| Session handler (`session_handler.cpp`) | the stream, counts of requests and answers, streams to ask for, thread and its flags | `start`, the thread's loop with one handler per event, requests for definitions, `getStreamsSynchronous`, `verify`, `stop` | the stream cache; callbacks of the database |
| Stream cache (`tickstream_cache.cpp`) | streams by key | `add`, `get`, `tryRemove`, `clear` | written by the session's thread and by calls that delete streams |
| Database (`http/tickdb_http.cpp`, `http/tickdb_stream_requests.cpp`) | open or not, the parts above, cursors and loaders, the exception cork | `open`, `close`, the destructor, `getStream`, `listStreams`, `createStream`, `createLoader`, `select`, `executeRequest`, `onDisconnected`, `flushExceptions` | all of the above; the application's handler |
| Cursor (`http/tickcursor_http.cpp`, `http/tickcursor_subscriptions.cpp`) | two copies of the subscription (one read with, one changed), filters, tables; the stream and the flags that say who uses it | `select`, `next`, `add`/`removeEntities`, `add`/`removeTypes`, `reset`, `close`, the destructor | the socket; an HTTP request per command; the database's pool of cursors and its cork |
| Data writer (`data_writer.cpp`, `data_writer_impl.h`) | the buffer, the open containers, the headers still to be widened | one call per field type, `writeArrayStart`, `writeObjectStart` and their ends | used by the loader |
| Data reader, HTTP chunk reader (`data_reader*.cpp`, `data_reader_impl.h`, `http/data_reader_http.cpp`) | the buffer, the ends of chunk, message and containers, one barrier for all of them | one call per field type, skipping, `openContainer`, `closeContainer`, `nextMessage` | the socket; used by the cursor |
| Locks, sockets (`util`, `io`, `platform`) | | | everything |
| XML requests, schema, starter, proxy | none of lasting interest | formatting and parsing, processes | the server, the operating system |

### What is hard about it, and what makes each part correct

* **Loader manager.** Its thread works on raw pointers out of a copy of the set
  of loaders, reads through a copy of a loader's stream, and shares no lock with
  the application's threads but the one inside the set. Those finish loaders,
  free their streams, and delete and reallocate them, possibly at the same
  address; they may wait for the server, time out, or fail at any point; the
  database may close meanwhile, which joins the thread with a lock held.
  *Correct when* nothing is used after it was freed, a loader that was finished
  leaves nothing behind, and every call returns.
* **Tick loader.** A small state machine decides, from the whole history of
  calls, when blocks and messages are opened and closed, while exceptions,
  answers of the server and broken connections come between any two steps.
  *Correct when* the server reads what the application wrote, in order, each
  message under its instrument, and the application learns of losses.
* **Session handler.** Answers are counted, not matched with requests.
  Announcements travel on one connection while streams are created and deleted
  on others, so they arrive late. *Correct when* no call goes on with another's
  answer, a stream that is there is found, the cache settles on what the server
  has, and nobody waits for ever.
* **Cursor.** `next` reads with one copy of the subscription while other threads
  change the second; server commands, answers and local filters must agree.
  *Correct when* after each change the cursor returns exactly the entities and
  types the application asked for. Its end is decided by four volatile flags
  without a common lock, and by the lock, the pool and the cork of the database.
  *Correct when* nobody reads from a stream that was deleted, and `close` from any
  thread returns.
* **Database.** `close`, the callback of a broken connection, the application's
  handler of `onDisconnected` and the exception cork, which holds threads that
  want to throw, meet in any order. *Correct when* `close` returns, no cursor
  outlives it, and the cork is empty of those who were counted.
* **Data writer.** A container's length is written in one byte and widened when
  the message ends, by moving what follows, for all containers at once.
  *Correct when* what is committed reads back, and what is given up leaves no
  trace.
* **Data reader.** One comparison, `dataPtr` with `dataEnd`, guards the end of
  the data, of an HTTP chunk and of a message; behind it the buffer is moved and
  filled. *Correct when* the bytes come in order, each message is left at its
  end, and nothing waits for more than it needs.

`PROJECT.json` lists the places where these bite, each with the properties that
cover it (or why none does).

## 2. The modules

| Module | What it is |
|---|---|
| `LoaderManager` | life of loaders, the manager, and `TickDbImpl::close` |
| `TickLoader` | the writing side of one loader, and the server that reads it |
| `LoaderPromise` | abstract specification of a loader, implemented by `TickLoader` |
| `SessionHandler` | session, stream cache and the calls of the database that use them |
| `CursorFilter` | the filter a cursor keeps for entities, and the one for types: pure operators |
| `CursorSubscription` | the subscription of a cursor: the calls that change it, `next`, the server |
| `TickCursor` | the life of a cursor: flags, stream, `next` against `close` |
| `Database` | `EXTENDS TickCursor`: close and end of a database, session, handler, cork |
| `MessageReader` | buffer, HTTP chunks, messages and containers of a reader |
| `DataFields` | encoding and decoding of fields: pure operators |
| `MessageWriter` | `EXTENDS DataFields`: messages and containers in a loader's buffer |
| `HttpResponse` | how the answer to a request is read: pure operators |
| `LoaderManager_proofs`, `TickLoader_proofs`, `SessionHandler_proofs`, `CursorSubscription_proofs`, `CursorReturns_proofs`, `Database_proofs`, `MessageReader_proofs`, `MessageWriter_proofs` | what TLAPS proves about each of these modules (section 5) |
| `MC...` | definitions that only TLC's instances need, and the assumptions TLC evaluates over bounded inputs |

`LoaderManager` and `TickLoader` look at the same class from two sides.
What joins them is `interruption_`: in `LoaderManager` `processResponse` sets it
and `finish` overwrites it; in `TickLoader` those are the actions `Interrupt` and
`BeginFinish`. All values of `isWriting()` are one state in `LoaderManager`; the
buffer does not exist there. The manager and the allocation of loaders do not
exist in `TickLoader`.

### LoaderManager

A loader is an address. `state[l] = "none"` says that no object is there, so
`delete` followed by `new` at the same address is `Leave` and then
`BeginOpen`/`Open`. Each application thread has a program counter; a step ends
where another thread can get between: at a lock, at the exchange of `ioStream_`,
and at its `delete`. `Remove` and `Unlist` are the two locked parts of
`LoaderManager::remove`, with the wait (`StopWaiting`: answer or timeout, so it
has no condition) between them; `EndWriting` has the exits of `finishInternal`;
`Deregister`, `Disconnect`, `Free`, `Leave` are `cleanup`, `closeConnection` and
the ends of `finish`, `close` and the destructor. `Connect` is the handshake of
`open`. The manager's thread is `Snapshot`, `Serve`, `EnterProcess`,
`ReadResponse` with its handlers `RefuseInput` and `DropConnection`, and `Exit`.
`ReadResponse` takes the first byte of a block with `tryRead`, which does not
wait; what follows it is read in `ReadBlock`, which takes as long as the server
does.

The lock inside the set is `serving`: held for reading by the manager's thread
from the second look-up in `process` until `processResponse` returns, so an `add`
or a removal from the set waits for it. `thisLock_` is a variable.

Left out: listeners; a loader deleted while it still writes (the destructor runs
the same steps, but what they throw ends the program).

### TickLoader and LoaderPromise

Data is a sequence of tokens: block, message, end of block, instrument,
terminator. A call is one step, written as a chain of operators on the writer
record in the order of the code; an operator that throws sets `thrown`, which
skips the rest as the exception does. `finish` is two steps with the wait for the
writing thread between them, where an answer of the server can come and the
writing thread may go on calling.
`ServerRead`, external, reads tokens as the protocol has it.

`ended`, `begun`, `broken` and `cut` are history: what the application ended,
how many messages it began, whether the connection or upload ended while it was
writing, and whether an exception came out of a call that was half done.

`LoaderPromise` has three variables: the messages accepted, those handed to the
connection, and the status. `KeepsPromise` is the refinement: while open, what is
delivered is a prefix of what was accepted; a `finish` that succeeds delivers
everything; after a failure there may be gaps, but never a repetition or another
order.

### SessionHandler

The session's thread is `tpc`: `BeginEvent` finds the beginning of an event
(`tryRead`, with a timeout), `ProcessInput` reads the rest, for as long as the server
takes, and runs the handler, `RequestNeeded` is the end of the round, `LeaveLoop`,
`CutAnswer`, `DeleteStreamObject`, `CleanUp` and `Stopped` are its ways out. The
owner of the database is `CreateThread`, `AssignThread`, `Started` (which `open`
goes through) and `BeginStop`, `EndStop`. Calls are `GetStream`, `ListStreams`,
`CreateStream` (which ends as `getStream`), `DeleteStream` and
`VerifyConnection`; `Ask`, `EndWait`, `Read` and `Remove` are their steps.
The server, external, is `Serve`, `Change`, `EndSession` and `Break`: it answers in
order and announces in order, and the connection can break anywhere.

`Send` is `requestGetStreams`: the request is numbered whether or not it can be
sent, as in the code. An answer that cannot be parsed is counted like any other, and
its streams are lost (`ReceiveDefinition`): `processInput` ignores the exception.

### CursorFilter and CursorSubscription

`CursorFilter` is data: a filter is a record of the names met (the server's
number is the place in the sequence), the table with its default
(`dynamic_lut.h`), and the names a call named before they were met
(`isUnregisteredSymbolSkipped_`, `isUnregisteredMessageTypeSkipped_`). `Modify`
is the body of `modifyEntities` and `modifyTypes`, `RegisterInstrument` and
`RegisterMessageType` are what `next` does with a new name.

`CursorSubscription` uses it twice in each of the two copies of the state,
`copy[main]` and `copy[shadow]`. A call is `BeginCall` (take the lock, change the
filters of the shadow, as `getWriteShadowState` and the body do), then the
request: the server's `AcceptCall`, and `RequestAnswered`, `AnswerMalformed` or
`RequestFails`. `thisLock_` is held over these steps, as in the code. The server,
external, follows the calls in order, later (`ApplyCall`, which puts the
command's number among the messages); it numbers names and sends messages of
what is subscribed to (`SendEntity`, `SendType`, `SendMessage`), and a
terminator when it has no more. `next` is `CallNext`, one action per kind of
block (`ReadEntity`, `ReadMessageType`, `ReadCommand`, `ReadTerminator`,
`ReadHeader`), `Filter` and `End`. `ReadHeader` ends where the unlocked reading of
`mainState_` begins.

`asked` and `askedThen` are history: what the calls so far add up to by
`Subscribed`, which knows nothing of filters. `unsure` holds the names for which
nobody can say: a request that named them failed, or they were asked for and
against before they were met (section 4). `stuck` says that a reset failed.

The copy that `next` leaves behind is set to a fixed value: the code overwrites
it (`*s = *mainState_`) before anybody reads it, and states that differ in it
alone would be counted apart.

Left out: the filter of streams, which is never read; the time of a new
subscription; `nextIfAvailable` and pings; `close` and disconnection; what tells
STARTED from READING; several messages in one block.

### TickCursor and Database

`TickCursor` is the cursor as its threads see it: the flags `state`,
`isInterrupted`, `isInNext`, `isOpen`, read and written one at a time, and the
connection. `Reader` selects (`Connect`, `ReadHeader`, `Opened`, `SelectFails`), calls
`next` or `nextIfAvailable` (`CallNext`, `Check`, `Poll`, `ReadMessage`, `ReadTerminator`,
`NothingAvailable`, `ReadEnd`, `ReadError`, `LeaveNext`) and deletes (`Delete`, `Free`); each of
`Closers` may go through `close`: it takes `closeLock_` (`LockToClose`), interrupts and
sends the request, waits for `next` to leave (`Wait`), reads the rest itself (`Drain`,
`ReadRemainder`), and ends in `doClose` (`DeleteStream`, `RemoveFromPool`, `Unopen`). What a
message holds is left to `CursorSubscription`.

`Database` adds what surrounds it: `Open`, `Select`, `TickDbImpl::close` in its
order (`LockDb`, `StopSession`, `SessionStopped`, `CloseCursors`, `ClearCache`, `EndClose`,
`DeleteDb`), the session's thread from the end of its loop (`LeaveLoop`, `Stopped`,
`OnDisconnected`, the application's handler, which may call `close` or delete the
database, `ThreadEnds`), and the exception cork: `VerifyConnection` is
`onDisconnectedCallback` of a connection that failed, `Held` the threads that wait,
`Uncorked` and `HeldTooLong` (five seconds) the two ways out, and `ReadCount`, `Uncork`,
`Flushed` are `flushExceptions`. `told`, `closing`, `wasOpen` and `counted` are history.

`Mishaps` names what the application or the network may do that makes `close`
give up its care: `next` called during `close`, the wait that runs out, the request
that fails. They are all on in run `Database`; the liveness run has none of them.

### MessageReader

The wire is a sequence of bytes; payload byte number *i* is the number *i*, so that
the bytes a read returns show at once whether they are the right ones. All
pointers of the code are variables, and `mem` is the buffer with its guard areas. A
read below the barrier only moves `dataPtr`; one across it (`Access`) becomes a
`call` that goes through `FillFromChunk`, `SkipRestOfChunk` and `NextChunk` until it is
done. How many bytes the socket returns each time is chosen freely. What is modelled
is a release build: the assertion at `http/data_reader_http.cpp:218` stops a debug build in
states of run `MessageReader` (section 4). The sizes in the payload are chosen when they are read (`SetMessageSize`,
`SetContainer`): the server may have written any. `pos`, `ends` and `out` are history.

### DataFields and MessageWriter

`DataFields` has the bytes of packed integers, binaries, intervals, compressed
times, alphanumerics and UTF-8, as `data_writer.cpp` writes and `data_reader.cpp`
reads them. `CharsOfUTF16` and `CharsOfUTF8` say what the two encodings of text mean,
apart from the code.

`MessageWriter` puts such fields into a buffer. `NextMessage` is the part of
`beginMessage` that concerns the writer (commit or give up, `startMessage`),
`CommitMessage` ends a message (`expandHeaders`, then the length in front);
`WriteBlock`, `WriteFields`, `OpenContainer` and `CloseContainer` are the calls in
between. `MoveApart` is one turn of the loop in `expandHeaders`. `tokens` and `written` are what
the application wrote; `ReadMessage`, external, reads the buffer as the server would, with
the client's own decoders.

### HttpResponse

`executeRequest(wire)` is what the caller of `TickDbImpl::executeRequest` gets when the
server sent exactly `wire` before the connection ended: header up to the empty line,
code, and a body that is counted, chunked, or ended by the connection. The
assumption `AnswersAreWholeOrThrown` (`MCDatabase`) compares it with `Told`, for every
way to cut a response: the whole answer or an exception, except for a body that has
no end but the connection's.

## 3. The runs

| Run | Instance | What it shows |
|---|---|---|
| `LoaderManager` | 2 loaders, a thread each, manager, closer; 1.02 million states | nothing used after it is freed, nothing left behind |
| `LoaderManagerLive` | 1 loader, 1 thread, manager, closer | `close` comes back if the server finishes the blocks it began; every call does if the server also reads and answers |
| `TickLoader` | 3 instruments, 3 messages, an id limit of 2, chunks of 4 tokens; 41 thousand states | the server reads what was written; a loss stops the writer; the promise is kept |
| `SessionHandler` | 2 streams, 2 threads, 1 change elsewhere, 2 calls; 4.3 million states | answers and requests agree, streams are found, the cache settles |
| `SessionHandlerLive` | 1 stream, 1 thread, 2 changes, 2 calls | `stop` ends if the server finishes the events it began; calls come back while the session lasts if it also reads and answers |
| `CursorSubscription` | 1 entity, 1 type and 1 system type, 2 calls, 1 fault, 2 blocks on the way; 4.7 million states | `next` returns and drops what it should, no name or command is lost between the copies, the end does not hide a restart |
| `Database` | 1 cursor, its reader, owner, session, 1 writer, all mishaps; 1.46 million states | no stream used after it is freed, the pool has no dangling cursor, `close` leaves none open, the cork empties, the handler comes before the exceptions |
| `DatabaseLive` | the same without writer and mishaps; 71 thousand states | `close` of cursor and database return, from the handler too |
| `MessageReader` | a plain and two chunked responses, fields of 1 and 7 bytes, 1 level of containers; 2.25 million states | bytes in order, ends where they belong, nothing read ahead, no header refused |
| `ReaderUnwind` | 2 levels, containers left open | *violated*: `next()` does not go on at the end of the message |
| `MessageWriter` | 2 messages, 2 levels, 7 calls, a buffer of 84 bytes; 456 thousand states | what is committed reads back; its headers grow in place, into exactly the room kept |
| `WriterNested` | 1 message, 2 levels, 5 calls | *violated*: a long container within a long one cannot be expanded |

Two assumptions are evaluated by TLC at the start of runs: `FilterAgrees`
(`MCCursorSubscription`, the filter against a definition of what was asked) and
`AnswersAreWholeOrThrown` (`MCDatabase`).

### Bounds

* `LoaderManager` has none: its graph is finite, and addresses are reused without
  limit. Two loaders are what it takes for one to be served while the other is
  added, removed or allocated again under an old snapshot.
* `MaxMessages` = 3 and three instruments: a message in each state of the block, a
  new instrument between two messages, and, with `EntityLimit` = 2, a third
  instrument that does not fit the header. `MinChunk` = 4 lets the buffer hold
  several tokens and be sent in the middle of a block; 0 sends after each message.
* `MaxChanges` counts what happens elsewhere, `MaxCalls` the application's calls.
  Two calls and a change are enough to delete and create a stream again while an
  answer is on its way; the session's own requests are not bounded.

* `CursorSubscription`: two calls are enough for two commands to be outstanding
  (a reset and a change after it, a change and a reset), and for the second call to
  find the shadow taken over or not; one fault lets a request fail between them.
  Two blocks on the way let a message from before a command, or a terminator, wait
  in front of it. One entity and one type with several numbers are enough for
  every property, which speaks of one message; instances with two entities were run
  too while the model was written. What several names do to one filter is checked
  apart: the assumption `FilterAgrees` of `MCCursorSubscription` goes through all
  sequences of four calls and meetings of two names.

* `Database`: one cursor, one thread of each kind. Two closers, the owner and the
  session's handler, are what it takes for two calls of `close` to race with each
  other and with `next`; one writer makes the cork hold a thread that is in no cursor.
  The model has no counter to bound.
* `MessageReader`: the unit of the small moves is 5 for 8, the longest header of a chunk 7
  bytes for 11, the look-ahead of a skip 9 for 0x400, the buffer 18, so that a field of
  7 bytes crosses two chunks, a header is cut by the buffer's end, and both
  moves (what lies before the header, or after it) occur. `MCWires` has a plain response
  longer than the buffer, chunks of 3, 1 and 8 bytes with zeros before their size, and
  two of 7.
* `MessageWriter`: a byte of a container's length has `B` = 16 values for 256, so 8
  bytes are what 0x80 are in the code and 64 what 0x4000 are; blocks of 6, 7 and 56 bytes
  give lengths just below and above both. The bytes of fields have their real widths. The
  lists in `MCFieldLists` are at the boundaries of every encoding. `Capacity` lets two
  messages fit and the third call, or the widening of the headers, run over.
* `HttpResponse`: bodies of up to two pieces, which look like digits, the end of a
  header or the end of a chunk, and one of 26 bytes, whose size takes two digits.

Symmetry is only used in runs without liveness properties: loaders with their
threads (pairwise), instruments, keys and threads of the application are never
told apart by the modules, and what makes `Init` choose one of them is symmetric.
`TickLoader` uses symmetry with action properties and a refinement, which hold of
pairs of states and do not name instruments.

The runs of the modules `SessionHandler`, `CursorSubscription`, `Database` and
`MessageWriter` have `CHECK_DEADLOCK FALSE`: after `close`, deletion or an exception, or once the bounds are
used up, nothing is left to do. The other runs look for deadlocks; `Over` in
`LoaderManager` and `Stopped` in `MessageReader` are the states in which those systems
are at their end.

### Fairness

* The manager's and the session's thread are scheduled (`WF`), and so are the
  joining thread, the owner of the database and calls that were begun. No call
  has to be begun.
* No step is fair that lasts as long as the server likes: `Connect`, the sends of
  `EndWriting` and `ReadBlock` in `LoaderManager` (`Blocked` names the first two); the rest of an
  event and the sending of requests in `SessionHandler` (`SessionBlocked`, `CallBlocked`). The code has
  no timeout there. `processResponse` reads the rest of a block
  (`http/tickloader_http.cpp:766-801`) with `loaders_` locked, so a server that stops in the middle of
  one holds `open`, `finish` and `close` of every loader, and `TickDbImpl::close`, for
  ever; `processInput` and its handlers (`session_handler.cpp:514`, `251`, `752`) do not look at
  `shouldStop_`, so `stop` waits as long. The liveness properties therefore say what
  follows *if* the server does not do that. `ServerLetsGo`: it sends the rest of what it
  began, or disconnects, and in `LoaderManager` does not send to one loader without a pause, which
  `processResponse` would read on and on. `ServerKeepsUp`: it reads what is sent, and answers
  a handshake, or disconnects. `StopReturns` needs the first alone, `CallsReturn` and
  `CallsReturnInSession` both; without them TLC finds each violated.
* A call on a loader has *strong* fairness. It needs `thisLock_` or the write lock
  of the set, which others take again and again; the manager's thread sleeps 10 ms
  between scans with no lock held (`loader_manager.cpp`), so the lock is found
  free infinitely often, and the platform's locks hand it over.
* The server answers as long as the connection lasts (`WF_vars(Serve)`); nothing
  is assumed of what it announces, and a broken connection ends the obligation.
  Without this assumption a call would wait for a server that is merely slow.
* In `Database` each thread does what needs neither server nor application (`OwnStep`); the
  server ends the data after a request to close the cursor (`WF_vars(Follows)`), and no
  message has to come. The five seconds of the cork end. The application's handler of
  `onDisconnected` returns. `thisLock_` and `closeLock_` have strong fairness: each
  is taken by calls of `close`, of which the application makes finitely many, so
  one that waits is not passed for ever.

### Limits of some properties

`StopReturns` of `SessionHandler` leaves out one case the model does have:
`thread_` is assigned after the thread was started and outside the lock
(`session_handler.cpp:977`). If the thread has gone through `stopped()` by then,
`thread_` is never reset and `stop()` waits for ever (section 4).

`GetStreamFindsIt` counts on a stream only while no other thread is between the
two halves of deleting an older stream with its key (`seen`): `onStreamDeleted`
removes from the cache by key, and would remove the new one. Nor does it count on a
stream an unreadable answer named.

`StreamOutlivesReader` and `NoLeftover` are checked, and proved, for loaders that one
thread finishes; `ServerReadsWhatWasWritten` up to an exception that leaves a call half done
(`cut`). Section 4 says what two threads and such an exception do.

`NextReturnsOnlyAsked` and `NothingAskedIsDropped` leave aside what follows a
reset that failed (`stuck`): `isResetInProgress_` stays set with the filters
cleared and `lastResetCommandId_` is read though nothing ever set it (`Readings`).
`next` then drops everything until it throws, or, if that number happens to be
the next command's, goes on with open filters. Both leave out names that were asked
for and against before they were met (`unsure`), which is just where the filter goes
wrong (section 4).

`Database` has the application keep three rules: it uses a cursor only while the database
is there, does not delete it while the database is closing, and not from two threads.
`CursorCloseReturns` and `CloseReturns` hold without `Mishaps`: with them `close` deletes or
leaves the stream while `next` may be inside, which the code logs and goes on.
`FlushWaitsForCounted` is about threads that were counted; `flushExceptions` reads the count
before it lets anybody go, and one that enters in between is not among them.

`MessageReader` takes chunk headers to be well formed, does not use a reader that threw,
and in the passing run closes containers before `next()` (`Careless`). The types of
containers, and looking ahead (`peek`), are not modelled. `MessageWriter` in the passing run
leaves out a container of two or three length bytes within another (`NestLarge`), takes
integers below 2^31, and lets a call that threw be followed by `beginMessage` only, which
gives the message up; `startMessage` always has room for its four bytes (`Start`), as the
loader sends what it collected long before the buffer is full. The byte that marks a block, and sending, belong to `TickLoader`.

## 4. What disagreed with the repository's own words

Two runs end in a violation, each with a finding in `PROJECT.json`:

1. `WriterNested`: `closeContainer` counts for the enclosing container only what its own
   length grows by, and `expandHeadersImplBasic` takes the points in the order of closing. A
   container of 128 bytes or more within another makes the offset negative: the assertion at
   `data_writer.cpp:1135` fails, or "Logic error in DataWriter" is thrown.
2. `ReaderUnwind`: `skipUnreadMessageBody` reads the saved offsets one place too high
   (`data_reader.cpp:1098`). When `next()` finds a container open, it goes on from a
   place that is not the end of the message.

Found with the models, or seen while reading, and in no run of its own. With some
stands the formula that TLC finds violated. Loader:

* `cleanup()` ignores that `remove` refused: of two threads that finish one loader, one
  frees the stream of a loader the manager still serves.
* `interruption_` "can only be set once" (`http/tickloader_http.h:308`); `finish` overwrites
  it, and writes after the server ended the upload.
* `getInstrumentId` puts the symbol in its table before the block is written
  (`http/tickloader_http.cpp:1080`); when that throws, the id belongs to the next instrument
  at the server.
* `beginMessage` promises that "the previous message (if any) is cancelled", but with a
  symbol that is new it ends the block of messages first, which commits it.
* After a message ran over the buffer the loader stays in `MESSAGE_BODY`, so
  `commitMessage` sends what there is of it.
* `VectorLUT` of symbols ends at 65536 entries, entity ids have 32 bits.

Session and database:

* `getStreamsSynchronous` waits without looking whether the session still runs
  (`session_handler.cpp:1084`); the line in `cleanup()` meant to unlock such threads is a
  comment only (`:781`). `CallsReturnInSession` without its last three disjuncts is violated.
* `thread_` is assigned after the thread was started (`session_handler.cpp:977`); when that thread
  ends at once, `stopped()` finds no thread to reset, though its comment says that it
  is "detached, marked as stopped and its object is destroyed" (`:716`), and `stop()` waits for ever. As an
  invariant of `SessionHandler`, `tpc = "done" => ~thread` is violated.
* After a token it does not know `processInput` calls `cleanup()`, and `close()` calls it again:
  `bufferAllocPtr_` is freed twice, as it is not reset (`session_handler.cpp:776`).
* The application may delete the database in its handler of `onDisconnected`;
  `stopped()` goes on with `flushExceptions` of it afterwards (`session_handler.cpp:719`).
* The loss of the connection is taken for the end of a body that has neither a length
  nor chunks (`http/tickdb_http.cpp:1041`), and a length of 0 reads like no length.

Cursor:

* `modifyEntities` takes a wish that agrees with the default for settled, also when the
  opposite wish still waits for the name (`http/tickcursor_subscriptions.cpp:215`): after
  `removeEntity(e)`, `addEntity(e)` a cursor that had not met `e` drops it for ever.
  The same for types (`:297`). `NothingAskedIsDropped` is violated without `unsure`, also
  without faults (`MaxFaults` = 0, `MaxBlocks` = 3).
* An empty array of entities "does nothing" (`dxapi.h:203`), and is sent as the text that
  stands for all of them (`http/xml/cursor/modify_entities_request.h:27`).
* `setTypes(NULL)` should subscribe to all types; the request says so, while the filter
  is set to skip all of them. The model's calls name one entity or type, or all by
  the call for all.
* The reset mode is left on when the request of a reset fails (section 3).
* When the request of `close()` fails, `doClose` deletes the stream at once, while a reader
  may be inside `next()`.

Reading and writing of fields:

* `putInterval` computes the scale of the header and does not write it
  (`data_writer.cpp:188`): intervals of fewer than 64 minutes or hours are read as seconds.
  `MCFieldLists` leaves them out.
* `putAlphanumeric` flushes an uninitialised variable for codes of more than ten characters;
  `readAlphanumericAs<uint32>` always returns 0; the unrolled loop of
  `fromAlphanumericInt64` has two of its cases swapped.
* `skipPackedUInt22` skips a huge number of bytes for a header below 0x40.
* `putDecimal(value, precision)` goes on after it wrote the uncompressed form, and its
  header for 15 digits is the one of NaN.
* `getCompressedNanoTime` shifts the 32 bits of SECONDS before it widens them.
* The assertion `from < bufferEnd - CHUNK_HEADER_SIZE_MAX - 1` (`http/data_reader_http.cpp:218`)
  fails in a skip whose chunk ends near the end of the buffer. `MessageReader` reaches this:
  `pc = "header" /\ call.skip => call.from < BufferSize - HeaderMax - 1` is violated. A release build
  goes on, and `getFromStream` makes the room.
* A comparison `<= 0` of an unsigned count of bytes (`nBytesAvailableInStream`) is only
  true for 0, and `dataPtr` is left past the end when "Read beyond end" is thrown.

## 5. The proofs

Each `..._proofs` module extends the module it is about (`CursorReturns_proofs` extends
`CursorSubscription_proofs`), and its theorems hold for every
value of that module's constants that satisfies the module's assumptions. A theorem that
names a property of a run shows it for every instance; the run shows it for one.

Every module's argument has the same form: an invariant that is not inductive is
strengthened to one that is (its parts are named, and each has a comment); one lemma per
part says that no step breaks it, action by action; and the theorem puts these together.

### `LoaderManager_proofs`

* `TypeCorrect`: `Spec => []TypeOK`, without further assumptions.
* `Invariant`: `Spec => []IInv`, under `SingleOwner`: a loader is opened, finished
  and deleted by one thread. The API asks for this; section 4 says what two
  threads get.
* `StreamIsSafe`, `LoaderIsSafe`, `RemovalIsExact`, `NothingIsLeft`: the safety
  invariants of run `LoaderManager`, each from `IInv` (and `TypeOK`).

None of the four is inductive: that a stream is not freed while it
is read depends on where the freeing thread has been. `IInv` says, for the loader
a call is at work on, what holds at each of its steps (`StepInv`: at "waiting" it
is registered and in `being_removed_`, from "disconnect" on it is in neither
set, ...), what holds of a loader no call is at work on (`QuietInv`: registered
while it writes, and otherwise nothing is left of it), that every registered loader is linked
to a live stream (`Registered`), and that a loader that is served is registered. A
step of a call touches one loader; `LocalPreserves` is the frame lemma that
reduces preservation of `IInv` to that loader, `CallIsLocal` and `BeginIsLocal`
apply it action by action, and `ManagerPreserves` deals with the other thread:
it changes a stream only while it serves its loader, and the loader cannot leave
the set then.

### `TickLoader_proofs`

For any instruments, and any `MaxMessages`, `MinChunk` and `EntityLimit` in `Nat`.

* `TypeCorrect`, and `LoaderInvariant`: `Spec => []LoaderInv`.
* `ReadsAsWritten`: what is sent and buffered reads as the messages that were ended
  (`ServerReadsWhatWasWritten`).
* `LossIsNoticed`: the action property `LossStopsTheWriter`.
* `PromiseKept`: `Spec => KeepsPromise`, the refinement of `LoaderPromise`: initial states
  map to initial states, and every step to a step of `LoaderPromise` or a stutter.

`LoaderInv` has a witness: `names`, the table the server has after reading all that is
sent and buffered. `Sound(w, names)` says that the writer's record is of its type and its
table has no symbol twice (`WriterInv`), that what was not lost is in order and that nothing
is lost while the writer may go on (`KeptInv`), and that `ServerRead` of all tokens ends in
the place that fits the writer's state, with these names and the ended messages (`ReadInv`).
`AgreedInv` adds that between calls `names` is the writer's own table; inside
`getInstrumentId` it is not, because the symbol is in the table before its block is written. A
call is a chain of operators on the record, and each of these (`Put`, `Flush`, `Throw`,
`endMessage`, `getInstrumentId`, ...) has one lemma: from a sound record it makes a sound one
and loses nothing (`Grows`). The actions are these lemmas in a row.

`ServerRead` and `MessagesOf` are folds over the tokens. What they give for one more token
is an induction over the sequence, for which `InductionOnNat` stands in: a set of
naturals that has 0 and with each number the next one has all, from
`NatLessThanWellFounded` and `WFMin`, which take no operator.

### `SessionHandler_proofs`

For any keys, any clients, and any bounds in `Nat`.

* `TypeCorrect`, and `SessionInvariant`: `Spec => [](TypeOK /\ SessionInv)`.
* `AnswersAreCounted`, `StreamsAreFound`, `GhostsLeave`: the invariants
  `AnswersFollowRequests`, `GetStreamFindsIt` and `NoGhostStreams` of run `SessionHandler`.

`AnswersFollowRequests` is inductive once it is known when there is a connection (`ThreadInv`,
`LinkInv`). `GetStreamFindsIt` looks at the moment after the wait, and is strengthened
backwards along the call (`SeenInv`): while a call waits, the request with its number
asks for its stream and is on the way, or the answer with that number brings it and nothing
behind that answer takes it out (`AsksFor`, `BringsIn`), or it is cached and nothing on the way
removes it (`StaysCached`). `NoGhostStreams` speaks of an empty connection; `GhostInv` says of any
moment that whatever the server does not have, and the cache has or will get from an answer
on its way, is removed by an announcement behind it.

### `CursorSubscription_proofs`

For any entities, types and system types among them, any two copies of the state, and any
bounds in `Nat`.

* `TypeCorrect`, and `SubscriptionInvariant`: `Spec => []SubscriptionInv`.
* `TablesStayTheSame`, `ThrowsAfterFault`, `NothingOldAfterReset`: the invariants `TablesAgree`,
  `ThrowsOnlyAfterFault` and `NothingFromBeforeReset` of run `CursorSubscription`.
* `EndsWhenDone`: the action property `EndsOnlyWhenDone`.

`SubscriptionInv` is the conjunction of `TypeInv`; `NumbersInv` (a number is given to a call
once and put in the stream once; the shadow is another copy than the one read with exactly
while it is to be taken over); `NamesInv` (both copies have the names announced, less
those still on the way); `CommandsInv` (the commands on the way and the calls the server
has yet to follow are numbered one after the other); `FaultlessInv` (while no request failed,
the copy that is written expects just these commands, except the one whose answer is
being written down at the moment, and a reset is among them while it is in progress); and
`ResetInv` (while a reset is outstanding, the copy that is written is in reset mode and nothing
from before the reset lies behind its command; when none is, nothing from before any reset is
on the way). For each part there are lemmas on what the server's steps add at the end
of the stream, and on what a block that `next` takes removes at its head.

### `CursorReturns_proofs`

The filters of the same module, under the same assumptions.

* `CursorReturnsInvariant`: `Spec => []ReturnsInv`.
* `ReturnsOnlyAsked` and `NothingIsDropped`: the invariants `NextReturnsOnlyAsked` and
  `NothingAskedIsDropped` of run `CursorSubscription`.

Both properties speak of the message whose header `next` has just read, and say nothing
of the one after it. `ReturnsInv` says what the copy that is written, the stream and the
calls the server has yet to follow make of it, whatever its name:

* `Says(f, n)` is what a filter says of a name: the word kept for it, if it was not met; what
  is kept under its numbers, if it was. It may say both, when a name was met
  several times. There is one lemma per operation of the filter
  (`SaysWritten`, `InstrumentSays`, ...) that says what it makes of this, and with these the rotation of
  the copies needs no other account. `FilterInv` has what they need: word is kept only
  for names not met yet, and an entity is announced once.
* `DropInv`: no name that is asked for is skipped. `NothingAskedIsDropped` follows, since the
  filter is what skips.
* `LeakInv`: a name that was not asked for is `Silent`. When it has followed the calls
  pending, the server sends nothing of it; and if the filter lets it pass, then the server
  sends nothing of it already behind the last reset that `next` has not seen
  (`Border`), and nothing of it stands in the stream behind that reset (`Quiet`). This is the
  half a filter alone does not give: after a reset, `next` lets pass what the filter does
  not know, and only the order of the commands keeps old messages out.
* `BoundInv`: what the stream has before the commands `next` does not expect any more, and what
  the server will put there, comes after at most as many resets as were asked for (`AtMost`);
  so what is before the command of the last reset comes after fewer.

The properties leave out names that a failed call was about or that were asked for and
against before they were met (`asked.unsure`), and what follows a failed reset
(`asked.stuck`), and so does the invariant.

### `Database_proofs`

For any finite sets of closing and of writing threads, where nobody is `NoThread` and
`Reader` is none of the closers, and any `Mishaps`.

* `TypeInvariant` and `TypeCorrect`: `TypeOK`, which has `nBlocked = Cardinality(Held)`, the
  count of the cork against the threads it holds.
* `CursorInvariant`: `Spec => []CursorsInv`; from it `UsersHaveTheStream` and `ThePoolIsAlive` (the
  invariants `StreamOutlivesUser` and `PoolIsAlive`).
* `DatabaseInvariant`: `Spec => []DatabaseInv`; from it `FlushWaits` and `CloseClosesTheCursor`
  (`FlushWaitsForCounted`, `CloseClosesCursor`), and `ToldBeforeThrown`, the action property
  `DisconnectionIsToldFirst`.

`CursorsInv` adds to the types who can be where: the steps each kind of thread goes
through (`PlacesInv`), that `closeLock_` is held by who is in the body of `close` (`LockInv`), that
`isInNext_` covers `next` and the handler of its exceptions (`NextInv`), what `isOpen` and the pool
say about each other at every step of `select` and `doClose` (`PoolInv`), and, while none of the
mishaps happened, that a `close` which works on the stream found `next` out of it
(`StreamInv`). `DatabaseInv` adds the order of the end (`EndInv`: a database not yet opened has
nobody in it; nobody flushes before the application was told or called `close`; `close`
goes past the cursors only when they are closed) and `FlushInv`: a thread that was counted
is in the cork or was released, and stays so.

### `MessageReader_proofs`

For any plain response, and any response in chunks of up to nine bytes, each header with up
to two zeros before the digit; any size of the buffer, any lengths of messages, fields and
containers, any depth, and any pieces in which the socket delivers the response.

* `ReaderInvariant`: `Spec => []ReaderInv`, and `TypeCorrect` from it.
* `ContentsStayInPlace`, `MessageLeftAtItsEnd`, `BytesComeInOrder`, `HeadersReadAsTheyCome`: the
  invariants `ContentsEndWhereTheyShould`, `MessageIsLeftAtItsEnd`, `BytesInOrder` and
  `HeadersAreReadAsTheyCome` of run `MessageReader`.

Between calls the pointers are ordered; inside a call, which may wait for the socket or for
the header of the next chunk any number of times, they are not, and the types alone are
not inductive. `ReaderInv` therefore speaks of `Phase` and `Place`: what the
reader does next when the call is over, and the place in the buffer it has got to. `BarrierInv` orders the
barriers between calls, `CallInv` says what a call under way still needs and which of its
steps it can be in, and `ContentInv` ties the ends in the buffer, which change
whenever the data is moved, to the ends in the payload (`ends`), which do not: the
distance from `Place` to the end of the content is the distance in the payload, and each saved
offset is that between two of these ends. `MessageInv` adds that a message is left at its end.

`BytesInOrder` speaks only of the bytes the last read returned, so it says nothing of the next
step. `OrderInv` says what is ahead of the reader at any moment: `Ahead(mem, at, end, taken, p, r)`
looks through the buffer into the part of the response not yet taken (`View`), and finds
the `r` bytes of payload left of the chunk, numbered from `p`, and then the
response as the server wrote it, where a header or the end comes next (`Joint`). Every
operator that moves data has a lemma that it keeps this: filling and shifting the
buffer (`AheadRefills`), reading and skipping (`GetKeepsAhead`, `SkipKeepsAhead`), taking a
header out from between two chunks (`DropHeaderViews`, `ChunkJoins`), and forgetting what is behind
(`AheadLives`). `HeaderSize` shows that parsing the digits gives the size of the chunk that
was written, and `FullTurn`, `TurnLeads` where in the response its header stands.

`HeadersAreReadAsTheyCome` compares what a call asks of the socket with the place of its last
byte in the response, which the numbers in the buffer do not tell: where a header was taken
out, what is before it has moved. `WaitInv` adds that this is over as soon as a call has its bytes
(`OnePiece`: what is then left of the chunk follows in the buffer as in the response), that a call
asks for a byte it returns and, of a header, for no more than it has (`CallsAsk`). `HeaderComes` is the
other half of `HeaderSize`: a header that the server wrote is read, or some of it is not there
yet; it is never taken for a malformed one. `Numbers` says that the payload is
numbered in the order in which it is in the response, so that a byte that comes later in the payload
is at least as far behind (`WireEndIs`).

The response is made of chunks with recursive functions (`PayloadOf`, `BytesOf`);
what they give for every list of chunks is shown with the same `InductionOnNat`.

### `MessageWriter_proofs`

For any size of the buffer, any depth of containers, any blocks, and any number of calls and
messages. `WriterAssumption` asks that a byte has at most 256 values, a number divisible by
four (as 256 is), and that encoded fields are bytes.

* `WriterInvariant`: `Spec => [](WriterInv /\ OrderInv)`, and `TypeCorrect` from it.
* `BytesStayInPlace`: the property `HeadersGrowInPlace` of run `MessageWriter`, of which
  `RoomIsExact` is one half.
* `HeadersAlwaysExpand`: `NoLogicError`, which run `WriterNested` checks.

The last three need that no container within another is too long for its byte
(`~NestLarge`). The assumption cannot be dropped: run `WriterNested` shows `NoLogicError`
violated without it (section 4).

`TypeOK` bounds the room kept for headers by the buffer, which no step shows by itself: a
container that closes hands on two bytes more at most, any number of them might. `Nested` says
why it is bounded. The containers lie inside one another, and what the headers
directly in a container grow by is less than the bytes it has so far (`BaseOf`, `EndOf`); a container
that closes has two bytes at least, and leaves them to the one around it. After an exception
`Nested` may fail, and `Capped` is what is left of it.

`OrderInv` has the points in ascending order, all of them in front of the containers that are
open, and the room kept equal to `Growth`, the sum over the points. From this
`ExpandedSettles` follows the loop of `expandHeaders` from the last point to the first. `Loop` is
its invariant: what is in front of the point reached has not changed, the offset
left is what the headers in front still grow by, and the headers behind it, with the bytes up to the
next one, are `Settled`. `MoveApartSettles` is one turn: the bytes it moves, the header it writes and the
bytes it does not touch are disjoint because the offset never grows and the points
ascend; that the offset is not negative and ends at 0 is `Growth` again. `Growth` and the loop are
recursive functions, and what they give is shown with `InductionUpTo`, again from
`NatLessThanWellFounded`.

### What is only model-checked

* Liveness, and what depends on `ENABLED`: run `LoaderManagerLive`, `SessionHandlerLive` and
  `DatabaseLive`.
* `CommittedReadsBack` of `MessageWriter`: what `ReadMessage` makes of the buffer depends on the
  bytes of every codec. `HeadersGrowInPlace` is the half of it that the writer answers for.
* `FilterAgrees` and `AnswersAreWholeOrThrown`, evaluated over bounded inputs.

## 6. What is not modelled

* The lifetime of stream objects (`session_handler.cpp:276`): streams are keys.
* Two threads inside the buffer of one loader: `finish` guesses from `clientIsActive_`
  that the writer is out (`http/tickloader_http.cpp:900`). In `TickLoader` the calls of the
  writer during that wait are whole steps.
* Numbers of fixed width, decimals, the conversions of one type to another, 64-bit tails.
* Partial sends (`io/tcp.cpp:74`); the model's connection sends all or breaks.
* The policy of read/write locks: recursive reading is taken to be granted.
* Listeners, statistics, pings, user-defined ids of message types.
* XML of requests and answers, URIs, schema, intervals, identities, QQL state: formats.
* The starter and the janitor: processes of the operating system.
* The proxy, the tests and the examples; vendored code. These and the formats are the
  larger part of the repository's lines: two copies of `catch.hpp` and `tinyxml2` alone
  are 26 thousand of 58 thousand.

## 7. The plan

Done, in this order: `LoaderManager`, its proofs, `LoaderPromise` and
`TickLoader`, `SessionHandler`, `CursorFilter` and `CursorSubscription`, `TickCursor` and
`Database`, `MessageReader`, `DataFields` and `MessageWriter`, `HttpResponse`; then the proofs
about `Database`, `CursorSubscription`, `SessionHandler`, `TickLoader` and `MessageReader`, and
about what a cursor returns (`CursorReturns_proofs`) and how a message grows
(`MessageWriter_proofs`).

Liveness stays with TLC.
