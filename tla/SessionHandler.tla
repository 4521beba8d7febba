--------------------------- MODULE SessionHandler ---------------------------
(***************************************************************************)
(* The session with the server: SessionHandler (session_handler.cpp), its  *)
(* background thread, the cache of streams (tickstream_cache.cpp) it keeps *)
(* up to date, and the calls of TickDbImpl (tickdb_http.cpp,               *)
(* tickdb_stream_requests.cpp) that wait for it.                           *)
(*                                                                         *)
(* A request for stream definitions has a number; the session's thread     *)
(* counts the answers, and a call that waits for its answer compares its   *)
(* number with the count.  On the same connection the server announces     *)
(* what happens to streams.  Streams are created and deleted by requests   *)
(* of their own (HTTP), by this application or by others.                  *)
(*                                                                         *)
(* A stream is its key, and a call that may throw ends when it does.       *)
(***************************************************************************)
EXTENDS Integers, Sequences

CONSTANTS Keys,        \* keys of streams
          Clients,     \* threads of the application
          MaxChanges,  \* bound: what happens to streams, elsewhere
          MaxCalls     \* bound: calls of the application

ASSUME BoundsAssumption == MaxChanges \in Nat /\ MaxCalls \in Nat

VARIABLES
    streams,     \* the server: the streams it has
    requests,    \* the connection: REQ_GET_STREAMS on the way to the server
    events,      \* the connection: what is on the way to the session's thread
    link,        \* the connection works
    ioStream,    \* ioStream_: NULL, a stream, or a deleted one
    tpc,         \* where the session's thread is
    thread,      \* thread_ is not NULL
    isRunning, shouldStop,  \* isRunning_, shouldStop_
    sent,        \* nStreamDefRequestsSent_
    received,    \* nStreamDefRequestsReceived_
    needed,      \* neededStreamDefs
    cache,       \* TickDbImpl::streamCache_
    starting,    \* where TickDbImpl::open is, in SessionHandler::start
    stopping,    \* where TickDbImpl::close is, in SessionHandler::stop
    pc, key, requestId,  \* [Clients]: where a call is, for which stream, and
                         \* the request it waits for
    seen,        \* history: [Clients]: the stream of the call has been at the
                 \* server since the call began, the session went on, no
                 \* thread was removing an older stream with that key, and no
                 \* answer that names it was unreadable
    changes, calls  \* counted for their bounds

serverVars == <<streams, requests, events, link, changes>>
threadVars == <<tpc, thread, isRunning>>
countVars  == <<sent, received, needed>>
ownerVars  == <<starting, stopping, shouldStop>>
callVars   == <<pc, key, requestId, seen, calls>>
vars == <<serverVars, ioStream, threadVars, countVars, cache, ownerVars, callVars>>

-----------------------------------------------------------------------------

\* what makes a request: none asks for all streams, Dummy for none there is
All   == [all |-> TRUE, keys |-> {}]
Only(ks) == [all |-> FALSE, keys |-> ks]
Dummy == Only({})
Request(id, what) == [id |-> id, what |-> what]

Event(t, k)        == [tag |-> t, key |-> k]
Definition(id, ks) == [tag |-> "definition", id |-> id, keys |-> ks]

Requests == [id : Nat, what : [all : BOOLEAN, keys : SUBSET Keys]]
Events ==
    [tag : {"created", "deleted", "property_changed", "changed", "closed"}, key : Keys]
    \cup [tag : {"renamed"}, key : Keys, newKey : Keys]
    \cup [tag : {"definition"}, id : Nat, keys : SUBSET Keys]

\* open() is past the handshake: it sent the request that makes the server
\* confirm the session, and is about to start the thread
Init ==
    /\ streams \in SUBSET Keys /\ link = TRUE
    /\ requests = <<Request(1, Dummy)>> /\ events = <<>>
    /\ ioStream = "open"
    /\ tpc = "none" /\ thread = FALSE /\ isRunning = FALSE /\ shouldStop = FALSE
    /\ sent = 1 /\ received = 0 /\ needed = {} /\ cache = {}
    /\ starting = "creating" /\ stopping = "open"
    /\ pc = [c \in Clients |-> "idle"]
    /\ key \in [Clients -> Keys] /\ \A c, d \in Clients : key[c] = key[d]
    /\ requestId = [c \in Clients |-> 0] /\ seen = [c \in Clients |-> FALSE]
    /\ changes = 0 /\ calls = 0

-----------------------------------------------------------------------------
(* The server, external: it answers requests in their order, and announces *)
(* what happens in the order in which it happens.                          *)

Serve ==
    LET r == Head(requests) IN
    /\ link /\ requests # <<>>
    /\ requests' = Tail(requests)
    /\ events' = Append(events, Definition(r.id,
                     IF r.what.all THEN streams ELSE r.what.keys \cap streams))
    /\ UNCHANGED <<streams, link, changes, ioStream, threadVars, countVars,
                   cache, ownerVars, callVars>>

Announce(e) == events' = IF link THEN Append(events, e) ELSE events

\* the calls that look for one of ks no longer count on it
Unseen(ks) == seen' = [c \in Clients |-> seen[c] /\ key[c] \notin ks]

\* somebody else creates, deletes or renames a stream, or changes one (without
\* a connection nobody here would know)
Change ==
    /\ link /\ changes < MaxChanges /\ changes' = changes + 1
    /\ \E k \in Keys :
        \/ /\ k \notin streams
           /\ streams' = streams \cup {k} /\ Announce(Event("created", k))
           /\ UNCHANGED seen
        \/ /\ k \in streams
           /\ streams' = streams \ {k} /\ Announce(Event("deleted", k))
           /\ Unseen({k})
        \/ \E n \in Keys \ streams :
              /\ k \in streams
              /\ streams' = (streams \ {k}) \cup {n}
              /\ Announce([tag |-> "renamed", key |-> k, newKey |-> n])
              /\ Unseen({k})
        \/ /\ k \in streams
           /\ \E t \in {"property_changed", "changed"} : Announce(Event(t, k))
           /\ UNCHANGED <<streams, seen>>
    /\ UNCHANGED <<requests, link, ioStream, threadVars, countVars, cache, ownerVars,
                   pc, key, requestId, calls>>

\* SESSION_CLOSED, or a token the client does not know
EndSession ==
    /\ link /\ changes < MaxChanges /\ changes' = changes + 1
    /\ \E k \in Keys : events' = Append(events, Event("closed", k))
    /\ Unseen(Keys)
    /\ UNCHANGED <<streams, requests, link, ioStream, threadVars, countVars, cache,
                   ownerVars, pc, key, requestId, calls>>

\* the connection breaks: what is on it is lost
Break ==
    /\ link /\ link' = FALSE
    /\ requests' = <<>> /\ events' = <<>>
    /\ Unseen(Keys)
    /\ UNCHANGED <<streams, changes, ioStream, threadVars, countVars, cache, ownerVars,
                   pc, key, requestId, calls>>

-----------------------------------------------------------------------------
(* The session's thread.                                                   *)

\* mutant of Send: the request is not numbered
SendUnnumbered(what) ==
    /\ sent' = sent
    /\ requests' = IF link /\ ioStream = "open"
                   THEN Append(requests, Request(sent + 1, what)) ELSE requests

\* requestGetStreams: the request is numbered whether or not it can be sent
Send(what) ==
    /\ sent' = sent + 1
    /\ requests' = IF link /\ ioStream = "open"
                   THEN Append(requests, Request(sent + 1, what)) ELSE requests

BeginThread ==
    /\ tpc = "begin"
    /\ tpc' = "loop" /\ isRunning' = TRUE
    /\ UNCHANGED <<serverVars, ioStream, thread, countVars, cache, ownerVars, callVars>>

\* tryRead, which has a timeout, finds the beginning of an event
BeginEvent ==
    /\ tpc = "loop" /\ ~shouldStop /\ events # <<>>
    /\ tpc' = "reading"
    /\ UNCHANGED <<serverVars, ioStream, thread, isRunning, countVars, cache, ownerVars,
                   callVars>>

\* receive_STREAM_DELETED
ReceiveDeleted(e) ==
    /\ e.tag = "deleted"
    /\ cache' = cache \ {e.key}
    /\ tpc' = "needed" /\ UNCHANGED <<requests, countVars, seen>>

ReceiveCreated(e) ==
    /\ e.tag = "created"
    /\ needed' = needed \cup {e.key}
    /\ tpc' = "needed" /\ UNCHANGED <<requests, sent, received, cache, seen>>

\* mutant of ReceiveRenamed: the cache keeps the old key
RenamedKeepsTheKey(e) ==
    /\ e.tag = "renamed"
    /\ needed' = needed \cup {e.newKey}
    /\ tpc' = "needed" /\ UNCHANGED <<requests, sent, received, cache, seen>>

ReceiveRenamed(e) ==
    /\ e.tag = "renamed"
    /\ cache' = cache \ {e.key} /\ needed' = needed \cup {e.newKey}
    /\ tpc' = "needed" /\ UNCHANGED <<requests, sent, received, seen>>

\* streams in an answer enter the cache, or are updated there; nothing leaves.
\* An answer that cannot be parsed is counted too, and its exception ignored
ReceiveDefinition(e) ==
    /\ e.tag = "definition"
    /\ received' = received + 1
    /\ \/ cache' = cache \cup e.keys /\ UNCHANGED seen
       \/ e.keys # {} /\ Unseen(e.keys) /\ UNCHANGED cache
    /\ tpc' = "needed" /\ UNCHANGED <<requests, sent, needed>>

\* mutant of ReceiveChanged: a property counts as an answer
PropertyIsAnAnswer(e) ==
    /\ e.tag \in {"property_changed", "changed"}
    /\ received' = IF e.tag = "property_changed" /\ received < sent THEN received + 1
                                                                  ELSE received
    /\ Send(IF e.tag = "changed" THEN All ELSE Only({e.key}))
    /\ tpc' = "needed" /\ UNCHANGED <<needed, cache, seen>>

ReceiveChanged(e) ==
    /\ e.tag \in {"property_changed", "changed"}
    /\ Send(IF e.tag = "changed" THEN All ELSE Only({e.key}))
    /\ tpc' = "needed" /\ UNCHANGED <<received, needed, cache, seen>>

ReceiveClosed(e) ==
    /\ e.tag = "closed"
    /\ tpc' = "close" /\ UNCHANGED <<requests, countVars, cache, seen>>

\* processInput reads the rest of the event, without a timeout and without a
\* look at shouldStop_, and receives it.  SESSION_CLOSED and a token the
\* thread does not know end its loop.  The token is followed by two clean-ups, of
\* which the second finds nothing left to do here
ProcessInput ==
    LET e == Head(events) IN
    /\ tpc = "reading" /\ events # <<>>
    /\ events' = Tail(events)
    /\ \/ ReceiveDeleted(e) \/ ReceiveCreated(e) \/ ReceiveRenamed(e)
       \/ ReceiveDefinition(e) \/ ReceiveChanged(e) \/ ReceiveClosed(e)
    /\ UNCHANGED <<streams, link, changes, ioStream, thread, isRunning, ownerVars,
                   pc, key, requestId, calls>>

\* mutant of LeaveLoop: the loop does not look at shouldStop_
LeaveBrokenLoop ==
    /\ tpc \in {"loop", "reading"} /\ ~link
    /\ tpc' = "close"
    /\ UNCHANGED <<serverVars, ioStream, thread, isRunning, countVars, cache, ownerVars,
                   callVars>>

\* it finds the connection broken; or the loop ends because of stop()
LeaveLoop ==
    /\ \/ tpc = "loop" /\ shouldStop
       \/ tpc \in {"loop", "reading"} /\ ~link
    /\ tpc' = "close"
    /\ UNCHANGED <<serverVars, ioStream, thread, isRunning, countVars, cache, ownerVars,
                   callVars>>

\* the connection broke in the middle of an answer, which is counted even so
CutAnswer ==
    /\ tpc = "reading" /\ ~link /\ received < sent
    /\ received' = received + 1 /\ tpc' = "close"
    /\ UNCHANGED <<serverVars, ioStream, thread, isRunning, sent, needed, cache, ownerVars,
                   callVars>>

\* the end of a round asks for the definitions of new streams; on a broken
\* connection this may throw, past close()
RequestNeeded ==
    /\ tpc = "needed" /\ needed' = {}
    /\ \/ /\ needed = {} /\ tpc' = "loop" /\ UNCHANGED <<requests, sent>>
       \/ /\ needed # {} /\ tpc' = "loop" /\ Send(Only(needed))
       \/ /\ needed # {} /\ ~link /\ tpc' = "stopped" /\ Send(Only(needed))
    /\ UNCHANGED <<streams, events, link, changes, ioStream, thread, isRunning, received,
                   cache, ownerVars, callVars>>

\* closeConnection: without writerSection_, the stream is deleted ...
DeleteStreamObject ==
    /\ tpc = "close" /\ ioStream = "open"
    /\ ioStream' = "deleted" /\ link' = FALSE
    /\ requests' = <<>> /\ events' = <<>> /\ Unseen(Keys)
    /\ UNCHANGED <<streams, changes, threadVars, countVars, cache, ownerVars, pc, key,
                   requestId, calls>>

\* ... and ioStream_ is reset; cleanup() also empties what it had to request
CleanUp ==
    /\ tpc = "close" /\ ioStream = "deleted"
    /\ ioStream' = "null" /\ needed' = {} /\ tpc' = "stopped"
    /\ UNCHANGED <<serverVars, thread, isRunning, sent, received, cache, ownerVars, callVars>>

\* stopped(), under threadObjSection_
Stopped ==
    /\ tpc = "stopped"
    /\ tpc' = "done" /\ thread' = FALSE /\ isRunning' = FALSE
    /\ UNCHANGED <<serverVars, ioStream, countVars, cache, ownerVars, callVars>>

Session ==
    \/ BeginThread \/ BeginEvent \/ ProcessInput \/ LeaveLoop \/ CutAnswer
    \/ RequestNeeded \/ DeleteStreamObject \/ CleanUp \/ Stopped

\* the thread is in a call of the socket that lasts as long as the server likes:
\* the rest of an event, or a request
SessionBlocked == link /\ (tpc = "reading" \/ (tpc = "needed" /\ needed # {}))

-----------------------------------------------------------------------------
(* The owner of the database: TickDbImpl::open and TickDbImpl::close.       *)

\* the thread runs before its object is stored in thread_
CreateThread ==
    /\ starting = "creating"
    /\ starting' = "assigning" /\ tpc' = "begin"
    /\ UNCHANGED <<serverVars, ioStream, thread, isRunning, countVars, cache, shouldStop,
                   stopping, callVars>>

AssignThread ==
    /\ starting = "assigning"
    /\ starting' = "waiting" /\ thread' = TRUE
    /\ UNCHANGED <<serverVars, ioStream, tpc, isRunning, countVars, cache, shouldStop,
                   stopping, callVars>>

\* isRunning_ || isStopped_
Started ==
    /\ starting = "waiting" /\ (isRunning \/ tpc = "done")
    /\ starting' = "open"
    /\ UNCHANGED <<serverVars, ioStream, threadVars, countVars, cache, shouldStop,
                   stopping, callVars>>

BeginStop ==
    /\ starting = "open" /\ stopping = "open"
    /\ stopping' = "waiting" /\ shouldStop' = TRUE
    /\ Unseen(Keys)
    /\ UNCHANGED <<serverVars, ioStream, threadVars, countVars, cache, starting, pc, key,
                   requestId, calls>>

\* stop() returns, and the cache is cleared
EndStop ==
    /\ stopping = "waiting" /\ ~isRunning /\ ~thread
    /\ stopping' = "closed" /\ cache' = {}
    /\ UNCHANGED <<serverVars, ioStream, threadVars, countVars, starting, shouldStop,
                   callVars>>

Owner == CreateThread \/ AssignThread \/ Started \/ EndStop

-----------------------------------------------------------------------------
(* Calls of the application.                                               *)

Goto(c, s) == pc' = [pc EXCEPT ![c] = s]

isWorking == isRunning /\ ~shouldStop

\* a call begins with stream k
BeginCall(c, k) ==
    /\ starting = "open" /\ stopping # "closed" /\ pc[c] = "idle"
    /\ calls < MaxCalls /\ calls' = calls + 1
    /\ key' = [key EXCEPT ![c] = k]

RemovalOf(k) == \E c \in Clients : pc[c] = "remove" /\ key[c] = k

\* the first part of getStream: the cache has the stream, and the call is over,
\* or the server is asked, for all streams when the cache is empty
LookUp(c, k) ==
    Goto(c, IF k \in cache THEN "idle" ELSE IF cache = {} THEN "ask_all" ELSE "ask_one")

SeesFrom(c, k) ==
    seen' = [seen EXCEPT ![c] =
        /\ k \in streams' /\ link /\ ~shouldStop /\ ~RemovalOf(k)
        /\ tpc \notin {"close", "stopped", "done"}
        /\ pc'[c] # "idle"]

GetStream(c, k) ==
    /\ BeginCall(c, k) /\ LookUp(c, k)
    /\ UNCHANGED serverVars /\ SeesFrom(c, k)
    /\ UNCHANGED <<ioStream, threadVars, countVars, cache, ownerVars, requestId>>

\* listStreams asks for all streams, k among them
ListStreams(c, k) ==
    /\ BeginCall(c, k) /\ Goto(c, "list")
    /\ UNCHANGED serverVars /\ SeesFrom(c, k)
    /\ UNCHANGED <<ioStream, threadVars, countVars, cache, ownerVars, requestId>>

\* createStream: the server creates the stream, then getStream
CreateStream(c, k) ==
    /\ BeginCall(c, k) /\ k \notin streams
    /\ streams' = streams \cup {k} /\ Announce(Event("created", k))
    /\ LookUp(c, k) /\ SeesFrom(c, k)
    /\ UNCHANGED <<requests, link, changes, ioStream, threadVars, countVars, cache,
                   ownerVars, requestId>>

\* getStreamsSynchronous, called once, or twice by getStream: a request that
\* cannot be sent throws, or is lost
Ask(c) ==
    LET first == pc[c] = "ask_all" IN
    /\ pc[c] \in {"ask_all", "ask_one", "list"}
    /\ \/ /\ ~isWorking
          /\ Goto(c, IF first THEN "ask_one" ELSE "read")
          /\ UNCHANGED <<requests, sent, requestId>>
       \/ /\ isWorking
          /\ Send(IF pc[c] = "ask_one" THEN Only({key[c]}) ELSE All)
          /\ requestId' = [requestId EXCEPT ![c] = sent + 1]
          /\ \/ Goto(c, IF first THEN "wait_all" ELSE "wait_one")
             \/ ~link /\ ioStream # "null" /\ Goto(c, "idle")
    /\ UNCHANGED <<streams, events, link, changes, ioStream, threadVars, received, needed,
                   cache, ownerVars, key, seen, calls>>

\* mutant of EndWait: the answer before is enough
EndWaitEarly(c) ==
    /\ pc[c] \in {"wait_all", "wait_one"} /\ received + 1 >= requestId[c]
    /\ Goto(c, IF pc[c] = "wait_all" THEN "ask_one" ELSE "read")
    /\ UNCHANGED <<serverVars, ioStream, threadVars, countVars, cache, ownerVars, key,
                   requestId, seen, calls>>

\* mutant of EndWait: the answer itself is not enough
EndWaitLate(c) ==
    /\ pc[c] \in {"wait_all", "wait_one"} /\ received > requestId[c]
    /\ Goto(c, IF pc[c] = "wait_all" THEN "ask_one" ELSE "read")
    /\ UNCHANGED <<serverVars, ioStream, threadVars, countVars, cache, ownerVars, key,
                   requestId, seen, calls>>

\* streamDefRequestCompleted
EndWait(c) ==
    /\ pc[c] \in {"wait_all", "wait_one"} /\ received >= requestId[c]
    /\ Goto(c, IF pc[c] = "wait_all" THEN "ask_one" ELSE "read")
    /\ UNCHANGED <<serverVars, ioStream, threadVars, countVars, cache, ownerVars, key,
                   requestId, seen, calls>>

\* getStream and listStreams return what the cache has
Read(c) ==
    /\ pc[c] = "read" /\ Goto(c, "idle")
    /\ seen' = [seen EXCEPT ![c] = FALSE] /\ requestId' = [requestId EXCEPT ![c] = 0]
    /\ UNCHANGED <<serverVars, ioStream, threadVars, countVars, cache, ownerVars, key, calls>>

\* stream_delete: the server deletes the stream ...
DeleteStream(c, k) ==
    /\ BeginCall(c, k) /\ k \in cache /\ k \in streams
    /\ streams' = streams \ {k} /\ Announce(Event("deleted", k))
    /\ Unseen({k}) /\ Goto(c, "remove")
    /\ UNCHANGED <<requests, link, changes, ioStream, threadVars, countVars, cache,
                   ownerVars, requestId>>

\* ... and onStreamDeleted removes it from the cache, without waiting for the
\* announcement
Remove(c) ==
    /\ pc[c] = "remove" /\ Goto(c, "idle")
    /\ cache' = cache \ {key[c]}
    /\ Unseen({key[c]})
    /\ UNCHANGED <<serverVars, ioStream, threadVars, countVars, ownerVars, key, requestId,
                   calls>>

\* a cursor or a loader finds its own connection broken and tests this one
VerifyConnection ==
    /\ starting = "open" /\ ioStream # "null"
    /\ calls < MaxCalls /\ calls' = calls + 1
    /\ Send(Dummy)
    /\ UNCHANGED <<streams, events, link, changes, ioStream, threadVars, received, needed,
                   cache, ownerVars, pc, key, requestId, seen>>

CallStep(c) == Ask(c) \/ EndWait(c) \/ Read(c) \/ Remove(c)

\* c is sending a request, which lasts as long as the server does not read
CallBlocked(c) == link /\ isWorking /\ pc[c] \in {"ask_all", "ask_one", "list"}

Next ==
    \/ Serve \/ Change \/ EndSession \/ Break
    \/ Session
    \/ Owner \/ BeginStop \/ VerifyConnection
    \/ \E c \in Clients :
          \/ CallStep(c)
          \/ \E k \in Keys : \/ GetStream(c, k) \/ ListStreams(c, k)
                            \/ CreateStream(c, k) \/ DeleteStream(c, k)

Spec == Init /\ [][Next]_vars

\* Threads are scheduled, and the server answers the requests it has read as
\* long as it is connected.  Nothing is assumed of a thread that reads the rest
\* of an event or sends: that ends when the server goes on, or disconnects
Fairness ==
    /\ WF_vars(Serve) /\ WF_vars(Session /\ ~SessionBlocked) /\ WF_vars(Owner)
    /\ \A c \in Clients : WF_vars(CallStep(c) /\ ~CallBlocked(c))

FairSpec == Spec /\ Fairness

-----------------------------------------------------------------------------

TypeOK ==
    /\ streams \subseteq Keys /\ cache \subseteq Keys /\ needed \subseteq Keys
    /\ requests \in Seq(Requests) /\ events \in Seq(Events) /\ link \in BOOLEAN
    /\ ioStream \in {"open", "deleted", "null"}
    /\ tpc \in {"none", "begin", "loop", "reading", "needed", "close", "stopped", "done"}
    /\ starting \in {"creating", "assigning", "waiting", "open"}
    /\ stopping \in {"open", "waiting", "closed"}
    /\ thread \in BOOLEAN /\ isRunning \in BOOLEAN /\ shouldStop \in BOOLEAN
    /\ sent \in Nat /\ received \in 0 .. sent
    /\ pc \in [Clients -> {"idle", "list", "ask_all", "wait_all", "ask_one", "wait_one",
                           "read", "remove"}]
    /\ key \in [Clients -> Keys] /\ seen \in [Clients -> BOOLEAN]
    /\ requestId \in [Clients -> 0 .. sent]
    /\ changes \in 0 .. MaxChanges /\ calls \in 0 .. MaxCalls

\* Answers are counted, not matched, yet a call never goes on with the answer
\* to another request: on a connection that works, the answers on the way have
\* the numbers that follow the count, the requests those that follow them, and
\* none is missing (requestGetStreams, streamDefRequestCompleted)
AnswersFollowRequests ==
    link =>
        LET definitions == {i \in DOMAIN events : events[i].tag = "definition"}
            served == sent - Len(requests)
        IN  /\ received <= served
            /\ {events[i].id : i \in definitions} = received + 1 .. served
            /\ \A i, j \in definitions : i < j => events[i].id < events[j].id
            /\ \A i \in DOMAIN requests : requests[i].id = served + i

\* getStream and listStreams, once the answers they waited for are counted,
\* find a stream that was at the server all the time, whatever announcements of
\* older deletions and whatever other calls were under way
GetStreamFindsIt ==
    \A c \in Clients : pc[c] = "read" /\ seen[c] => key[c] \in cache

\* An answer that was on its way when a stream was deleted may bring it back
\* into the cache, but not for good: once nothing is on the way the cache
\* names no stream the server does not have
NoGhostStreams ==
    (link /\ tpc = "loop" /\ events = <<>>) => cache \subseteq streams

\* the server sends the rest of an event it has begun and reads the requests
\* of the session's thread, or disconnects
ServerLetsGo == []<>~SessionBlocked

\* and it reads those of the application's threads
ServerKeepsUp == \A c \in Clients : []<>~CallBlocked(c)

\* stop() comes to an end, if the server does not stop in the middle of an
\* event: processInput reads the rest with no timeout and stop() waits for it
\* (session_handler.cpp:514, 740, 752).  A thread that ended before start() had
\* stored it stays in thread_ (session_handler.cpp:977): this case, in which stop()
\* waits for ever, is left out
StopReturns ==
    ServerLetsGo =>
        ((stopping = "waiting" /\ ~(thread /\ tpc = "done")) ~> stopping = "closed")

\* while the session lasts, every call comes back, if the server reads what is
\* sent, sends the rest of what it has begun, and answers
CallsReturnInSession ==
    ServerLetsGo /\ ServerKeepsUp =>
        \A c \in Clients :
            pc[c] # "idle" ~> (pc[c] = "idle" \/ ~link \/ tpc = "close" \/ shouldStop)
=============================================================================
