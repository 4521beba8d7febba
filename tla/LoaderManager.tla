--------------------------- MODULE LoaderManager ---------------------------
(***************************************************************************)
(* The life of tick loaders: LoaderManager (loader_manager.cpp), the       *)
(* background thread that polls every loader for answers of the server,    *)
(* and the part of TickLoaderImpl (tickloader_http.cpp) that opens a       *)
(* loader, finishes it, takes it out of the manager and frees it.          *)
(*                                                                         *)
(* A loader is its address: after `delete` the allocator may return the    *)
(* same address for the next one, so the manager's snapshot of the set     *)
(* (raw pointers) can name a loader that is gone, or another one.          *)
(*                                                                         *)
(* Two locks are taken.  LoaderManager::thisLock_ is only ever locked for  *)
(* writing: `thisLock` is who holds it.  The lock inside the set loaders_  *)
(* is held for reading by the manager's thread while it serves a loader    *)
(* (`serving`); add and remove hold it for writing, for one step.          *)
(***************************************************************************)

CONSTANTS Loaders,   \* addresses a TickLoaderImpl can have
          Threads,   \* application threads
          Owner,     \* Owner[l]: the threads that open, finish and delete l
          Stopper,   \* the thread in TickDbImpl::close
          Nobody     \* the value of thisLock when it is free

ASSUME ThreadsAssumption ==
    /\ Stopper \notin Threads
    /\ Nobody \notin Threads \cup {Stopper}
    /\ Owner \in [Loaders -> SUBSET Threads]

VARIABLES
    state,         \* [Loaders]: state_, "none" while nothing is allocated
    interruption,  \* [Loaders]: interruption_
    linked,        \* [Loaders]: ioStream_ is not NULL
    stream,        \* [Loaders]: the IOStream object
    loaders,       \* LoaderManager::loaders_
    beingRemoved,  \* LoaderManager::being_removed_
    thisLock,      \* the holder of LoaderManager::thisLock_
    pc, cur, op,   \* [Threads]: where a thread is, with which loader, and why
    mpc,           \* where the manager's thread is
    iter,          \* its snapshot of loaders_ (concurrent_ptr_set_iter)
    served,        \* the loader it is serving
    shouldStop,    \* LoaderManager::shouldStop_
    stopping       \* where TickDbImpl::close is

objVars  == <<state, interruption, linked, stream>>
setVars  == <<loaders, beingRemoved>>
mgrVars  == <<mpc, iter, served>>
stopVars == <<shouldStop, stopping>>
vars == <<objVars, setVars, thisLock, pc, cur, op, mgrVars, stopVars>>

-----------------------------------------------------------------------------

\* interruption_ <= Interruption::STOPPING
NotInterrupted == {"working", "stopping"}

Interruptions == NotInterrupted \cup
    {"client_finished", "server_ok", "error", "server_error", "disconnected"}

\* "writing" is every state in which isWriting() holds (TickLoader.tla tells
\* them apart); "closed" is NOT_INITIALIZED of a loader that was open
States  == {"none", "writing", "finished", "closed"}
Streams == {"none", "open", "output_closed", "closed", "freed"}

Calls == {"finish", "close", "delete"}
Ops   == {"none"} \cup Calls
Steps == {"idle", "connecting", "opening", "end_writing", "remove_wait", "remove_now",
          "waiting", "removing", "deregister", "deregistering", "disconnect",
          "free", "leave"}

\* mutant: process() does not lock loaders_
servingUnlocked == FALSE

\* the manager's thread holds the lock of loaders_ for reading
MgrSteps == {"scan", "enter", "reading", "in_block", "garbage", "drop", "exited"}
serving  == mpc \in {"enter", "reading", "in_block", "garbage", "drop"}

Init ==
    /\ state = [l \in Loaders |-> "none"]
    /\ interruption = [l \in Loaders |-> "working"]
    /\ linked = [l \in Loaders |-> FALSE]
    /\ stream = [l \in Loaders |-> "none"]
    /\ loaders = {} /\ beingRemoved = {} /\ thisLock = Nobody
    /\ pc = [t \in Threads |-> "idle"]
    /\ op = [t \in Threads |-> "none"]
    /\ \E l \in Loaders : cur = [t \in Threads |-> l] /\ served = l
    /\ mpc = "scan" /\ iter = {}
    /\ shouldStop = FALSE /\ stopping = "open"

Goto(t, s) == pc' = [pc EXCEPT ![t] = s]

-----------------------------------------------------------------------------
(* The application's threads.                                              *)

\* TickDbImpl::createLoader tests isOpen() here, without a lock ...
BeginOpen(t, l) ==
    /\ pc[t] = "idle" /\ t \in Owner[l]
    /\ state[l] = "none" /\ stopping # "closed"
    /\ \A u \in Threads : ~(pc[u] \in {"connecting", "opening"} /\ cur[u] = l)
    /\ cur' = [cur EXCEPT ![t] = l]
    /\ Goto(t, "connecting")
    /\ UNCHANGED <<objVars, setVars, thisLock, op, mgrVars, stopVars>>

\* ... then open() connects, sends its header and reads the answer, which has
\* no timeout; a handshake that fails leaves nothing behind
Connect(t) ==
    /\ pc[t] = "connecting"
    /\ Goto(t, "opening") \/ Goto(t, "idle")
    /\ UNCHANGED <<objVars, setVars, thisLock, cur, op, mgrVars, stopVars>>

\* ... and it ends by adding the loader to the manager
Open(t) ==
    LET l == cur[t] IN
    /\ pc[t] = "opening" /\ ~serving
    /\ loaders' = loaders \cup {l}
    /\ state' = [state EXCEPT ![l] = "writing"]
    /\ interruption' = [interruption EXCEPT ![l] = "working"]
    /\ linked' = [linked EXCEPT ![l] = TRUE]
    /\ stream' = [stream EXCEPT ![l] = "open"]
    /\ Goto(t, "idle")
    /\ UNCHANGED <<beingRemoved, thisLock, cur, op, mgrVars, stopVars>>

\* finish(), close() or delete is called: all run finishInternal, except on a
\* loader that close ran on.  The loop that waits for the writing thread, and
\* may time out, only takes time here.  Only a loader that finish or close ran
\* on is deleted here: on another the destructor runs the same steps, but what
\* they throw ends the program
BeginFinish(t, l, o) ==
    /\ pc[t] = "idle" /\ t \in Owner[l]
    /\ \/ o = "finish" /\ state[l] # "none"
       \/ o = "close"  /\ state[l] \in {"writing", "finished"}
       \/ o = "delete" /\ state[l] \in {"finished", "closed"}
    /\ cur' = [cur EXCEPT ![t] = l]
    /\ op'  = [op EXCEPT ![t] = o]
    /\ \/ /\ state[l] = "writing"
          /\ interruption' = [interruption EXCEPT ![l] = "stopping"]
          /\ Goto(t, "end_writing")
       \/ /\ state[l] = "finished" \/ (state[l] = "closed" /\ o = "finish")
          /\ Goto(t, "deregister")
          /\ UNCHANGED interruption
       \/ /\ state[l] = "closed" /\ o = "delete"
          /\ Goto(t, "leave")
          /\ UNCHANGED interruption
    /\ UNCHANGED <<state, linked, stream, setVars, thisLock, mgrVars, stopVars>>

\* whether the rest of the data and the terminator can be sent
CanEndWriting(l) ==
    /\ interruption[l] \in NotInterrupted
    /\ linked[l] /\ stream[l] = "open"

\* endWriting, flushOutput and closeOutput succeed (the answer of the server
\* is worth waiting for), are skipped, or the connection breaks in them.  They
\* send, and block as long as the server does not read
EndWriting(t) ==
    LET l == cur[t] IN
    /\ pc[t] = "end_writing"
    /\ state' = [state EXCEPT ![l] = "finished"]
    /\ \/ /\ CanEndWriting(l)
          /\ stream' = [stream EXCEPT ![l] = "output_closed"]
          /\ Goto(t, "remove_wait")
          /\ UNCHANGED <<interruption, op>>
       \/ /\ ~CanEndWriting(l)
          /\ Goto(t, "remove_now")
          /\ UNCHANGED <<interruption, stream, op>>
       \/ /\ CanEndWriting(l)
          /\ interruption' = [interruption EXCEPT ![l] = "disconnected"]
          /\ op' = [op EXCEPT ![t] = "finish"]  \* an exception skips the rest
          /\ Goto(t, "deregister")
          /\ UNCHANGED stream
    /\ UNCHANGED <<linked, setVars, thisLock, cur, mgrVars, stopVars>>

\* remove(): the loader is not found, or another thread is removing it
Unremovable(l) == l \notin loaders \/ l \in beingRemoved

\* LoaderManager::remove as finishInternal calls it, the first locked part:
\* false makes finishInternal throw and clean up
Remove(t) ==
    LET l == cur[t] IN
    /\ pc[t] \in {"remove_wait", "remove_now"}
    /\ thisLock = Nobody
    /\ \/ /\ Unremovable(l)
          /\ interruption' = [interruption EXCEPT ![l] = "error"]
          /\ op' = [op EXCEPT ![t] = "finish"]
          /\ Goto(t, "deregister")
          /\ UNCHANGED <<beingRemoved, thisLock>>
       \/ /\ ~Unremovable(l) /\ pc[t] = "remove_wait"
          /\ beingRemoved' = beingRemoved \cup {l}
          /\ Goto(t, "waiting")
          /\ UNCHANGED <<interruption, op, thisLock>>
       \/ /\ ~Unremovable(l) /\ pc[t] = "remove_now"
          /\ thisLock' = t
          /\ Goto(t, "removing")
          /\ UNCHANGED <<interruption, op, beingRemoved>>
    /\ UNCHANGED <<state, linked, stream, loaders, cur, mgrVars, stopVars>>

\* the wait for the server's answer ends with one, or with the timeout
\* (LOADER_DEFAULT_CLOSE_RESPONSE_TIMEOUT_MS): it needs no condition
StopWaiting(t) ==
    /\ pc[t] = "waiting" /\ thisLock = Nobody
    /\ thisLock' = t
    /\ Goto(t, "removing")
    /\ UNCHANGED <<objVars, setVars, cur, op, mgrVars, stopVars>>

\* mutant: being_removed_ is not cleaned up after the wait
UnlistForgets(t) ==
    /\ pc[t] \in {"removing", "deregistering"} /\ ~serving
    /\ loaders' = loaders \ {cur[t]}
    /\ thisLock' = Nobody
    /\ Goto(t, IF pc[t] = "removing" THEN "deregister" ELSE "disconnect")
    /\ UNCHANGED <<objVars, beingRemoved, cur, op, mgrVars, stopVars>>

\* under thisLock_: the loader leaves both sets, once the manager's thread
\* releases loaders_
Unlist(t) ==
    /\ pc[t] \in {"removing", "deregistering"} /\ ~serving
    /\ loaders' = loaders \ {cur[t]}
    /\ beingRemoved' = IF pc[t] = "removing" THEN beingRemoved \ {cur[t]}
                                             ELSE beingRemoved
    /\ thisLock' = Nobody
    /\ Goto(t, IF pc[t] = "removing" THEN "deregister" ELSE "disconnect")
    /\ UNCHANGED <<objVars, cur, op, mgrVars, stopVars>>

\* mutant: cleanup() relies on finish() having removed the loader
DeregisterNever(t) ==
    /\ pc[t] = "deregister" /\ thisLock = Nobody
    /\ Goto(t, "disconnect")
    /\ UNCHANGED <<objVars, setVars, thisLock, cur, op, mgrVars, stopVars>>

\* cleanup(): remove(this, false), its result ignored
Deregister(t) ==
    /\ pc[t] = "deregister" /\ thisLock = Nobody
    /\ \/ /\ Unremovable(cur[t])
          /\ Goto(t, "disconnect")
          /\ UNCHANGED thisLock
       \/ /\ ~Unremovable(cur[t])
          /\ thisLock' = t
          /\ Goto(t, "deregistering")
    /\ UNCHANGED <<objVars, setVars, cur, op, mgrVars, stopVars>>

\* closeConnection: ioStream_ is exchanged for NULL ...
Disconnect(t) ==
    LET l == cur[t] IN
    /\ pc[t] = "disconnect"
    /\ linked' = [linked EXCEPT ![l] = FALSE]
    /\ Goto(t, IF linked[l] THEN "free" ELSE "leave")
    /\ UNCHANGED <<state, interruption, stream, setVars, thisLock, cur, op,
                   mgrVars, stopVars>>

\* ... and whoever got the stream deletes it
Free(t) ==
    /\ pc[t] = "free"
    /\ stream' = [stream EXCEPT ![cur[t]] = "freed"]
    /\ Goto(t, "leave")
    /\ UNCHANGED <<state, interruption, linked, setVars, thisLock, cur, op,
                   mgrVars, stopVars>>

\* the end of cleanup(), of close() and of the destructor, which leaves no
\* object at the address
Leave(t) ==
    LET l == cur[t] IN
    /\ pc[t] = "leave"
    /\ \/ /\ op[t] = "delete"
          /\ state' = [state EXCEPT ![l] = "none"]
          /\ interruption' = [interruption EXCEPT ![l] = "working"]
          /\ stream' = [stream EXCEPT ![l] = "none"]
       \/ /\ op[t] # "delete"
          /\ state' = [state EXCEPT ![l] = IF op[t] = "close" THEN "closed" ELSE @]
          /\ interruption' = [interruption EXCEPT ![l] =
                                 IF @ = "working" THEN "client_finished" ELSE @]
          /\ UNCHANGED stream
    /\ Goto(t, "idle")
    /\ op' = [op EXCEPT ![t] = "none"]
    /\ UNCHANGED <<linked, setVars, thisLock, cur, mgrVars, stopVars>>

AppStep(t) ==
    \/ Connect(t) \/ Open(t) \/ EndWriting(t) \/ Remove(t) \/ StopWaiting(t)
    \/ Unlist(t) \/ Deregister(t) \/ Disconnect(t) \/ Free(t) \/ Leave(t)

\* t is in a call of the socket that lasts as long as the server likes
Blocked(t) ==
    \/ pc[t] = "connecting"
    \/ pc[t] = "end_writing" /\ CanEndWriting(cur[t])

AppCall(t, l) ==
    \/ BeginOpen(t, l)
    \/ \E o \in Calls : BeginFinish(t, l, o)

-----------------------------------------------------------------------------
(* The manager's thread.                                                   *)

\* processAll copies loaders_, once it is through the last copy
Snapshot ==
    /\ mpc = "scan" /\ iter = {} /\ ~shouldStop
    /\ iter' = loaders
    /\ UNCHANGED <<objVars, setVars, thisLock, pc, cur, op, mpc, served, stopVars>>

\* mutant: process() trusts its snapshot
ServeUnchecked(l) ==
    /\ mpc = "scan" /\ l \in iter
    /\ iter' = iter \ {l}
    /\ served' = l /\ mpc' = "enter"
    /\ UNCHANGED <<objVars, setVars, thisLock, pc, cur, op, stopVars>>

\* process(): loaders_ is locked for reading and the loader is looked up again
Serve(l) ==
    /\ mpc = "scan" /\ l \in iter
    /\ iter' = iter \ {l}
    /\ \/ l \in loaders /\ served' = l /\ mpc' = "enter"
       \/ l \notin loaders /\ UNCHANGED <<served, mpc>>
    /\ UNCHANGED <<objVars, setVars, thisLock, pc, cur, op, stopVars>>

\* processResponse returns at once for an interrupted loader
EnterProcess ==
    /\ mpc = "enter"
    /\ mpc' = IF interruption[served] \in NotInterrupted /\ linked[served]
              THEN "reading" ELSE "scan"
    /\ UNCHANGED <<objVars, setVars, thisLock, pc, cur, op, iter, served, stopVars>>

\* mutant: a value of the other enumeration, Error, is stored
InterruptWithError(i) == interruption' = [interruption EXCEPT ![served] = "io_error"]

Interrupt(i) == interruption' = [interruption EXCEPT ![served] = i]

\* tryRead, which does not block, finds nothing, the first byte of a block, a
\* token it does not know, or that the connection is broken (LOADER_KEEPALIVE_ID
\* is a block of one byte and changes nothing)
ReadResponse ==
    /\ mpc = "reading"
    /\ \/ /\ stream[served] # "closed"
          /\ \/ mpc' \in {"scan", "in_block"} /\ UNCHANGED interruption
             \/ mpc' = "garbage" /\ Interrupt("server_error")
       \/ mpc' = "drop" /\ Interrupt("disconnected")
    /\ UNCHANGED <<state, linked, stream, setVars, thisLock, pc, cur, op, iter,
                   served, stopVars>>

\* the reads of the rest of the block, which do block, with loaders_ locked: a
\* notification (it calls the listeners and changes nothing here), the final
\* answer of the server, one that is malformed, or the connection breaks in it
ReadBlock ==
    /\ mpc = "in_block"
    /\ \/ mpc' = "reading" /\ UNCHANGED interruption
       \/ mpc' = "scan" /\ \E i \in {"server_ok", "server_error", "error"} :
                               Interrupt(i)
       \/ mpc' = "drop" /\ Interrupt("disconnected")
    /\ UNCHANGED <<state, linked, stream, setVars, thisLock, pc, cur, op, iter,
                   served, stopVars>>

\* ioStream_->closeInput(), so that the next tryRead throws
RefuseInput ==
    /\ mpc = "garbage"
    /\ mpc' = "drop" /\ Interrupt("disconnected")
    /\ UNCHANGED <<state, linked, stream, setVars, thisLock, pc, cur, op, iter,
                   served, stopVars>>

\* ioStream_->close() in the handlers of IOStreamException
DropConnection ==
    /\ mpc = "drop"
    /\ stream' = [stream EXCEPT ![served] = "closed"]
    /\ mpc' = "scan"
    /\ UNCHANGED <<state, interruption, linked, setVars, thisLock, pc, cur, op,
                   iter, served, stopVars>>

\* mutant: the thread serves until the last loader is gone
ExitDrained ==
    /\ mpc = "scan" /\ iter = {} /\ shouldStop /\ loaders = {}
    /\ mpc' = "exited"
    /\ UNCHANGED <<objVars, setVars, thisLock, pc, cur, op, iter, served, stopVars>>

Exit ==
    /\ mpc = "scan" /\ iter = {} /\ shouldStop
    /\ mpc' = "exited"
    /\ UNCHANGED <<objVars, setVars, thisLock, pc, cur, op, iter, served, stopVars>>

Manager ==
    \/ Snapshot \/ (\E l \in Loaders : Serve(l)) \/ EnterProcess \/ ReadResponse
    \/ RefuseInput \/ DropConnection \/ Exit

-----------------------------------------------------------------------------
(* TickDbImpl::close.  It leaves the loaders that are still open alone.     *)

\* LoaderManager::stop holds thisLock_ while it joins the thread
BeginStop ==
    /\ stopping = "open" /\ thisLock = Nobody
    /\ thisLock' = Stopper
    /\ shouldStop' = TRUE /\ stopping' = "joining"
    /\ UNCHANGED <<objVars, setVars, pc, cur, op, mgrVars>>

\* mutant: the lock is not released on the way out
JoinedLocked ==
    /\ stopping = "joining" /\ mpc = "exited"
    /\ stopping' = "closed"
    /\ UNCHANGED <<objVars, setVars, thisLock, pc, cur, op, mgrVars, shouldStop>>

Joined ==
    /\ stopping = "joining" /\ mpc = "exited"
    /\ thisLock' = Nobody
    /\ stopping' = "closed"
    /\ UNCHANGED <<objVars, setVars, pc, cur, op, mgrVars, shouldStop>>

\* the database is closed and every loader is gone: the one state in which
\* nothing is left to do
Over ==
    /\ stopping = "closed"
    /\ \A l \in Loaders : state[l] = "none"
    /\ \A t \in Threads : pc[t] = "idle"
    /\ UNCHANGED vars

Next ==
    \/ \E t \in Threads : AppStep(t) \/ \E l \in Loaders : AppCall(t, l)
    \/ Manager \/ ReadBlock
    \/ BeginStop \/ Joined \/ Over

Spec == Init /\ [][Next]_vars

\* A call, once begun, goes on where the server cannot hold it: the waits have
\* timeouts, and the thread of the manager sleeps 10 ms between scans with no
\* lock held, so a thread that waits for a lock finds it free again and again
\* and gets it.  Nothing is assumed of ReadBlock, of Connect and of what
\* EndWriting sends: these end when the server reads, writes or disconnects
Fairness ==
    /\ \A t \in Threads : SF_vars(AppStep(t) /\ ~Blocked(t))
    /\ WF_vars(Manager)
    /\ WF_vars(Joined)

FairSpec == Spec /\ Fairness

-----------------------------------------------------------------------------

TypeOK ==
    /\ state \in [Loaders -> States]
    /\ interruption \in [Loaders -> Interruptions]
    /\ linked \in [Loaders -> BOOLEAN]
    /\ stream \in [Loaders -> Streams]
    /\ loaders \in SUBSET Loaders
    /\ beingRemoved \in SUBSET Loaders
    /\ thisLock \in Threads \cup {Stopper, Nobody}
    /\ pc \in [Threads -> Steps]
    /\ cur \in [Threads -> Loaders]
    /\ op \in [Threads -> Ops]
    /\ mpc \in MgrSteps
    /\ iter \in SUBSET Loaders
    /\ served \in Loaders
    /\ shouldStop \in BOOLEAN
    /\ stopping \in {"open", "joining", "closed"}

\* The manager's thread reads from a local copy of ioStream_, and calls
\* close() and closeInput() through ioStream_ itself: while it does, the stream
\* object exists and ioStream_ names it, although finish() frees it from
\* another thread with no lock held (processResponse, closeConnection)
StreamOutlivesReader ==
    mpc \in {"reading", "in_block", "garbage", "drop"} =>
        linked[served] /\ stream[served] \notin {"none", "freed"}

\* process() works on a raw pointer out of an old snapshot: the loader it
\* enters is never one that was deleted in between
LoaderOutlivesService == serving => state[served] \in {"writing", "finished"}

\* whatever a thread goes through in finish(), close() and delete, exceptions
\* and timeouts included, once it is back nothing is left of a loader that
\* does not write: not in loaders_, not in being_removed_, no stream
NoLeftover ==
    \A l \in Loaders :
        (/\ state[l] \in {"none", "finished", "closed"}
         /\ \A t \in Threads : cur[t] = l => pc[t] = "idle")
        => /\ l \notin loaders \cup beingRemoved
           /\ ~linked[l] /\ stream[l] \in {"none", "freed"}

\* being_removed_ names exactly the loaders some thread waits to remove, so
\* that a later loader at the same address is not taken for one
BeingRemovedIsExact ==
    \A l \in Loaders :
        l \in beingRemoved =>
            /\ l \in loaders
            /\ \E t \in Threads :
                   cur[t] = l /\ pc[t] \in {"waiting", "removing"}

\* the server sends the rest of a block it has begun, or disconnects, and its
\* blocks do not keep the manager's thread at one loader for ever
ServerLetsGo == []<>(mpc \notin {"reading", "in_block"})

\* and it reads what is sent and answers a handshake, or disconnects
ServerKeepsUp == \A t \in Threads : []<>~Blocked(t)

\* if so, every call comes back, whatever the server answers, also when it
\* never ends a load, and also when the database is being closed meanwhile.
\* processResponse reads with no timeout (tickloader_http.cpp:766-801): a server
\* that stops in the middle of a block holds the lock of loaders_, and with it
\* open(), finish() and close() of every loader
CallsReturn ==
    ServerLetsGo /\ ServerKeepsUp =>
        \A t \in Threads : pc[t] # "idle" ~> pc[t] = "idle"

\* if no block of the server stops in the middle, TickDbImpl::close gets past
\* the manager's thread: loaders that are being opened or finished, and a
\* server that does not read or answer them, do not hold it
StopReturns == ServerLetsGo => (stopping = "joining" ~> stopping = "closed")
=============================================================================
