----------------------------- MODULE TickCursor -----------------------------
(***************************************************************************)
(* The life of one cursor (http/tickcursor_http.cpp): select, next and     *)
(* nextIfAvailable, close from other threads, and the destructor.          *)
(*                                                                         *)
(* One thread, Reader, opens the cursor, reads it and deletes it.  Others  *)
(* may call close(): threads of the application, and those that are inside *)
(* TickDbImpl::close.  The flags of the cursor are volatile and are read   *)
(* and written with no lock in common: a step here is one access, or       *)
(* several of which only one matters to another thread.                    *)
(*                                                                         *)
(* What a connection's failure sets off in the database ("callback") and   *)
(* the database itself are in Database.tla, which extends this module.     *)
(* disconnectionLock_ is not a variable: it is only taken with closeLock_  *)
(* held, as its other use in next() stands behind a throw.                 *)
(***************************************************************************)

CONSTANTS
    Reader,     \* the thread that selects, reads and deletes
    Closers,    \* the threads that may call close()
    Mishaps     \* what may go wrong for close(), of what AllMishaps names

VARIABLES
    state,              \* only whether it is END matters here
    isInterrupted,
    isInNext,
    isOpen,
    activeInputStream,  \* is it not NULL
    inPool,             \* is the cursor in cursors_ of the database
    closeLock,          \* who holds closeLock_, or NoThread
    over,               \* has next thrown, or met the end of the connection
    conn,               \* the connection, as seen from the client
    closeRequested,     \* the server was sent a CloseRequest
    troubled,           \* history: one of Mishaps has happened
    pc                  \* where each thread is

AllMishaps == {
    "readsOn",      \* next() is called while a close() is under way
    "impatient",    \* the wait in close() runs out while Reader is in next()
    "requestFails"  \* the server does not get the request of close()
    }

NoThread == "NoThread"

ASSUME CursorAssumption ==
    /\ Reader \notin Closers /\ NoThread \notin Closers \cup {Reader}
    /\ Mishaps \subseteq AllMishaps

flags == <<state, isInterrupted, isInNext, isOpen>>
cursorVars == <<flags, activeInputStream, inPool, closeLock, over, conn,
                closeRequested, troubled, pc>>

Callers == {Reader} \cup Closers

Goto(t, step) == pc' = [pc EXCEPT ![t] = step]

(* A step of t that changes nothing but where t is. *)
Only(t, from, to) ==
    /\ pc[t] = from
    /\ Goto(t, to)
    /\ UNCHANGED <<flags, activeInputStream, inPool, closeLock, over, conn,
                   closeRequested, troubled>>

SelectSteps == {"selecting", "connected", "added"}
Mishap(which) == which \in Mishaps /\ troubled' = TRUE

CloseSteps == {"lock", "interrupt", "request", "wait", "drain", "remainder", "unlock"}
DoCloseSteps == {"doClose", "remove", "unopen"}
NextSteps == {"check", "poll", "read", "leave"}
CallbackSteps == {"callback", "held"}
Steps == {"none", "app", "out", "free", "failed", "gone"} \cup SelectSteps
         \cup CloseSteps \cup DoCloseSteps \cup NextSteps \cup CallbackSteps

Closing(t) == pc[t] \in CloseSteps \cup DoCloseSteps \cup CallbackSteps

(* Is the reader's call the destructor?  It says so by where it goes back *)
(* to; the other calls of the reader that get to doClose are next and     *)
(* select.                                                                *)
Deleting == closeLock = Reader \/ pc[Reader] \in {"lock", "free"}

CursorInit ==
    /\ state = "STARTED"
    /\ isInterrupted = FALSE /\ isInNext = FALSE /\ isOpen = FALSE
    /\ activeInputStream = FALSE /\ inPool = FALSE
    /\ closeLock = NoThread
    /\ over = FALSE
    /\ conn = "none"
    /\ closeRequested = FALSE
    /\ troubled = FALSE

-----------------------------------------------------------------------------
(* select: the connection, the header of the answer, then the cursor is    *)
(* put into the pool and only then marked as open.                         *)

Connect ==
    /\ pc[Reader] = "selecting"
    /\ conn' = "data"
    /\ activeInputStream' = TRUE
    /\ state' = "END"
    /\ Goto(Reader, "connected")
    /\ UNCHANGED <<isInterrupted, isInNext, isOpen, inPool, closeLock,
                   over, closeRequested, troubled>>

\* mutant of ReadHeader: the cursor is not added to the pool
ReadHeaderNotAdded ==
    /\ pc[Reader] = "connected"
    /\ conn = "data"
    /\ state' = "STARTED"
    /\ Goto(Reader, "added")
    /\ UNCHANGED <<isInterrupted, isInNext, isOpen, activeInputStream, inPool, closeLock,
                   over, conn, closeRequested, troubled>>

(* The header, and the records up to the id of the cursor; a terminator    *)
(* may come in its place.                                                  *)
ReadHeader ==
    /\ pc[Reader] = "connected"
    /\ conn = "data"
    /\ \/ state' = "STARTED" /\ UNCHANGED conn
       \/ state' = "END" /\ conn' = "idle"
    /\ inPool' = TRUE
    /\ Goto(Reader, "added")
    /\ UNCHANGED <<isInterrupted, isInNext, isOpen, activeInputStream, closeLock,
                   over, closeRequested, troubled>>

Opened ==
    /\ pc[Reader] = "added"
    /\ isOpen' = TRUE
    /\ Goto(Reader, "app")
    /\ UNCHANGED <<state, isInterrupted, isInNext, activeInputStream, inPool, closeLock,
                   over, conn, closeRequested, troubled>>

SelectFails ==
    /\ pc[Reader] \in {"selecting", "connected"}
    /\ over' = TRUE
    /\ Goto(Reader, IF conn = "broken" THEN "callback" ELSE "doClose")
    /\ UNCHANGED <<flags, activeInputStream, inPool, closeLock, conn, closeRequested, troubled>>

-----------------------------------------------------------------------------
(* next and nextIfAvailable.  The application does not go on after an      *)
(* exception, nor after the end of a connection: next() would call a       *)
(* method of activeInputStream_, which is NULL then.                       *)

CallNext ==
    /\ pc[Reader] = "app"
    /\ ~over
    /\ \/ (\A t \in Closers : ~Closing(t)) /\ UNCHANGED troubled
       \/ Mishap("readsOn")
    /\ isInNext' = TRUE
    /\ Goto(Reader, "check")
    /\ UNCHANGED <<state, isInterrupted, isOpen, activeInputStream, inPool, closeLock,
                   over, conn, closeRequested>>

(* The tests at the top of next(): an interruption is thrown, and the      *)
(* handler of exceptions closes the cursor.                                *)
Check ==
    /\ pc[Reader] = "check"
    /\ \/ state # "END" /\ Goto(Reader, "read") /\ UNCHANGED over
       \/ state = "END" /\ isInterrupted /\ Goto(Reader, "doClose") /\ over' = TRUE
       \/ state = "END" /\ ~isInterrupted /\ Goto(Reader, "poll") /\ UNCHANGED over
    /\ UNCHANGED <<flags, activeInputStream, inPool, closeLock, conn, closeRequested, troubled>>

(* At the end of the data: is there more?  What comes after it is at most  *)
(* the last chunk of the answer.                                           *)
Poll ==
    /\ pc[Reader] = "poll"
    /\ \/ Goto(Reader, "leave") /\ UNCHANGED state
       \/ conn = "eof" /\ state' = "STARTED" /\ Goto(Reader, "read")
       \/ conn = "broken" /\ Goto(Reader, "doClose") /\ UNCHANGED state
    /\ over' = (over \/ pc'[Reader] = "doClose")
    /\ UNCHANGED <<isInterrupted, isInNext, isOpen, activeInputStream, inPool, closeLock,
                   conn, closeRequested, troubled>>

(* A message: its state is stored whatever another thread stored before.   *)
ReadMessage ==
    /\ pc[Reader] = "read"
    /\ conn = "data"
    /\ state' = "READING"
    /\ Goto(Reader, "leave")
    /\ UNCHANGED <<isInterrupted, isInNext, isOpen, activeInputStream, inPool, closeLock,
                   over, conn, closeRequested, troubled>>

ReadTerminator ==
    /\ pc[Reader] = "read"
    /\ conn = "data"
    /\ conn' = "idle"
    /\ state' = "END"
    /\ Goto(Reader, "leave")
    /\ UNCHANGED <<isInterrupted, isInNext, isOpen, activeInputStream, inPool, closeLock,
                   over, closeRequested, troubled>>

NothingAvailable ==
    /\ pc[Reader] = "read"
    /\ conn \in {"data", "idle"}
    /\ Goto(Reader, "leave")
    /\ UNCHANGED <<flags, activeInputStream, inPool, closeLock, over, conn, closeRequested, troubled>>

(* The server closed the connection: no callback, and next returns FALSE.  *)
ReadEnd ==
    /\ pc[Reader] = "read"
    /\ conn = "eof"
    /\ over' = TRUE
    /\ Goto(Reader, "doClose")
    /\ UNCHANGED <<flags, activeInputStream, inPool, closeLock, conn, closeRequested, troubled>>

(* An error of the socket goes through the callback of the database first. *)
ReadError ==
    /\ pc[Reader] = "read"
    /\ conn = "broken"
    /\ over' = TRUE
    /\ Goto(Reader, "callback")
    /\ UNCHANGED <<flags, activeInputStream, inPool, closeLock, conn, closeRequested, troubled>>

LeaveNext ==
    /\ pc[Reader] = "leave"
    /\ isInNext' = FALSE
    /\ Goto(Reader, "app")
    /\ UNCHANGED <<state, isInterrupted, isOpen, activeInputStream, inPool, closeLock,
                   over, conn, closeRequested, troubled>>

-----------------------------------------------------------------------------
(* doClose: also called with the stream broken, and with no lock.          *)

DeleteStream(t) ==
    /\ pc[t] = "doClose"
    /\ state' = "END"
    /\ activeInputStream' = FALSE
    /\ Goto(t, "remove")
    /\ UNCHANGED <<isInterrupted, isInNext, isOpen, inPool, closeLock, over, conn,
                   closeRequested, troubled>>

\* mutant of RemoveFromPool: doClose does not take the cursor out of the pool
RemoveFromPoolNot(t) == Only(t, "remove", "unopen")

(* db_.remove *)
RemoveFromPool(t) ==
    /\ pc[t] = "remove"
    /\ inPool' = FALSE
    /\ Goto(t, "unopen")
    /\ UNCHANGED <<flags, activeInputStream, closeLock, over, conn, closeRequested, troubled>>

Unopen(t) ==
    /\ pc[t] = "unopen"
    /\ isOpen' = FALSE
    /\ Goto(t, CASE closeLock = t -> "unlock"
                 [] closeLock # t /\ isInNext -> "leave"
                 [] OTHER -> "failed")
    /\ UNCHANGED <<state, isInterrupted, isInNext, activeInputStream, inPool, closeLock,
                   over, conn, closeRequested, troubled>>

-----------------------------------------------------------------------------
(* close.  The destructor is close without a request, by the reader.       *)

(* A call of TickCursor::close by the application: not while the cursor is *)
(* opened or deleted, which is the application's to see to.                *)
CallClose(t) ==
    /\ pc[Reader] \notin SelectSteps \cup {"none", "failed", "gone"}
    /\ ~Deleting
    /\ Only(t, "out", "lock")

(* The destructor. *)
Delete ==
    /\ \A t \in Closers : ~Closing(t)
    /\ Only(Reader, "app", "lock")

LockToClose(t) ==
    /\ pc[t] = "lock"
    /\ closeLock = NoThread
    /\ closeLock' = t
    /\ Goto(t, IF isOpen THEN "interrupt" ELSE "unlock")
    /\ UNCHANGED <<flags, activeInputStream, inPool, over, conn, closeRequested, troubled>>

Interrupt(t) ==
    /\ pc[t] = "interrupt"
    /\ isInterrupted' = TRUE
    /\ state' = "END"
    /\ Goto(t, IF t = Reader THEN "wait" ELSE "request")
    /\ UNCHANGED <<isInNext, isOpen, activeInputStream, inPool, closeLock, over, conn,
                   closeRequested, troubled>>

(* Where the server is not reached the request throws, and close() goes to *)
(* its handler; an answer that is not a success is only logged.            *)
SendCloseRequest(t) ==
    /\ pc[t] = "request"
    /\ \/ closeRequested' = TRUE /\ Goto(t, "wait") /\ UNCHANGED troubled
       \/ /\ Mishap("requestFails")
          /\ Goto(t, "doClose") \/ Goto(t, "wait")
          /\ UNCHANGED closeRequested
    /\ UNCHANGED <<flags, activeInputStream, inPool, closeLock, over, conn>>

\* mutant of Wait: close() does not wait for next() to return
WaitNot(t) == Only(t, "wait", "drain")

(* The wait: the reader closed the cursor, or is not inside next(), or the *)
(* time is up.                                                             *)
Wait(t) ==
    \/ ~isOpen /\ Only(t, "wait", "unlock")
    \/ ~isInNext /\ Only(t, "wait", "drain")
    \/ /\ pc[t] = "wait"
       /\ isInNext
       /\ Mishap("impatient")
       /\ Goto(t, "drain")
       /\ UNCHANGED <<flags, activeInputStream, inPool, closeLock, over, conn, closeRequested>>

(* readRemainderAndClose *)
Drain(t) ==
    \/ isOpen /\ Only(t, "drain", "remainder")
    \/ ~isOpen /\ Only(t, "drain", "doClose")

(* getByte() until it throws, at the end of the connection. *)
ReadRemainder(t) ==
    \/ conn = "eof" /\ Only(t, "remainder", "doClose")
    \/ conn = "broken" /\ Only(t, "remainder", "callback")

Unlock(t) ==
    /\ pc[t] = "unlock"
    /\ closeLock' = NoThread
    /\ Goto(t, IF t = Reader THEN "free" ELSE "out")
    /\ UNCHANGED <<flags, activeInputStream, inPool, over, conn, closeRequested, troubled>>

(* The rest of freeResources, and the memory of the cursor. *)
Free ==
    /\ pc[Reader] = "free"
    /\ activeInputStream' = FALSE
    /\ Goto(Reader, "gone")
    /\ UNCHANGED <<flags, inPool, closeLock, over, conn, closeRequested, troubled>>

-----------------------------------------------------------------------------
(* The server, external: it ends the connection when asked to, and may do  *)
(* so by itself.  The connection breaks at any time.                       *)

ConnChanges(to) ==
    /\ conn' = to
    /\ UNCHANGED <<flags, activeInputStream, inPool, closeLock, over,
                   closeRequested, troubled, pc>>

ServerFollows == closeRequested /\ conn \in {"data", "idle"} /\ ConnChanges("eof")
ServerLeaves == conn \in {"data", "idle"} /\ ConnChanges("eof")
Break == conn \in {"data", "idle", "eof"} /\ ConnChanges("broken")

-----------------------------------------------------------------------------
NextStep ==
    \/ Check \/ Poll \/ ReadMessage \/ ReadTerminator \/ NothingAvailable
    \/ ReadEnd \/ ReadError \/ LeaveNext

SelectStep == Connect \/ ReadHeader \/ Opened \/ SelectFails

DoCloseStep(t) ==
    DeleteStream(t) \/ RemoveFromPool(t) \/ Unopen(t)

CloseStep(t) ==
    \/ LockToClose(t) \/ Interrupt(t) \/ SendCloseRequest(t)
    \/ Wait(t) \/ Drain(t) \/ ReadRemainder(t) \/ Unlock(t) \/ DoCloseStep(t)

CursorStep(t) ==
    \/ CloseStep(t)
    \/ t = Reader /\ (NextStep \/ SelectStep \/ Free)

-----------------------------------------------------------------------------
CursorTypeOK ==
    /\ state \in {"STARTED", "READING", "END"}
    /\ {isInterrupted, isInNext, isOpen} \subseteq BOOLEAN
    /\ {activeInputStream, inPool} \subseteq BOOLEAN
    /\ closeLock \in Callers \cup {NoThread}
    /\ over \in BOOLEAN
    /\ conn \in {"none", "data", "idle", "eof", "broken"}
    /\ {closeRequested, troubled} \subseteq BOOLEAN

(* Who calls a method of the stream finds it there all through the call:   *)
(* next() and a close() from elsewhere keep out of each other's way by     *)
(* isInNext_ and isOpen_ alone (lines 1398 to 1408).                       *)
StreamOutlivesUser ==
    ~troubled => \A t \in Callers :
        pc[t] \in {"poll", "read", "remainder"} \cup CallbackSteps => activeInputStream

(* What the destructor leaves behind is out of the pool from which         *)
(* TickDbImpl::close takes the cursors it closes.                          *)
PoolIsAlive == inPool => pc[Reader] \notin {"failed", "gone"}
=============================================================================
