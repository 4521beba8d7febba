------------------------------ MODULE Database ------------------------------
(***************************************************************************)
(* The end of a database (http/tickdb_http.cpp, session_handler.cpp): its  *)
(* close and deletion, the end of the session with the application's       *)
(* handler of onDisconnected, and the exception cork, which holds back     *)
(* threads whose connections fail until the application was told that the  *)
(* database is disconnected.  One cursor (TickCursor) and one other thread *)
(* with a connection, a loader's, live in it.                              *)
(*                                                                         *)
(* Threads: Owner opens, closes and deletes the database; Session is the   *)
(* session's thread, in whose handler the application may close or delete  *)
(* it too; Writers are threads of the application that write to a loader;  *)
(* Reader and the other members of Closers use the cursor.                 *)
(***************************************************************************)
EXTENDS TickCursor, Naturals, FiniteSets

CONSTANTS
    Owner,
    Session,
    Writers

ASSUME DatabaseAssumption ==
    /\ {Owner, Session} \subseteq Closers /\ Owner # Session
    /\ Writers \cap Callers = {}
    /\ IsFiniteSet(Closers) /\ IsFiniteSet(Writers)

VARIABLES
    isOpened, isClosed,
    thisLock,           \* who holds thisLock_ of the database, or NoThread
    exceptionCork,
    nBlocked,           \* nBlockedExceptionThreads_
    ioStream,           \* is ioStream_ of the session not NULL
    isRunning,          \* of the session's thread
    shouldStop,
    deleted,            \* the database was deleted
    n,                  \* n[t]: what t read in flushExceptions
    dbpc,               \* where each thread is in a call of the database
    told,               \* history: the handler of onDisconnected has returned
    closing,            \* history: close() of the database was called
    wasOpen,            \* history: the cursor was open at the first call of close()
    counted             \* history: the threads held when Owner or Session read nBlocked

dbFlags == <<isOpened, isClosed, exceptionCork, nBlocked>>
session == <<ioStream, isRunning, shouldStop>>
history == <<told, closing, wasOpen, counted>>
dbVars == <<dbFlags, session, thisLock, deleted, n, dbpc, history>>
vars == <<cursorVars, dbVars>>

Flushers == {Owner, Session}
DbSteps == {"new", "none", "out", "running", "stopped", "decide", "handler", "lock",
            "flush", "uncork", "sleep", "flushed", "join", "cursors", "clear", "closed"}
Corked == Callers \cup Writers
Held == {t \in Corked : pc[t] = "held"}

GotoDb(t, step) == dbpc' = [dbpc EXCEPT ![t] = step]

Init ==
    /\ CursorInit
    /\ pc = [t \in Corked |-> IF t = Reader THEN "none" ELSE "out"]
    /\ isOpened = FALSE /\ isClosed = FALSE
    /\ thisLock = NoThread
    /\ exceptionCork = FALSE /\ nBlocked = 0
    /\ ioStream = FALSE /\ isRunning = FALSE /\ shouldStop = FALSE
    /\ deleted = FALSE
    /\ n = [t \in Flushers |-> 0]
    /\ dbpc = [t \in Flushers |-> IF t = Owner THEN "new" ELSE "none"]
    /\ told = FALSE /\ closing = FALSE /\ wasOpen = FALSE
    /\ counted = [t \in Flushers |-> {}]

-----------------------------------------------------------------------------
(* open: the cork is put in before the session starts. *)

Open ==
    /\ dbpc[Owner] = "new"
    /\ isOpened' = TRUE
    /\ exceptionCork' = TRUE
    /\ ioStream' = TRUE
    /\ isRunning' = TRUE
    /\ dbpc' = [dbpc EXCEPT ![Owner] = "out", ![Session] = "running"]
    /\ UNCHANGED <<isClosed, nBlocked, shouldStop, thisLock, deleted, n, history, cursorVars>>

(* select tests isOpen() without the lock of close(). *)
Select ==
    /\ pc[Reader] = "none"
    /\ ~deleted
    /\ isOpened
    /\ Only(Reader, "none", "selecting")
    /\ UNCHANGED dbVars

-----------------------------------------------------------------------------
(* The callback of a connection that failed, and the cork. *)

(* The loader's connection fails, once. *)
WriteFails(t) ==
    /\ t \in Writers
    /\ Only(t, "out", "callback")
    /\ isOpened /\ ~deleted
    /\ UNCHANGED dbVars

Resume(t) == IF t \in Writers THEN "failed" ELSE "doClose"

(* onIOStreamDisconnected: with the session's connection there, the        *)
(* exception goes on to the application; otherwise the thread is counted.  *)
VerifyConnection(t) ==
    /\ pc[t] = "callback"
    /\ \/ /\ ioStream
          /\ Goto(t, Resume(t))
          /\ UNCHANGED nBlocked
       \/ /\ ~ioStream
          /\ Goto(t, "held")
          /\ nBlocked' = nBlocked + 1
    /\ UNCHANGED <<flags, activeInputStream, inPool, closeLock, over, conn,
                   closeRequested, troubled, isOpened, isClosed, exceptionCork, session,
                   thisLock, deleted, n, dbpc, history>>

\* mutant of GoOn: nBlockedExceptionThreads_ is not decremented
GoOnCounted(t) ==
    /\ pc[t] = "held"
    /\ Goto(t, Resume(t))
    /\ UNCHANGED <<flags, activeInputStream, inPool, closeLock, over, conn,
                   closeRequested, troubled, dbVars>>

GoOn(t) ==
    /\ pc[t] = "held"
    /\ Goto(t, Resume(t))
    /\ nBlocked' = nBlocked - 1
    /\ UNCHANGED <<flags, activeInputStream, inPool, closeLock, over, conn,
                   closeRequested, troubled, isOpened, isClosed, exceptionCork, session,
                   thisLock, deleted, n, dbpc, history>>

Uncorked(t) == ~exceptionCork /\ GoOn(t)
\* mutant of HeldTooLong: no limit to the wait
HeldTooLongNever(t) == FALSE

HeldTooLong(t) == exceptionCork /\ GoOn(t)     \* the five seconds are over

-----------------------------------------------------------------------------
(* flushExceptions, by t: the count is read first, then the cork is drawn. *)

ReadCount(t) ==
    /\ dbpc[t] = "flush"
    /\ n' = [n EXCEPT ![t] = nBlocked]
    /\ counted' = [counted EXCEPT ![t] = Held]
    /\ GotoDb(t, "uncork")
    /\ UNCHANGED <<cursorVars, dbFlags, session, thisLock, deleted, told, closing, wasOpen>>

Uncork(t) ==
    /\ dbpc[t] = "uncork"
    /\ exceptionCork' = FALSE
    /\ GotoDb(t, IF n[t] # 0 THEN "sleep" ELSE "flushed")
    /\ UNCHANGED <<cursorVars, isOpened, isClosed, nBlocked, session, thisLock,
                   deleted, n, history>>

\* mutant of Flushed: no wait for who is held
FlushedAtOnce(t) ==
    /\ dbpc[t] = "sleep"
    /\ GotoDb(t, "flushed")
    /\ UNCHANGED <<cursorVars, dbFlags, session, thisLock, deleted, n, history>>

Flushed(t) ==
    /\ dbpc[t] = "sleep"
    /\ nBlocked = 0
    /\ GotoDb(t, "flushed")
    /\ UNCHANGED <<cursorVars, dbFlags, session, thisLock, deleted, n, history>>

(* n is a local variable. *)
LeaveFlush(t) ==
    /\ n' = [n EXCEPT ![t] = 0]
    /\ counted' = [counted EXCEPT ![t] = {}]

-----------------------------------------------------------------------------
(* close, by t: Owner, or the handler of onDisconnected in Session; the    *)
(* destructor is close() and the end of the object.                        *)

(* t, which may close a cursor or the database, runs the application's code. *)
InApplication(t) ==
    /\ pc[t] = "out"
    /\ t = Owner => dbpc[t] = "out"
    /\ t = Session => dbpc[t] = "handler"

CanCloseDb(t) ==
    /\ ~deleted
    /\ ~Deleting
    /\ t \in Flushers /\ InApplication(t)

CallCloseDb(t) ==
    /\ CanCloseDb(t)
    /\ GotoDb(t, "lock")
    /\ closing' = TRUE
    /\ wasOpen' = IF closing THEN wasOpen ELSE isOpen
    /\ UNCHANGED <<cursorVars, dbFlags, session, thisLock, deleted, n, told, counted>>

LockDb(t) ==
    /\ dbpc[t] = "lock"
    /\ thisLock = NoThread
    /\ thisLock' = t
    /\ GotoDb(t, "flush")
    /\ UNCHANGED <<cursorVars, dbFlags, session, deleted, n, history>>

(* sessionHandler_.stop() *)
StopSession(t) ==
    /\ dbpc[t] = "flushed"
    /\ thisLock = t
    /\ shouldStop' = TRUE
    /\ LeaveFlush(t)
    /\ GotoDb(t, "join")
    /\ UNCHANGED <<cursorVars, dbFlags, ioStream, isRunning, thisLock, deleted, told,
                   closing, wasOpen>>

SessionStopped(t) ==
    /\ dbpc[t] = "join"
    /\ ~isRunning
    /\ GotoDb(t, IF isOpened THEN "cursors" ELSE "closed")
    /\ UNCHANGED <<cursorVars, dbFlags, session, thisLock, deleted, n, history>>

(* The cursors in the pool are closed, with a request and no exception.    *)
CloseCursors(t) ==
    /\ dbpc[t] = "cursors"
    /\ IF inPool THEN Goto(t, "lock") ELSE UNCHANGED pc
    /\ GotoDb(t, "clear")
    /\ UNCHANGED <<flags, activeInputStream, inPool, closeLock, over, conn,
                   closeRequested, troubled, dbFlags, session, thisLock, deleted, n, history>>

ClearCache(t) ==
    /\ dbpc[t] = "clear"
    /\ pc[t] = "out"
    /\ isOpened' = FALSE
    /\ GotoDb(t, "closed")
    /\ UNCHANGED <<cursorVars, isClosed, exceptionCork, nBlocked, session,
                   thisLock, deleted, n, history>>

AfterClose(t) == IF t = Owner THEN "out" ELSE "flush"

(* close() is over. *)
EndClose(t) ==
    /\ dbpc[t] = "closed"
    /\ isClosed' = TRUE
    /\ thisLock' = NoThread
    /\ told' = (told \/ t = Session)
    /\ GotoDb(t, AfterClose(t))
    /\ UNCHANGED <<cursorVars, isOpened, exceptionCork, nBlocked, session,
                   deleted, n, closing, wasOpen, counted>>

(* The destructor is over.  The application deletes the database when no   *)
(* thread of its own is in a call of it, or of a cursor or loader of it.   *)
DeleteDb(t) ==
    /\ dbpc[t] = "closed"
    /\ \A u \in Flushers \ {t} : dbpc[u] \notin {"lock", "handler"}
    /\ pc[Reader] \in {"none", "app", "failed", "gone"}
    /\ \A u \in Writers : pc[u] \notin CallbackSteps
    /\ \A u \in Closers : ~Closing(u)
    /\ isClosed' = TRUE
    /\ thisLock' = NoThread
    /\ deleted' = TRUE
    /\ told' = (told \/ t = Session)
    /\ GotoDb(t, AfterClose(t))
    /\ UNCHANGED <<cursorVars, isOpened, exceptionCork, nBlocked, session, n, closing,
                   wasOpen, counted>>

-----------------------------------------------------------------------------
(* The session's thread, from where its loop ends. *)

(* The server ended the session, the connection broke, or stop() was called. *)
LeaveLoop ==
    /\ dbpc[Session] = "running"
    /\ ioStream' = FALSE
    /\ GotoDb(Session, "stopped")
    /\ UNCHANGED <<cursorVars, dbFlags, isRunning, shouldStop, thisLock, deleted, n, history>>

\* mutant of Stopped: the thread counts as running while the handler runs
StoppedRunning ==
    /\ dbpc[Session] = "stopped"
    /\ GotoDb(Session, "decide")
    /\ UNCHANGED <<cursorVars, dbFlags, session, thisLock, deleted, n, history>>

Stopped ==
    /\ dbpc[Session] = "stopped"
    /\ isRunning' = FALSE
    /\ GotoDb(Session, "decide")
    /\ UNCHANGED <<cursorVars, dbFlags, ioStream, shouldStop, thisLock, deleted, n, history>>

\* mutant of OnDisconnected: the exceptions are flushed instead of the event
OnDisconnectedNot ==
    /\ dbpc[Session] = "decide"
    /\ GotoDb(Session, "flush")
    /\ UNCHANGED <<cursorVars, dbFlags, session, thisLock, deleted, n, history>>

(* The event is for a session that ended by itself. *)
OnDisconnected ==
    /\ dbpc[Session] = "decide"
    /\ GotoDb(Session, IF shouldStop THEN "flush" ELSE "handler")
    /\ UNCHANGED <<cursorVars, dbFlags, session, thisLock, deleted, n, history>>

(* The application's handler returns without closing anything. *)
HandlerReturns ==
    /\ InApplication(Session)
    /\ told' = TRUE
    /\ GotoDb(Session, "flush")
    /\ UNCHANGED <<cursorVars, dbFlags, session, thisLock, deleted, n, closing, wasOpen, counted>>

ThreadEnds ==
    /\ dbpc[Session] = "flushed"
    /\ thisLock # Session
    /\ LeaveFlush(Session)
    /\ GotoDb(Session, "none")
    /\ UNCHANGED <<cursorVars, dbFlags, session, thisLock, deleted, told, closing, wasOpen>>

-----------------------------------------------------------------------------
(* The application uses a cursor while its database is there, and deletes  *)
(* it neither during a close of the database nor from two threads.         *)
Application ==
    /\ ~deleted
    /\ \/ CallNext
       \/ \E t \in Closers : InApplication(t) /\ CallClose(t)
       \/ thisLock = NoThread /\ (\A t \in Flushers : dbpc[t] # "lock") /\ Delete
    /\ UNCHANGED dbVars

Fate == (ServerLeaves \/ Break) /\ UNCHANGED dbVars

Follows == ServerFollows /\ UNCHANGED dbVars

(* What t does once it is in a call of the cursor, or in the cork. *)
CallStep(t) ==
    \/ t \in Callers /\ CursorStep(t) /\ UNCHANGED dbVars
    \/ VerifyConnection(t) \/ Uncorked(t) \/ HeldTooLong(t)

FlushStep(t) == ReadCount(t) \/ Uncork(t) \/ Flushed(t)

CloseDbStep(t) ==
    LockDb(t) \/ StopSession(t) \/ SessionStopped(t) \/ CloseCursors(t) \/ ClearCache(t)
    \/ EndClose(t) \/ DeleteDb(t)

SessionStep == Stopped \/ OnDisconnected \/ ThreadEnds

Next ==
    \/ Open \/ Select \/ Application \/ Fate \/ Follows
    \/ \E t \in Corked : CallStep(t) \/ WriteFails(t)
    \/ \E t \in Flushers : CallCloseDb(t) \/ CloseDbStep(t) \/ FlushStep(t)
    \/ LeaveLoop \/ SessionStep \/ HandlerReturns

Spec == Init /\ [][Next]_vars

(* What a thread does without waiting for the server or the application:   *)
(* no fairness for messages, nor for what the application may leave undone *)
(* but for its handler of onDisconnected, which ends.                      *)
OwnStep(t) ==
    \/ VerifyConnection(t) \/ Uncorked(t) \/ HeldTooLong(t)
    \/ t \in Callers /\ CloseStep(t) /\ UNCHANGED dbVars
    \/ /\ t = Reader
       /\ Check \/ Poll \/ ReadEnd \/ ReadError \/ LeaveNext \/ Opened \/ Free
       /\ UNCHANGED dbVars
    \/ t \in Flushers /\ (FlushStep(t) \/ CloseDbStep(t))
    \/ t = Session /\ (SessionStep \/ HandlerReturns \/ CallCloseDb(t))

(* The locks go to who waits: the application calls close() finitely often. *)
FairSpec ==
    /\ Spec
    /\ \A t \in Corked : WF_vars(OwnStep(t))
    /\ \A t \in Flushers : SF_vars(LockDb(t))
    /\ \A t \in Closers : SF_vars(LockToClose(t) /\ UNCHANGED dbVars)
    /\ WF_vars(shouldStop /\ LeaveLoop)
    /\ WF_vars(Follows)

-----------------------------------------------------------------------------
\* Types, and where the threads can be
TypeOK ==
    /\ CursorTypeOK
    /\ pc \in [Corked -> Steps]
    /\ dbpc \in [Flushers -> DbSteps]
    /\ nBlocked = Cardinality(Held)
    /\ thisLock \in Flushers \cup {NoThread}
    /\ {isOpened, isClosed, exceptionCork, ioStream, isRunning, shouldStop, deleted} \subseteq BOOLEAN
    /\ {told, closing, wasOpen} \subseteq BOOLEAN
    /\ n \in [Flushers -> 0 .. Cardinality(Corked)]
    /\ counted \in [Flushers -> SUBSET Corked]

\* A thread whose connection fails when the session is over goes on to throw
\* (but for the five seconds) only after the application's handler of
\* onDisconnected has returned, or after it called close() of the database
DisconnectionIsToldFirst == [][\A t \in Corked : Uncorked(t) => told \/ closing]_vars

\* The threads that flushExceptions counted are out of the cork when it
\* returns: the close() that goes on to delete things does not meet them there
FlushWaitsForCounted ==
    \A t \in Flushers : dbpc[t] = "flushed" => counted[t] \cap Held = {}

\* "we want to close all cursors no matter what": a cursor that was open when
\* close() of the database was called has no connection any more when it has returned
CloseClosesCursor == isClosed /\ wasOpen => ~activeInputStream

\* close() of the database returns, from the handler of onDisconnected too
CloseReturns == \A t \in Flushers : dbpc[t] = "lock" ~> dbpc[t] \in {"out", "flush", "none"}

\* close() of a cursor returns, with a reader inside next() or in the cork
CursorCloseReturns == \A t \in Closers : pc[t] = "lock" ~> pc[t] = "out"
=============================================================================
