-------------------------- MODULE Database_proofs --------------------------
(***************************************************************************)
(* What TLC checks of Database for one writer and two closers, proved for  *)
(* any finite sets of threads and any choice of mishaps.                   *)
(***************************************************************************)
EXTENDS Database, FiniteSetTheorems, TLAPS

-----------------------------------------------------------------------------
(* The cork's counter counts the threads in the cork.                      *)

\* the sets of threads are finite, and every flusher is one that calls the cursor
LEMMA FiniteThreads ==
    /\ IsFiniteSet(Corked) /\ Cardinality(Corked) \in Nat
    /\ IsFiniteSet(Held) /\ Cardinality(Held) \in 0 .. Cardinality(Corked)
    /\ Flushers \subseteq Closers /\ Closers \subseteq Callers /\ Callers \subseteq Corked
    /\ Reader \in Callers /\ NoThread \notin Callers /\ Reader \notin Flushers
<1>1. IsFiniteSet(Closers \cup {Reader})
  BY DatabaseAssumption, FS_AddElement
<1>2. IsFiniteSet(Corked)
  BY <1>1, DatabaseAssumption, FS_Union DEF Corked, Callers
<1>3. Cardinality(Corked) \in Nat /\ Held \in SUBSET Corked
  BY <1>2, FS_CardinalityType DEF Held
<1>4. IsFiniteSet(Held) /\ Cardinality(Held) <= Cardinality(Corked)
  BY <1>2, <1>3, FS_Subset
<1>5. Cardinality(Held) \in Nat
  BY <1>4, FS_CardinalityType
<1> QED BY <1>2, <1>3, <1>4, <1>5, DatabaseAssumption, CursorAssumption
       DEF Flushers, Callers, Corked

\* a thread that moves outside the cork leaves the count as it was
LEMMA HeldStays ==
  ASSUME pc \in [Corked -> Steps], NEW t \in Corked, NEW s,
         pc[t] # "held", s # "held", Goto(t, s)
  PROVE  Held' = Held
BY DEF Held, Goto

\* a thread that goes into the cork is one more
LEMMA HeldJoins ==
  ASSUME pc \in [Corked -> Steps], NEW t \in Corked, pc[t] # "held", Goto(t, "held")
  PROVE  Cardinality(Held') = Cardinality(Held) + 1
<1>1. Held' = Held \cup {t} /\ t \notin Held
  BY DEF Held, Goto
<1> QED BY <1>1, FiniteThreads, FS_AddElement

\* a thread that goes on is one less
LEMMA HeldLeaves ==
  ASSUME pc \in [Corked -> Steps], NEW t \in Corked, pc[t] = "held",
         NEW s, s # "held", Goto(t, s)
  PROVE  Cardinality(Held') = Cardinality(Held) - 1
<1>1. Held' = Held \ {t} /\ t \in Held
  BY DEF Held, Goto
<1> QED BY <1>1, FiniteThreads, FS_RemoveElement

-----------------------------------------------------------------------------
(* Types.                                                                  *)

DbTypeOK ==
    /\ dbpc \in [Flushers -> DbSteps]
    /\ thisLock \in Flushers \cup {NoThread}
    /\ {isOpened, isClosed, exceptionCork, ioStream, isRunning, shouldStop, deleted} \subseteq BOOLEAN
    /\ {told, closing, wasOpen} \subseteq BOOLEAN
    /\ n \in [Flushers -> 0 .. Cardinality(Corked)]
    /\ counted \in [Flushers -> SUBSET Corked]

\* a step of the cursor or of its connection, and where it may go
CursorMove(t) ==
    /\ CursorTypeOK'
    /\ pc[t] \notin {"none", "out", "held"} /\ \E s \in Steps \ {"held"} : Goto(t, s)

\* every step of a call of the cursor is such a step
LEMMA CursorStepMoves ==
  ASSUME CursorTypeOK, pc \in [Corked -> Steps], NEW t \in Callers, CursorStep(t)
  PROVE  CursorMove(t)
<1> USE FiniteThreads DEF CursorTypeOK, CursorMove, Goto, Only, flags, Mishap, Steps, SelectSteps,
        CloseSteps, DoCloseSteps, NextSteps, CallbackSteps
<1>1. CASE LockToClose(t)      BY <1>1 DEF LockToClose
<1>2. CASE Interrupt(t)        BY <1>2 DEF Interrupt
<1>3. CASE SendCloseRequest(t) BY <1>3 DEF SendCloseRequest
<1>4. CASE Wait(t)             BY <1>4 DEF Wait
<1>5. CASE Drain(t)            BY <1>5 DEF Drain
<1>6. CASE ReadRemainder(t)    BY <1>6 DEF ReadRemainder
<1>7. CASE Unlock(t)           BY <1>7 DEF Unlock
<1>8. CASE DoCloseStep(t)      BY <1>8 DEF DoCloseStep, DeleteStream, RemoveFromPool, Unopen
<1>9. CASE t = Reader /\ NextStep
  BY <1>9 DEF NextStep, Check, Poll, ReadMessage, ReadTerminator, NothingAvailable, ReadEnd,
              ReadError, LeaveNext
<1>10. CASE t = Reader /\ SelectStep
  BY <1>10 DEF SelectStep, Connect, ReadHeader, Opened, SelectFails
<1>11. CASE t = Reader /\ Free BY <1>11 DEF Free
<1> QED BY <1>1, <1>2, <1>3, <1>4, <1>5, <1>6, <1>7, <1>8, <1>9, <1>10, <1>11
       DEF CursorStep, CloseStep

\* a step of the database that leaves the cursor and all threads where they were
LEMMA PlaceStays ==
  ASSUME UNCHANGED pc
  PROVE  Held' = Held
BY DEF Held

\* a flusher that is in a call of the cursor is there from TickDbImpl::close,
\* or from its own code
InOneCall ==
    /\ dbpc[Owner] = "new" => dbpc[Session] = "none"
    /\ \A t \in Flushers :
        pc[t] = "out" \/ dbpc[t] = "clear" \/ dbpc[t] = IF t = Owner THEN "out" ELSE "handler"

TypeInv == TypeOK /\ InOneCall

\* every step keeps the types, and nBlocked the number of those in the cork
LEMMA TypeStep ==
  ASSUME TypeOK, InOneCall, [Next]_vars
  PROVE  TypeOK'
<1>a. CursorTypeOK /\ DbTypeOK /\ pc \in [Corked -> Steps] /\ nBlocked = Cardinality(Held)
     /\ InOneCall
  BY DEF TypeOK, DbTypeOK
<1>b. ASSUME CursorTypeOK', UNCHANGED dbVars, NEW t \in Corked, NEW s \in Steps,
             pc[t] # "held", s # "held", Goto(t, s)
      PROVE  TypeOK'
  <2>1. Held' = Held
    BY <1>a, <1>b, HeldStays
  <2> QED BY <1>a, <1>b, <2>1 DEF TypeOK, DbTypeOK, Goto, dbVars, dbFlags, session, history
<1>c. ASSUME CursorTypeOK', DbTypeOK', UNCHANGED <<pc, nBlocked>> PROVE TypeOK'
  BY <1>a, <1>c, PlaceStays DEF TypeOK, DbTypeOK
<1>1. CASE Open
  BY <1>1, <1>a, <1>c, FiniteThreads
     DEF Open, cursorVars, flags, history, CursorTypeOK, DbTypeOK, DbSteps, Flushers
<1>2. CASE Select
  BY <1>2, <1>a, <1>b, FiniteThreads DEF Select, Only, flags, CursorTypeOK, Steps, SelectSteps
<1>3. CASE Application
  <2>1. CASE CallNext
    BY <1>3, <2>1, <1>a, <1>b, FiniteThreads
       DEF Application, CallNext, Mishap, CursorTypeOK, Steps, NextSteps
  <2>2. ASSUME NEW t \in Closers, CallClose(t) PROVE TypeOK'
    BY <1>3, <2>2, <1>a, <1>b, FiniteThreads
       DEF Application, CallClose, Only, flags, CursorTypeOK, Steps, CloseSteps
  <2>3. CASE Delete
    BY <1>3, <2>3, <1>a, <1>b, FiniteThreads
       DEF Application, Delete, Only, flags, CursorTypeOK, Steps, CloseSteps
  <2> QED BY <1>3, <2>1, <2>2, <2>3 DEF Application
<1>4. CASE Fate \/ Follows
  BY <1>4, <1>a, <1>c DEF Fate, Follows, ServerLeaves, ServerFollows, Break, ConnChanges,
     flags, CursorTypeOK, DbTypeOK, dbVars, dbFlags, session, history
<1>5. ASSUME NEW t \in Corked, CallStep(t) \/ WriteFails(t) PROVE TypeOK'
  <2>1. CASE t \in Callers /\ CursorStep(t) /\ UNCHANGED dbVars
    BY <2>1, <1>a, <1>b, CursorStepMoves DEF CursorMove
  <2>2. CASE VerifyConnection(t)
    <3>1. CASE ioStream
      BY <2>2, <3>1, <1>a, HeldStays
         DEF VerifyConnection, Resume, Goto, flags, session, history, TypeOK, CursorTypeOK,
             DbTypeOK, Steps, DoCloseSteps
    <3>2. CASE ~ioStream
      <4>1. pc' = [pc EXCEPT ![t] = "held"] /\ Cardinality(Held') = nBlocked + 1
        BY <2>2, <3>2, <1>a, HeldJoins DEF VerifyConnection, Goto
      <4> QED BY <2>2, <3>2, <4>1, <1>a
            DEF VerifyConnection, flags, session, history, TypeOK, CursorTypeOK,
                DbTypeOK, Steps, CallbackSteps
    <3> QED BY <3>1, <3>2
  <2>3. CASE GoOn(t)
    <3>1. Goto(t, Resume(t)) /\ Resume(t) \in Steps \ {"held"}
      BY <2>3 DEF GoOn, Resume, Steps, DoCloseSteps
    <3>2. Cardinality(Held') = nBlocked - 1
      BY <2>3, <3>1, <1>a, HeldLeaves DEF GoOn
    <3> QED BY <2>3, <3>1, <3>2, <1>a
          DEF GoOn, Goto, flags, session, history, TypeOK, CursorTypeOK, DbTypeOK
  <2>4. CASE WriteFails(t)
    BY <2>4, <1>a, <1>b DEF WriteFails, Only, flags, CursorTypeOK, Steps, CallbackSteps
  <2> QED BY <1>5, <2>1, <2>2, <2>3, <2>4 DEF CallStep, Uncorked, HeldTooLong
<1>6. ASSUME NEW t \in Flushers, CallCloseDb(t) \/ CloseDbStep(t) \/ FlushStep(t)
      PROVE  TypeOK'
  <2> USE <1>a, <1>c, FiniteThreads
      DEF cursorVars, flags, dbFlags, session, history, GotoDb, CursorTypeOK, DbTypeOK,
          DbSteps, LeaveFlush, AfterClose
  <2>1. CASE CallCloseDb(t)    BY <2>1 DEF CallCloseDb
  <2>2. CASE LockDb(t)         BY <2>2 DEF LockDb
  <2>3. CASE StopSession(t)    BY <2>3 DEF StopSession
  <2>4. CASE SessionStopped(t) BY <2>4 DEF SessionStopped
  <2>5. CASE CloseCursors(t)
    <3>1. pc[t] = "out"
      BY <2>5, <1>a DEF CloseCursors, InOneCall
    <3>2. CASE inPool
      BY <2>5, <3>1, <3>2, HeldStays DEF CloseCursors, Goto, TypeOK, Steps, CloseSteps
    <3> QED BY <2>5, <3>2 DEF CloseCursors
  <2>6. CASE ClearCache(t)     BY <2>6 DEF ClearCache
  <2>7. CASE EndClose(t)       BY <2>7 DEF EndClose, AfterClose
  <2>8. CASE DeleteDb(t)       BY <2>8 DEF DeleteDb, AfterClose
  <2>9. CASE ReadCount(t)
    <3>1. nBlocked \in 0 .. Cardinality(Corked) /\ Held \in SUBSET Corked
      BY DEF Held
    <3> QED BY <2>9, <3>1 DEF ReadCount
  <2>10. CASE Uncork(t)        BY <2>10 DEF Uncork
  <2>11. CASE Flushed(t)       BY <2>11 DEF Flushed
  <2> QED BY <1>6, <2>1, <2>2, <2>3, <2>4, <2>5, <2>6, <2>7, <2>8, <2>9, <2>10, <2>11
        DEF CloseDbStep, FlushStep
<1>7. CASE LeaveLoop \/ SessionStep \/ HandlerReturns
  <2> USE <1>a, <1>c, FiniteThreads
      DEF cursorVars, flags, dbFlags, session, history, GotoDb, CursorTypeOK, DbTypeOK,
          DbSteps, LeaveFlush
  <2>1. Session \in Flushers
    BY DEF Flushers
  <2>2. CASE LeaveLoop      BY <2>1, <2>2 DEF LeaveLoop
  <2>3. CASE Stopped        BY <2>1, <2>3 DEF Stopped
  <2>4. CASE OnDisconnected BY <2>1, <2>4 DEF OnDisconnected
  <2>5. CASE ThreadEnds     BY <2>1, <2>5 DEF ThreadEnds
  <2>6. CASE HandlerReturns BY <2>1, <2>6 DEF HandlerReturns
  <2> QED BY <1>7, <2>2, <2>3, <2>4, <2>5, <2>6 DEF SessionStep
<1>8. CASE UNCHANGED vars
  BY <1>8, <1>a, <1>c DEF vars, cursorVars, dbVars, flags, dbFlags, session, history,
     CursorTypeOK, DbTypeOK
<1> QED BY <1>1, <1>2, <1>3, <1>4, <1>5, <1>6, <1>7, <1>8 DEF Next

\* no step puts a flusher into two calls
LEMMA OneCallStep ==
  ASSUME TypeOK, InOneCall, [Next]_vars
  PROVE  InOneCall'
<1> USE FiniteThreads DEF InOneCall
<1>a. pc \in [Corked -> Steps] /\ dbpc \in [Flushers -> DbSteps]
  BY DEF TypeOK
<1>b. ASSUME UNCHANGED dbpc, NEW t \in Corked, NEW s, pc[t] # "out", Goto(t, s)
      PROVE  InOneCall'
  BY <1>a, <1>b DEF Goto
<1>c. ASSUME UNCHANGED pc, NEW t \in Flushers, NEW s, GotoDb(t, s),
             pc[t] = "out", dbpc[t] # "none", s # "new"
      PROVE  InOneCall'
  BY <1>a, <1>c DEF GotoDb
<1>1. CASE Open
  BY <1>1, <1>a, DatabaseAssumption DEF Open, cursorVars, Flushers
<1>2. CASE Select \/ Fate \/ Follows \/ UNCHANGED vars
  BY <1>2, <1>a, <1>b DEF Select, Fate, Follows, Only, ServerLeaves, ServerFollows, Break, ConnChanges,
                    dbVars, vars, cursorVars
<1>3. CASE Application
  <2>1. CASE CallNext \/ Delete
    BY <1>3, <2>1, <1>a, <1>b DEF Application, CallNext, Delete, Only, dbVars
  <2>2. ASSUME NEW t \in Closers, InApplication(t), CallClose(t) PROVE InOneCall'
    BY <1>3, <2>2, <1>a, DatabaseAssumption
       DEF Application, CallClose, Only, dbVars, InApplication, Goto, Flushers
  <2> QED BY <1>3, <2>1, <2>2 DEF Application
<1>4. ASSUME NEW t \in Corked, CallStep(t) \/ WriteFails(t) PROVE InOneCall'
  <2>1. CASE t \in Callers /\ CursorStep(t) /\ UNCHANGED dbVars
    <3>1. pc[t] # "out" /\ \E s \in Steps : Goto(t, s)
      BY <2>1, <1>a, CursorStepMoves DEF CursorMove, TypeOK
    <3> QED BY <2>1, <3>1, <1>b DEF dbVars
  <2>2. CASE VerifyConnection(t) BY <2>2, <1>b DEF VerifyConnection
  <2>3. CASE GoOn(t) BY <2>3, <1>b DEF GoOn
  <2>4. CASE WriteFails(t)
    BY <2>4, <1>a, DatabaseAssumption DEF WriteFails, Only, Goto, dbVars
  <2> QED BY <1>4, <2>1, <2>2, <2>3, <2>4 DEF CallStep, Uncorked, HeldTooLong
<1>5. ASSUME NEW t \in Flushers, CallCloseDb(t) \/ CloseDbStep(t) \/ FlushStep(t)
      PROVE  InOneCall'
  <2> USE <1>a, <1>c DEF cursorVars
  <2>1. CASE CallCloseDb(t)    BY <2>1 DEF CallCloseDb, CanCloseDb, InApplication, Flushers
  <2>2. CASE LockDb(t)         BY <2>2 DEF LockDb
  <2>3. CASE StopSession(t)    BY <2>3 DEF StopSession
  <2>4. CASE SessionStopped(t) BY <2>4 DEF SessionStopped
  <2>5. CASE CloseCursors(t)   BY <2>5 DEF CloseCursors, Goto, GotoDb
  <2>6. CASE ClearCache(t)     BY <2>6 DEF ClearCache
  <2>7. CASE EndClose(t)       BY <2>7 DEF EndClose, AfterClose
  <2>8. CASE DeleteDb(t)       BY <2>8 DEF DeleteDb, AfterClose
  <2>9. CASE FlushStep(t)      BY <2>9 DEF FlushStep, ReadCount, Uncork, Flushed
  <2> QED BY <1>5, <2>1, <2>2, <2>3, <2>4, <2>5, <2>6, <2>7, <2>8, <2>9 DEF CloseDbStep
<1>6. CASE LeaveLoop \/ SessionStep \/ HandlerReturns
  <2>1. Session \in Flushers /\ Session # Owner
    BY DatabaseAssumption DEF Flushers
  <2> QED BY <1>6, <2>1, <1>a, <1>c DEF LeaveLoop, SessionStep, Stopped, OnDisconnected, ThreadEnds,
             HandlerReturns, InApplication, GotoDb, cursorVars
<1> QED BY <1>1, <1>2, <1>3, <1>4, <1>5, <1>6 DEF Next

\* Every variable has its type, nBlocked_ counts the threads that are held in the
\* cork, and a thread that closes the database is in no other call of the cursor.
THEOREM TypeInvariant == Spec => []TypeInv
<1>1. Init => TypeInv
  <2> SUFFICES ASSUME Init PROVE TypeInv
    OBVIOUS
  <2> USE FiniteThreads
  <2>1. Held = {}
    BY DEF Init, Held
  <2>2. CursorTypeOK
    BY DEF Init, CursorInit, CursorTypeOK
  <2>3. DbTypeOK
    <3>1. counted \in [Flushers -> SUBSET Corked] /\ n \in [Flushers -> 0 .. Cardinality(Corked)]
      BY DEF Init
    <3>2. dbpc \in [Flushers -> DbSteps]
      BY DEF Init, DbSteps
    <3> QED BY <3>1, <3>2 DEF Init, DbTypeOK
  <2>4. pc \in [Corked -> Steps] /\ InOneCall
    BY DatabaseAssumption DEF Init, Steps, InOneCall, Flushers
  <2> QED BY <2>1, <2>2, <2>3, <2>4, FS_EmptySet DEF TypeInv, TypeOK, DbTypeOK, Init
<1>2. TypeInv /\ [Next]_vars => TypeInv'
  BY TypeStep, OneCallStep DEF TypeInv
<1> QED BY <1>1, <1>2, PTL DEF Spec

\* every variable has its type in every reachable state, and
\* nBlockedExceptionThreads_ is the number of threads in the cork
THEOREM TypeCorrect == Spec => []TypeOK
<1>1. TypeInv => TypeOK
  BY DEF TypeInv
<1> QED BY <1>1, TypeInvariant, PTL

-----------------------------------------------------------------------------
(* What the database and its application do to the cursor.                 *)

\* a thread goes through the callback of a failed connection
Passes(t) == pc[t] \in CallbackSteps /\ \E s \in {"held", Resume(t)} : Only(t, pc[t], s)

\* close() of the cursor is called, by the application or by TickDbImpl::close
IsClosed(t) == CallClose(t) \/ (inPool /\ Only(t, "out", "lock"))

CursorNext ==
    \/ \E t \in Callers : CursorStep(t)
    \/ Only(Reader, "none", "selecting") \/ CallNext \/ Delete
    \/ \E t \in Closers : IsClosed(t)
    \/ conn # "none" /\ \E to \in {"eof", "broken"} : ConnChanges(to)
    \/ \E t \in Corked : Passes(t)
    \/ \E t \in Writers : Only(t, "out", "callback")

\* Seen from the cursor, every step of the database and of its application is one
\* of these.
LEMMA DatabaseStep ==
  ASSUME TypeInv, [Next]_vars
  PROVE  [CursorNext]_cursorVars
<1> USE FiniteThreads DEF CursorNext
<1>a. pc \in [Corked -> Steps] /\ dbpc \in [Flushers -> DbSteps] /\ InOneCall
  BY DEF TypeInv, TypeOK
<1>1. CASE Open                   BY <1>1 DEF Open
<1>2. CASE Select                 BY <1>2 DEF Select
<1>3. CASE Application
  <2>1. ASSUME NEW t \in Closers, CallClose(t) PROVE CursorNext
    BY <2>1 DEF IsClosed
  <2> QED BY <1>3, <2>1 DEF Application
<1>4. CASE Fate \/ Follows
  BY <1>4 DEF Fate, Follows, ServerLeaves, ServerFollows, Break
<1>5. ASSUME NEW t \in Corked, CallStep(t) \/ WriteFails(t) PROVE [CursorNext]_cursorVars
  <2>1. CASE VerifyConnection(t)
    BY <2>1 DEF VerifyConnection, Passes, Only, CallbackSteps
  <2>2. CASE GoOn(t)              BY <2>2 DEF GoOn, Passes, Only, CallbackSteps
  <2>3. CASE WriteFails(t)        BY <2>3 DEF WriteFails
  <2> QED BY <1>5, <2>1, <2>2, <2>3 DEF CallStep, Uncorked, HeldTooLong
<1>6. ASSUME NEW t \in Flushers, CallCloseDb(t) \/ CloseDbStep(t) \/ FlushStep(t)
      PROVE  [CursorNext]_cursorVars
  <2>1. CASE CloseCursors(t)
    <3>1. pc[t] = "out"
      BY <2>1, <1>a DEF CloseCursors, InOneCall
    <3> QED BY <2>1, <3>1 DEF CloseCursors, IsClosed, Only, cursorVars
  <2> QED BY <1>6, <2>1
        DEF CallCloseDb, CloseDbStep, LockDb, StopSession, SessionStopped, ClearCache, EndClose,
            DeleteDb, FlushStep, ReadCount, Uncork, Flushed
<1>7. CASE LeaveLoop \/ SessionStep \/ HandlerReturns
  BY <1>7 DEF LeaveLoop, SessionStep, Stopped, OnDisconnected, ThreadEnds, HandlerReturns
<1>8. CASE UNCHANGED vars
  BY <1>8 DEF vars
<1> QED BY <1>1, <1>2, <1>3, <1>4, <1>5, <1>6, <1>7, <1>8 DEF Next

-----------------------------------------------------------------------------
(* The cursor and who uses it.                                             *)

Inside == CloseSteps \ {"lock"}
InClose == Inside \cup DoCloseSteps \cup CallbackSteps

\* where each kind of thread can be
PlacesInv ==
    /\ \A t \in Closers : pc[t] \in {"out", "lock"} \cup InClose
    /\ \A t \in Writers : pc[t] \in {"out", "failed"} \cup CallbackSteps
    /\ pc[Reader] \notin {"out", "request"}

\* closeLock_ is held by who is in the body of close()
LockInv ==
    /\ \A t \in Closers : closeLock = t <=> pc[t] \in InClose
    /\ pc[Reader] \in Inside => closeLock = Reader
    /\ closeLock = Reader => pc[Reader] \in InClose

\* isInNext_ covers next() and the handler of its exceptions
NextInv ==
    /\ isInNext => /\ pc[Reader] \in NextSteps \cup CallbackSteps \cup DoCloseSteps
                   /\ closeLock # Reader
    /\ pc[Reader] \in NextSteps => isInNext
    /\ over => pc[Reader] \notin {"check", "poll", "read"}
    /\ pc[Reader] \in CallbackSteps \cup DoCloseSteps => over \/ closeLock = Reader

\* select is failing: its doClose, with neither a lock nor isInNext_
Failing ==
    /\ pc[Reader] \in CallbackSteps \cup DoCloseSteps
    /\ closeLock # Reader /\ ~isInNext

WasOpened == pc[Reader] \notin {"none", "failed"} \cup SelectSteps /\ ~Failing

PoolInv ==
    /\ isOpen => WasOpened
    /\ inPool => pc[Reader] = "added" \/ WasOpened
    /\ inPool /\ ~isOpen => pc[Reader] = "added"
    /\ pc[Reader] = "added" => inPool
    /\ \A t \in Callers : pc[t] \in {"remove", "unopen"} => ~activeInputStream
    /\ \A t \in Callers : pc[t] = "unopen" => ~inPool
    /\ \A t \in Closers : pc[t] \in InClose \ {"unlock"} => WasOpened
    /\ WasOpened /\ ~inPool => ~activeInputStream
    /\ pc[Reader] \in {"unlock", "free", "gone"} => ~isOpen

\* a close() that waits for nothing any more
Working == {"drain", "remainder"} \cup CallbackSteps \cup DoCloseSteps

\* A stream that is deleted leaves marks, which keep next() off it; and who
\* closes the cursor from elsewhere meets its reader in no call.
StreamInv ==
    /\ pc[Reader] \in {"none", "selecting"} => conn = "none"
    /\ pc[Reader] \in {"connected", "added"} => activeInputStream
    /\ isOpen /\ ~activeInputStream => \E t \in Callers : pc[t] \in {"remove", "unopen"}
    /\ ~troubled =>
        /\ \A t \in Closers : pc[t] \in Working => pc[Reader] \in {"app", "lock", "free", "gone"}
        /\ \A t \in Closers : pc[t] \in Working \cup {"request", "wait"} => isInterrupted
        /\ WasOpened /\ ~activeInputStream =>
               /\ state = "END"
               /\ \/ isInterrupted \/ over \/ closeLock = Reader
                  \/ pc[Reader] \in {"free", "gone"}
        /\ StreamOutlivesUser

CursorInv == PlacesInv /\ LockInv /\ NextInv /\ PoolInv /\ StreamInv

\* no step of the cursor, of its callers or of its connection breaks its invariant
LEMMA CursorInvStep ==
  ASSUME CursorTypeOK, pc \in [Corked -> Steps], CursorInv, [CursorNext]_cursorVars
  PROVE  CursorInv'
<1> USE FiniteThreads, DatabaseAssumption, CursorAssumption
    DEF Callers, Corked, CursorTypeOK, CursorInv, PlacesInv, LockInv, NextInv, PoolInv, StreamInv, StreamOutlivesUser,
        Failing, WasOpened, Inside, InClose, Working, Goto, Only, flags, Mishap, Steps,
        SelectSteps, CloseSteps, DoCloseSteps, NextSteps, CallbackSteps
<1>1. ASSUME NEW t \in Callers, LockToClose(t) PROVE CursorInv'
  BY <1>1 DEF LockToClose
<1>2. ASSUME NEW t \in Callers, Interrupt(t) PROVE CursorInv'
  BY <1>2 DEF Interrupt
<1>3. ASSUME NEW t \in Callers, SendCloseRequest(t) PROVE CursorInv'
  BY <1>3 DEF SendCloseRequest
<1>4. ASSUME NEW t \in Callers, Wait(t) PROVE CursorInv'
  BY <1>4 DEF Wait
<1>5. ASSUME NEW t \in Callers, Drain(t) PROVE CursorInv'
  BY <1>5 DEF Drain
<1>6. ASSUME NEW t \in Callers, ReadRemainder(t) PROVE CursorInv'
  BY <1>6 DEF ReadRemainder
<1>7. ASSUME NEW t \in Callers, Unlock(t) PROVE CursorInv'
  BY <1>7 DEF Unlock
<1>8. ASSUME NEW t \in Callers, DeleteStream(t) PROVE CursorInv'
  BY <1>8 DEF DeleteStream
<1>9. ASSUME NEW t \in Callers, RemoveFromPool(t) PROVE CursorInv'
  BY <1>9 DEF RemoveFromPool
<1>10. ASSUME NEW t \in Callers, Unopen(t) PROVE CursorInv'
  BY <1>10 DEF Unopen
<1>11. CASE Check BY <1>11 DEF Check
<1>12. CASE Poll BY <1>12 DEF Poll
<1>13. CASE ReadMessage BY <1>13 DEF ReadMessage
<1>14. CASE ReadTerminator BY <1>14 DEF ReadTerminator
<1>15. CASE NothingAvailable BY <1>15 DEF NothingAvailable
<1>16. CASE ReadEnd BY <1>16 DEF ReadEnd
<1>17. CASE ReadError BY <1>17 DEF ReadError
<1>18. CASE LeaveNext BY <1>18 DEF LeaveNext
<1>19. CASE Connect BY <1>19 DEF Connect
<1>20. CASE ReadHeader BY <1>20 DEF ReadHeader
<1>21. CASE Opened BY <1>21 DEF Opened
<1>22. CASE SelectFails BY <1>22 DEF SelectFails
<1>23. CASE Free BY <1>23 DEF Free
<1>24. CASE CallNext BY <1>24 DEF CallNext, Closing
<1>25. CASE Delete BY <1>25 DEF Delete
<1>26. CASE Only(Reader, "none", "selecting") BY <1>26
<1>27. ASSUME NEW t \in Closers, IsClosed(t) PROVE CursorInv'
  BY <1>27 DEF IsClosed, CallClose, Deleting
<1>28. ASSUME conn # "none", NEW to \in {"eof", "broken"}, ConnChanges(to) PROVE CursorInv'
  BY <1>28 DEF ConnChanges
<1>29. ASSUME NEW t \in Corked, Passes(t) PROVE CursorInv'
  BY <1>29 DEF Passes, Resume
<1>30. ASSUME NEW t \in Writers, Only(t, "out", "callback") PROVE CursorInv'
  BY <1>30
<1>31. CASE UNCHANGED cursorVars BY <1>31 DEF cursorVars
<1> QED BY <1>1, <1>2, <1>3, <1>4, <1>5, <1>6, <1>7, <1>8, <1>9, <1>10, <1>11, <1>12, <1>13, <1>14, <1>15, <1>16, <1>17, <1>18, <1>19, <1>20, <1>21, <1>22, <1>23, <1>24, <1>25, <1>26, <1>27, <1>28, <1>29, <1>30, <1>31
      DEF CursorNext, CursorStep, CloseStep, DoCloseStep, NextStep, SelectStep

CursorsInv == TypeInv /\ CursorInv

\* The places of the threads, closeLock_, isInNext_ and the pool of cursors fit
\* together at every moment, whatever threads call next(), close() and TickDb's
\* close() at once.
THEOREM CursorInvariant == Spec => []CursorsInv
<1>1. Init => CursorInv
  <2> SUFFICES ASSUME Init PROVE CursorInv
    OBVIOUS
  <2> USE FiniteThreads, DatabaseAssumption, CursorAssumption
      DEF Init, CursorInit, Corked, Callers, Failing, WasOpened, Inside, InClose, Working,
          SelectSteps, CloseSteps, DoCloseSteps, NextSteps, CallbackSteps
  <2>1. PlacesInv BY DEF PlacesInv
  <2>2. LockInv   BY DEF LockInv
  <2>3. NextInv   BY DEF NextInv
  <2>4. PoolInv   BY DEF PoolInv
  <2>5. StreamInv BY DEF StreamInv, StreamOutlivesUser
  <2> QED BY <2>1, <2>2, <2>3, <2>4, <2>5 DEF CursorInv
<1>2. TypeInv /\ CursorInv /\ [Next]_vars => CursorInv'
  BY DatabaseStep, CursorInvStep DEF TypeInv, TypeOK
<1> QED BY <1>1, <1>2, TypeInvariant, PTL DEF Spec, CursorsInv

\* who calls a method of activeInputStream_ finds the stream there, as long as
\* nothing of Mishaps happens: next() and a close() of another thread never meet
THEOREM UsersHaveTheStream == Spec => []StreamOutlivesUser
<1>1. CursorsInv => StreamOutlivesUser
  BY DEF CursorsInv, CursorInv, StreamInv, StreamOutlivesUser
<1> QED BY <1>1, CursorInvariant, PTL

\* a cursor that was deleted, or whose select failed, is not in the pool from
\* which TickDbImpl::close takes cursors
THEOREM ThePoolIsAlive == Spec => []PoolIsAlive
<1>1. CursorsInv => PoolIsAlive
  BY DEF CursorsInv, CursorInv, PoolInv, PoolIsAlive, WasOpened, SelectSteps
<1> QED BY <1>1, CursorInvariant, PTL

-----------------------------------------------------------------------------
(* What is over for the cursor stays over.                                 *)

\* u has been through the cork, or will find that it need not go there
Released(u) ==
    /\ pc[u] \notin CallbackSteps
    /\ \/ pc[u] \in DoCloseSteps \cup {"failed"}
       \/ /\ u \in Callers
          /\ WasOpened /\ ~isOpen /\ pc[u] # "remainder"
          /\ u = Reader => over \/ pc[u] \in {"unlock", "free", "gone"}

ClosedBy(t) == pc[t] \in {"out", "unlock"} => ~activeInputStream

\* a cursor that was opened and has lost its connection never has one again, and
\* who has been through the cork does not come back to it
LEMMA OverStaysOver ==
  ASSUME CursorsInv, [CursorNext]_cursorVars
  PROVE  /\ WasOpened => WasOpened'
         /\ WasOpened /\ ~activeInputStream => ~activeInputStream'
         /\ \A t \in Closers : WasOpened /\ ClosedBy(t) => ClosedBy(t)'
         /\ \A u \in Corked :
                /\ Released(u) => Released(u)'
                /\ pc[u] = "held" => pc'[u] = "held" \/ Released(u)'
<1> DEFINE Goal ==
        /\ WasOpened => WasOpened'
        /\ WasOpened /\ ~activeInputStream => ~activeInputStream'
        /\ \A t \in Closers : WasOpened /\ ClosedBy(t) => ClosedBy(t)'
        /\ \A u \in Corked :
              /\ Released(u) => Released(u)'
              /\ pc[u] = "held" => pc'[u] = "held" \/ Released(u)'
<1>a. CursorTypeOK /\ pc \in [Corked -> Steps] /\ CursorInv
  BY DEF CursorsInv, TypeInv, TypeOK
<1> HIDE DEF Goal
<1> USE <1>a, FiniteThreads, DatabaseAssumption, CursorAssumption
    DEF Goal, Callers, Corked, CursorTypeOK, CursorInv, PlacesInv, LockInv, NextInv, PoolInv, StreamInv,
        Failing, WasOpened, Released, ClosedBy, Inside, InClose, Goto, Only, flags, Mishap, Steps,
        SelectSteps, CloseSteps, DoCloseSteps, NextSteps, CallbackSteps
<1>1. ASSUME NEW t \in Callers, LockToClose(t) PROVE Goal
  BY <1>1 DEF LockToClose
<1>2. ASSUME NEW t \in Callers, Interrupt(t) PROVE Goal
  BY <1>2 DEF Interrupt
<1>3. ASSUME NEW t \in Callers, SendCloseRequest(t) PROVE Goal
  BY <1>3 DEF SendCloseRequest
<1>4. ASSUME NEW t \in Callers, Wait(t) PROVE Goal
  BY <1>4 DEF Wait
<1>5. ASSUME NEW t \in Callers, Drain(t) PROVE Goal
  BY <1>5 DEF Drain
<1>6. ASSUME NEW t \in Callers, ReadRemainder(t) PROVE Goal
  BY <1>6 DEF ReadRemainder
<1>7. ASSUME NEW t \in Callers, Unlock(t) PROVE Goal
  BY <1>7 DEF Unlock
<1>8. ASSUME NEW t \in Callers, DeleteStream(t) PROVE Goal
  BY <1>8 DEF DeleteStream
<1>9. ASSUME NEW t \in Callers, RemoveFromPool(t) PROVE Goal
  BY <1>9 DEF RemoveFromPool
<1>10. ASSUME NEW t \in Callers, Unopen(t) PROVE Goal
  BY <1>10 DEF Unopen
<1>11. ASSUME Check PROVE Goal BY <1>11 DEF Check
<1>12. ASSUME Poll PROVE Goal BY <1>12 DEF Poll
<1>13. ASSUME ReadMessage PROVE Goal BY <1>13 DEF ReadMessage
<1>14. ASSUME ReadTerminator PROVE Goal BY <1>14 DEF ReadTerminator
<1>15. ASSUME NothingAvailable PROVE Goal BY <1>15 DEF NothingAvailable
<1>16. ASSUME ReadEnd PROVE Goal BY <1>16 DEF ReadEnd
<1>17. ASSUME ReadError PROVE Goal BY <1>17 DEF ReadError
<1>18. ASSUME LeaveNext PROVE Goal BY <1>18 DEF LeaveNext
<1>19. ASSUME Connect PROVE Goal BY <1>19 DEF Connect
<1>20. ASSUME ReadHeader PROVE Goal BY <1>20 DEF ReadHeader
<1>21. ASSUME Opened PROVE Goal BY <1>21 DEF Opened
<1>22. ASSUME SelectFails PROVE Goal BY <1>22 DEF SelectFails
<1>23. ASSUME Free PROVE Goal BY <1>23 DEF Free
<1>24. ASSUME CallNext PROVE Goal BY <1>24 DEF CallNext
<1>25. ASSUME Delete PROVE Goal BY <1>25 DEF Delete
<1>26. ASSUME Only(Reader, "none", "selecting") PROVE Goal BY <1>26
<1>27. ASSUME NEW t \in Closers, IsClosed(t) PROVE Goal
  BY <1>27 DEF IsClosed, CallClose, Deleting
<1>28. ASSUME NEW to, ConnChanges(to) PROVE Goal
  BY <1>28 DEF ConnChanges
<1>29. ASSUME NEW t \in Corked, Passes(t) PROVE Goal
  BY <1>29 DEF Passes, Resume
<1>30. ASSUME NEW t \in Writers, Only(t, "out", "callback") PROVE Goal
  BY <1>30
<1>31. ASSUME UNCHANGED cursorVars PROVE Goal BY <1>31 DEF cursorVars
<1>32. Goal
  BY <1>1, <1>2, <1>3, <1>4, <1>5, <1>6, <1>7, <1>8, <1>9, <1>10, <1>11, <1>12, <1>13, <1>14, <1>15, <1>16, <1>17, <1>18, <1>19, <1>20, <1>21, <1>22, <1>23, <1>24, <1>25, <1>26, <1>27, <1>28, <1>29, <1>30, <1>31
  DEF CursorNext, CursorStep, CloseStep, DoCloseStep, NextStep, SelectStep
<1> QED BY <1>32

-----------------------------------------------------------------------------
(* The end of the database.                                                *)

Ending == {"lock", "join", "cursors", "clear", "closed"}
Flushing == {"flush", "uncork", "sleep", "flushed"}

\* before open() nobody does anything
NewInv ==
    dbpc[Owner] = "new" =>
        /\ ~isOpened /\ ~isClosed
        /\ \A t \in Corked : pc[t] = IF t = Reader THEN "none" ELSE "out"

\* no thread flushes before the application was told or has called close()
ToldInv ==
    /\ dbpc[Owner] \in Ending \cup Flushing \cup {"new", "out"}
    /\ dbpc[Session] \notin {"new", "out"}
    /\ dbpc[Owner] \in Ending \cup Flushing => closing
    /\ dbpc[Session] \in Ending => closing
    /\ dbpc[Session] \in Flushing => told \/ closing
    /\ shouldStop \/ thisLock # NoThread => closing
    /\ ~exceptionCork => told \/ closing \/ dbpc[Owner] = "new"

\* close() goes past the cursors only when a cursor that was open is closed
ClosedInv ==
    /\ ~isOpened => closing \/ dbpc[Owner] = "new"
    /\ wasOpen => closing /\ WasOpened
    /\ \A t \in Flushers : dbpc[t] = "clear" /\ wasOpen => ClosedBy(t)
    /\ \A t \in Flushers : dbpc[t] = "closed" => ~isOpened
    /\ isClosed => ~isOpened
    /\ wasOpen /\ ~isOpened => ~activeInputStream

EndInv == NewInv /\ ToldInv /\ ClosedInv

\* no step tells the end of the database in another order
LEMMA EndInvStep ==
  ASSUME CursorsInv, EndInv, [Next]_vars
  PROVE  EndInv'
<1>a. pc \in [Corked -> Steps] /\ dbpc \in [Flushers -> DbSteps] /\ InOneCall /\ CursorTypeOK
  BY DEF CursorsInv, TypeInv, TypeOK
<1>b. /\ WasOpened => WasOpened'
      /\ WasOpened /\ ~activeInputStream => ~activeInputStream'
      /\ \A t \in Closers : WasOpened /\ ClosedBy(t) => ClosedBy(t)'
  BY DatabaseStep, OverStaysOver DEF CursorsInv
<1>c. /\ Owner \in Flushers /\ Session \in Flushers /\ Owner # Session
      /\ Flushers \subseteq Closers /\ \A t \in Flushers : t = Owner \/ t = Session
      /\ NoThread \notin Flushers /\ Flushers \subseteq Corked /\ Reader \in Corked /\ Writers \subseteq Corked
      /\ Reader \notin Flushers \cup Writers /\ Callers \subseteq Corked /\ Closers \subseteq Corked
  BY DatabaseAssumption, CursorAssumption DEF Flushers, Callers, Corked
<1> USE <1>a, <1>b, <1>c DEF EndInv, NewInv, ToldInv, ClosedInv, Ending, Flushing
<1>d. ASSUME UNCHANGED <<isOpened, isClosed, exceptionCork, dbpc, closing, told, wasOpen, shouldStop, thisLock>>,
             dbpc[Owner] # "new"
      PROVE  EndInv'
  BY <1>d
<1>1. CASE Open
  BY <1>1, <1>a, <1>c DEF Open, InOneCall, history
<1>2. CASE Select
  BY <1>2, <1>d DEF Select, dbVars, dbFlags, history, session
<1>3. CASE Application
  <2>1. dbpc[Owner] # "new"
    BY <1>3 DEF Application, CallNext, CallClose, InApplication, Delete, Only, SelectSteps
  <2> QED BY <1>3, <2>1, <1>d DEF Application, dbVars, dbFlags, history, session
<1>4. CASE Fate \/ Follows
  <2>1. CASE dbpc[Owner] = "new"
    BY <1>4, <2>1 DEF Fate, Follows, ServerFollows, ServerLeaves, Break, ConnChanges,
       dbVars, dbFlags, history, session
  <2> QED BY <1>4, <2>1, <1>d DEF Fate, Follows, dbVars, dbFlags, history, session
<1>5. ASSUME NEW t \in Corked, CallStep(t) \/ WriteFails(t) PROVE EndInv'
  <2>1. dbpc[Owner] # "new"
    <3>1. CASE t \in Callers /\ CursorStep(t)
      BY <3>1, CursorStepMoves DEF CursorMove
    <3> QED BY <1>5, <3>1
          DEF CallStep, VerifyConnection, Uncorked, HeldTooLong, GoOn, WriteFails
  <2> QED BY <1>5, <2>1, <1>d
        DEF CallStep, VerifyConnection, Uncorked, HeldTooLong, GoOn, WriteFails,
            dbVars, dbFlags, history, session
<1>e. ASSUME NEW t \in Flushers, NEW s \in DbSteps \ {"new"}, GotoDb(t, s),
             dbpc[t] \notin {"new", "none"}
      PROVE  dbpc[Owner] # "new" /\ dbpc'[Owner] # "new" /\ NewInv'
  BY <1>e DEF GotoDb, InOneCall
<1>f. ASSUME NEW t \in Flushers, NEW s \in DbSteps \ {"new", "clear", "closed"}, GotoDb(t, s),
             dbpc[t] \notin {"new", "none"}, closing => closing',
             UNCHANGED <<isOpened, isClosed, wasOpen>>
      PROVE  NewInv' /\ ClosedInv'
  <2>1. dbpc[Owner] # "new" /\ dbpc'[Owner] # "new" /\ NewInv'
    BY <1>e, <1>f
  <2> QED BY <1>f, <2>1 DEF GotoDb
<1> HIDE DEF EndInv
<1>6. ASSUME NEW t \in Flushers, CallCloseDb(t) \/ CloseDbStep(t) \/ FlushStep(t)
      PROVE  EndInv'
  <2>a. dbpc[t] \notin {"new", "none"}
    BY <1>6 DEF CallCloseDb, CanCloseDb, InApplication, CloseDbStep, LockDb, StopSession,
                SessionStopped, CloseCursors, ClearCache, EndClose, DeleteDb, FlushStep,
                ReadCount, Uncork, Flushed
  <2> USE <2>a DEF GotoDb, dbFlags, session, history, DbSteps
  <2>1. CASE CallCloseDb(t)
    <3>1. NewInv' /\ ToldInv'
      BY <2>1, <1>e DEF CallCloseDb, EndInv
    <3>2. dbpc[Owner] # "new" /\ (isOpen => WasOpened) /\ dbpc'[Owner] # "new"
      BY <2>1, <1>e DEF CallCloseDb, CursorsInv, CursorInv, PoolInv, EndInv
    <3>3. ClosedInv'
      BY <2>1, <3>2 DEF CallCloseDb, EndInv
    <3> QED BY <3>1, <3>3 DEF EndInv
  <2>2. CASE LockDb(t)
    <3>1. ToldInv' BY <2>2 DEF LockDb, EndInv
    <3>2. NewInv' /\ ClosedInv' BY <2>2, <1>f DEF LockDb, EndInv
    <3> QED BY <3>1, <3>2 DEF EndInv
  <2>3. CASE StopSession(t)
    <3>1. ToldInv' BY <2>3 DEF StopSession, EndInv
    <3>2. NewInv' /\ ClosedInv' BY <2>3, <1>f DEF StopSession, EndInv
    <3> QED BY <3>1, <3>2 DEF EndInv
  <2>4. CASE SessionStopped(t)
    <3>1. ToldInv' BY <2>4 DEF SessionStopped, EndInv
    <3>2. NewInv' BY <2>4, <1>e DEF SessionStopped
    <3>3. ClosedInv' BY <2>4 DEF SessionStopped, EndInv
    <3> QED BY <3>1, <3>2, <3>3 DEF EndInv
  <2>5. CASE CloseCursors(t)
    <3>1. pc[t] = "out"
      BY <2>5 DEF CloseCursors, InOneCall
    <3>2. wasOpen => ClosedBy(t)'
      BY <2>5, <3>1 DEF CloseCursors, ClosedBy, Goto, CursorsInv, CursorInv, PoolInv, EndInv
    <3>3. ToldInv' BY <2>5 DEF CloseCursors, EndInv
    <3>4. NewInv' BY <2>5, <1>e DEF CloseCursors
    <3>5. ClosedInv' BY <2>5, <3>2 DEF CloseCursors, EndInv
    <3> QED BY <3>3, <3>4, <3>5 DEF EndInv
  <2>6. CASE ClearCache(t)
    <3>1. ToldInv' BY <2>6 DEF ClearCache, EndInv
    <3>2. NewInv' BY <2>6, <1>e DEF ClearCache
    <3>3. ClosedInv' BY <2>6 DEF ClearCache, EndInv, ClosedBy, cursorVars
    <3> QED BY <3>1, <3>2, <3>3 DEF EndInv
  <2>7. CASE EndClose(t) \/ DeleteDb(t)
    <3>1. ToldInv' BY <2>7 DEF EndClose, DeleteDb, AfterClose, EndInv
    <3>2. NewInv' BY <2>7, <1>e DEF EndClose, DeleteDb, AfterClose
    <3>3. ClosedInv' BY <2>7 DEF EndClose, DeleteDb, AfterClose, EndInv
    <3> QED BY <3>1, <3>2, <3>3 DEF EndInv
  <2>8. CASE FlushStep(t)
    <3>1. ToldInv' BY <2>8 DEF FlushStep, ReadCount, Uncork, Flushed, EndInv
    <3>2. NewInv' /\ ClosedInv' BY <2>8, <1>f DEF FlushStep, ReadCount, Uncork, Flushed, EndInv
    <3> QED BY <3>1, <3>2 DEF EndInv
  <2> QED BY <1>6, <2>1, <2>2, <2>3, <2>4, <2>5, <2>6, <2>7, <2>8 DEF CloseDbStep
<1>7. CASE LeaveLoop \/ SessionStep \/ HandlerReturns
  <2> USE DEF GotoDb, dbFlags, session, history, DbSteps
  <2>1. NewInv' /\ ClosedInv'
    <3>1. CASE LeaveLoop      BY <3>1, <1>f DEF LeaveLoop, EndInv
    <3>2. CASE Stopped        BY <3>2, <1>f DEF Stopped, EndInv
    <3>3. CASE OnDisconnected BY <3>3, <1>f DEF OnDisconnected, EndInv
    <3>4. CASE ThreadEnds     BY <3>4, <1>f DEF ThreadEnds, EndInv
    <3>5. CASE HandlerReturns BY <3>5, <1>f DEF HandlerReturns, InApplication, EndInv
    <3> QED BY <1>7, <3>1, <3>2, <3>3, <3>4, <3>5 DEF SessionStep
  <2>2. ToldInv'
    BY <1>7 DEF LeaveLoop, SessionStep, Stopped, OnDisconnected, ThreadEnds, HandlerReturns,
                InApplication, EndInv
  <2> QED BY <2>1, <2>2 DEF EndInv
<1>8. CASE UNCHANGED vars
  BY <1>8 DEF vars, dbVars, dbFlags, session, history, cursorVars, WasOpened, Failing, ClosedBy, EndInv
<1> QED BY <1>1, <1>2, <1>3, <1>4, <1>5, <1>6, <1>7, <1>8 DEF Next

-----------------------------------------------------------------------------
(* flushExceptions.                                                        *)

\* who was counted is still in the cork, or will not come back to it
FlushInv ==
    \A t \in Flushers :
        /\ dbpc[t] = "uncork" /\ n[t] = 0 => counted[t] = {}
        /\ \A u \in counted[t] : pc[u] = "held" \/ Released(u)
        /\ dbpc[t] = "flushed" => counted[t] \cap Held = {}

\* no step brings a thread that was counted back into the cork
LEMMA FlushInvStep ==
  ASSUME CursorsInv, FlushInv, [Next]_vars
  PROVE  FlushInv'
<1>a. /\ pc \in [Corked -> Steps] /\ dbpc \in [Flushers -> DbSteps] /\ InOneCall /\ CursorTypeOK
      /\ n \in [Flushers -> 0 .. Cardinality(Corked)] /\ counted \in [Flushers -> SUBSET Corked]
      /\ nBlocked = Cardinality(Held)
  BY DEF CursorsInv, TypeInv, TypeOK
<1>b. \A u \in Corked : pc[u] = "held" \/ Released(u) => pc'[u] = "held" \/ Released(u)'
  BY DatabaseStep, OverStaysOver DEF CursorsInv
<1>c. \A u \in Corked : Released(u) => u \notin Held /\ (u \notin Held)'
  BY DatabaseStep, OverStaysOver DEF Released, Held, CallbackSteps, CursorsInv
<1>d. \A u \in Corked : u \in Held <=> pc[u] = "held"
  BY DEF Held
<1>e. Owner \in Flushers /\ Session \in Flushers
  BY DEF Flushers
<1> USE <1>a, <1>b, <1>c, <1>d, <1>e DEF FlushInv
<1>f. ASSUME NEW t \in Flushers, n'[t] = n[t], counted'[t] = counted[t],
             dbpc'[t] = dbpc[t] \/ dbpc'[t] \notin {"uncork", "flushed"}
      PROVE  /\ dbpc'[t] = "uncork" /\ n'[t] = 0 => counted'[t] = {}
             /\ \A u \in counted'[t] : pc'[u] = "held" \/ Released(u)'
             /\ dbpc'[t] = "flushed" => counted'[t] \cap Held' = {}
  BY <1>f
<1>g. ASSUME NEW t \in Flushers, NEW s \in DbSteps \ {"uncork", "flushed"}, GotoDb(t, s),
             UNCHANGED <<n, counted>>
      PROVE  FlushInv'
  BY <1>f, <1>g DEF GotoDb
<1>h. ASSUME UNCHANGED <<n, counted, dbpc>>
      PROVE  FlushInv'
  BY <1>f, <1>h
<1>i. ASSUME NEW t \in Flushers, LeaveFlush(t), NEW s \in DbSteps \ {"uncork", "flushed"},
             GotoDb(t, s)
      PROVE  FlushInv'
  BY <1>f, <1>i DEF LeaveFlush, GotoDb
<1> USE DEF dbFlags, session, history, dbVars, vars
<1> HIDE DEF FlushInv
<1>1. CASE Open
  BY <1>1, <1>f DEF Open, FlushInv
<1>2. CASE Select \/ Application \/ Fate \/ Follows \/ UNCHANGED vars
  BY <1>2, <1>h DEF Select, Application, Fate, Follows
<1>3. ASSUME NEW t \in Corked, CallStep(t) \/ WriteFails(t) PROVE FlushInv'
  BY <1>3, <1>h DEF CallStep, VerifyConnection, Uncorked, HeldTooLong, GoOn, WriteFails
<1>4. ASSUME NEW t \in Flushers, CallCloseDb(t) \/ CloseDbStep(t) \/ FlushStep(t)
      PROVE  FlushInv'
  <2>1. CASE ReadCount(t)
    <3>1. n'[t] = 0 => counted'[t] = {}
      BY <2>1, FiniteThreads, FS_EmptySet DEF ReadCount
    <3>2. \A u \in counted'[t] : pc'[u] = "held"
      BY <2>1 DEF ReadCount, cursorVars, Held
    <3>3. dbpc'[t] = "uncork"
      BY <2>1 DEF ReadCount, GotoDb
    <3>4. \A u \in Flushers \ {t} : n'[u] = n[u] /\ counted'[u] = counted[u] /\ dbpc'[u] = dbpc[u]
      BY <2>1 DEF ReadCount, GotoDb
    <3> QED BY <3>1, <3>2, <3>3, <3>4, <1>f DEF FlushInv
  <2>2. CASE Uncork(t)
    <3>1. n' = n /\ counted' = counted /\ Held' = Held
      BY <2>2 DEF Uncork, cursorVars, Held
    <3>2. CASE n[t] = 0
      BY <2>2, <3>1, <3>2, <1>f DEF Uncork, GotoDb, FlushInv
    <3>3. CASE n[t] # 0
      BY <2>2, <3>3, <1>g DEF Uncork, DbSteps
    <3> QED BY <3>2, <3>3
  <2>3. CASE Flushed(t)
    <3>1. Held = {} /\ Held' = {}
      BY <2>3, FiniteThreads, FS_EmptySet DEF Flushed, cursorVars, Held
    <3> QED BY <2>3, <3>1, <1>f DEF Flushed, GotoDb, FlushInv
  <2>4. CASE StopSession(t)
    BY <2>4, <1>i DEF StopSession, DbSteps
  <2> USE <1>g DEF DbSteps
  <2>5. CASE CallCloseDb(t)    BY <2>5 DEF CallCloseDb
  <2>6. CASE LockDb(t)         BY <2>6 DEF LockDb
  <2>7. CASE SessionStopped(t) BY <2>7 DEF SessionStopped
  <2>8. CASE CloseCursors(t)   BY <2>8 DEF CloseCursors
  <2>9. CASE ClearCache(t)     BY <2>9 DEF ClearCache
  <2>10. CASE EndClose(t) \/ DeleteDb(t)
    BY <2>10 DEF EndClose, DeleteDb, AfterClose
  <2> QED BY <1>4, <2>1, <2>2, <2>3, <2>4, <2>5, <2>6, <2>7, <2>8, <2>9, <2>10
        DEF CloseDbStep, FlushStep
<1>5. CASE LeaveLoop \/ SessionStep \/ HandlerReturns
  <2>1. CASE ThreadEnds
    BY <2>1, <1>i DEF ThreadEnds, DbSteps
  <2> QED BY <1>5, <2>1, <1>g
        DEF LeaveLoop, SessionStep, Stopped, OnDisconnected, HandlerReturns, DbSteps
<1> QED BY <1>1, <1>2, <1>3, <1>4, <1>5 DEF Next

-----------------------------------------------------------------------------
(* The invariant of the database, and what follows from it.                *)

DatabaseInv == CursorsInv /\ EndInv /\ FlushInv

\* The order in which a database that closes tells its application, closes its
\* cursors and draws the cork holds at every moment.
THEOREM DatabaseInvariant == Spec => []DatabaseInv
<1>1. Init => EndInv /\ FlushInv
  <2> SUFFICES ASSUME Init PROVE EndInv /\ FlushInv
    OBVIOUS
  <2>1. Owner \in Flushers /\ Session \in Flushers /\ Owner # Session
    BY DatabaseAssumption DEF Flushers
  <2>2. NewInv
    BY <2>1 DEF Init, NewInv
  <2>3. ToldInv /\ ClosedInv
    BY <2>1 DEF Init, ToldInv, ClosedInv, Ending, Flushing
  <2>4. FlushInv
    BY DEF Init, FlushInv
  <2> QED BY <2>2, <2>3, <2>4 DEF EndInv
<1>2. CursorsInv /\ EndInv /\ FlushInv /\ [Next]_vars => EndInv' /\ FlushInv'
  BY EndInvStep, FlushInvStep
<1> QED BY <1>1, <1>2, CursorInvariant, PTL DEF Spec, DatabaseInv

\* flushExceptions returns only when each thread it counted is out of the cork
THEOREM FlushWaits == Spec => []FlushWaitsForCounted
<1>1. DatabaseInv => FlushWaitsForCounted
  BY DEF DatabaseInv, FlushInv, FlushWaitsForCounted
<1> QED BY <1>1, DatabaseInvariant, PTL

\* after close() of the database, and whatever interleaved with it, a cursor
\* that was open at its call has no connection
THEOREM CloseClosesTheCursor == Spec => []CloseClosesCursor
<1>1. DatabaseInv => CloseClosesCursor
  BY DEF DatabaseInv, EndInv, ClosedInv, CloseClosesCursor
<1> QED BY <1>1, DatabaseInvariant, PTL

\* a thread leaves the cork because it was drawn only when the application was
\* told of the disconnection or had called close()
THEOREM ToldBeforeThrown == Spec => DisconnectionIsToldFirst
<1>1. DatabaseInv /\ [Next]_vars =>
          [\A t \in Corked : Uncorked(t) => told \/ closing]_vars
  <2> SUFFICES ASSUME DatabaseInv, NEW t \in Corked, Uncorked(t)
               PROVE  told \/ closing
    OBVIOUS
  <2>1. ~exceptionCork /\ pc[t] = "held"
    BY DEF Uncorked, GoOn
  <2>2. dbpc[Owner] # "new"
    BY <2>1 DEF DatabaseInv, EndInv, NewInv
  <2> QED BY <2>1, <2>2 DEF DatabaseInv, EndInv, ToldInv
<1> QED BY <1>1, DatabaseInvariant, PTL DEF Spec, DisconnectionIsToldFirst

=============================================================================
