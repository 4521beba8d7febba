----------------------- MODULE LoaderManager_proofs -----------------------
(***************************************************************************)
(* What TLC checks of LoaderManager for two loaders, proved for any set of *)
(* loaders and threads, provided that a loader is opened, finished and     *)
(* deleted by one thread (SingleOwner).                                    *)
(***************************************************************************)
EXTENDS LoaderManager, TLAPS

SingleOwner == \A l \in Loaders : \A t, u \in Owner[l] : t = u

-----------------------------------------------------------------------------
(* Types.                                                                  *)

\* every variable has its type in every reachable state
THEOREM TypeCorrect == Spec => []TypeOK
<1>1. Init => TypeOK
  <2> SUFFICES ASSUME Init PROVE TypeOK
    OBVIOUS
  <2>1. PICK l \in Loaders : cur = [t \in Threads |-> l] /\ served = l
    BY DEF Init
  <2> QED BY <2>1 DEF Init, TypeOK, States, Streams, Interruptions,
                      NotInterrupted, Ops, Calls, Steps, MgrSteps
<1>2. TypeOK /\ [Next]_vars => TypeOK'
  <2> SUFFICES ASSUME TypeOK, [Next]_vars PROVE TypeOK'
    OBVIOUS
  <2> USE ThreadsAssumption DEF TypeOK, States, Streams, Interruptions,
          NotInterrupted, Ops, Calls, Steps, MgrSteps, objVars, setVars,
          mgrVars, stopVars, Goto
  <2>1. ASSUME NEW t \in Threads, AppStep(t) PROVE TypeOK'
    <3>1. CASE Open(t)         BY <3>1 DEF Open
    <3>2. CASE EndWriting(t)   BY <3>2 DEF EndWriting
    <3>3. CASE Remove(t)       BY <3>3 DEF Remove
    <3>4. CASE StopWaiting(t)  BY <3>4 DEF StopWaiting
    <3>5. CASE Unlist(t)       BY <3>5 DEF Unlist
    <3>6. CASE Deregister(t)   BY <3>6 DEF Deregister
    <3>7. CASE Disconnect(t)   BY <3>7 DEF Disconnect
    <3>8. CASE Free(t)         BY <3>8 DEF Free
    <3>9. CASE Leave(t)        BY <3>9 DEF Leave
    <3>10. CASE Connect(t)     BY <3>10 DEF Connect
    <3> QED BY <2>1, <3>1, <3>2, <3>3, <3>4, <3>5, <3>6, <3>7, <3>8, <3>9, <3>10
            DEF AppStep
  <2>2. ASSUME NEW t \in Threads, NEW l \in Loaders, AppCall(t, l)
        PROVE  TypeOK'
    <3>1. CASE BeginOpen(t, l) BY <3>1 DEF BeginOpen
    <3>2. ASSUME NEW o \in Calls, BeginFinish(t, l, o) PROVE TypeOK'
      BY <3>2 DEF BeginFinish
    <3> QED BY <2>2, <3>1, <3>2 DEF AppCall
  <2>3. CASE Manager
    <3>1. CASE Snapshot        BY <3>1 DEF Snapshot
    <3>2. ASSUME NEW l \in Loaders, Serve(l) PROVE TypeOK'
      BY <3>2 DEF Serve
    <3>3. CASE EnterProcess    BY <3>3 DEF EnterProcess
    <3>4. CASE ReadResponse    BY <3>4 DEF ReadResponse, Interrupt
    <3>5. CASE RefuseInput     BY <3>5 DEF RefuseInput, Interrupt
    <3>6. CASE DropConnection  BY <3>6 DEF DropConnection
    <3>7. CASE Exit            BY <3>7 DEF Exit
    <3> QED BY <2>3, <3>1, <3>2, <3>3, <3>4, <3>5, <3>6, <3>7 DEF Manager
  <2>4. CASE BeginStop BY <2>4 DEF BeginStop
  <2>5. CASE Joined BY <2>5 DEF Joined
  <2>6. CASE UNCHANGED vars BY <2>6 DEF vars
  <2>7. CASE Over BY <2>7 DEF Over, vars
  <2>8. CASE ReadBlock BY <2>8 DEF ReadBlock, Interrupt
  <2> QED BY <2>1, <2>2, <2>3, <2>4, <2>5, <2>6, <2>7, <2>8 DEF Next
<1> QED BY <1>1, <1>2, PTL DEF Spec

-----------------------------------------------------------------------------
(* Where a loader is.  The invariant follows each loader through the calls  *)
(* of its one thread: Held while it is registered, Released afterwards.     *)

Live == {"open", "output_closed", "closed"}

\* a call of t is at work on l
At(t, l) == cur[t] = l /\ pc[t] # "idle"

Quiet(l) == \A t \in Threads : ~At(t, l)

Registered(l) ==
    /\ l \in loaders /\ linked[l] /\ stream[l] \in Live
    /\ state[l] \in {"writing", "finished"}

Released(l) ==
    /\ l \notin loaders /\ l \notin beingRemoved
    /\ ~linked[l] /\ stream[l] \in {"none", "freed"}

\* what holds of a loader that no call is at work on
QuietInv(l) ==
    \/ state[l] = "writing" /\ l \in loaders /\ l \notin beingRemoved
    \/ state[l] # "writing" /\ Released(l)

\* what holds of the loader a call is at work on, by the step it is at
StepInv(t, l) ==
    /\ pc[t] \in {"connecting", "opening"} => state[l] = "none" /\ Released(l)
    /\ pc[t] = "end_writing" =>
           state[l] = "writing" /\ l \in loaders /\ l \notin beingRemoved
    /\ pc[t] \in {"remove_wait", "remove_now"} =>
           state[l] = "finished" /\ l \in loaders /\ l \notin beingRemoved
    /\ pc[t] \in {"waiting", "removing"} =>
           state[l] = "finished" /\ l \in loaders
    /\ pc[t] = "deregister" =>
           /\ state[l] \in {"finished", "closed"} /\ l \notin beingRemoved
           /\ l \in loaders \/ (linked[l] /\ stream[l] \in Live) \/ Released(l)
    /\ pc[t] = "deregistering" =>
           state[l] = "finished" /\ l \in loaders /\ l \notin beingRemoved
    /\ pc[t] = "disconnect" =>
           /\ state[l] \in {"finished", "closed"}
           /\ l \notin loaders /\ l \notin beingRemoved
           /\ (linked[l] /\ stream[l] \in Live) \/ Released(l)
    /\ pc[t] = "free" =>
           /\ state[l] \in {"finished", "closed"}
           /\ l \notin loaders /\ l \notin beingRemoved /\ ~linked[l]
    /\ pc[t] = "leave" => state[l] \in {"finished", "closed"} /\ Released(l)

OwnersAtWork == \A t \in Threads : pc[t] # "idle" => t \in Owner[cur[t]]

IInv ==
    /\ OwnersAtWork
    /\ \A l \in loaders : Registered(l)
    /\ BeingRemovedIsExact
    /\ serving => served \in loaders
    /\ \A l \in Loaders : Quiet(l) => QuietInv(l)
    /\ \A t \in Threads : StepInv(t, cur[t]) \/ pc[t] = "idle"

-----------------------------------------------------------------------------

\* a step of t that touches the loader l only
LocalStep(t, l) ==
    /\ t \in Owner[l]
    /\ cur'[t] = l /\ (pc[t] = "idle" \/ cur[t] = l)
    /\ \A u \in Threads \ {t} : pc'[u] = pc[u] /\ cur'[u] = cur[u]
    /\ \A m \in Loaders \ {l} :
           /\ state'[m] = state[m] /\ linked'[m] = linked[m]
           /\ stream'[m] = stream[m]
           /\ (m \in loaders' <=> m \in loaders)
           /\ (m \in beingRemoved' <=> m \in beingRemoved)
    /\ mpc' = mpc /\ served' = served

\* such a step preserves the invariant if it does so for l: the calls at work
\* on other loaders cannot notice
LEMMA LocalPreserves ==
  ASSUME SingleOwner, TypeOK, TypeOK', IInv,
         NEW t \in Threads, NEW l \in Loaders, LocalStep(t, l),
         l \in loaders' => Registered(l)',
         l \in beingRemoved' =>
             l \in loaders' /\ pc'[t] \in {"waiting", "removing"},
         l \in loaders /\ l \notin loaders' => ~serving,
         pc'[t] = "idle" => QuietInv(l)',
         pc'[t] # "idle" => StepInv(t, l)'
  PROVE  IInv'
<1> USE DEF LocalStep
<1>1. OwnersAtWork'
  BY DEF IInv, OwnersAtWork
<1>2. \A m \in loaders' : Registered(m)'
  <2> SUFFICES ASSUME NEW m \in loaders', m # l PROVE Registered(m)'
    OBVIOUS
  <2>1. m \in Loaders /\ m \in loaders
    BY DEF TypeOK
  <2>2. Registered(m)
    BY <2>1 DEF IInv
  <2> QED BY <2>1, <2>2 DEF Registered
<1>3. BeingRemovedIsExact'
  <2> SUFFICES ASSUME NEW m \in Loaders, m \in beingRemoved'
               PROVE  /\ m \in loaders'
                      /\ \E u \in Threads :
                             cur'[u] = m /\ pc'[u] \in {"waiting", "removing"}
    BY DEF BeingRemovedIsExact
  <2>1. CASE m = l
    BY <2>1
  <2>2. CASE m # l
    <3>1. m \in beingRemoved
      BY <2>2
    <3>2. m \in loaders /\ \E u \in Threads :
              cur[u] = m /\ pc[u] \in {"waiting", "removing"}
      BY <3>1 DEF IInv, BeingRemovedIsExact
    <3>3. PICK u \in Threads : cur[u] = m /\ pc[u] \in {"waiting", "removing"}
      BY <3>2
    <3>4. u # t
      BY <2>2, <3>3
    <3> QED BY <2>2, <3>2, <3>3, <3>4
  <2> QED BY <2>1, <2>2
<1>4. serving' => served' \in loaders'
  <2> SUFFICES ASSUME serving' PROVE served' \in loaders'
    OBVIOUS
  <2>1. serving /\ served \in loaders
    BY DEF serving, IInv
  <2>2. served \in Loaders
    BY DEF TypeOK
  <2> QED BY <2>1, <2>2
<1>5. \A m \in Loaders : Quiet(m)' => QuietInv(m)'
  <2> SUFFICES ASSUME NEW m \in Loaders, Quiet(m)' PROVE QuietInv(m)'
    OBVIOUS
  <2>1. CASE m = l
    BY <2>1 DEF Quiet, At
  <2>2. CASE m # l
    <3>1. Quiet(m)
      BY <2>2 DEF Quiet, At
    <3>2. QuietInv(m)
      BY <3>1 DEF IInv
    <3> QED BY <2>2, <3>2 DEF QuietInv, Released
  <2> QED BY <2>1, <2>2
<1>6. \A u \in Threads : StepInv(u, cur[u])' \/ pc'[u] = "idle"
  <2> SUFFICES ASSUME NEW u \in Threads, pc'[u] # "idle"
               PROVE  StepInv(u, cur[u])'
    OBVIOUS
  <2>1. CASE u = t
    BY <2>1
  <2>2. CASE u # t
    <3>1. u \in Owner[cur[u]] /\ cur[u] \in Loaders
      BY <2>2 DEF IInv, OwnersAtWork, TypeOK
    <3>2. cur[u] # l
      BY <2>2, <3>1 DEF SingleOwner
    <3>3. StepInv(u, cur[u])
      BY <2>2 DEF IInv
    <3>4. pc'[u] = pc[u] /\ cur'[u] = cur[u]
      BY <2>2
    <3> QED BY <3>1, <3>2, <3>3, <3>4 DEF StepInv, Released
  <2> QED BY <2>1, <2>2
<1> QED BY <1>1, <1>2, <1>3, <1>4, <1>5, <1>6 DEF IInv

-----------------------------------------------------------------------------

\* the thread of a call is the only one at work on its loader
LEMMA CallIsLocal ==
  ASSUME SingleOwner, TypeOK, TypeOK', IInv, NEW t \in Threads, AppStep(t)
  PROVE  IInv'
<1> DEFINE l == cur[t]
<1>1. l \in Loaders /\ (l \in loaders => Registered(l))
  BY DEF TypeOK, IInv
<1>2. pc[t] # "idle" => t \in Owner[l] /\ StepInv(t, l)
  BY DEF IInv, OwnersAtWork
<1>3. l \in beingRemoved => l \in loaders /\ pc[t] \in {"idle", "waiting", "removing"}
  <2> SUFFICES ASSUME l \in beingRemoved, pc[t] # "idle"
               PROVE  l \in loaders /\ pc[t] \in {"waiting", "removing"}
    BY <1>1 DEF IInv, BeingRemovedIsExact
  <2>1. l \in loaders /\ \E u \in Threads :
            cur[u] = l /\ pc[u] \in {"waiting", "removing"}
    BY <1>1 DEF IInv, BeingRemovedIsExact
  <2>2. PICK u \in Threads : cur[u] = l /\ pc[u] \in {"waiting", "removing"}
    BY <2>1
  <2>3. u \in Owner[l]
    BY <2>2 DEF IInv, OwnersAtWork
  <2>4. u = t
    BY <1>1, <1>2, <2>3 DEF SingleOwner
  <2> QED BY <2>1, <2>2, <2>4
<1> USE DEF TypeOK, LocalStep, StepInv, QuietInv, Registered, Released, Live,
        objVars, setVars, mgrVars, stopVars, Goto, Steps
<1>4. CASE Open(t)
  BY <1>4, <1>1, <1>2, <1>3, LocalPreserves DEF Open
<1>5. CASE EndWriting(t)
  BY <1>5, <1>1, <1>2, <1>3, LocalPreserves DEF EndWriting, CanEndWriting
<1>6. CASE Remove(t)
  BY <1>6, <1>1, <1>2, <1>3, LocalPreserves DEF Remove, Unremovable
<1>7. CASE StopWaiting(t)
  BY <1>7, <1>1, <1>2, <1>3, LocalPreserves DEF StopWaiting
<1>8. CASE Unlist(t)
  BY <1>8, <1>1, <1>2, <1>3, LocalPreserves DEF Unlist
<1>9. CASE Deregister(t)
  BY <1>9, <1>1, <1>2, <1>3, LocalPreserves DEF Deregister, Unremovable
<1>10. CASE Disconnect(t)
  BY <1>10, <1>1, <1>2, <1>3, LocalPreserves DEF Disconnect
<1>11. CASE Free(t)
  BY <1>11, <1>1, <1>2, <1>3, LocalPreserves DEF Free
<1>12. CASE Leave(t)
  BY <1>12, <1>1, <1>2, <1>3, LocalPreserves DEF Leave
<1>13. CASE Connect(t)
  BY <1>13, <1>1, <1>2, <1>3, LocalPreserves DEF Connect
<1> QED BY <1>4, <1>5, <1>6, <1>7, <1>8, <1>9, <1>10, <1>11, <1>12, <1>13
        DEF AppStep

\* a loader that no call is at work on is where QuietInv says when a call
\* begins on it
LEMMA BeginIsLocal ==
  ASSUME SingleOwner, TypeOK, TypeOK', IInv,
         NEW t \in Threads, NEW l \in Loaders, AppCall(t, l)
  PROVE  IInv'
<1>1. t \in Owner[l] /\ pc[t] = "idle"
  BY DEF AppCall, BeginOpen, BeginFinish
<1>2. Quiet(l)
  <2> SUFFICES ASSUME NEW u \in Threads, At(u, l) PROVE FALSE
    BY DEF Quiet
  <2>1. u \in Owner[l]
    BY DEF At, IInv, OwnersAtWork
  <2> QED BY <1>1, <2>1 DEF SingleOwner, At
<1>3. QuietInv(l) /\ (l \in loaders => Registered(l))
  BY <1>2 DEF IInv
<1>4. l \notin beingRemoved
  BY <1>3 DEF QuietInv, Released
<1> USE DEF TypeOK, LocalStep, StepInv, QuietInv, Registered, Released, Live,
        objVars, setVars, mgrVars, stopVars, Goto, Steps
<1>5. CASE BeginOpen(t, l)
  BY <1>5, <1>1, <1>3, <1>4, LocalPreserves DEF BeginOpen
<1>6. ASSUME NEW o \in Calls, BeginFinish(t, l, o) PROVE IInv'
  BY <1>6, <1>1, <1>3, <1>4, LocalPreserves DEF BeginFinish, States
<1> QED BY <1>5, <1>6 DEF AppCall

\* the manager's thread changes neither set, and of a loader only one that is
\* registered
LEMMA ManagerPreserves ==
  ASSUME TypeOK, TypeOK', IInv, Manager \/ ReadBlock
  PROVE  IInv'
<1> USE DEF objVars, setVars, mgrVars, stopVars
<1>1. UNCHANGED <<pc, cur, loaders, beingRemoved, state, linked>>
  BY DEF Manager, Snapshot, Serve, EnterProcess, ReadResponse, ReadBlock,
         RefuseInput, DropConnection, Exit
<1>2. \/ stream' = stream
      \/ /\ serving
         /\ stream' = [stream EXCEPT ![served] = "closed"]
  BY DEF Manager, Snapshot, Serve, EnterProcess, ReadResponse, ReadBlock,
         RefuseInput, DropConnection, Exit, serving
<1>3. \A l \in Loaders :
          stream'[l] = stream[l] \/ (l \in loaders /\ stream'[l] = "closed")
  BY <1>2 DEF IInv, TypeOK
<1>4. serving' => served' \in loaders'
  <2>1. (serving /\ served' = served) \/ ~serving' \/ served' \in loaders
    BY DEF Manager, Snapshot, Serve, EnterProcess, ReadResponse, ReadBlock,
           RefuseInput, DropConnection, Exit, serving
  <2> QED BY <1>1, <2>1 DEF IInv
<1>5. OwnersAtWork' /\ BeingRemovedIsExact'
  BY <1>1 DEF IInv, OwnersAtWork, BeingRemovedIsExact
<1>6. \A l \in loaders' : Registered(l)'
  BY <1>1, <1>3 DEF IInv, Registered, Live, TypeOK
<1>7. \A l \in Loaders : Quiet(l)' => QuietInv(l)'
  BY <1>1, <1>3 DEF IInv, Quiet, At, QuietInv, Released
<1>8. \A t \in Threads : StepInv(t, cur[t])' \/ pc'[t] = "idle"
  <2> SUFFICES ASSUME NEW t \in Threads, pc'[t] # "idle"
               PROVE  StepInv(t, cur[t])'
    OBVIOUS
  <2>1. StepInv(t, cur[t]) /\ cur[t] \in Loaders
    BY <1>1 DEF IInv, TypeOK
  <2> QED BY <1>1, <1>3, <2>1 DEF StepInv, Released, Live
<1> QED BY <1>4, <1>5, <1>6, <1>7, <1>8 DEF IInv

\* the inductive invariant
THEOREM Invariant ==
  ASSUME SingleOwner
  PROVE  Spec => []IInv
<1>1. Init => IInv
  <2> SUFFICES ASSUME Init PROVE IInv
    OBVIOUS
  <2> QED BY DEF Init, IInv, OwnersAtWork, Registered, BeingRemovedIsExact,
                 serving, Quiet, QuietInv, Released, StepInv
<1>2. TypeOK /\ TypeOK' /\ IInv /\ [Next]_vars => IInv'
  <2> SUFFICES ASSUME TypeOK, TypeOK', IInv, [Next]_vars PROVE IInv'
    OBVIOUS
  <2>1. ASSUME NEW t \in Threads, AppStep(t) PROVE IInv'
    BY <2>1, CallIsLocal
  <2>2. ASSUME NEW t \in Threads, NEW l \in Loaders, AppCall(t, l) PROVE IInv'
    BY <2>2, BeginIsLocal
  <2>3. CASE Manager \/ ReadBlock
    BY <2>3, ManagerPreserves
  <2>4. CASE BeginStop \/ Joined \/ Over \/ UNCHANGED vars
    <3>1. UNCHANGED <<objVars, setVars, pc, cur, op, mgrVars>>
      BY <2>4 DEF BeginStop, Joined, Over, vars
    <3> QED BY <3>1 DEF IInv, OwnersAtWork, Registered, BeingRemovedIsExact,
               serving, Quiet, At, QuietInv, Released, StepInv, objVars,
               setVars, mgrVars
  <2> QED BY <2>1, <2>2, <2>3, <2>4 DEF Next
<1> QED BY <1>1, <1>2, TypeCorrect, PTL DEF Spec

\* closeConnection deletes the stream with no lock held, and processResponse
\* reads from it: never at the same time
THEOREM StreamIsSafe ==
  ASSUME SingleOwner
  PROVE  Spec => []StreamOutlivesReader
<1>1. IInv /\ TypeOK => StreamOutlivesReader
  BY DEF IInv, TypeOK, StreamOutlivesReader, serving, Registered, Live
<1> QED BY <1>1, Invariant, TypeCorrect, PTL

\* process() follows a raw pointer: never to a deleted loader
THEOREM LoaderIsSafe ==
  ASSUME SingleOwner
  PROVE  Spec => []LoaderOutlivesService
<1>1. IInv => LoaderOutlivesService
  BY DEF IInv, LoaderOutlivesService, Registered
<1> QED BY <1>1, Invariant, PTL

\* being_removed_ holds nothing that is not being removed
THEOREM RemovalIsExact ==
  ASSUME SingleOwner
  PROVE  Spec => []BeingRemovedIsExact
<1>1. IInv => BeingRemovedIsExact
  BY DEF IInv
<1> QED BY <1>1, Invariant, PTL

\* a call leaves nothing behind, however it ends
THEOREM NothingIsLeft ==
  ASSUME SingleOwner
  PROVE  Spec => []NoLeftover
<1>1. IInv /\ TypeOK => NoLeftover
  BY DEF IInv, TypeOK, NoLeftover, Quiet, At, QuietInv, Released
<1> QED BY <1>1, Invariant, TypeCorrect, PTL
=============================================================================
