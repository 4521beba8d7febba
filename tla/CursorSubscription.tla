------------------------- MODULE CursorSubscription -------------------------
(***************************************************************************)
(* The subscription of an open cursor: the calls that change it, made by   *)
(* one thread of the application (tickcursor_subscriptions.cpp), and       *)
(* TickCursorImpl::next, called by another (tickcursor_http.cpp).          *)
(*                                                                         *)
(* The state both need exists twice.  The thread in next() reads its copy, *)
(* mainState_, without a lock; a call changes the other, shadowState_,     *)
(* under thisLock_, and next() takes it over when shadowCopyUpdated_ tells *)
(* it to.  A call changes the filters first, then sends its request and,   *)
(* still under the lock, waits for the number the server gives it.  The    *)
(* server follows later, and says so with that number among the messages.  *)
(*                                                                         *)
(* Left out: streams (their filter is never read), the time of a new       *)
(* subscription, nextIfAvailable, pings, close(), and what tells STARTED   *)
(* from READING (readingRestarted_).  What is on the way from the server   *)
(* is a sequence of blocks, with one message in a block.                   *)
(***************************************************************************)
EXTENDS Integers, Sequences, FiniteSets, CursorFilter

CONSTANTS SubStates,        \* the two copies of the state, subState_
          Entities, Types,  \* names of entities and of message types
          SystemTypes,      \* the types of isSystemMessageGuid()
          MaxTypes,         \* bound: type blocks (types have many descriptors)
          MaxCalls,         \* bound: calls of the application
          MaxFaults,        \* bound: requests that fail
          MaxBlocks         \* bound: blocks on the way

ASSUME ConstantsAssumption ==
    /\ IsFiniteSet(SubStates) /\ Cardinality(SubStates) = 2
    /\ SystemTypes \subseteq Types
    /\ {MaxTypes, MaxCalls, MaxFaults, MaxBlocks} \subseteq Nat

VARIABLES
    copy,           \* [SubStates]: what the copies hold
    main, shadow,   \* mainState_, shadowState_: which copy
    updated,        \* shadowCopyUpdated_
    atEnd,          \* isAtEnd(): state is END, not STARTED or READING
    rpc,            \* where the thread that calls next() is
    msg,            \* the message it reads the header of
    caller,         \* the call that holds thisLock_, and where it is
    subscription,   \* the server: what it sends
    todo,           \* the server: the calls it accepted
    nextId,         \* the server: the number of the next one
    announced,      \* the server: the names it gave numbers to
    position,       \* the server: how many times it was reset
    done,           \* the server: it has nothing more to send
    stream,         \* the connection: the blocks on the way to next()
    asked,          \* history: what the calls so far have asked for
    askedThen,      \* history: the same, when next() read the header of msg
    calls, faults   \* counted for their bounds

cursorVars == <<copy, main, shadow, updated, atEnd>>
readerVars == <<rpc, msg, askedThen>>
callVars   == <<caller, asked, calls, faults>>
serverVars == <<subscription, todo, nextId, announced, position, done>>
vars == <<cursorVars, readerVars, callVars, serverVars, stream>>

-----------------------------------------------------------------------------

None  == -1  \* of command ids
Unset == 0   \* lastResetCommandId_ before the first reset: any number

Free == [pc |-> "free"]
thisLockFree == caller.pc = "free"

EntityBlock(i, n) == [kind |-> "entity", id |-> i, name |-> n]
TypeBlock(i, n)   == [kind |-> "type", id |-> i, name |-> n]
CommandBlock(i)   == [kind |-> "command", id |-> i]
Terminator        == [kind |-> "terminator"]
Message(e, t, p)  == [kind |-> "message", entity |-> e, type |-> t, position |-> p]
NoMessage         == Message(0, 0, 0)

\* unsure: the names a call failed for, or that were asked for and against
\* before they were met; stuck: a reset failed, and none succeeded since
NothingAsked == [entities |-> {}, types |-> {}, unsure |-> {},
                 resets |-> 0, stuck |-> FALSE]

NewCopy == [entities |-> NewFilter, types |-> NewFilter,
            first |-> None, last |-> None, lastReset |-> Unset,
            resetting |-> FALSE]

\* select() made its request, for some of the names or for all, and left the
\* filters open
Init ==
    /\ main \in SubStates /\ shadow = main
    /\ \E es \in SUBSET Entities, ts \in SUBSET (Types \ SystemTypes) :
          /\ subscription = [entities |-> es, types |-> ts]
          /\ asked = [NothingAsked EXCEPT !.entities = es, !.types = ts]
    /\ copy = [s \in SubStates |-> NewCopy] /\ updated = FALSE /\ atEnd = FALSE
    /\ rpc = "out" /\ msg = NoMessage /\ askedThen = NothingAsked
    /\ caller = Free /\ calls = 0 /\ faults = 0
    /\ todo = <<>> /\ nextId = 1 /\ position = 0 /\ done = FALSE
    /\ announced = [entities |-> <<>>, types |-> <<>>]
    /\ stream = <<>>

Executing(s) == s.last # None

-----------------------------------------------------------------------------
(* The calls that change the subscription.  Each holds thisLock_ from its  *)
(* first step to its last.                                                 *)

Lists(names) == {Only({n}) : n \in names}

\* what the interface can be called with; reset() is given no list.  An empty
\* array of entities and a SET of all types are left out: README.md, section 4.
Calls ==
    {[kind |-> "entities", action |-> a, list |-> l] :
        a \in {"ADD", "REMOVE"},
        l \in Lists(Entities) \cup {Everything}}
    \cup {[kind |-> "entities", action |-> "SET", list |-> l] : l \in Lists(Entities)}
    \cup {[kind |-> "types", action |-> a, list |-> l] :
        a \in {"ADD", "REMOVE"}, l \in Lists(Types \ SystemTypes) \cup {Everything}}
    \cup {[kind |-> "types", action |-> "SET", list |-> l] :
        l \in Lists(Types \ SystemTypes) \cup {Only({})}}
    \cup {[kind |-> "reset", action |-> "SET", list |-> Only({})]}

Other(s) == CHOOSE r \in SubStates : r # s

\* the other copy becomes the shadow, if the shadow is being read, and s its
\* new content
WriteShadow(s) ==
    LET w == IF main = shadow THEN Other(main) ELSE shadow IN
    /\ copy' = [copy EXCEPT ![w] = s]
    /\ shadow' = w
    /\ updated' = (updated \/ main = shadow)

AskFor(c) ==
    CASE c.kind = "reset" -> asked
      [] c.kind = "entities" ->
           [asked EXCEPT
              !.entities = Subscribed(@, c.action, c.list, Entities),
              !.unsure = @ \cup Wavering(copy[shadow].entities, c.action, c.list)]
      [] c.kind = "types" ->
           [asked EXCEPT
              !.types = Subscribed(@, c.action, c.list, Types),
              !.unsure = @ \cup Wavering(copy[shadow].types, c.action, c.list)]

BeginCall(c) ==
    LET s == copy[shadow] IN
    /\ thisLockFree /\ calls < MaxCalls /\ calls' = calls + 1
    /\ WriteShadow(
         CASE c.kind = "reset" ->
                [s EXCEPT !.resetting = TRUE,
                          !.entities = Cleared(@, FALSE), !.types = Cleared(@, FALSE)]
           [] c.kind = "entities" -> [s EXCEPT !.entities = Modify(@, c.action, c.list)]
           [] c.kind = "types"    -> [s EXCEPT !.types = Modify(@, c.action, c.list)])
    /\ caller' = [pc |-> "asking", call |-> c]
    /\ asked' = AskFor(c)
    /\ UNCHANGED <<main, atEnd, readerVars, faults, serverVars, stream>>

\* registerUserMessageType(), for a type that was met, changes nothing else
\* here
RegisterUserMessageType ==
    /\ thisLockFree /\ calls < MaxCalls /\ calls' = calls + 1
    /\ copy[shadow].types.names # <<>>
    /\ WriteShadow(copy[shadow])
    /\ UNCHANGED <<main, atEnd, readerVars, caller, asked, faults, serverVars, stream>>

\* the names whose subscription a call may change
Touched(c) ==
    LET everything == c.list.all \/ c.action = "SET" IN
    CASE c.kind = "reset" -> {}
      [] c.kind = "entities" -> IF everything THEN Entities ELSE c.list.names
      [] c.kind = "types"    -> IF everything THEN Types ELSE c.list.names

\* nobody knows what the server will make of a call that failed
Doubted(c) ==
    [asked EXCEPT !.unsure = @ \cup Touched(c), !.stuck = @ \/ c.kind = "reset"]

\* req.execute() throws: the request was not sent, or not answered
RequestFails ==
    /\ caller.pc \in {"asking", "answered"} /\ faults < MaxFaults
    /\ caller' = Free /\ asked' = Doubted(caller.call) /\ faults' = faults + 1
    /\ UNCHANGED <<cursorVars, readerVars, calls, serverVars, stream>>

\* addSubscriptionCommand(), and what reset() does after it
EndCall(id) ==
    LET s     == copy[shadow]
        c     == caller.call
        reset == c.kind = "reset"
        fits  == s.last = None \/ id = s.last + 1
    IN
    /\ IF fits
       THEN /\ copy' = [copy EXCEPT ![shadow] =
                 [s EXCEPT !.first = IF s.last = None THEN id ELSE @,
                           !.last = id,
                           !.lastReset = IF reset THEN id ELSE @]]
            /\ atEnd' = FALSE
       ELSE UNCHANGED <<copy, atEnd>>
    /\ asked' = IF ~fits \/ id = None THEN Doubted(c)
                ELSE IF reset THEN [asked EXCEPT !.resets = @ + 1, !.stuck = FALSE]
                ELSE asked
    /\ caller' = Free
    /\ UNCHANGED <<main, shadow, updated, readerVars, calls, serverVars, stream>>

RequestAnswered ==
    /\ caller.pc = "answered"
    /\ EndCall(caller.id)
    /\ UNCHANGED faults

\* execute() finds no number in the answer
AnswerMalformed ==
    /\ caller.pc = "answered" /\ faults < MaxFaults
    /\ EndCall(None)
    /\ faults' = faults + 1

-----------------------------------------------------------------------------
(* The server, external.                                                   *)

\* what it understands: an array is sent as a tag, and without the tag it
\* stands for everything; ModifyEntitiesRequest has no tag around its names
Request(c) ==
    IF c.kind = "entities" /\ c.list.names = {} THEN [c EXCEPT !.list = Everything]
    ELSE c

AcceptCall ==
    /\ caller.pc = "asking"
    /\ caller' = [pc |-> "answered", call |-> caller.call, id |-> nextId]
    /\ todo' = Append(todo, [id |-> nextId, request |-> Request(caller.call)])
    /\ nextId' = nextId + 1
    /\ UNCHANGED <<subscription, announced, position, done, stream,
                   asked, calls, faults, cursorVars, readerVars>>

\* a cursor that failed has closed the connection
CanSend == rpc # "dead" /\ Len(stream) < MaxBlocks

ApplyCall ==
    LET r == Head(todo).request IN
    /\ todo # <<>> /\ CanSend
    /\ subscription' =
         CASE r.kind = "reset" -> subscription
           [] r.kind = "entities" ->
                [subscription EXCEPT !.entities = Subscribed(@, r.action, r.list, Entities)]
           [] r.kind = "types" ->
                [subscription EXCEPT !.types = Subscribed(@, r.action, r.list, Types)]
    /\ position' = IF r.kind = "reset" THEN position + 1 ELSE position
    /\ done' = FALSE
    /\ stream' = Append(stream, CommandBlock(Head(todo).id))
    /\ todo' = Tail(todo)
    /\ UNCHANGED <<nextId, announced, cursorVars, readerVars, callVars>>

\* a name gets its number before the first message that has it
Send(block) ==
    /\ CanSend /\ ~done
    /\ stream' = Append(stream, block)
    /\ UNCHANGED <<subscription, todo, nextId, position, done, cursorVars,
                   readerVars, callVars>>

SendEntity(n) ==
    /\ n \in subscription.entities
    /\ \A i \in DOMAIN announced.entities : announced.entities[i] # n
    /\ Send(EntityBlock(Len(announced.entities) + 1, n))
    /\ announced' = [announced EXCEPT !.entities = Append(@, n)]

SendType(n) ==
    /\ n \in subscription.types \cup SystemTypes
    /\ Len(announced.types) < MaxTypes
    /\ Send(TypeBlock(Len(announced.types) + 1, n))
    /\ announced' = [announced EXCEPT !.types = Append(@, n)]

SendMessage ==
    \E i \in DOMAIN announced.entities, j \in DOMAIN announced.types :
       /\ announced.entities[i] \in subscription.entities
       /\ announced.types[j] \in subscription.types \cup SystemTypes
       /\ Send(Message(i, j, position))
       /\ UNCHANGED announced

SendTerminator ==
    /\ CanSend /\ ~done /\ done' = TRUE
    /\ stream' = Append(stream, Terminator)
    /\ UNCHANGED <<subscription, todo, nextId, announced, position, cursorVars,
                   readerVars, callVars>>

-----------------------------------------------------------------------------
(* TickCursorImpl::next                                                    *)

\* next() is called; at the end it returns at once, unless there may be more
CallNext ==
    /\ rpc = "out" /\ rpc' = "record"
    /\ atEnd => (Executing(copy[main]) \/ stream # <<>>) /\ thisLockFree
    /\ atEnd' = FALSE
    /\ UNCHANGED <<copy, main, shadow, updated, msg, askedThen, callVars,
                   serverVars, stream>>

AtBlock(kind) ==
    /\ rpc = "record" /\ stream # <<>> /\ Head(stream).kind = kind
    /\ stream' = Tail(stream)

\* an exception ends next(): doClose()
Throw == rpc' = "dead" /\ atEnd' = TRUE

\* under thisLock_, synchronizeCheck() and then the change of mainState_ to s;
\* what the copy that is left behind holds is of no account, it is overwritten
\* before it is used
SynchronizeAnd(s) ==
    /\ thisLockFree
    /\ main' = shadow /\ updated' = FALSE
    /\ copy' = [r \in SubStates |-> IF r = shadow THEN s ELSE NewCopy]
    /\ UNCHANGED shadow

\* mutant of ReadEntity: without synchronizeCheck()
ReadEntityUnsynchronized ==
    LET b == Head(stream) IN
    /\ AtBlock("entity") /\ thisLockFree
    /\ copy' = [copy EXCEPT ![main].entities = RegisterInstrument(@, b.name)]
    /\ UNCHANGED <<main, shadow, updated, atEnd, rpc, msg, askedThen, callVars, serverVars>>

ReadEntity ==
    LET s == copy[shadow]
        b == Head(stream)
    IN
    /\ AtBlock("entity")
    /\ IF b.id = Len(s.entities.names) + 1
       THEN /\ SynchronizeAnd([s EXCEPT !.entities = RegisterInstrument(@, b.name)])
            /\ UNCHANGED <<rpc, atEnd>>
       ELSE SynchronizeAnd(s) /\ Throw
    /\ UNCHANGED <<msg, askedThen, callVars, serverVars>>

ReadMessageType ==
    LET s == copy[shadow]
        b == Head(stream)
    IN
    /\ AtBlock("type")
    /\ IF b.id = Len(s.types.names) + 1
       THEN /\ SynchronizeAnd([s EXCEPT !.types = RegisterMessageType(@, b.name)])
            /\ UNCHANGED <<rpc, atEnd>>
       ELSE SynchronizeAnd(s) /\ Throw
    /\ UNCHANGED <<msg, askedThen, callVars, serverVars>>

\* mutant of Executed: any command that is done ends a reset
ExecutedReset(s) ==
    LET isLast == s.first = s.last
    IN [s EXCEPT !.resetting = FALSE,
                 !.first = IF isLast THEN None ELSE @ + 1,
                 !.last = IF isLast THEN None ELSE @]

\* mutant of Executed: a reset ends with the last command that is expected
ExecutedLate(s) ==
    LET isLast    == s.first = s.last
        resetDone == s.resetting /\ isLast /\ s.first = s.lastReset
    IN [s EXCEPT !.resetting = @ /\ ~resetDone,
                 !.lastReset = IF resetDone THEN None ELSE @,
                 !.first = IF isLast THEN None ELSE @ + 1,
                 !.last = IF isLast THEN None ELSE @]

\* mutant of Executed: the last command stays expected
ExecutedStays(s) ==
    LET resetDone == s.resetting /\ s.first = s.lastReset
    IN [s EXCEPT !.resetting = @ /\ ~resetDone,
                 !.lastReset = IF resetDone THEN None ELSE @,
                 !.first = @ + 1]

\* the command at the head of those expected is done
Executed(s) ==
    LET isLast    == s.first = s.last
        resetDone == s.resetting /\ s.first = s.lastReset
    IN [s EXCEPT !.resetting = @ /\ ~resetDone,
                 !.lastReset = IF resetDone THEN None ELSE @,
                 !.first = IF isLast THEN None ELSE @ + 1,
                 !.last = IF isLast THEN None ELSE @]

\* "Logic error" of a reset that is neither done nor expected
ResetLost(s) == s.resetting /\ s.lastReset \notin s.first..s.last

\* a number nobody set may be any
Readings(s) ==
    IF s.resetting /\ s.lastReset = Unset
    THEN {[s EXCEPT !.lastReset = i] : i \in {None, s.first}} ELSE {s}

\* mutant of ReadCommand: without synchronizeCheck()
ReadCommandUnsynchronized ==
    LET s == copy[main] IN
    /\ AtBlock("command") /\ thisLockFree
    /\ IF Head(stream).id = s.first
       THEN copy' = [copy EXCEPT ![main] = Executed(s)] /\ UNCHANGED <<rpc, atEnd>>
       ELSE Throw /\ UNCHANGED copy
    /\ UNCHANGED <<main, shadow, updated, msg, askedThen, callVars, serverVars>>

ReadCommand ==
    /\ AtBlock("command")
    /\ \E s \in Readings(copy[shadow]) :
          IF Head(stream).id = s.first /\ ~ResetLost(s)
          THEN SynchronizeAnd(Executed(s)) /\ UNCHANGED <<rpc, atEnd>>
          ELSE SynchronizeAnd(s) /\ Throw
    /\ UNCHANGED <<msg, askedThen, callVars, serverVars>>

\* mutant of ReadTerminator: without synchronizeCheck()
ReadTerminatorUnsynchronized ==
    /\ AtBlock("terminator") /\ thisLockFree
    /\ IF Executing(copy[main])
       THEN UNCHANGED <<rpc, atEnd>>
       ELSE rpc' = "ending" /\ atEnd' = TRUE
    /\ UNCHANGED <<copy, main, shadow, updated, msg, askedThen, callVars, serverVars>>

\* the end of the data, unless a call has made the server start again
ReadTerminator ==
    /\ AtBlock("terminator")
    /\ SynchronizeAnd(copy[shadow])
    /\ IF Executing(copy[shadow])
       THEN UNCHANGED <<rpc, atEnd>>
       ELSE rpc' = "ending" /\ atEnd' = TRUE
    /\ UNCHANGED <<msg, askedThen, callVars, serverVars>>

\* next() returns FALSE; it sets the state once more if it finds it changed
End ==
    /\ rpc = "ending" /\ rpc' = "out"
    /\ ~atEnd => thisLockFree
    /\ atEnd' = TRUE
    /\ UNCHANGED <<copy, main, shadow, updated, msg, askedThen, callVars,
                   serverVars, stream>>

\* mutant of ReadHeader: the copy in use is kept
ReadHeaderStale ==
    /\ AtBlock("message")
    /\ msg' = Head(stream) /\ askedThen' = asked /\ rpc' = "header"
    /\ UNCHANGED <<cursorVars, callVars, serverVars>>

\* the header of a message is read, and the shadow taken over if it changed
ReadHeader ==
    LET s == copy[shadow] IN
    /\ AtBlock("message")
    /\ msg' = Head(stream) /\ askedThen' = asked /\ rpc' = "header"
    /\ IF updated
       THEN SynchronizeAnd(s) /\ atEnd' = FALSE
       ELSE UNCHANGED cursorVars
    /\ UNCHANGED <<callVars, serverVars>>

Known(s, m) ==
    m.entity \in DOMAIN s.entities.names /\ m.type \in DOMAIN s.types.names

\* what next() makes of the message, from its own copy
Passes(s, m) ==
    /\ ~s.resetting
    /\ \/ s.types.names[m.type] \in SystemTypes
       \/ ~Skipped(s.types, m.type) /\ ~Skipped(s.entities, m.entity)

\* next() returns the message, looks for another one, or throws
Filter ==
    LET s == copy[main] IN
    /\ rpc = "header" /\ msg' = NoMessage /\ askedThen' = NothingAsked
    /\ \/ Known(s, msg) /\ Passes(s, msg) /\ rpc' = "out" /\ atEnd' = FALSE
       \/ Known(s, msg) /\ ~Passes(s, msg) /\ rpc' = "record" /\ UNCHANGED atEnd
       \/ ~Known(s, msg) /\ Throw
    /\ UNCHANGED <<copy, main, shadow, updated, callVars, serverVars, stream>>

-----------------------------------------------------------------------------

CallStep ==
    \/ \E c \in Calls : BeginCall(c)
    \/ RegisterUserMessageType
    \/ RequestFails \/ RequestAnswered \/ AnswerMalformed

ServerStep ==
    \/ AcceptCall \/ ApplyCall \/ SendMessage \/ SendTerminator
    \/ \E n \in Entities : SendEntity(n)
    \/ \E n \in Types : SendType(n)

NextStep ==
    \/ CallNext \/ ReadEntity \/ ReadMessageType \/ ReadCommand
    \/ ReadTerminator \/ End \/ ReadHeader \/ Filter

Next == CallStep \/ ServerStep \/ NextStep

Spec == Init /\ [][Next]_vars
-----------------------------------------------------------------------------
(* Types                                                                   *)

Ids == {None, Unset} \cup 1..MaxCalls

\* Every variable has its type, a copy is written only after it was taken over
\* as the shadow, and next() has a message when it has read a header.
TypeOK ==
    /\ DOMAIN copy = SubStates
    /\ \A i \in SubStates :
          LET s == copy[i] IN
          /\ {s.first, s.last, s.lastReset} \subseteq Ids
          /\ s.resetting \in BOOLEAN
          /\ \A f \in {s.entities, s.types} :
                /\ DOMAIN f.data \subseteq DOMAIN f.names
                /\ f.default \in BOOLEAN
                /\ \A j \in DOMAIN f.data : f.data[j] \in BOOLEAN
          /\ DOMAIN s.entities.later \subseteq Entities
          /\ DOMAIN s.types.later \subseteq Types
    /\ {main, shadow} \subseteq SubStates /\ updated \in BOOLEAN
    /\ atEnd \in BOOLEAN
    /\ rpc \in {"out", "record", "header", "ending", "dead"}
    /\ (rpc = "header") = (msg # NoMessage)
    /\ caller.pc \in {"free", "asking", "answered"}
    /\ subscription.entities \subseteq Entities /\ subscription.types \subseteq Types
    /\ nextId \in 1..MaxCalls + 1 /\ position \in 0..MaxCalls /\ done \in BOOLEAN
    /\ Len(stream) <= MaxBlocks /\ Len(todo) <= MaxCalls
    /\ calls \in 0..MaxCalls /\ faults \in 0..MaxFaults

-----------------------------------------------------------------------------
(* Safety                                                                  *)

EntityOf(m) == announced.entities[m.entity]
TypeOf(m)   == announced.types[m.type]

\* Judged(m): next() has the header of m, and is about to consult its filter
Judged == rpc = "header" /\ Known(copy[main], msg)

\* A message next() returns is of an entity and a type that the calls had asked
\* for when next() read its header, whatever the server still sends from before
\* them (names that were asked for and against before they were met, and what
\* follows calls that failed, aside).
NextReturnsOnlyAsked ==
    Judged /\ Passes(copy[main], msg) /\ TypeOf(msg) \notin SystemTypes =>
        \/ /\ EntityOf(msg) \in askedThen.entities \cup askedThen.unsure
           /\ TypeOf(msg) \in askedThen.types \cup askedThen.unsure
        \/ askedThen.stuck

\* A message next() drops is of an entity or of a type that was not asked for,
\* or is from before a reset: no asked-for message the server sends is lost.
\* Left out are names that were asked for and against before they were met, of
\* which modifyEntities (tickcursor_subscriptions.cpp:215) may drop what was asked
\* for last, and what follows calls that failed; to set all types
\* (setTypes(NULL)) is not among the calls.
NothingAskedIsDropped ==
    Judged /\ ~Passes(copy[main], msg) =>
        \/ EntityOf(msg) \notin askedThen.entities \ askedThen.unsure
        \/ TypeOf(msg) \notin askedThen.types \ askedThen.unsure
        \/ msg.position < askedThen.resets
        \/ askedThen.stuck

\* No message from before a reset is returned once the call of reset() returned,
\* with other calls and other resets outstanding or not.
NothingFromBeforeReset ==
    Judged /\ Passes(copy[main], msg) => msg.position >= askedThen.resets

\* The names in a block that is read are in the copy next() reads and in the one
\* the calls change, so that none is forgotten when a copy replaces the other:
\* with the blocks still on the way, both are what the server announced.
TablesAgree ==
    LET onTheWay(kind) == Cardinality(
            {i \in DOMAIN stream : stream[i].kind = kind})
        upTo(s, k) == SubSeq(s, 1, Len(s) - k)
    IN rpc # "dead" =>
        \A s \in {copy[main], copy[shadow]} :
            /\ s.entities.names = upTo(announced.entities, onTheWay("entity"))
            /\ s.types.names = upTo(announced.types, onTheWay("type"))

\* next() throws only after a request failed: every block of the server is one
\* the cursor expects, and no name is unknown, however the calls and the blocks
\* overtake each other.
ThrowsOnlyAfterFault == rpc = "dead" => faults > 0

\* The terminator of the data ends the cursor only if no call whose end the
\* server has yet to confirm has returned: it does not hide a restart.
EndsOnlyWhenDone ==
    [][rpc = "record" /\ rpc' = "ending" =>
          /\ ~Executing(copy[shadow])
          /\ thisLockFree]_vars
=============================================================================
