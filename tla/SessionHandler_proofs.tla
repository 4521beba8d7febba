----------------------- MODULE SessionHandler_proofs -----------------------
(***************************************************************************)
(* What TLC checks of SessionHandler for two keys and two clients, proved  *)
(* for any keys, any clients and any number of changes and calls.          *)
(***************************************************************************)
EXTENDS SessionHandler, SequenceTheorems, TLAPS

-----------------------------------------------------------------------------
(* What is on the connection: sequences that grow at their end and are     *)
(* taken from at their front.                                              *)

\* the parts of a sequence that is not empty
LEMMA Front ==
  ASSUME NEW S, NEW s \in Seq(S), s # <<>>
  PROVE  /\ Len(s) \in Nat \ {0} /\ DOMAIN s = 1 .. Len(s)
         /\ Head(s) = s[1] /\ Head(s) \in S
         /\ Tail(s) \in Seq(S) /\ Len(Tail(s)) = Len(s) - 1
         /\ DOMAIN Tail(s) = 1 .. Len(s) - 1
         /\ \A i \in 1 .. Len(s) - 1 : Tail(s)[i] = s[i + 1]
OBVIOUS

\* the parts of one that grew
LEMMA End ==
  ASSUME NEW S, NEW s \in Seq(S), NEW x \in S
  PROVE  /\ Len(s) \in Nat /\ DOMAIN s = 1 .. Len(s)
         /\ Append(s, x) \in Seq(S) /\ Len(Append(s, x)) = Len(s) + 1
         /\ DOMAIN Append(s, x) = 1 .. Len(s) + 1
         /\ Append(s, x)[Len(s) + 1] = x
         /\ \A i \in 1 .. Len(s) : Append(s, x)[i] = s[i]
OBVIOUS

-----------------------------------------------------------------------------
(* Where the thread of the session is, and what it leaves behind.          *)

ThreadInv ==
    /\ isRunning <=> tpc \in {"loop", "reading", "needed", "close", "stopped"}
    /\ starting = "creating" <=> tpc = "none"
    /\ starting = "open" => tpc # "begin"
    /\ stopping # "open" => shouldStop

LinkInv ==
    /\ link => ioStream = "open"
    /\ ~link => requests = <<>> /\ events = <<>>

-----------------------------------------------------------------------------
(* A stream that was there all through a call.                             *)

Removes(e, k) == e.tag \in {"deleted", "renamed"} /\ e.key = k

Out(evs, k) == \E j \in DOMAIN evs : Removes(evs[j], k)

\* the cache has k, and nothing on the way takes it out
StaysCached(k) == k \in cache /\ ~Out(events, k)

\* the answer with that number brings k, to stay
BringsIn(evs, id, k) ==
    \A i \in DOMAIN evs : evs[i].tag = "definition" /\ evs[i].id = id =>
        /\ k \in evs[i].keys
        /\ \A j \in DOMAIN evs : j > i => ~Removes(evs[j], k)

\* the request with that number asks for k
AsksFor(reqs, id, k) ==
    \A i \in DOMAIN reqs : reqs[i].id = id => reqs[i].what.all \/ k \in reqs[i].what.keys

\* what seen says of the session while the call of c goes on
Lasts(c) ==
    /\ link /\ ~shouldStop /\ tpc \in {"loop", "reading", "needed", "close"}
    /\ key[c] \in streams /\ ~RemovalOf(key[c]) /\ pc[c] # "idle"

\* the stream is in the cache, or comes with the answer the call waits for
AnswerComes(c) ==
    /\ pc[c] = "wait_one" =>
           /\ received >= requestId[c] => StaysCached(key[c])
           /\ AsksFor(requests, requestId[c], key[c])
           /\ BringsIn(events, requestId[c], key[c])
    /\ pc[c] = "read" => StaysCached(key[c])

SeenInv == \A c \in Clients : seen[c] => Lasts(c) /\ AnswerComes(c)

\* What the server does not have, and the cache has or will have, is taken out
\* of the cache by something on the way
Doomed(evs, k) ==
    \A i \in DOMAIN evs : evs[i].tag = "definition" /\ k \in evs[i].keys =>
        \E j \in DOMAIN evs : j > i /\ Removes(evs[j], k)

GhostInv ==
    link => \A k \in Keys \ streams : (k \in cache => Out(events, k)) /\ Doomed(events, k)

SessionInv == ThreadInv /\ LinkInv /\ AnswersFollowRequests /\ SeenInv /\ GhostInv
-----------------------------------------------------------------------------
(* Types of what is sent and received.                                     *)

\* a request for all streams or for some is one
LEMMA RequestType ==
  ASSUME NEW id \in Nat, NEW all \in BOOLEAN, NEW ks \in SUBSET Keys
  PROVE  Request(id, [all |-> all, keys |-> ks]) \in Requests
BY DEF Request, Requests

\* what the tags of the events say of their fields
LEMMA EventTypes ==
  /\ \A e \in Events :
        /\ e.tag \in {"created", "deleted", "property_changed", "changed", "closed", "renamed",
                      "definition"}
        /\ e.tag # "definition" => e.key \in Keys
        /\ e.tag = "renamed" => e.newKey \in Keys
        /\ e.tag = "definition" => e.id \in Nat /\ e.keys \subseteq Keys
  /\ \A t \in {"created", "deleted", "property_changed", "changed", "closed"}, k \in Keys :
        Event(t, k) \in Events
  /\ \A k, n \in Keys : [tag |-> "renamed", key |-> k, newKey |-> n] \in Events
  /\ \A id \in Nat, ks \in SUBSET Keys : Definition(id, ks) \in Events
BY DEF Events, Event, Definition

-----------------------------------------------------------------------------
(* The numbers on the connection.                                          *)

\* the answers in evs have the numbers from rec + 1 to served, in this order
InOrder(evs, rec, served) ==
    /\ rec <= served
    /\ \A i \in DOMAIN evs : evs[i].tag = "definition" => evs[i].id \in rec + 1 .. served
    /\ \A id \in rec + 1 .. served :
           \E i \in DOMAIN evs : evs[i].tag = "definition" /\ evs[i].id = id
    /\ \A i, j \in DOMAIN evs :
           evs[i].tag = "definition" /\ evs[j].tag = "definition" /\ i < j =>
               evs[i].id < evs[j].id

Numbered(reqs, served) == \A i \in DOMAIN reqs : reqs[i].id = served + i

\* AnswersFollowRequests, without its set of numbers
LEMMA OrderOfNumbers ==
  ASSUME NEW evs \in Seq(Events), NEW reqs \in Seq(Requests), NEW rec \in Nat, NEW snt \in Nat
  PROVE  LET definitions == {i \in DOMAIN evs : evs[i].tag = "definition"}
             served == snt - Len(reqs)
         IN  (/\ rec <= served
              /\ {evs[i].id : i \in definitions} = rec + 1 .. served
              /\ \A i, j \in definitions : i < j => evs[i].id < evs[j].id
              /\ \A i \in DOMAIN reqs : reqs[i].id = served + i)
             <=> InOrder(evs, rec, served) /\ Numbered(reqs, served)
<1> DEFINE definitions == {i \in DOMAIN evs : evs[i].tag = "definition"}
           ids == {evs[i].id : i \in definitions}
           served == snt - Len(reqs)
<1>1. DOMAIN evs = 1 .. Len(evs) /\ Len(evs) \in Nat /\ Len(reqs) \in Nat
  OBVIOUS
<1>2. (ids = rec + 1 .. served) <=>
          /\ \A i \in definitions : evs[i].id \in rec + 1 .. served
          /\ \A id \in rec + 1 .. served : \E i \in definitions : evs[i].id = id
  OBVIOUS
<1> QED BY <1>1, <1>2 DEF InOrder, Numbered

\* the same of the variables
LEMMA NumbersInOrder ==
  ASSUME TypeOK
  PROVE  AnswersFollowRequests <=>
             (link => /\ InOrder(events, received, sent - Len(requests))
                      /\ Numbered(requests, sent - Len(requests)))
<1>1. /\ events \in Seq(Events) /\ requests \in Seq(Requests) /\ sent \in Nat
      /\ received \in Nat
  BY DEF TypeOK
<1> QED BY <1>1, OrderOfNumbers DEF AnswersFollowRequests

\* an event that is no answer leaves the order of the answers as it was
LEMMA AnotherEvent ==
  ASSUME NEW evs \in Seq(Events), NEW rec \in Nat, NEW served \in Int,
         InOrder(evs, rec, served), NEW e \in Events, e.tag # "definition"
  PROVE  InOrder(Append(evs, e), rec, served)
<1>1. /\ Len(evs) \in Nat /\ DOMAIN evs = 1 .. Len(evs)
      /\ DOMAIN Append(evs, e) = 1 .. Len(evs) + 1
      /\ \A i \in 1 .. Len(evs) : Append(evs, e)[i] = evs[i]
      /\ Append(evs, e)[Len(evs) + 1] = e
  BY End
<1>2. \A i \in DOMAIN Append(evs, e) :
          Append(evs, e)[i].tag = "definition" => i \in DOMAIN evs
  BY <1>1
<1>3. \A id \in rec + 1 .. served :
          \E i \in DOMAIN Append(evs, e) :
              Append(evs, e)[i].tag = "definition" /\ Append(evs, e)[i].id = id
  BY <1>1 DEF InOrder
<1>4. \A i \in DOMAIN evs : Append(evs, e)[i] = evs[i]
  BY <1>1
<1>5. rec <= served /\ \A i \in DOMAIN Append(evs, e) :
          Append(evs, e)[i].tag = "definition" => Append(evs, e)[i].id \in rec + 1 .. served
  BY <1>2, <1>4 DEF InOrder
<1>6. \A i, j \in DOMAIN Append(evs, e) :
          Append(evs, e)[i].tag = "definition" /\ Append(evs, e)[j].tag = "definition"
              /\ i < j => Append(evs, e)[i].id < Append(evs, e)[j].id
  BY <1>2, <1>4 DEF InOrder
<1> QED BY <1>3, <1>5, <1>6 DEF InOrder

\* the server's answer to the next request has the next number
LEMMA AnAnswer ==
  ASSUME NEW evs \in Seq(Events), NEW rec \in Nat, NEW served \in Int,
         InOrder(evs, rec, served), NEW ks \in SUBSET Keys
  PROVE  InOrder(Append(evs, Definition(served + 1, ks)), rec, served + 1)
<1> DEFINE d == Definition(served + 1, ks)
           new == Append(evs, d)
<1>1. d.tag = "definition" /\ d.id = served + 1
  BY DEF Definition
<1>2. /\ Len(evs) \in Nat /\ DOMAIN evs = 1 .. Len(evs) /\ DOMAIN new = 1 .. Len(evs) + 1
      /\ new[Len(evs) + 1] = d /\ \A i \in 1 .. Len(evs) : new[i] = evs[i]
  OBVIOUS
<1> HIDE DEF d, new
<1>3. \A i \in DOMAIN evs : evs[i].tag = "definition" => evs[i].id \in rec + 1 .. served
  BY DEF InOrder
<1>4. \A id \in rec + 1 .. served + 1 :
          \E i \in DOMAIN new : new[i].tag = "definition" /\ new[i].id = id
  BY <1>1, <1>2 DEF InOrder
<1>5. \A i, j \in DOMAIN new :
          new[i].tag = "definition" /\ new[j].tag = "definition" /\ i < j => new[i].id < new[j].id
  BY <1>1, <1>2, <1>3 DEF InOrder
<1>6. InOrder(new, rec, served + 1)
  BY <1>1, <1>2, <1>3, <1>4, <1>5 DEF InOrder
<1> QED BY <1>6 DEF new, d

\* the first of the answers is the one that is counted next
LEMMA FirstEvent ==
  ASSUME NEW evs \in Seq(Events), NEW rec \in Nat, NEW served \in Int,
         InOrder(evs, rec, served), evs # <<>>
  PROVE  IF Head(evs).tag = "definition"
         THEN Head(evs).id = rec + 1 /\ InOrder(Tail(evs), rec + 1, served)
         ELSE InOrder(Tail(evs), rec, served)
<1> DEFINE rest == Tail(evs)
<1>1. /\ Len(evs) \in Nat \ {0} /\ DOMAIN evs = 1 .. Len(evs) /\ Head(evs) = evs[1]
      /\ DOMAIN rest = 1 .. Len(evs) - 1 /\ \A i \in 1 .. Len(evs) - 1 : rest[i] = evs[i + 1]
      /\ \A i \in 2 .. Len(evs) : i - 1 \in DOMAIN rest /\ rest[i - 1] = evs[i]
  BY Front
<1> HIDE DEF rest
<1>2. \A i, j \in DOMAIN rest :
          rest[i].tag = "definition" /\ rest[j].tag = "definition" /\ i < j => rest[i].id < rest[j].id
  <2> SUFFICES ASSUME NEW i \in DOMAIN rest, NEW j \in DOMAIN rest, rest[i].tag = "definition",
                      rest[j].tag = "definition", i < j
               PROVE  rest[i].id < rest[j].id
    OBVIOUS
  <2>1. /\ i + 1 \in DOMAIN evs /\ rest[i] = evs[i + 1]
        /\ j + 1 \in DOMAIN evs /\ rest[j] = evs[j + 1] /\ i + 1 < j + 1
    BY <1>1
  <2> QED BY <2>1 DEF InOrder
<1>3. \A i \in DOMAIN rest : rest[i].tag = "definition" => rest[i].id \in rec + 1 .. served
  <2> SUFFICES ASSUME NEW i \in DOMAIN rest, rest[i].tag = "definition"
               PROVE  rest[i].id \in rec + 1 .. served
    OBVIOUS
  <2>1. i + 1 \in DOMAIN evs /\ rest[i] = evs[i + 1]
    BY <1>1
  <2> QED BY <2>1 DEF InOrder
<1>4. CASE Head(evs).tag # "definition"
  <2>1. \A id \in rec + 1 .. served :
            \E i \in DOMAIN rest : rest[i].tag = "definition" /\ rest[i].id = id
    <3> SUFFICES ASSUME NEW id \in rec + 1 .. served
                 PROVE  \E i \in DOMAIN rest : rest[i].tag = "definition" /\ rest[i].id = id
      OBVIOUS
    <3>1. PICK i \in DOMAIN evs : evs[i].tag = "definition" /\ evs[i].id = id
      BY DEF InOrder
    <3>2. i - 1 \in DOMAIN rest /\ rest[i - 1] = evs[i]
      BY <1>1, <1>4, <3>1
    <3> QED BY <3>1, <3>2
  <2>2. InOrder(rest, rec, served)
    BY <1>2, <1>3, <2>1 DEF InOrder
  <2> QED BY <1>4, <2>2 DEF rest
<1>5. CASE Head(evs).tag = "definition"
  <2>1. evs[1].id \in rec + 1 .. served
    BY <1>1, <1>5 DEF InOrder
  <2>2. PICK i \in DOMAIN evs : evs[i].tag = "definition" /\ evs[i].id = rec + 1
    BY <2>1 DEF InOrder
  <2>3. i # 1 => evs[1].id < evs[i].id
    <3>1. 1 \in DOMAIN evs /\ (i # 1 => 1 < i) /\ evs[1].tag = "definition"
      BY <1>1, <1>5
    <3> QED BY <2>2, <3>1 DEF InOrder
  <2>4. evs[1].id = rec + 1
    BY <2>1, <2>2, <2>3
  <2>5. \A j \in DOMAIN rest : rest[j].tag = "definition" => rest[j].id \in rec + 2 .. served
    <3> SUFFICES ASSUME NEW j \in DOMAIN rest, rest[j].tag = "definition"
                 PROVE  rest[j].id \in rec + 2 .. served
      OBVIOUS
    <3>1. j + 1 \in DOMAIN evs /\ 1 \in DOMAIN evs /\ 1 < j + 1 /\ rest[j] = evs[j + 1]
          /\ evs[1].tag = "definition"
      BY <1>1, <1>5
    <3>2. evs[1].id < rest[j].id
      BY <3>1 DEF InOrder
    <3> QED BY <1>3, <2>4, <3>2
  <2>6. \A id \in rec + 2 .. served :
            \E j \in DOMAIN rest : rest[j].tag = "definition" /\ rest[j].id = id
    <3> SUFFICES ASSUME NEW id \in rec + 2 .. served
                 PROVE  \E j \in DOMAIN rest : rest[j].tag = "definition" /\ rest[j].id = id
      OBVIOUS
    <3>1. PICK j \in DOMAIN evs : evs[j].tag = "definition" /\ evs[j].id = id
      BY DEF InOrder
    <3>2. j - 1 \in DOMAIN rest /\ rest[j - 1] = evs[j]
      BY <1>1, <2>4, <3>1
    <3> QED BY <3>1, <3>2
  <2>7. InOrder(rest, rec + 1, served)
    BY <1>2, <2>1, <2>5, <2>6 DEF InOrder
  <2> QED BY <1>1, <1>5, <2>4, <2>7 DEF rest
<1> QED BY <1>4, <1>5

\* what the thread counts is an answer to a request that was sent
LEMMA HeadIsNext ==
  ASSUME TypeOK, AnswersFollowRequests, link, events # <<>>, Head(events).tag = "definition"
  PROVE  Head(events).id = received + 1 /\ received + 1 <= sent
<1>1. /\ sent \in Nat /\ received \in Nat /\ sent - Len(requests) \in Int
      /\ events \in Seq(Events) /\ Len(requests) \in Nat
  BY DEF TypeOK
<1>2. InOrder(events, received, sent - Len(requests))
  BY NumbersInOrder
<1>3. Head(events).id = received + 1 /\ InOrder(Tail(events), received + 1, sent - Len(requests))
  BY <1>1, <1>2, FirstEvent
<1> QED BY <1>1, <1>3 DEF InOrder

-----------------------------------------------------------------------------
(* Types.                                                                  *)

\* every step keeps the types
LEMMA TypeStep ==
  ASSUME TypeOK, AnswersFollowRequests, LinkInv, [Next]_vars
  PROVE  TypeOK'
<1> USE DEF TypeOK, serverVars, threadVars, countVars, ownerVars, callVars
<1>a. /\ \A e \in Events : Append(events, e) \in Seq(Events)
      /\ \A k \in Keys, t \in {"created", "deleted", "property_changed", "changed"} :
             Event(t, k) \in Events
      /\ <<>> \in Seq(Events) /\ <<>> \in Seq(Requests)
  BY EventTypes
<1>b. ASSUME NEW e \in Events, Announce(e) PROVE events' \in Seq(Events)
  BY <1>a, <1>b DEF Announce
<1>c. \A what \in [all : BOOLEAN, keys : SUBSET Keys] :
          Append(requests, Request(sent + 1, what)) \in Seq(Requests)
  BY DEF Request, Requests
<1>d. /\ All \in [all : BOOLEAN, keys : SUBSET Keys]
      /\ \A ks \in SUBSET Keys : Only(ks) \in [all : BOOLEAN, keys : SUBSET Keys]
  BY DEF All, Only
<1>e. \A ks \in SUBSET Keys : Unseen(ks) => seen' \in [Clients -> BOOLEAN]
  BY DEF Unseen
<1>1. CASE Serve
  <2>1. Head(requests) \in Requests /\ Tail(requests) \in Seq(Requests)
    BY <1>1, Front DEF Serve
  <2>2. \A ks \in SUBSET Keys : Append(events, Definition(Head(requests).id, ks)) \in Seq(Events)
    BY <2>1, <1>a, EventTypes DEF Requests
  <2> QED BY <1>1, <2>1, <2>2 DEF Serve
<1>2. CASE Change
  <2>1. events' \in Seq(Events)
    BY <1>2, <1>a, <1>b, EventTypes DEF Change
  <2>2. streams' \subseteq Keys
    BY <1>2 DEF Change
  <2>3. seen' \in [Clients -> BOOLEAN]
    BY <1>2, <1>e DEF Change
  <2>4. changes' \in 0 .. MaxChanges
    BY <1>2, BoundsAssumption DEF Change
  <2> QED BY <1>2, <2>1, <2>2, <2>3, <2>4 DEF Change
<1>3. CASE EndSession
  BY <1>3, <1>a, <1>e, EventTypes, BoundsAssumption DEF EndSession
<1>4. CASE Break \/ DeleteStreamObject
  <2>1. CASE Break              BY <2>1, <1>a, <1>e DEF Break
  <2>2. CASE DeleteStreamObject BY <2>2, <1>a, <1>e DEF DeleteStreamObject
  <2> QED BY <1>4, <2>1, <2>2
<1>5. CASE BeginThread \/ BeginEvent \/ LeaveLoop \/ CutAnswer \/ CleanUp \/ Stopped
  <2>1. CASE BeginThread BY <2>1 DEF BeginThread
  <2>2. CASE LeaveLoop   BY <2>2 DEF LeaveLoop
  <2>3. CASE CutAnswer   BY <2>3 DEF CutAnswer
  <2>4. CASE CleanUp     BY <2>4 DEF CleanUp
  <2>5. CASE Stopped     BY <2>5 DEF Stopped
  <2>6. CASE BeginEvent  BY <2>6 DEF BeginEvent
  <2> QED BY <1>5, <2>1, <2>2, <2>3, <2>4, <2>5, <2>6
<1>6. CASE ProcessInput
  <2>1. events # <<>> /\ Head(events) \in Events /\ Tail(events) \in Seq(Events) /\ link
    BY <1>6, Front DEF ProcessInput, LinkInv
  <2>2. UNCHANGED <<streams, link, changes, ioStream, thread, isRunning, starting, stopping,
                    shouldStop, pc, key, requestId, calls>> /\ events' = Tail(events)
    BY <1>6 DEF ProcessInput
  <2>3. sent' \in Nat /\ received' \in 0 .. sent' /\ sent' >= sent /\ requests' \in Seq(Requests)
        /\ cache' \subseteq Keys /\ needed' \subseteq Keys /\ tpc' \in {"needed", "close"}
    <3>1. CASE ReceiveDeleted(Head(events)) BY <2>1, <3>1 DEF ReceiveDeleted
    <3>2. CASE ReceiveCreated(Head(events)) BY <2>1, <3>2, EventTypes DEF ReceiveCreated
    <3>3. CASE ReceiveRenamed(Head(events)) BY <2>1, <3>3, EventTypes DEF ReceiveRenamed
    <3>4. CASE ReceiveDefinition(Head(events))
      BY <2>1, <3>4, EventTypes, HeadIsNext DEF ReceiveDefinition
    <3>5. CASE ReceiveChanged(Head(events))
      <4>1. \E what \in [all : BOOLEAN, keys : SUBSET Keys] : Send(what)
        <5> DEFINE e == Head(events)
        <5>1. e.tag \in {"property_changed", "changed"} /\ e.key \in Keys
              /\ Send(IF e.tag = "changed" THEN All ELSE Only({e.key}))
          BY <2>1, <3>5, EventTypes DEF ReceiveChanged
        <5> HIDE DEF e
        <5>2. All \in [all : BOOLEAN, keys : SUBSET Keys]
              /\ Only({e.key}) \in [all : BOOLEAN, keys : SUBSET Keys]
          BY <5>1, <1>d
        <5> QED BY <5>1, <5>2
      <4>2. PICK what \in [all : BOOLEAN, keys : SUBSET Keys] : Send(what)
        BY <4>1
      <4>3. sent' = sent + 1 /\ requests' \in {requests, Append(requests, Request(sent + 1, what))}
        BY <4>2 DEF Send
      <4>4. Append(requests, Request(sent + 1, what)) \in Seq(Requests)
        BY <1>c
      <4>5. UNCHANGED <<received, needed, cache>> /\ tpc' = "needed"
        BY <3>5 DEF ReceiveChanged
      <4>6. sent' \in Nat /\ sent' >= sent /\ received' \in 0 .. sent'
        BY <4>3, <4>5
      <4>7. requests' \in Seq(Requests)
        BY <4>3, <4>4
      <4> QED BY <4>5, <4>6, <4>7
    <3>6. CASE ReceiveClosed(Head(events)) BY <2>1, <3>6 DEF ReceiveClosed
    <3> QED BY <1>6, <3>1, <3>2, <3>3, <3>4, <3>5, <3>6 DEF ProcessInput
  <2>4. seen' \in [Clients -> BOOLEAN]
    BY <1>6, <2>1, <1>e, EventTypes DEF ProcessInput, ReceiveDeleted, ReceiveCreated,
       ReceiveRenamed, ReceiveDefinition, ReceiveChanged, ReceiveClosed
  <2> QED BY <2>1, <2>2, <2>3, <2>4
<1>7. CASE RequestNeeded
  <2>1. \/ UNCHANGED <<requests, sent>>
        \/ sent' = sent + 1 /\ requests' \in {requests, Append(requests, Request(sent + 1, Only(needed)))}
    BY <1>7 DEF RequestNeeded, Send
  <2>2. sent' \in Nat /\ sent' >= sent /\ requests' \in Seq(Requests)
    <3>1. Append(requests, Request(sent + 1, Only(needed))) \in Seq(Requests)
      BY <1>c, <1>d
    <3>2. requests' \in Seq(Requests)
      BY <2>1, <3>1
    <3> QED BY <2>1, <3>2
  <2> QED BY <1>7, <2>2 DEF RequestNeeded
<1>8. CASE Owner \/ BeginStop
  <2>1. CASE CreateThread BY <2>1 DEF CreateThread
  <2>2. CASE AssignThread BY <2>2 DEF AssignThread
  <2>3. CASE Started      BY <2>3 DEF Started
  <2>4. CASE EndStop      BY <2>4 DEF EndStop
  <2>5. CASE BeginStop    BY <2>5, <1>e DEF BeginStop
  <2> QED BY <1>8, <2>1, <2>2, <2>3, <2>4, <2>5 DEF Owner
<1>9. CASE VerifyConnection
  BY <1>9, <1>c, <1>d, BoundsAssumption DEF VerifyConnection, Dummy, Send
<1>10. ASSUME NEW c \in Clients, CallStep(c) PROVE TypeOK'
  <2>1. CASE Ask(c)
    <3>1. \E what \in [all : BOOLEAN, keys : SUBSET Keys] :
              \/ UNCHANGED <<requests, sent, requestId>>
              \/ /\ sent' = sent + 1
                 /\ requests' \in {requests, Append(requests, Request(sent + 1, what))}
                 /\ requestId' = [requestId EXCEPT ![c] = sent + 1]
      <4>1. All \in [all : BOOLEAN, keys : SUBSET Keys]
            /\ Only({key[c]}) \in [all : BOOLEAN, keys : SUBSET Keys]
        <5>1. key[c] \in Keys
          OBVIOUS
        <5> QED BY <5>1, <1>d
      <4> QED BY <2>1, <4>1 DEF Ask, Send
    <3>2. sent' \in Nat /\ sent' \in sent .. sent + 1
      BY <3>1
    <3>3. requests' \in Seq(Requests)
      BY <3>1, <1>c
    <3>4. requestId' \in [Clients -> 0 .. sent']
      <4>1. CASE requestId' = requestId
        BY <3>2, <4>1
      <4>2. CASE sent' = sent + 1 /\ requestId' = [requestId EXCEPT ![c] = sent + 1]
        BY <3>2, <4>2
      <4> QED BY <3>1, <4>1, <4>2
    <3>5. pc' \in [Clients -> {"idle", "list", "ask_all", "wait_all", "ask_one", "wait_one",
                              "read", "remove"}]
      BY <2>1 DEF Ask, Goto
    <3> QED BY <2>1, <3>2, <3>3, <3>4, <3>5 DEF Ask
  <2>2. CASE EndWait(c) BY <2>2 DEF EndWait, Goto
  <2>3. CASE Read(c)    BY <2>3 DEF Read, Goto
  <2>4. CASE Remove(c)  BY <2>4 DEF Remove, Goto, Unseen
  <2> QED BY <1>10, <2>1, <2>2, <2>3, <2>4 DEF CallStep
<1>11. ASSUME NEW c \in Clients, NEW k \in Keys,
              GetStream(c, k) \/ ListStreams(c, k) \/ CreateStream(c, k) \/ DeleteStream(c, k)
       PROVE  TypeOK'
  <2> USE BoundsAssumption DEF BeginCall, LookUp, SeesFrom, Goto
  <2>1. CASE GetStream(c, k)    BY <2>1 DEF GetStream
  <2>2. CASE ListStreams(c, k)  BY <2>2 DEF ListStreams
  <2>3. CASE CreateStream(c, k) BY <2>3, <1>a, <1>b DEF CreateStream
  <2>4. CASE DeleteStream(c, k) BY <2>4, <1>a, <1>b DEF DeleteStream, Unseen
  <2> QED BY <1>11, <2>1, <2>2, <2>3, <2>4
<1>12. CASE UNCHANGED vars
  BY <1>12 DEF vars
<1> QED BY <1>1, <1>2, <1>3, <1>4, <1>5, <1>6, <1>7, <1>8, <1>9, <1>10, <1>11, <1>12
        DEF Next, Session

-----------------------------------------------------------------------------
(* Steps preserve the parts of the invariant one after the other.          *)

\* no step starts the thread twice, or leaves it running behind a stop
LEMMA ThreadStep ==
  ASSUME TypeOK, ThreadInv, [Next]_vars
  PROVE  ThreadInv'
<1> USE DEF TypeOK, ThreadInv, serverVars, threadVars, countVars, ownerVars, callVars
<1>1. CASE Session
  <2>1. CASE BeginThread        BY <2>1 DEF BeginThread
  <2>2. CASE ProcessInput
    <3>1. tpc' \in {"needed", "close"}
      BY <2>2 DEF ProcessInput, ReceiveDeleted, ReceiveCreated, ReceiveRenamed, ReceiveDefinition,
                  ReceiveChanged, ReceiveClosed
    <3> QED BY <2>2, <3>1 DEF ProcessInput
  <2>3. CASE LeaveLoop          BY <2>3 DEF LeaveLoop
  <2>4. CASE CutAnswer          BY <2>4 DEF CutAnswer
  <2>5. CASE RequestNeeded      BY <2>5 DEF RequestNeeded
  <2>6. CASE DeleteStreamObject BY <2>6 DEF DeleteStreamObject
  <2>7. CASE CleanUp            BY <2>7 DEF CleanUp
  <2>8. CASE Stopped            BY <2>8 DEF Stopped
  <2>9. CASE BeginEvent         BY <2>9 DEF BeginEvent
  <2> QED BY <1>1, <2>1, <2>2, <2>3, <2>4, <2>5, <2>6, <2>7, <2>8, <2>9 DEF Session
<1>2. CASE Owner
  <2>1. CASE CreateThread BY <2>1 DEF CreateThread
  <2>2. CASE AssignThread BY <2>2 DEF AssignThread
  <2>3. CASE Started      BY <2>3 DEF Started
  <2>4. CASE EndStop      BY <2>4 DEF EndStop
  <2> QED BY <1>2, <2>1, <2>2, <2>3, <2>4 DEF Owner
<1>3. CASE BeginStop
  BY <1>3 DEF BeginStop
<1>4. CASE UNCHANGED <<threadVars, ownerVars>>
  BY <1>4
<1>5. ASSUME Serve \/ Change \/ EndSession \/ Break \/ VerifyConnection
             \/ (\E c \in Clients : CallStep(c)) \/ UNCHANGED vars
      PROVE  UNCHANGED <<threadVars, ownerVars>>
  BY <1>5 DEF Serve, Change, EndSession, Break, VerifyConnection, CallStep, Ask, EndWait, Read,
              Remove, vars
<1>6. ASSUME NEW c \in Clients, NEW k \in Keys,
             GetStream(c, k) \/ ListStreams(c, k) \/ CreateStream(c, k) \/ DeleteStream(c, k)
      PROVE  UNCHANGED <<threadVars, ownerVars>>
  BY <1>6 DEF GetStream, ListStreams, CreateStream, DeleteStream
<1> QED BY <1>1, <1>2, <1>3, <1>4, <1>5, <1>6 DEF Next

\* what a step may do to the connection and to the counts of requests
Announces == \E e \in Events :
    e.tag # "definition" /\ Announce(e) /\ UNCHANGED <<requests, link, ioStream, sent, received>>
Sends == \E what \in [all : BOOLEAN, keys : SUBSET Keys] :
    Send(what) /\ UNCHANGED <<events, link, ioStream, received>>
Receives ==
    /\ events # <<>> /\ events' = Tail(events) /\ UNCHANGED <<link, ioStream>>
    /\ \/ /\ Head(events).tag = "definition" /\ received' = received + 1
          /\ UNCHANGED <<requests, sent>>
       \/ /\ Head(events).tag # "definition" /\ received' = received
          /\ \/ UNCHANGED <<requests, sent>>
             \/ \E what \in [all : BOOLEAN, keys : SUBSET Keys] : Send(what)
Breaks ==
    /\ link' = FALSE /\ requests' = <<>> /\ events' = <<>>
    /\ UNCHANGED <<sent, received>>
CutsOff ==
    ~link /\ received < sent /\ received' = received + 1
    /\ UNCHANGED <<requests, events, link, ioStream, sent>>
Closes == ~link /\ UNCHANGED <<requests, events, link, sent, received>>

\* every step is one of these
LEMMA ConnectionStep ==
  ASSUME TypeOK, LinkInv, [Next]_vars
  PROVE  \/ Serve \/ Announces \/ Sends \/ Receives \/ Breaks \/ CutsOff \/ Closes
         \/ UNCHANGED <<requests, events, link, ioStream, sent, received>>
<1> DEFINE Goal ==
         \/ Serve \/ Announces \/ Sends \/ Receives \/ Breaks \/ CutsOff \/ Closes
         \/ UNCHANGED <<requests, events, link, ioStream, sent, received>>
<1> USE DEF serverVars, threadVars, countVars, ownerVars, callVars
<1>a. /\ All \in [all : BOOLEAN, keys : SUBSET Keys]
      /\ \A ks \in SUBSET Keys : Only(ks) \in [all : BOOLEAN, keys : SUBSET Keys]
  BY DEF All, Only
<1>1. CASE Serve
  BY <1>1
<1>2. CASE Change
  <2>1. PICK e \in Events : e.tag # "definition" /\ Announce(e)
    <3>1. \A k \in Keys, t \in {"created", "deleted", "property_changed", "changed"} :
             Event(t, k) \in Events /\ Event(t, k).tag # "definition"
      BY EventTypes DEF Event
    <3>2. \A k, m \in Keys :
             [tag |-> "renamed", key |-> k, newKey |-> m] \in Events
      BY EventTypes
    <3> QED BY <1>2, <3>1, <3>2 DEF Change
  <2> QED BY <1>2, <2>1 DEF Change, Announces
<1>3. CASE EndSession
  <2>1. PICK e \in Events : e.tag # "definition" /\ events' = Append(events, e)
    BY <1>3, EventTypes DEF EndSession, Event
  <2>2. Announce(e)
    BY <1>3, <2>1 DEF EndSession, Announce
  <2> QED BY <1>3, <2>1, <2>2 DEF EndSession, Announces
<1>4. CASE Break \/ DeleteStreamObject
  BY <1>4 DEF Break, DeleteStreamObject, Breaks
<1>5. CASE ProcessInput
  <2>1. events # <<>> /\ events' = Tail(events) /\ UNCHANGED <<link, ioStream>>
    BY <1>5 DEF ProcessInput
  <2>2. Head(events) \in Events
    BY <2>1, Front DEF TypeOK
  <2>3. CASE ReceiveChanged(Head(events))
    <3>1. Head(events).key \in Keys
      BY <2>2, <2>3, EventTypes DEF ReceiveChanged
    <3>2. PICK what \in [all : BOOLEAN, keys : SUBSET Keys] : Send(what)
      <4>1. CASE Head(events).tag = "changed"
        BY <2>3, <4>1, <1>a DEF ReceiveChanged, Send
      <4>2. CASE Head(events).tag # "changed"
        BY <2>3, <4>2, <3>1, <1>a DEF ReceiveChanged, Send
      <4> QED BY <4>1, <4>2
    <3> QED BY <2>1, <2>3, <3>2 DEF ReceiveChanged, Receives
  <2>4. CASE ReceiveDefinition(Head(events))
    BY <2>1, <2>4 DEF ReceiveDefinition, Receives
  <2> QED BY <1>5, <2>1, <2>3, <2>4
        DEF ProcessInput, ReceiveDeleted, ReceiveCreated, ReceiveRenamed, ReceiveClosed, Receives
<1>6. CASE RequestNeeded
  <2>1. CASE needed = {}
    BY <1>6, <2>1 DEF RequestNeeded
  <2>2. CASE needed # {}
    <3>1. needed \in SUBSET Keys
      BY DEF TypeOK
    <3>2. Only(needed) \in [all : BOOLEAN, keys : SUBSET Keys]
      BY <3>1, <1>a
    <3> QED BY <1>6, <2>2, <3>2 DEF RequestNeeded, Sends, Send
  <2> QED BY <2>1, <2>2
<1>7. CASE CutAnswer
  BY <1>7 DEF CutAnswer, CutsOff
<1>8. CASE CleanUp
  BY <1>8 DEF CleanUp, Closes, LinkInv
<1>9. CASE BeginThread \/ BeginEvent \/ LeaveLoop \/ Stopped \/ Owner \/ BeginStop \/ UNCHANGED vars
  BY <1>9 DEF BeginThread, BeginEvent, LeaveLoop, Stopped, Owner, CreateThread, AssignThread, Started, EndStop,
              BeginStop, vars
<1>10. CASE VerifyConnection
  BY <1>10, <1>a DEF VerifyConnection, Dummy, Sends, Send
<1>11. ASSUME NEW c \in Clients, CallStep(c) PROVE Goal
  <2>1. CASE Ask(c)
    <3>1. key[c] \in Keys
      BY <1>11 DEF TypeOK
    <3>2. {key[c]} \in SUBSET Keys
      BY <3>1
    <3>3. Only({key[c]}) \in [all : BOOLEAN, keys : SUBSET Keys]
      BY <3>2, <1>a
    <3> QED BY <2>1, <3>3, <1>a DEF Ask, Sends, Send
  <2> QED BY <1>11, <2>1 DEF CallStep, EndWait, Read, Remove
<1>12. ASSUME NEW c \in Clients, NEW k \in Keys,
              GetStream(c, k) \/ ListStreams(c, k) \/ CreateStream(c, k) \/ DeleteStream(c, k)
       PROVE  Goal
  <2>1. /\ Event("created", k) \in Events /\ Event("created", k).tag = "created"
        /\ Event("deleted", k) \in Events /\ Event("deleted", k).tag = "deleted"
    BY EventTypes DEF Event
  <2> QED BY <1>12, <2>1 DEF GetStream, ListStreams, CreateStream, DeleteStream, Announces
<1> QED BY <1>1, <1>2, <1>3, <1>4, <1>5, <1>6, <1>7, <1>8, <1>9, <1>10, <1>11, <1>12
        DEF Next, Session

\* a connection that broke stays broken, and has nothing on it
LEMMA LinkStep ==
  ASSUME TypeOK, LinkInv, [Next]_vars
  PROVE  LinkInv' /\ (link' => link)
<1> USE DEF LinkInv
<1>1. CASE Serve    BY <1>1 DEF Serve
<1>2. CASE Announces BY <1>2 DEF Announces, Announce
<1>3. CASE Sends    BY <1>3 DEF Sends, Send
<1>4. CASE Receives BY <1>4 DEF Receives
<1>5. CASE Breaks   BY <1>5 DEF Breaks
<1>6. CASE CutsOff \/ Closes BY <1>6 DEF CutsOff, Closes
<1>7. CASE UNCHANGED <<requests, events, link, ioStream>> BY <1>7
<1> QED BY <1>1, <1>2, <1>3, <1>4, <1>5, <1>6, <1>7, ConnectionStep

\* a request takes the number after the last one
LEMMA NextNumber ==
  ASSUME TypeOK, LinkInv, link, Numbered(requests, sent - Len(requests)), NEW what, Send(what)
  PROVE  /\ sent' - Len(requests') = sent - Len(requests)
         /\ Numbered(requests', sent - Len(requests))
<1>1. /\ sent' = sent + 1 /\ requests' = Append(requests, Request(sent + 1, what))
      /\ Request(sent + 1, what).id = sent + 1
  BY DEF Send, LinkInv, Request
<1>2. /\ Len(requests) \in Nat /\ DOMAIN requests = 1 .. Len(requests) /\ sent \in Nat
      /\ Len(requests') = Len(requests) + 1 /\ DOMAIN requests' = 1 .. Len(requests) + 1
      /\ requests'[Len(requests) + 1] = Request(sent + 1, what)
      /\ \A i \in 1 .. Len(requests) : requests'[i] = requests[i]
  BY <1>1 DEF TypeOK
<1> QED BY <1>1, <1>2 DEF Numbered

\* no step loses an answer or takes it out of its turn
LEMMA AnswersStep ==
  ASSUME TypeOK, LinkInv, AnswersFollowRequests, [Next]_vars
  PROVE  AnswersFollowRequests'
<1> DEFINE served == sent - Len(requests)
<1> SUFFICES ASSUME link'
             PROVE  InOrder(events', received', served') /\ Numbered(requests', served')
  <2>1. TypeOK'
    BY TypeStep
  <2>2. AnswersFollowRequests' <=>
            (link' => InOrder(events', received', served') /\ Numbered(requests', served'))
    <3>1. /\ events' \in Seq(Events) /\ requests' \in Seq(Requests) /\ sent' \in Nat
          /\ received' \in Nat
      BY <2>1 DEF TypeOK
    <3> QED BY <3>1, OrderOfNumbers DEF AnswersFollowRequests
  <2> QED BY <2>2
<1>a. /\ InOrder(events, received, served) /\ Numbered(requests, served)
      /\ link /\ ioStream = "open"
  BY NumbersInOrder, LinkStep DEF LinkInv
<1>b. /\ events \in Seq(Events) /\ received \in Nat /\ served \in Int /\ sent \in Nat
      /\ requests \in Seq(Requests)
  BY DEF TypeOK
<1> HIDE DEF served
<1>1. CASE Serve
  <2>1. /\ requests # <<>> /\ requests' = Tail(requests)
        /\ UNCHANGED <<sent, received>>
        /\ \E ks \in SUBSET Keys : events' = Append(events, Definition(Head(requests).id, ks))
    BY <1>1 DEF Serve, TypeOK, countVars
  <2>2. /\ Len(requests) \in Nat \ {0} /\ DOMAIN requests = 1 .. Len(requests)
        /\ Head(requests) = requests[1] /\ Len(requests') = Len(requests) - 1
        /\ DOMAIN requests' = 1 .. Len(requests) - 1
        /\ \A i \in 1 .. Len(requests) - 1 : requests'[i] = requests[i + 1]
    BY <1>b, <2>1, Front
  <2>3. Head(requests).id = served + 1 /\ served' = served + 1
    <3>1. requests[1].id = served + 1
      BY <1>a, <2>2 DEF Numbered
    <3>2. served' = sent - Len(requests')
      BY <2>1 DEF served
    <3> QED BY <1>b, <2>2, <3>1, <3>2 DEF served
  <2>4. InOrder(events', received, served + 1)
    BY <1>a, <1>b, <2>1, <2>3, AnAnswer
  <2>5. Numbered(requests', served + 1)
    <3> SUFFICES ASSUME NEW i \in DOMAIN requests' PROVE requests'[i].id = served + 1 + i
      BY DEF Numbered
    <3>1. i + 1 \in DOMAIN requests /\ requests'[i] = requests[i + 1] /\ i \in Nat
      BY <2>2
    <3> QED BY <1>a, <1>b, <3>1 DEF Numbered
  <2> QED BY <2>1, <2>3, <2>4, <2>5
<1>2. CASE Announces
  <2>1. PICK e \in Events : e.tag # "definition" /\ events' = Append(events, e)
    BY <1>2, <1>a DEF Announces, Announce
  <2>2. InOrder(events', received, served)
    BY <1>a, <1>b, <2>1, AnotherEvent
  <2> QED BY <1>2, <1>a, <2>2 DEF Announces, served
<1>3. CASE Sends
  <2>1. served' = served /\ Numbered(requests', served)
    BY <1>3, <1>a, NextNumber DEF Sends, served
  <2> QED BY <1>3, <1>a, <2>1 DEF Sends
<1>4. CASE Receives
  <2>1. IF Head(events).tag = "definition"
        THEN InOrder(events', received + 1, served)
        ELSE InOrder(events', received, served)
    BY <1>4, <1>a, <1>b, FirstEvent DEF Receives
  <2>2. served' = served /\ Numbered(requests', served)
    <3>1. CASE UNCHANGED <<requests, sent>>
      BY <3>1, <1>a DEF served
    <3>2. ASSUME NEW what, Send(what) PROVE served' = served /\ Numbered(requests', served)
      BY <3>2, <1>a, NextNumber DEF served
    <3> QED BY <1>4, <3>1, <3>2 DEF Receives
  <2> QED BY <1>4, <2>1, <2>2 DEF Receives
<1>5. CASE UNCHANGED <<requests, events, sent, received>>
  BY <1>5, <1>a DEF served
<1> QED BY <1>1, <1>2, <1>3, <1>4, <1>5, <1>a, ConnectionStep DEF Breaks, CutsOff, Closes

-----------------------------------------------------------------------------
(* Streams that the server does not have.                                  *)

\* an event that is sent does not save what is to be removed, unless it brings it
\* back
LEMMA DoomedStays ==
  ASSUME NEW evs \in Seq(Events), NEW e \in Events, NEW k
  PROVE  /\ Out(evs, k) => Out(Append(evs, e), k)
         /\ Doomed(evs, k) /\ (e.tag = "definition" => k \notin e.keys) => Doomed(Append(evs, e), k)
         /\ Removes(e, k) => Out(Append(evs, e), k) /\ Doomed(Append(evs, e), k)
         /\ ~Removes(e, k) /\ ~Out(evs, k) => ~Out(Append(evs, e), k)
<1> DEFINE new == Append(evs, e)
<1>1. /\ Len(evs) \in Nat /\ DOMAIN evs = 1 .. Len(evs) /\ DOMAIN new = 1 .. Len(evs) + 1
      /\ new[Len(evs) + 1] = e /\ \A i \in 1 .. Len(evs) : new[i] = evs[i]
  OBVIOUS
<1>2. Len(evs) + 1 \in DOMAIN new /\ \A i \in DOMAIN evs : i \in DOMAIN new /\ i < Len(evs) + 1
  BY <1>1
<1>3. \A i \in DOMAIN new : i \in DOMAIN evs \/ i = Len(evs) + 1
  BY <1>1
<1> HIDE DEF new
<1>4. (Out(evs, k) => Out(new, k)) /\ (~Removes(e, k) /\ ~Out(evs, k) => ~Out(new, k))
  BY <1>1, <1>2, <1>3 DEF Out
<1>5. ASSUME Doomed(evs, k), e.tag = "definition" => k \notin e.keys PROVE Doomed(new, k)
  <2> SUFFICES ASSUME NEW i \in DOMAIN new, new[i].tag = "definition", k \in new[i].keys
               PROVE  \E j \in DOMAIN new : j > i /\ Removes(new[j], k)
    BY DEF Doomed
  <2>1. i \in DOMAIN evs /\ new[i] = evs[i]
    BY <1>1, <1>3, <1>5
  <2>2. PICK j \in DOMAIN evs : j > i /\ Removes(evs[j], k)
    BY <1>5, <2>1 DEF Doomed
  <2> QED BY <1>1, <1>2, <2>2
<1>6. ASSUME Removes(e, k) PROVE Out(new, k) /\ Doomed(new, k)
  BY <1>1, <1>2, <1>3, <1>6 DEF Out, Doomed, Removes
<1> QED BY <1>4, <1>5, <1>6 DEF new

\* nor does an event that is received
LEMMA DoomedGoesOn ==
  ASSUME NEW evs \in Seq(Events), NEW k, evs # <<>>
  PROVE  /\ Doomed(evs, k) => Doomed(Tail(evs), k)
         /\ Doomed(evs, k) /\ Head(evs).tag = "definition" /\ k \in Head(evs).keys =>
                Out(Tail(evs), k)
         /\ Out(evs, k) => Removes(Head(evs), k) \/ Out(Tail(evs), k)
         /\ ~Out(evs, k) => ~Removes(Head(evs), k) /\ ~Out(Tail(evs), k)
<1> DEFINE rest == Tail(evs)
<1>1. /\ Len(evs) \in Nat \ {0} /\ DOMAIN evs = 1 .. Len(evs) /\ Head(evs) = evs[1]
      /\ DOMAIN rest = 1 .. Len(evs) - 1
  BY Front
<1>2. \A i \in DOMAIN rest : i + 1 \in DOMAIN evs /\ rest[i] = evs[i + 1]
  BY <1>1, Front
<1>3. \A i \in DOMAIN evs : i > 1 => i - 1 \in DOMAIN rest /\ rest[i - 1] = evs[i]
  BY <1>1, Front
<1> HIDE DEF rest
<1>4. ASSUME Doomed(evs, k) PROVE Doomed(rest, k)
  <2> SUFFICES ASSUME NEW i \in DOMAIN rest, rest[i].tag = "definition", k \in rest[i].keys
               PROVE  \E j \in DOMAIN rest : j > i /\ Removes(rest[j], k)
    BY DEF Doomed
  <2>1. PICK j \in DOMAIN evs : j > i + 1 /\ Removes(evs[j], k)
    BY <1>2, <1>4 DEF Doomed
  <2>2. j - 1 \in DOMAIN rest /\ rest[j - 1] = evs[j] /\ j - 1 > i
    BY <1>1, <1>3, <2>1
  <2> QED BY <2>1, <2>2
<1>5. ASSUME Doomed(evs, k), Head(evs).tag = "definition", k \in Head(evs).keys
      PROVE  Out(rest, k)
  <2>1. PICK j \in DOMAIN evs : j > 1 /\ Removes(evs[j], k)
    BY <1>1, <1>5 DEF Doomed
  <2> QED BY <1>3, <2>1 DEF Out
<1>6. ASSUME Out(evs, k) PROVE Removes(Head(evs), k) \/ Out(rest, k)
  <2>1. PICK j \in DOMAIN evs : Removes(evs[j], k)
    BY <1>6 DEF Out
  <2> QED BY <1>1, <1>3, <2>1 DEF Out
<1>7. ASSUME ~Out(evs, k) PROVE ~Removes(Head(evs), k) /\ ~Out(rest, k)
  BY <1>1, <1>2, <1>7 DEF Out
<1> QED BY <1>4, <1>5, <1>6, <1>7 DEF rest

\* no step leaves in the cache, for good, what the server does not have
LEMMA GhostStep ==
  ASSUME TypeOK, LinkInv, GhostInv, [Next]_vars
  PROVE  GhostInv'
<1> SUFFICES ASSUME link', NEW k \in Keys \ streams'
             PROVE  (k \in cache' => Out(events', k)) /\ Doomed(events', k)
  BY DEF GhostInv
<1>a. link /\ events \in Seq(Events)
  BY LinkStep DEF TypeOK
<1>b. k \notin streams => (k \in cache => Out(events, k)) /\ Doomed(events, k)
  BY <1>a DEF GhostInv
<1> USE DEF serverVars, threadVars, countVars, ownerVars, callVars
<1>c. ASSUME NEW e \in Events, e.tag # "definition", Announce(e), UNCHANGED cache,
             k \in streams => Removes(e, k)
      PROVE  (k \in cache' => Out(events', k)) /\ Doomed(events', k)
  <2>1. events' = Append(events, e)
    BY <1>a, <1>c DEF Announce
  <2> QED BY <1>a, <1>b, <1>c, <2>1, DoomedStays
<1>d. ASSUME UNCHANGED <<streams, events>>, cache' \subseteq cache
      PROVE  (k \in cache' => Out(events', k)) /\ Doomed(events', k)
  BY <1>b, <1>d
<1>e. \A n \in Keys, t \in {"created", "deleted", "property_changed", "changed", "closed"} :
          /\ Event(t, n) \in Events /\ Event(t, n).tag = t /\ Event(t, n).key = n
  BY EventTypes DEF Event
<1>1. CASE Serve
  <2>1. PICK ks \in SUBSET streams :
            events' = Append(events, Definition(Head(requests).id, ks))
    BY <1>1 DEF Serve
  <2>2. Definition(Head(requests).id, ks) \in Events
    <3>1. Head(requests) \in Requests
      BY <1>1, Front DEF Serve, TypeOK
    <3> QED BY <2>1, <3>1, EventTypes DEF Requests, TypeOK
  <2>3. Definition(Head(requests).id, ks).keys = ks /\ k \notin ks
    BY <1>1, <2>1 DEF Definition, Serve
  <2> QED BY <1>a, <1>b, <1>1, <2>1, <2>2, <2>3, DoomedStays DEF Serve
<1>2. CASE Change
  <2>0. UNCHANGED cache
    BY <1>2 DEF Change
  <2>1. ASSUME NEW n \in Keys, streams' = streams \cup {n}, Announce(Event("created", n))
        PROVE  (k \in cache' => Out(events', k)) /\ Doomed(events', k)
    BY <1>c, <1>e, <2>0, <2>1
  <2>2. ASSUME NEW n \in Keys, streams' = streams \ {n}, Announce(Event("deleted", n))
        PROVE  (k \in cache' => Out(events', k)) /\ Doomed(events', k)
    BY <1>c, <1>e, <2>0, <2>2 DEF Removes
  <2>3. ASSUME NEW n \in Keys, NEW m \in Keys, streams' = (streams \ {n}) \cup {m},
               Announce([tag |-> "renamed", key |-> n, newKey |-> m])
        PROVE  (k \in cache' => Out(events', k)) /\ Doomed(events', k)
    BY <1>c, <2>0, <2>3, EventTypes DEF Removes
  <2>4. ASSUME NEW n \in Keys, NEW t \in {"property_changed", "changed"}, Announce(Event(t, n)),
               UNCHANGED streams
        PROVE  (k \in cache' => Out(events', k)) /\ Doomed(events', k)
    BY <1>c, <1>e, <2>0, <2>4
  <2> QED BY <1>2, <2>1, <2>2, <2>3, <2>4 DEF Change
<1>3. CASE EndSession
  <2>1. PICK n \in Keys : Announce(Event("closed", n))
    BY <1>3 DEF EndSession, Announce
  <2> QED BY <1>3, <1>c, <1>e, <2>1 DEF EndSession
<1>4. CASE Break \/ DeleteStreamObject
  BY <1>4 DEF Break, DeleteStreamObject
<1>5. CASE ProcessInput
  <2>1. events # <<>> /\ events' = Tail(events) /\ streams' = streams
    BY <1>5 DEF ProcessInput
  <2>2. /\ Doomed(events', k) /\ (k \in cache => Removes(Head(events), k) \/ Out(events', k))
        /\ Head(events).tag = "definition" /\ k \in Head(events).keys => Out(events', k)
    BY <1>a, <1>b, <2>1, DoomedGoesOn
  <2>3. k \in cache' => Out(events', k)
    <3>1. CASE ReceiveDeleted(Head(events)) BY <2>2, <3>1 DEF ReceiveDeleted, Removes
    <3>2. CASE ReceiveCreated(Head(events)) BY <2>2, <3>2 DEF ReceiveCreated, Removes
    <3>3. CASE ReceiveRenamed(Head(events)) BY <2>2, <3>3 DEF ReceiveRenamed, Removes
    <3>4. CASE ReceiveDefinition(Head(events)) BY <2>2, <3>4 DEF ReceiveDefinition, Removes
    <3>5. CASE ReceiveChanged(Head(events)) BY <2>2, <3>5 DEF ReceiveChanged, Removes
    <3>6. CASE ReceiveClosed(Head(events)) BY <2>2, <3>6 DEF ReceiveClosed, Removes
    <3> QED BY <1>5, <3>1, <3>2, <3>3, <3>4, <3>5, <3>6 DEF ProcessInput
  <2> QED BY <2>2, <2>3
<1>6. CASE RequestNeeded \/ CutAnswer \/ CleanUp \/ BeginThread \/ BeginEvent \/ LeaveLoop \/ Stopped
  BY <1>6, <1>d DEF RequestNeeded, CutAnswer, CleanUp, BeginThread, BeginEvent, LeaveLoop, Stopped
<1>7. CASE Owner \/ BeginStop \/ VerifyConnection \/ UNCHANGED vars
  BY <1>7, <1>d DEF Owner, CreateThread, AssignThread, Started, EndStop, BeginStop,
                    VerifyConnection, vars
<1>8. ASSUME NEW c \in Clients, CallStep(c)
      PROVE  (k \in cache' => Out(events', k)) /\ Doomed(events', k)
  BY <1>8, <1>d DEF CallStep, Ask, EndWait, Read, Remove
<1>9. ASSUME NEW c \in Clients, NEW n \in Keys,
             GetStream(c, n) \/ ListStreams(c, n) \/ CreateStream(c, n) \/ DeleteStream(c, n)
      PROVE  (k \in cache' => Out(events', k)) /\ Doomed(events', k)
  <2>1. CASE GetStream(c, n) \/ ListStreams(c, n)
    BY <2>1, <1>d DEF GetStream, ListStreams
  <2>2. CASE CreateStream(c, n)
    BY <2>2, <1>c, <1>e DEF CreateStream
  <2>3. CASE DeleteStream(c, n)
    BY <2>3, <1>c, <1>e DEF DeleteStream, Removes
  <2> QED BY <1>9, <2>1, <2>2, <2>3
<1> QED BY <1>1, <1>2, <1>3, <1>4, <1>5, <1>6, <1>7, <1>8, <1>9 DEF Next, Session

-----------------------------------------------------------------------------
(* Streams that a call looks for.                                          *)

\* an answer that brings a stream in still does with another event behind it
LEMMA BringsInStays ==
  ASSUME NEW evs \in Seq(Events), NEW e \in Events, NEW k, NEW id, BringsIn(evs, id, k),
         ~Removes(e, k), e.tag = "definition" /\ e.id = id => k \in e.keys
  PROVE  BringsIn(Append(evs, e), id, k)
<1> DEFINE new == Append(evs, e)
<1>1. /\ Len(evs) \in Nat /\ DOMAIN evs = 1 .. Len(evs) /\ DOMAIN new = 1 .. Len(evs) + 1
      /\ new[Len(evs) + 1] = e /\ \A i \in DOMAIN evs : new[i] = evs[i]
  OBVIOUS
<1>2. \A i \in DOMAIN new : i \in DOMAIN evs \/ i = Len(evs) + 1
  BY <1>1
<1>3. \A i \in DOMAIN evs : ~(i > Len(evs) + 1)
  BY <1>1
<1> HIDE DEF new
<1>4. BringsIn(new, id, k)
  <2> SUFFICES ASSUME NEW i \in DOMAIN new, new[i].tag = "definition", new[i].id = id
               PROVE  /\ k \in new[i].keys
                      /\ \A j \in DOMAIN new : j > i => ~Removes(new[j], k)
    BY DEF BringsIn
  <2>1. CASE i \in DOMAIN evs
    <3>1. new[i] = evs[i]
      BY <1>1, <2>1
    <3>2. k \in evs[i].keys /\ \A j \in DOMAIN evs : j > i => ~Removes(evs[j], k)
      BY <2>1, <3>1 DEF BringsIn
    <3> QED BY <1>1, <1>2, <3>1, <3>2
  <2>2. CASE i = Len(evs) + 1
    BY <1>1, <1>2, <1>3, <2>2
  <2> QED BY <1>2, <2>1, <2>2
<1> QED BY <1>4 DEF new

\* and with the first event gone; if that is the answer, it has the stream
LEMMA BringsInGoesOn ==
  ASSUME NEW evs \in Seq(Events), NEW k, NEW id, BringsIn(evs, id, k), evs # <<>>
  PROVE  /\ BringsIn(Tail(evs), id, k)
         /\ Head(evs).tag = "definition" /\ Head(evs).id = id =>
                k \in Head(evs).keys /\ ~Out(Tail(evs), k)
<1> DEFINE rest == Tail(evs)
<1>1. /\ Len(evs) \in Nat \ {0} /\ DOMAIN evs = 1 .. Len(evs) /\ Head(evs) = evs[1]
      /\ DOMAIN rest = 1 .. Len(evs) - 1
  BY Front
<1>2. \A i \in DOMAIN rest : i + 1 \in DOMAIN evs /\ rest[i] = evs[i + 1] /\ i \in Nat /\ i + 1 > 1
  BY <1>1, Front
<1> HIDE DEF rest
<1>3. BringsIn(rest, id, k)
  <2> SUFFICES ASSUME NEW i \in DOMAIN rest, rest[i].tag = "definition", rest[i].id = id
               PROVE  /\ k \in rest[i].keys
                      /\ \A j \in DOMAIN rest : j > i => ~Removes(rest[j], k)
    BY DEF BringsIn
  <2>1. k \in evs[i + 1].keys /\ \A j \in DOMAIN evs : j > i + 1 => ~Removes(evs[j], k)
    BY <1>2 DEF BringsIn
  <2> QED BY <1>2, <2>1
<1>4. ASSUME Head(evs).tag = "definition", Head(evs).id = id
      PROVE  k \in Head(evs).keys /\ ~Out(rest, k)
  <2>1. k \in evs[1].keys /\ \A j \in DOMAIN evs : j > 1 => ~Removes(evs[j], k)
    BY <1>1, <1>4 DEF BringsIn
  <2> QED BY <1>1, <1>2, <2>1 DEF Out
<1> QED BY <1>3, <1>4 DEF rest

\* a request for a stream is still one with another behind it
LEMMA AsksForStays ==
  ASSUME NEW reqs \in Seq(Requests), NEW k, NEW id, AsksFor(reqs, id, k),
         NEW r \in Requests, r.id = id => r.what.all \/ k \in r.what.keys
  PROVE  AsksFor(Append(reqs, r), id, k)
<1> DEFINE new == Append(reqs, r)
<1>1. /\ Len(reqs) \in Nat /\ DOMAIN reqs = 1 .. Len(reqs) /\ DOMAIN new = 1 .. Len(reqs) + 1
      /\ new[Len(reqs) + 1] = r /\ \A i \in DOMAIN reqs : new[i] = reqs[i]
  OBVIOUS
<1> HIDE DEF new
<1>2. AsksFor(new, id, k)
  BY <1>1 DEF AsksFor
<1> QED BY <1>2 DEF new

\* and with the first one gone; if that is the request, it names the stream
LEMMA AsksForGoesOn ==
  ASSUME NEW reqs \in Seq(Requests), NEW k, NEW id, AsksFor(reqs, id, k), reqs # <<>>
  PROVE  /\ AsksFor(Tail(reqs), id, k)
         /\ Head(reqs).id = id => Head(reqs).what.all \/ k \in Head(reqs).what.keys
<1> DEFINE rest == Tail(reqs)
<1>1. /\ Head(reqs) = reqs[1] /\ 1 \in DOMAIN reqs
      /\ \A i \in DOMAIN rest : i + 1 \in DOMAIN reqs /\ rest[i] = reqs[i + 1]
  BY Front
<1> HIDE DEF rest
<1>2. AsksFor(rest, id, k) /\ (Head(reqs).id = id => Head(reqs).what.all \/ k \in Head(reqs).what.keys)
  BY <1>1 DEF AsksFor
<1> QED BY <1>2 DEF rest

\* an event the session's thread receives does not make a stream seen
LEMMA SeenShrinks ==
  ASSUME TypeOK, ProcessInput, NEW c \in Clients, seen'[c]
  PROVE  seen[c]
BY DEF TypeOK, ProcessInput, ReceiveDeleted, ReceiveCreated, ReceiveRenamed, ReceiveDefinition,
       ReceiveChanged, ReceiveClosed, Unseen

\* a stream that was seen before a step and after it
LEMMA LastsStep ==
  ASSUME TypeOK, ThreadInv, LinkInv, SeenInv, [Next]_vars, NEW c \in Clients, seen'[c]
  PROVE  Lasts(c)'
<1> USE DEF TypeOK, ThreadInv, LinkInv, SeenInv, Lasts, RemovalOf,
            serverVars, threadVars, countVars, ownerVars, callVars, Goto
<1>1. CASE Serve BY <1>1 DEF Serve
<1>2. CASE Change
  <2>1. seen[c] /\ key[c] \in streams'
    BY <1>2 DEF Change, Unseen
  <2> QED BY <1>2, <2>1 DEF Change
<1>3. CASE EndSession \/ Break \/ DeleteStreamObject \/ BeginStop
  BY <1>3 DEF EndSession, Break, DeleteStreamObject, BeginStop, Unseen
<1>4. CASE ProcessInput
  <2>1. tpc' \in {"needed", "close"}
    BY <1>4 DEF ProcessInput, ReceiveDeleted, ReceiveCreated, ReceiveRenamed, ReceiveDefinition,
                ReceiveChanged, ReceiveClosed
  <2>2. seen[c]
    BY <1>4, SeenShrinks
  <2> QED BY <1>4, <2>1, <2>2 DEF ProcessInput
<1>5. CASE RequestNeeded BY <1>5 DEF RequestNeeded
<1>6. CASE CutAnswer \/ CleanUp \/ BeginThread \/ BeginEvent \/ LeaveLoop \/ Stopped
  BY <1>6 DEF CutAnswer, CleanUp, BeginThread, BeginEvent, LeaveLoop, Stopped
<1>7. CASE Owner
  BY <1>7 DEF Owner, CreateThread, AssignThread, Started, EndStop
<1>8. CASE VerifyConnection BY <1>8 DEF VerifyConnection
<1>9. CASE UNCHANGED vars BY <1>9 DEF vars
<1>10. ASSUME NEW d \in Clients, CallStep(d) PROVE Lasts(c)'
  <2>1. CASE Ask(d)     BY <2>1 DEF Ask
  <2>2. CASE EndWait(d) BY <2>2 DEF EndWait
  <2>3. CASE Read(d)    BY <2>3 DEF Read
  <2>4. CASE Remove(d)  BY <2>4 DEF Remove, Unseen
  <2> QED BY <1>10, <2>1, <2>2, <2>3, <2>4 DEF CallStep
<1>11. ASSUME NEW d \in Clients, NEW k \in Keys,
              GetStream(d, k) \/ ListStreams(d, k) \/ CreateStream(d, k) \/ DeleteStream(d, k)
       PROVE  Lasts(c)'
  <2> USE DEF BeginCall, LookUp, SeesFrom
  <2>1. CASE GetStream(d, k)    BY <2>1 DEF GetStream
  <2>2. CASE ListStreams(d, k)  BY <2>2 DEF ListStreams
  <2>3. CASE CreateStream(d, k) BY <2>3 DEF CreateStream
  <2>4. CASE DeleteStream(d, k) BY <2>4 DEF DeleteStream, Unseen
  <2> QED BY <1>11, <2>1, <2>2, <2>3, <2>4
<1> QED BY <1>1, <1>2, <1>3, <1>4, <1>5, <1>6, <1>7, <1>8, <1>9, <1>10, <1>11 DEF Next, Session

\* no step takes a stream that a call waits for out of the answer it waits for
LEMMA AnswerComesStep ==
  ASSUME TypeOK, ThreadInv, LinkInv, AnswersFollowRequests, SeenInv, [Next]_vars,
         NEW c \in Clients, seen'[c]
  PROVE  AnswerComes(c)'
<1> DEFINE k == key[c]
           id == requestId[c]
           Same == pc'[c] = pc[c] /\ key'[c] = key[c] /\ requestId'[c] = requestId[c] /\ seen[c]
<1>a. /\ events \in Seq(Events) /\ requests \in Seq(Requests) /\ sent \in Nat /\ received \in Nat
      /\ id \in 0 .. sent /\ k \in Keys
  BY DEF TypeOK
<1>b. seen[c] => Lasts(c) /\ AnswerComes(c)
  BY DEF SeenInv
<1> USE DEF serverVars, threadVars, countVars, ownerVars, callVars
\* what another thread does
<1>c. ASSUME Same, UNCHANGED <<events, requests, received>>, StaysCached(k) => k \in cache'
      PROVE  AnswerComes(c)'
  BY <1>b, <1>c DEF AnswerComes, StaysCached
<1>d. ASSUME Same, UNCHANGED <<requests, received, cache>>, NEW e \in Events, ~Removes(e, k),
             events' = Append(events, e), e.tag = "definition" /\ e.id = id => k \in e.keys
      PROVE  AnswerComes(c)'
  <2>1. ~Out(events, k) => ~Out(events', k)
    BY <1>a, <1>d, DoomedStays
  <2>2. BringsIn(events, id, k) => BringsIn(events', id, k)
    BY <1>a, <1>d, BringsInStays
  <2> QED BY <1>b, <1>d, <2>1, <2>2 DEF AnswerComes, StaysCached
<1>e. ASSUME Lasts(c), NEW what \in [all : BOOLEAN, keys : SUBSET Keys], Send(what)
      PROVE  AsksFor(requests, id, k) => AsksFor(requests', id, k)
  <2>1. requests' = Append(requests, Request(sent + 1, what)) /\ Request(sent + 1, what) \in Requests
        /\ Request(sent + 1, what).id # id
    BY <1>a, <1>e DEF Lasts, LinkInv, Send, Request, Requests
  <2> QED BY <1>a, <2>1, AsksForStays
<1>f. /\ All \in [all : BOOLEAN, keys : SUBSET Keys]
      /\ \A ks \in SUBSET Keys : Only(ks) \in [all : BOOLEAN, keys : SUBSET Keys]
  BY DEF All, Only
<1>g. ASSUME Same, UNCHANGED <<events, received, cache>>,
             NEW what \in [all : BOOLEAN, keys : SUBSET Keys], Send(what)
      PROVE  AnswerComes(c)'
  BY <1>b, <1>e, <1>g DEF AnswerComes, StaysCached
<1>h. \A n \in Keys, t \in {"created", "deleted", "property_changed", "changed"} :
          /\ Event(t, n) \in Events /\ Event(t, n).tag = t /\ Event(t, n).key = n
  BY EventTypes DEF Event
<1>1. CASE Serve
  <2>1. Same /\ requests # <<>> /\ requests' = Tail(requests) /\ UNCHANGED <<received, cache>>
    BY <1>1 DEF Serve
  <2>2. Head(requests) \in Requests
    BY <1>a, <2>1, Front
  <2> DEFINE e == Definition(Head(requests).id, IF Head(requests).what.all THEN streams
                                                ELSE Head(requests).what.keys \cap streams)
  <2>3. e \in Events /\ e.tag = "definition" /\ e.id = Head(requests).id /\ events' = Append(events, e)
        /\ e.keys = IF Head(requests).what.all THEN streams ELSE Head(requests).what.keys \cap streams
    BY <1>1, <2>2, EventTypes DEF Serve, Definition, TypeOK, Requests
  <2> HIDE DEF e
  <2>4. ~Removes(e, k) /\ k \in streams
    BY <1>b, <2>1, <2>3 DEF Removes, Lasts
  <2>5. AsksFor(requests, id, k) =>
            AsksFor(requests', id, k) /\ (e.id = id => k \in e.keys)
    BY <1>a, <2>1, <2>3, <2>4, AsksForGoesOn
  <2>6. ~Out(events, k) => ~Out(events', k)
    BY <1>a, <2>3, <2>4, DoomedStays
  <2>7. AsksFor(requests, id, k) /\ BringsIn(events, id, k) => BringsIn(events', id, k)
    BY <1>a, <2>3, <2>4, <2>5, BringsInStays
  <2> QED BY <1>b, <2>1, <2>5, <2>6, <2>7 DEF AnswerComes, StaysCached
<1>2. CASE Change
  <2>0. Same /\ UNCHANGED <<requests, received, cache>> /\ link
    BY <1>2 DEF Change, Unseen
  <2>1. PICK e \in Events : ~Removes(e, k) /\ e.tag # "definition" /\ events' = Append(events, e)
    <3>1. \A n, m \in Keys : [tag |-> "renamed", key |-> n, newKey |-> m] \in Events
      BY EventTypes
    <3> DEFINE Goal == \E e \in Events : ~Removes(e, k) /\ e.tag # "definition"
                                         /\ events' = Append(events, e)
    <3>2. ASSUME NEW n \in Keys, NEW t \in {"created", "property_changed", "changed"},
                 Announce(Event(t, n))
          PROVE  Goal
      <4>1. Event(t, n) \in Events /\ Event(t, n).tag = t
        BY EventTypes DEF Event
      <4>2. ~Removes(Event(t, n), k) /\ Event(t, n).tag # "definition"
        BY <4>1 DEF Removes
      <4> QED BY <2>0, <3>2, <4>1, <4>2 DEF Announce
    <3>3. ASSUME NEW n \in Keys, Announce(Event("deleted", n)), Unseen({n}) PROVE Goal
      <4>1. Event("deleted", n) \in Events /\ Event("deleted", n).tag = "deleted"
            /\ Event("deleted", n).key = n
        BY EventTypes DEF Event
      <4>2. n # k
        BY <1>h, <2>0, <3>3 DEF Unseen
      <4>3. ~Removes(Event("deleted", n), k)
        BY <4>1, <4>2 DEF Removes
      <4> QED BY <2>0, <3>3, <4>1, <4>3 DEF Announce
    <3>4. ASSUME NEW n \in Keys, NEW m \in Keys, Unseen({n}),
                 Announce([tag |-> "renamed", key |-> n, newKey |-> m])
          PROVE  Goal
      BY <2>0, <3>1, <3>4 DEF Announce, Removes, Unseen
    <3> HIDE DEF Goal
    <3>5. Goal
      BY <1>2, <3>2, <3>3, <3>4 DEF Change
    <3> QED BY <3>5 DEF Goal
  <2> QED BY <1>d, <2>0, <2>1
<1>3. CASE EndSession \/ Break \/ DeleteStreamObject \/ BeginStop
  BY <1>3, <1>b DEF EndSession, Break, DeleteStreamObject, BeginStop, Unseen, TypeOK
<1>4. CASE ProcessInput
  <2>1. Same /\ events # <<>> /\ events' = Tail(events)
    BY <1>4, SeenShrinks DEF ProcessInput
  <2>2. Lasts(c) /\ AnswerComes(c)
    BY <1>b, <2>1
  <2>3. ~Out(events, k) => ~Removes(Head(events), k) /\ ~Out(events', k)
    BY <1>a, <2>1, DoomedGoesOn
  <2>4. BringsIn(events, id, k) =>
            /\ BringsIn(events', id, k)
            /\ Head(events).tag = "definition" /\ Head(events).id = id =>
                   k \in Head(events).keys /\ ~Out(events', k)
    BY <1>a, <2>1, BringsInGoesOn
  <2>5. ~Removes(Head(events), k) /\ k \in cache => k \in cache'
    BY <1>4 DEF ProcessInput, ReceiveDeleted, ReceiveCreated, ReceiveRenamed, ReceiveDefinition,
                ReceiveChanged, ReceiveClosed, Removes
  <2>6. AsksFor(requests, id, k) => AsksFor(requests', id, k)
    <3>1. CASE ReceiveChanged(Head(events))
      <4>1. Head(events) \in Events /\ Head(events).key \in Keys
        BY <1>a, <2>1, <3>1, Front, EventTypes DEF ReceiveChanged
      <4>2. CASE Head(events).tag = "changed"
        BY <1>e, <1>f, <2>2, <3>1, <4>2 DEF ReceiveChanged, Send
      <4>3. CASE Head(events).tag # "changed"
        BY <1>e, <1>f, <2>2, <3>1, <4>1, <4>3 DEF ReceiveChanged, Send
      <4> QED BY <4>2, <4>3
    <3> QED BY <1>4, <3>1
          DEF ProcessInput, ReceiveDeleted, ReceiveCreated, ReceiveRenamed, ReceiveDefinition,
              ReceiveClosed
  <2>7. CASE ReceiveDefinition(Head(events))
    <3>1. Head(events).id = received + 1 /\ received' = received + 1
          /\ (k \in Head(events).keys => k \in cache') /\ Head(events).tag = "definition"
      BY <2>1, <2>2, <2>7, HeadIsNext DEF ReceiveDefinition, Lasts, Unseen
    <3>2. received' >= id => received >= id \/ Head(events).id = id
      BY <1>a, <3>1
    <3> QED BY <2>1, <2>2, <2>3, <2>4, <2>5, <2>6, <3>1, <3>2 DEF AnswerComes, StaysCached
  <2>8. CASE ~ReceiveDefinition(Head(events))
    <3>1. received' = received
      BY <1>4, <2>8 DEF ProcessInput, ReceiveDeleted, ReceiveCreated, ReceiveRenamed,
                        ReceiveChanged, ReceiveClosed
    <3> QED BY <2>1, <2>2, <2>3, <2>4, <2>5, <2>6, <3>1 DEF AnswerComes, StaysCached
  <2> QED BY <2>7, <2>8
<1>5. CASE RequestNeeded
  <2>1. Same /\ UNCHANGED <<events, received, cache>>
    BY <1>5 DEF RequestNeeded
  <2>2. CASE UNCHANGED requests
    BY <1>c, <2>1, <2>2 DEF StaysCached
  <2>3. CASE Send(Only(needed))
    <3>1. Only(needed) \in [all : BOOLEAN, keys : SUBSET Keys]
      BY <1>f DEF TypeOK
    <3> QED BY <1>g, <2>1, <2>3, <3>1 DEF Send
  <2> QED BY <1>5, <2>2, <2>3 DEF RequestNeeded
<1>6. CASE CleanUp \/ BeginThread \/ BeginEvent \/ LeaveLoop \/ Stopped \/ UNCHANGED vars
  BY <1>6, <1>c DEF CleanUp, BeginThread, BeginEvent, LeaveLoop, Stopped, vars, StaysCached
<1>7. CASE CutAnswer
  BY <1>7, <1>b DEF CutAnswer, Lasts
<1>8. CASE Owner
  <2>1. CASE EndStop
    BY <2>1, <1>b DEF EndStop, ThreadInv, Lasts
  <2> QED BY <1>8, <2>1, <1>c DEF Owner, CreateThread, AssignThread, Started, StaysCached
<1>9. CASE VerifyConnection
  BY <1>9, <1>f, <1>g DEF VerifyConnection, Dummy, Send
\* calls
<1>10. ASSUME NEW d \in Clients, CallStep(d) PROVE AnswerComes(c)'
  <2> USE DEF TypeOK, Goto
  <2>1. CASE Ask(d)
    <3>0. UNCHANGED <<events, received, cache, key, seen>>
      BY <2>1 DEF Ask
    <3>1. CASE d # c
      <4>1. Same
        BY <2>1, <3>1 DEF Ask
      <4>2. CASE UNCHANGED requests
        BY <1>c, <3>0, <4>1, <4>2 DEF StaysCached
      <4>3. CASE Send(All)
        BY <1>f, <1>g, <3>0, <4>1, <4>3 DEF Send
      <4>4. CASE Send(Only({key[d]}))
        <5>1. Only({key[d]}) \in [all : BOOLEAN, keys : SUBSET Keys]
          <6>1. key[d] \in Keys
            BY DEF TypeOK
          <6> QED BY <6>1, <1>f
        <5> QED BY <1>g, <3>0, <4>1, <4>4, <5>1 DEF Send
      <4> QED BY <2>1, <4>2, <4>3, <4>4 DEF Ask
    <3>2. CASE d = c
      <4>1. Lasts(c) /\ isWorking
        BY <1>b, <3>0 DEF Lasts, ThreadInv, isWorking
      <4>2. pc'[c] \in {"idle", "wait_all"} => AnswerComes(c)'
        BY DEF AnswerComes
      <4>3. CASE pc'[c] = "wait_one"
        <5>1. /\ requestId'[c] = sent + 1 /\ key'[c] = k /\ received' = received /\ events' = events
              /\ \E what \in {All, Only({k})} : requests' = Append(requests, Request(sent + 1, what))
          BY <2>1, <3>0, <3>2, <4>1, <4>3 DEF Ask, Send, Lasts, LinkInv
        <5>2. InOrder(events, received, sent - Len(requests)) /\ Numbered(requests, sent - Len(requests))
          BY <4>1, NumbersInOrder DEF Lasts
        <5>3. Len(requests) \in Nat /\ DOMAIN requests = 1 .. Len(requests)
          OBVIOUS
        <5>4. BringsIn(events, sent + 1, k)
          BY <1>a, <5>2, <5>3 DEF BringsIn, InOrder
        <5>5. AsksFor(requests, sent + 1, k)
          BY <1>a, <5>2, <5>3 DEF AsksFor, Numbered
        <5>6. \A what \in {All, Only({k})} :
                  /\ Request(sent + 1, what) \in Requests
                  /\ Request(sent + 1, what).what.all \/ k \in Request(sent + 1, what).what.keys
          <6>1. /\ All \in [all : BOOLEAN, keys : SUBSET Keys] /\ All.all
                /\ Only({k}) \in [all : BOOLEAN, keys : SUBSET Keys] /\ k \in Only({k}).keys
            BY <1>a DEF All, Only
          <6>2. \A what \in [all : BOOLEAN, keys : SUBSET Keys] :
                    Request(sent + 1, what) \in Requests /\ Request(sent + 1, what).what = what
            BY <1>a DEF Request, Requests
          <6> QED BY <6>1, <6>2
        <5>7. AsksFor(requests', sent + 1, k)
          BY <1>a, <5>1, <5>5, <5>6, AsksForStays
        <5> QED BY <1>a, <4>3, <5>1, <5>4, <5>7 DEF AnswerComes
      <4> QED BY <2>1, <3>2, <4>1, <4>2, <4>3 DEF Ask
    <3> QED BY <3>1, <3>2
  <2>2. CASE EndWait(d)
    <3>1. UNCHANGED <<events, requests, received, cache, key, requestId, seen>>
      BY <2>2 DEF EndWait
    <3>2. CASE d # c
      BY <1>c, <2>2, <3>1, <3>2 DEF EndWait, StaysCached
    <3>3. CASE d = c
      BY <1>b, <2>2, <3>1, <3>3 DEF EndWait, AnswerComes, StaysCached
    <3> QED BY <3>2, <3>3
  <2>3. CASE Read(d)
    BY <2>3, <1>c DEF Read, StaysCached
  <2>4. CASE Remove(d)
    BY <2>4, <1>b, <1>c DEF Remove, Unseen, StaysCached, Lasts
  <2> QED BY <1>10, <2>1, <2>2, <2>3, <2>4 DEF CallStep
<1>11. ASSUME NEW d \in Clients, NEW n \in Keys,
              GetStream(d, n) \/ ListStreams(d, n) \/ CreateStream(d, n) \/ DeleteStream(d, n)
       PROVE  AnswerComes(c)'
  <2>1. CASE d = c
    <3>1. pc'[c] \in {"idle", "ask_all", "ask_one", "list", "remove"}
      BY <1>11, <2>1 DEF GetStream, ListStreams, CreateStream, DeleteStream, LookUp, Goto, TypeOK
    <3> QED BY <3>1 DEF AnswerComes
  <2>2. CASE d # c
    <3>1. Same /\ UNCHANGED <<requests, received, cache>>
      BY <1>11, <2>2 DEF GetStream, ListStreams, CreateStream, DeleteStream, BeginCall, LookUp,
                         SeesFrom, Unseen, Goto, TypeOK
    <3>2. CASE UNCHANGED events
      BY <1>c, <3>1, <3>2 DEF StaysCached
    <3>3. CASE CreateStream(d, n)
      BY <1>b, <1>d, <1>h, <3>1, <3>3 DEF CreateStream, Announce, Lasts, Removes
    <3>4. CASE DeleteStream(d, n)
      <4>1. n # k
        BY <2>2, <3>4 DEF DeleteStream, Unseen, BeginCall
      <4> QED BY <1>b, <1>d, <1>h, <3>1, <3>4, <4>1 DEF DeleteStream, Announce, Lasts, Removes
    <3> QED BY <1>11, <3>2, <3>3, <3>4 DEF GetStream, ListStreams
  <2> QED BY <2>1, <2>2
<1> QED BY <1>1, <1>2, <1>3, <1>4, <1>5, <1>6, <1>7, <1>8, <1>9, <1>10, <1>11 DEF Next, Session

-----------------------------------------------------------------------------
(* The invariant of the session, and what follows from it.                 *)

\* The thread, the connection and its numbers, what the calls wait for and what
\* the cache holds fit together at every moment.
THEOREM SessionInvariant == Spec => [](TypeOK /\ SessionInv)
<1>1. Init => TypeOK /\ SessionInv
  <2> SUFFICES ASSUME Init PROVE TypeOK /\ SessionInv
    OBVIOUS
  <2>1. TypeOK
    <3>1. Request(1, Dummy) \in Requests
      BY DEF Request, Requests, Dummy, Only
    <3>2. requests \in Seq(Requests) /\ events \in Seq(Events)
      BY <3>1 DEF Init
    <3>3. /\ requestId \in [Clients -> 0 .. sent] /\ seen \in [Clients -> BOOLEAN]
          /\ received \in 0 .. sent /\ sent \in Nat
          /\ changes \in 0 .. MaxChanges /\ calls \in 0 .. MaxCalls
      BY BoundsAssumption DEF Init
    <3> QED BY <3>2, <3>3 DEF Init, TypeOK
  <2>2. ThreadInv /\ LinkInv /\ SeenInv
    BY DEF Init, ThreadInv, LinkInv, SeenInv
  <2>3. AnswersFollowRequests
    BY DEF Init, AnswersFollowRequests, Request
  <2>4. GhostInv
    BY DEF Init, GhostInv, Doomed
  <2> QED BY <2>1, <2>2, <2>3, <2>4 DEF SessionInv
<1>2. TypeOK /\ SessionInv /\ [Next]_vars => TypeOK' /\ SessionInv'
  <2> SUFFICES ASSUME TypeOK, SessionInv, [Next]_vars PROVE TypeOK' /\ SessionInv'
    OBVIOUS
  <2>1. TypeOK' /\ ThreadInv' /\ LinkInv' /\ AnswersFollowRequests' /\ GhostInv'
    BY TypeStep, ThreadStep, LinkStep, AnswersStep, GhostStep DEF SessionInv
  <2>2. SeenInv'
    BY LastsStep, AnswerComesStep DEF SessionInv, SeenInv
  <2> QED BY <2>1, <2>2 DEF SessionInv
<1> QED BY <1>1, <1>2, PTL DEF Spec

\* every variable has its type in every reachable state; no more answers are
\* counted than requests were sent
THEOREM TypeCorrect == Spec => []TypeOK
BY SessionInvariant, PTL

\* the answers and requests on a connection that works have the numbers that
\* follow the count of answers, in their order and without a gap
THEOREM AnswersAreCounted == Spec => []AnswersFollowRequests
<1>1. SessionInv => AnswersFollowRequests
  BY DEF SessionInv
<1> QED BY <1>1, SessionInvariant, PTL

\* getStream and listStreams find a stream that was there all through the call
THEOREM StreamsAreFound == Spec => []GetStreamFindsIt
<1>1. SessionInv => GetStreamFindsIt
  BY DEF SessionInv, SeenInv, AnswerComes, StaysCached, GetStreamFindsIt
<1> QED BY <1>1, SessionInvariant, PTL

\* once nothing is on the way, the cache names no stream that is not there
THEOREM GhostsLeave == Spec => []NoGhostStreams
<1>1. TypeOK /\ SessionInv => NoGhostStreams
  BY DEF TypeOK, SessionInv, GhostInv, Out, NoGhostStreams
<1> QED BY <1>1, SessionInvariant, PTL

=============================================================================
