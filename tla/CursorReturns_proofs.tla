------------------------ MODULE CursorReturns_proofs ------------------------
(***************************************************************************)
(* What next() returns of a subscription, and what it drops: that a        *)
(* message it returns was asked for, and none that was asked for is lost,  *)
(* for any names and any number of calls, failures and blocks on the way.  *)
(***************************************************************************)
EXTENDS CursorSubscription_proofs, WellFoundedInduction

-----------------------------------------------------------------------------
(* What a filter says of a name: of a name that was met several times it   *)
(* may say both.                                                           *)

\* whether the filter will skip the name once it is met
Word(f, n) == IF n \in DOMAIN f.later THEN f.later[n] ELSE f.default

Says(f, n) ==
    IF Numbers(f, n) = {} THEN {Word(f, n)} ELSE {Skipped(f, i) : i \in Numbers(f, n)}

\* only of names that were not met the filter keeps word for later
WaitsUnmet(f) == \A n \in DOMAIN f.later : Numbers(f, n) = {}

-----------------------------------------------------------------------------
(* What the server sends of a name, when it has applied the first of the   *)
(* calls it accepted.                                                      *)

Wants(c, k, n) == c.kind = k /\ c.action # "REMOVE" /\ (c.list.all \/ n \in c.list.names)

Unwants(c, k, n) ==
    /\ c.kind = k
    /\ IF c.action = "REMOVE" THEN c.list.all \/ n \in c.list.names
       ELSE c.action = "SET" /\ ~(c.list.all \/ n \in c.list.names)

\* after the first j of the calls td, with sub what it sends before them
Sends(sub, td, k, n, j) ==
    \/ n \in sub /\ \A l \in 1 .. j : ~Unwants(td[l].request, k, n)
    \/ \E i \in 1 .. j : /\ Wants(td[i].request, k, n)
                         /\ \A l \in i + 1 .. j : ~Unwants(td[l].request, k, n)

\* call number r is not one of the calls td behind the first j
Late(td, j, r) == \A i \in j + 1 .. Len(td) : td[i].id # r

\* the block in place m was sent after the server applied call r
Behind(str, td, r, m) ==
    /\ Late(td, 0, r)
    /\ \A i \in m + 1 .. Len(str) : str[i] # CommandBlock(r)

\* From call r on, the server sends nothing of a name; P are the places of what
\* it sent of it.
Quiet(sub, td, k, n, r, str, P) ==
    /\ \A j \in 0 .. Len(td) : Late(td, j, r) => ~Sends(sub, td, k, n, j)
    /\ \A m \in P : ~Behind(str, td, r, m)

NumberOf(k, b) == IF k = "entities" THEN b.entity ELSE b.type

Places(str, k, ann, n) ==
    {m \in DOMAIN str : str[m].kind = "message" /\ ann[NumberOf(k, str[m])] = n}

-----------------------------------------------------------------------------
(* Which resets were done before a message.                                *)

\* of the first j of the calls td, those that are resets
ResetsTo(td, j) == ResetsFrom(td, 1) - ResetsFrom(td, j + 1)

\* the commands in str before place k are all among ids
OnlyBefore(str, k, ids) == \A i \in 1 .. k - 1 : str[i].kind = "command" => str[i].id \in ids

\* What is behind no commands but those in ids comes after n resets at most, be
\* it on the way or sent later.
AtMost(str, td, pos, ids, n) ==
    /\ \A k \in DOMAIN str :
          str[k].kind = "message" /\ OnlyBefore(str, k, ids) => str[k].position <= n
    /\ \A j \in 0 .. Len(td) :
          OnlyBefore(str, Len(str) + 1, ids) /\ (\A i \in 1 .. j : td[i].id \in ids)
             => pos + ResetsTo(td, j) <= n

-----------------------------------------------------------------------------
(* The invariant.                                                          *)

Kinds == {"entities", "types"}

\* the names of a kind that a call can ask for
AskedNames(k) == IF k = "entities" THEN Entities ELSE Types \ SystemTypes

\* the calls the server has yet to apply, the one being made included
Pending ==
    IF caller.pc = "asking"
    THEN Append(todo, [id |-> nextId, request |-> caller.call]) ELSE todo

\* the last reset that next() has not seen done; 0 if there is none
Border ==
    IF ResetCalled THEN IF caller.pc = "asking" THEN nextId ELSE caller.id
    ELSE IF copy[shadow].lastReset >= 1 THEN copy[shadow].lastReset ELSE 0

\* A call asks for some names or for everything, and to keep something of it
CallInv == caller.pc # "free" => caller.call \in Calls

FilterInv ==
    /\ WaitsUnmet(copy[shadow].entities) /\ WaitsUnmet(copy[shadow].types)
    /\ \A i, j \in DOMAIN announced.entities :
          announced.entities[i] = announced.entities[j] => i = j

\* no name that is asked for is skipped
DropInv ==
    \A k \in Kinds : \A n \in asked[k] \ asked.unsure : TRUE \notin Says(copy[shadow][k], n)

\* A name that was not asked for is one the server will not send any more; if
\* the filter lets it pass, the server sends it not even behind the last reset.
Silent(k, n) ==
    /\ ~Sends(subscription[k], Pending, k, n, Len(Pending))
    /\ FALSE \in Says(copy[shadow][k], n) /\ (~asked.stuck \/ ResetCalled) =>
          Quiet(subscription[k], Pending, k, n, Border, stream,
                Places(stream, k, announced[k], n))

LeakInv ==
    rpc # "dead" =>
        \A k \in Kinds : \A n \in AskedNames(k) :
            n \notin asked[k] /\ n \notin asked.unsure => Silent(k, n)

Expected(s) == s.first .. s.last
Answered    == IF caller.pc = "answered" THEN {caller.id} ELSE {}
AnsweredReset == IF caller.pc = "answered" /\ ResetCalled THEN 1 ELSE 0

\* What next() can read before it throws comes after no more resets than
\* returned, and what it reads before the last of them is done after fewer.
BoundInv ==
    rpc # "dead" =>
        LET s == copy[shadow]
            n == asked.resets
        IN
        /\ AtMost(stream, todo, position, Expected(s), n)
        /\ AtMost(stream, todo, position, Expected(s) \cup Answered, n + AnsweredReset)
        /\ s.lastReset >= 1 /\ ~asked.stuck =>
              /\ AtMost(stream, todo, position, Expected(s) \ {s.lastReset}, n - 1)
              /\ ~ResetCalled =>
                    AtMost(stream, todo, position,
                           (Expected(s) \cup Answered) \ {s.lastReset}, n - 1)
        /\ s.resetting /\ ~ResetCalled /\ ~asked.stuck => s.lastReset >= 1

ReturnsInv ==
    /\ CallInv /\ FilterInv /\ DropInv /\ LeakInv /\ BoundInv
    /\ NextReturnsOnlyAsked /\ NothingAskedIsDropped

\* Word is kept of names that were not met, and what a filter says is known
LEMMA SaysSome ==
  ASSUME NEW S, NEW f \in Filters(S), NEW n
  PROVE  /\ Says(f, n) \subseteq BOOLEAN
         /\ DOMAIN f.later \subseteq S /\ f.later \in Tables(S) /\ f.data \in Tables(Nat)
         /\ f.names \in Seq(S) /\ DOMAIN f.data \subseteq DOMAIN f.names /\ f.default \in BOOLEAN
         /\ \A i \in DOMAIN f.names : Skipped(f, i) \in BOOLEAN
<1>1. /\ f.later \in Tables(S) /\ f.data \in Tables(Nat) /\ f.names \in Seq(S)
      /\ DOMAIN f.data \subseteq DOMAIN f.names /\ f.default \in BOOLEAN
  BY DEF Filters
<1>2. \A T : \A t \in Tables(T) : DOMAIN t \subseteq T /\ \A i \in DOMAIN t : t[i] \in BOOLEAN
  BY TableTypes
<1>3. \A i \in DOMAIN f.names : Skipped(f, i) \in BOOLEAN
  BY <1>1, <1>2 DEF Skipped
<1>4. Word(f, n) \in BOOLEAN
  BY <1>1, <1>2 DEF Word
<1>5. Numbers(f, n) \subseteq DOMAIN f.names
  BY DEF Numbers
<1> QED BY <1>1, <1>2, <1>3, <1>4, <1>5 DEF Says

\* what a filter says of a name, by its numbers
LEMMA SaysWhat ==
  ASSUME NEW f, NEW n
  PROVE  /\ Numbers(f, n) = {} => Says(f, n) = {Word(f, n)}
         /\ Numbers(f, n) # {} =>
               \A x : x \in Says(f, n) <=> \E i \in Numbers(f, n) : x = Skipped(f, i)
BY DEF Says

\* two filters that say the same of the numbers of a name
LEMMA SaysAlike ==
  ASSUME NEW f, NEW g, NEW n, Numbers(f, n) = Numbers(g, n), Word(f, n) = Word(g, n),
         \A i \in Numbers(f, n) : Skipped(f, i) = Skipped(g, i)
  PROVE  Says(f, n) = Says(g, n)
<1>1. CASE Numbers(f, n) = {}
  BY <1>1, SaysWhat
<1>2. CASE Numbers(f, n) # {}
  <2>1. \A x : x \in Says(f, n) <=> x \in Says(g, n)
    BY <1>2, SaysWhat
  <2> QED BY <2>1
<1> QED BY <1>1, <1>2

\* a filter that is cleared says the same of every name
LEMMA ClearedSays ==
  ASSUME NEW S, NEW f \in Filters(S), NEW x \in BOOLEAN, NEW n
  PROVE  /\ WaitsUnmet(Cleared(f, x)) /\ Says(Cleared(f, x), n) = {x}
         /\ DOMAIN Cleared(f, x).later = {}
<1> DEFINE g == Cleared(f, x)
<1>1. g.default = x /\ g.data = <<>> /\ g.later = <<>> /\ DOMAIN <<>> = {}
  BY DEF Cleared, Filters
<1> HIDE DEF g
<1>2. Word(g, n) = x /\ \A i : Skipped(g, i) = x
  BY <1>1 DEF Word, Skipped
<1> QED BY <1>1, <1>2 DEF WaitsUnmet, Says, g

\* what a call makes the filter say: of a name in its list what it wants, unless
\* there was word of the opposite; of another name what it was, or, when the
\* filter is cleared first, what the call leaves
LEMMA ModifySays ==
  ASSUME NEW S, NEW f \in Filters(S), WaitsUnmet(f),
         NEW a \in {"ADD", "REMOVE", "SET"}, NEW l \in Listings(S), NEW n
  PROVE  LET g == Modify(f, a, l) IN
         /\ WaitsUnmet(g)
         /\ n \in l.names /\ n \notin Wavering(f, a, l) => Says(g, n) = {a = "REMOVE"}
         /\ n \notin l.names =>
               Says(g, n) = IF l.all \/ a = "SET" THEN {a # "ADD"} ELSE Says(f, n)
<1> DEFINE b        == Base(f, a, l)
           removing == a = "REMOVE"
           met      == {i \in DOMAIN f.names : f.names[i] \in l.names}
           g        == Modify(f, a, l)
<1>1. /\ b \in Filters(S) /\ WaitsUnmet(b) /\ b.names = f.names
      /\ DOMAIN b.later \subseteq DOMAIN f.later
      /\ Says(b, n) = IF l.all \/ a = "SET" THEN {a # "ADD"} ELSE Says(f, n)
  <2>1. (a # "ADD") \in BOOLEAN
    OBVIOUS
  <2>2. LET c == Cleared(f, a # "ADD") IN
        /\ c \in Filters(S) /\ c.names = f.names /\ WaitsUnmet(c)
        /\ Says(c, n) = {a # "ADD"} /\ DOMAIN c.later = {}
    BY <2>1, FilterTypes, ClearedSays
  <2> QED BY <2>2 DEF Base
<1>2. /\ g.names = f.names /\ g.default = b.default /\ g.data = Put(b.data, met, removing)
      /\ g.later = IF b.default = removing THEN b.later
                   ELSE Put(b.later, Unmet(f, l), removing)
  BY <1>1 DEF Modify, Filters
<1>3. \A i : Numbers(g, i) = Numbers(f, i) /\ Numbers(b, i) = Numbers(f, i)
  BY <1>1, <1>2 DEF Numbers
<1>4. \A i : Skipped(g, i) = IF i \in met THEN removing ELSE Skipped(b, i)
  BY <1>2 DEF Skipped, Put
<1>5. Unmet(f, l) \subseteq l.names /\ \A m \in Unmet(f, l) : Numbers(f, m) = {}
  BY DEF Unmet
<1>6. /\ DOMAIN g.later \subseteq DOMAIN b.later \cup Unmet(f, l)
      /\ b.default # removing => DOMAIN g.later = DOMAIN b.later \cup Unmet(f, l)
      /\ \A m \in DOMAIN g.later :
            g.later[m] = IF m \in Unmet(f, l) /\ b.default # removing THEN removing
                         ELSE b.later[m]
  BY <1>2 DEF Put
<1> HIDE DEF g, b
<1>7. WaitsUnmet(g)
  BY <1>1, <1>3, <1>5, <1>6 DEF WaitsUnmet
<1>8. ASSUME n \in l.names, n \notin Wavering(f, a, l)
      PROVE  Says(g, n) = {removing}
  <2>1. CASE Numbers(f, n) # {}
    <3>1. \A i \in Numbers(g, n) : Skipped(g, i) = removing
      BY <1>3, <1>4, <1>8 DEF Numbers
    <3> QED BY <1>3, <2>1, <3>1 DEF Says
  <2>2. CASE Numbers(f, n) = {}
    <3>1. n \in Unmet(f, l)
      BY <1>8, <2>2 DEF Unmet
    <3>2. CASE b.default = removing
      <4>1. n \notin DOMAIN b.later
        BY <1>8, <3>1, <3>2 DEF Wavering, b
      <4> QED BY <1>2, <1>3, <2>2, <3>2, <4>1 DEF Says, Word
    <3>3. CASE b.default # removing
      BY <1>3, <1>6, <2>2, <3>1, <3>3 DEF Says, Word
    <3> QED BY <3>2, <3>3
  <2> QED BY <2>1, <2>2
<1>9. ASSUME n \notin l.names
      PROVE  Says(g, n) = Says(b, n)
  <2>1. CASE Numbers(f, n) # {}
    <3>1. \A i \in Numbers(f, n) : Skipped(g, i) = Skipped(b, i)
      BY <1>4, <1>9 DEF Numbers
    <3> QED BY <1>3, <3>1, <2>1 DEF Says
  <2>2. CASE Numbers(f, n) = {}
    <3>1. n \notin Unmet(f, l)
      BY <1>5, <1>9
    <3>2. Word(g, n) = Word(b, n)
      BY <1>2, <1>6, <3>1 DEF Word
    <3> QED BY <1>3, <3>2, <2>2 DEF Says
  <2> QED BY <2>1, <2>2
<1> QED BY <1>1, <1>7, <1>8, <1>9 DEF g

\* the numbers of the names, with one name more
LEMMA NumbersMore ==
  ASSUME NEW S, NEW f \in Filters(S), NEW g \in Filters(S), NEW m \in S,
         g.names = Append(f.names, m)
  PROVE  /\ \A n : n # m => Numbers(g, n) = Numbers(f, n)
         /\ Numbers(g, m) = Numbers(f, m) \cup {Len(f.names) + 1}
         /\ Len(f.names) + 1 \notin DOMAIN f.names /\ Len(f.names) + 1 \notin DOMAIN f.data
         /\ \A n : \A i \in Numbers(f, n) : i \in DOMAIN f.names /\ i # Len(f.names) + 1
<1>1. f.names \in Seq(S) /\ DOMAIN f.data \subseteq DOMAIN f.names
  BY SaysSome
<1>2. /\ Len(f.names) \in Nat /\ DOMAIN f.names = 1 .. Len(f.names)
      /\ DOMAIN g.names = 1 .. Len(f.names) + 1 /\ g.names[Len(f.names) + 1] = m
      /\ \A i \in 1 .. Len(f.names) : g.names[i] = f.names[i]
  BY <1>1, EndOf
<1>3. Len(f.names) + 1 \notin DOMAIN f.names
  BY <1>2
<1>4. DOMAIN g.names = DOMAIN f.names \cup {Len(f.names) + 1}
  BY <1>2
<1>5. \A i \in DOMAIN f.names : i # Len(f.names) + 1
  BY <1>3
<1> QED BY <1>1, <1>2, <1>3, <1>4, <1>5 DEF Numbers

\* an entity that is met is treated as the filter said
LEMMA InstrumentSays ==
  ASSUME NEW S, NEW f \in Filters(S), WaitsUnmet(f), NEW m \in S, Numbers(f, m) = {}, NEW n
  PROVE  LET g == RegisterInstrument(f, m) IN WaitsUnmet(g) /\ Says(g, n) = Says(f, n)
<1> DEFINE g == RegisterInstrument(f, m)
           i == Len(f.names) + 1
<1>1. g \in Filters(S) /\ g.names = Append(f.names, m)
  BY FilterTypes
<1>2. /\ \A o : o # m => Numbers(g, o) = Numbers(f, o)
      /\ Numbers(g, m) = {i} /\ i \notin DOMAIN f.data
      /\ \A o : \A j \in Numbers(f, o) : j # i
  BY <1>1, NumbersMore
<1>3. /\ g.default = f.default
      /\ IF m \in DOMAIN f.later
         THEN g.data = Put(f.data, {i}, f.later[m]) /\ g.later = Without(f.later, m)
         ELSE g.data = f.data /\ g.later = f.later
  BY DEF RegisterInstrument, Filters
<1> HIDE DEF g, i
<1>4. /\ DOMAIN g.later = DOMAIN f.later \ {m}
      /\ \A o \in DOMAIN g.later : g.later[o] = f.later[o]
  BY <1>3 DEF Without
<1>5. Skipped(g, i) = Word(f, m) /\ \A j : j # i => Skipped(g, j) = Skipped(f, j)
  BY <1>2, <1>3 DEF Skipped, Put, Word
<1>6. WaitsUnmet(g)
  BY <1>2, <1>4 DEF WaitsUnmet
<1>7. CASE n = m
  <2>1. Says(f, m) = {Word(f, m)}
    BY SaysWhat
  <2>2. \A x : x \in Says(g, m) <=> x = Word(f, m)
    BY <1>2, <1>5, SaysWhat
  <2> QED BY <1>6, <1>7, <2>1, <2>2 DEF g
<1>8. CASE n # m
  <2>1. Word(g, n) = Word(f, n)
    BY <1>3, <1>4, <1>8 DEF Word
  <2>2. \A j \in Numbers(f, n) : Skipped(g, j) = Skipped(f, j)
    BY <1>2, <1>5
  <2> QED BY <1>2, <1>6, <1>8, <2>1, <2>2, SaysAlike DEF g
<1> QED BY <1>6, <1>7, <1>8 DEF g

\* the last of some numbers up to n
LEMMA LastOne ==
  ASSUME NEW n \in Nat, NEW N \in SUBSET (1 .. n), N # {}
  PROVE  \E j \in N : \A k \in N : k <= j
<1> DEFINE T == {d \in Nat : n - d \in N}
<1>1. T \subseteq Nat /\ T # {}
  <2>1. PICK j \in N : TRUE
    OBVIOUS
  <2>2. n - j \in Nat /\ n - (n - j) = j
    BY <2>1
  <2> QED BY <2>1, <2>2
<1>2. PICK d \in T : \A e \in T : ~(<<e, d>> \in OpToRel(<, Nat))
  <2> HIDE DEF T
  <2> QED BY <1>1, NatLessThanWellFounded, WFMin
<1>3. \A e \in T : ~(e < d)
  BY <1>1, <1>2 DEF OpToRel
<1>4. n - d \in N /\ \A k \in N : k <= n - d
  <2>1. \A k \in N : n - k \in Nat /\ n - (n - k) = k /\ k \in Int
    OBVIOUS
  <2>2. \A k \in N : n - k \in T
    BY <2>1
  <2> QED BY <1>3, <2>1, <2>2
<1> QED BY <1>4

\* a type that is met is treated as the filter said, or as the last type that has
\* its name
LEMMA TypeSays ==
  ASSUME NEW S, NEW f \in Filters(S), WaitsUnmet(f), NEW m \in S, NEW n
  PROVE  LET g == RegisterMessageType(f, m) IN WaitsUnmet(g) /\ Says(g, n) = Says(f, n)
<1> DEFINE g        == RegisterMessageType(f, m)
           i        == Len(f.names) + 1
           siblings == Numbers(f, m)
           skipped  == IF m \in DOMAIN f.later THEN f.later[m]
                       ELSE IF siblings = {} THEN f.default
                       ELSE \E j \in siblings :
                               (\A k \in siblings : k <= j) /\ Skipped(f, j)
<1>1. g \in Filters(S) /\ g.names = Append(f.names, m)
  BY FilterTypes
<1>2. /\ \A o : o # m => Numbers(g, o) = Numbers(f, o)
      /\ Numbers(g, m) = siblings \cup {i} /\ i \notin DOMAIN f.data
      /\ \A o : \A j \in Numbers(f, o) : j # i /\ j \in DOMAIN f.names
  BY <1>1, NumbersMore
<1>3. /\ g.default = f.default /\ g.data = Put(f.data, {i}, skipped)
      /\ g.later = Without(f.later, m)
  BY DEF RegisterMessageType, Filters
<1>4. /\ DOMAIN g.later = DOMAIN f.later \ {m}
      /\ \A o \in DOMAIN g.later : g.later[o] = f.later[o]
  BY <1>3 DEF Without
<1>5. Skipped(g, i) = skipped /\ \A j : j # i => Skipped(g, j) = Skipped(f, j)
  <2> HIDE DEF g, i, skipped
  <2> QED BY <1>2, <1>3 DEF Skipped, Put
<1>6. skipped \in Says(f, m)
  <2>1. CASE siblings = {}
    BY <2>1 DEF Says, Word
  <2>2. CASE siblings # {}
    <3>1. m \notin DOMAIN f.later
      BY <2>2 DEF WaitsUnmet
    <3>2. Len(f.names) \in Nat /\ siblings \in SUBSET (1 .. Len(f.names))
      <4>1. f.names \in Seq(S)
        BY SaysSome
      <4> QED BY <4>1 DEF Numbers
    <3>3. PICK j \in siblings : \A k \in siblings : k <= j
      BY <2>2, <3>2, LastOne
    <3>4. \A o \in siblings : (\A k \in siblings : k <= o) => o = j
      BY <3>2, <3>3
    <3>5. Skipped(f, j) \in BOOLEAN
      BY <1>2, SaysSome
    <3>6. skipped = Skipped(f, j)
      BY <2>2, <3>1, <3>3, <3>4, <3>5
    <3> QED BY <2>2, <3>6 DEF Says
  <2> QED BY <2>1, <2>2
<1> HIDE DEF g, i, skipped
<1>7. WaitsUnmet(g)
  <2>1. \A o \in DOMAIN g.later : o # m /\ o \in DOMAIN f.later
    BY <1>4
  <2> QED BY <1>2, <2>1 DEF WaitsUnmet
<1>8. CASE n = m
  <2>1. \A j \in siblings : Skipped(g, j) = Skipped(f, j)
    BY <1>2, <1>5
  <2>2. \A x : x \in Says(g, m) <=> x = skipped \/ \E j \in siblings : x = Skipped(f, j)
    <3>1. \A x : x \in Says(g, m) <=> \E j \in siblings \cup {i} : x = Skipped(g, j)
      BY <1>2, SaysWhat
    <3> HIDE DEF siblings
    <3> QED BY <1>5, <2>1, <3>1
  <2>3. \A x : x \in Says(f, m) <=> x = skipped \/ \E j \in siblings : x = Skipped(f, j)
    <3>1. CASE siblings = {}
      BY <1>6, <3>1, SaysWhat
    <3>2. CASE siblings # {}
      BY <1>6, <3>2, SaysWhat
    <3> QED BY <3>1, <3>2
  <2>4. Says(g, m) = Says(f, m)
    BY <2>2, <2>3
  <2> QED BY <1>7, <1>8, <2>4 DEF g
<1>9. CASE n # m
  <2>1. Word(g, n) = Word(f, n)
    BY <1>3, <1>4, <1>9 DEF Word
  <2>2. \A j \in Numbers(f, n) : Skipped(g, j) = Skipped(f, j)
    BY <1>2, <1>5
  <2> QED BY <1>2, <1>7, <1>9, <2>1, <2>2, SaysAlike DEF g
<1> QED BY <1>7, <1>8, <1>9 DEF g

-----------------------------------------------------------------------------
(* What is sent as calls are accepted and applied.                         *)

\* what is subscribed to after a call
LEMMA SubscribedTo ==
  ASSUME NEW c, NEW k, c.kind = k, c.action \in {"ADD", "REMOVE", "SET"},
         NEW S, NEW All, NEW n \in All
  PROVE  n \in Subscribed(S, c.action, c.list, All) <=>
            Wants(c, k, n) \/ (n \in S /\ ~Unwants(c, k, n))
BY DEF Subscribed, Wants, Unwants

\* one call more
LEMMA SendsAppended ==
  ASSUME NEW td \in Seq(Accepted), NEW x \in Accepted, NEW sub, NEW k, NEW n
  PROVE  /\ Sends(sub, td, k, n, 0) <=> n \in sub
         /\ \A j \in 0 .. Len(td) : Sends(sub, Append(td, x), k, n, j) <=> Sends(sub, td, k, n, j)
         /\ Sends(sub, Append(td, x), k, n, Len(td) + 1) <=>
               \/ Wants(x.request, k, n)
               \/ Sends(sub, td, k, n, Len(td)) /\ ~Unwants(x.request, k, n)
<1> DEFINE t == Append(td, x)
<1>1. Len(td) \in Nat /\ t[Len(td) + 1] = x /\ \A i \in 1 .. Len(td) : t[i] = td[i]
  BY EndOf
<1> HIDE DEF t
<1>2. Sends(sub, td, k, n, 0) <=> n \in sub
  BY DEF Sends
<1>3. ASSUME NEW j \in 0 .. Len(td) PROVE Sends(sub, t, k, n, j) <=> Sends(sub, td, k, n, j)
  <2>1. \A i \in 1 .. j : t[i] = td[i] /\ \A l \in i + 1 .. j : t[l] = td[l]
    BY <1>1
  <2> QED BY <2>1 DEF Sends
<1>4. Sends(sub, t, k, n, Len(td) + 1) <=>
               \/ Wants(x.request, k, n)
               \/ Sends(sub, td, k, n, Len(td)) /\ ~Unwants(x.request, k, n)
  <2> DEFINE m == Len(td)
  <2>1. /\ \A l \in 1 .. m : t[l] = td[l]
        /\ \A l \in 1 .. m + 1 : l = m + 1 \/ l \in 1 .. m
        /\ \A i \in 1 .. m : m + 1 \in i + 1 .. m + 1
        /\ m + 1 \in 1 .. m + 1 /\ t[m + 1] = x
    BY <1>1
  <2>2. ASSUME Wants(x.request, k, n) PROVE Sends(sub, t, k, n, m + 1)
    <3>1. \A l \in (m + 1) + 1 .. m + 1 : FALSE
      BY <1>1
    <3> QED BY <2>1, <2>2, <3>1 DEF Sends
  <2>3. ASSUME Sends(sub, td, k, n, m), ~Unwants(x.request, k, n) PROVE Sends(sub, t, k, n, m + 1)
    <3>1. CASE n \in sub /\ \A l \in 1 .. m : ~Unwants(td[l].request, k, n)
      BY <2>1, <2>3, <3>1 DEF Sends
    <3>2. ASSUME NEW i \in 1 .. m, Wants(td[i].request, k, n),
                 \A l \in i + 1 .. m : ~Unwants(td[l].request, k, n)
          PROVE  Sends(sub, t, k, n, m + 1)
      <4>1. \A l \in i + 1 .. m + 1 : ~Unwants(t[l].request, k, n)
        <5> TAKE l \in i + 1 .. m + 1
        <5>1. l = m + 1 \/ (l \in i + 1 .. m /\ l \in 1 .. m)
          <6>1. m \in Nat /\ i \in Nat /\ i >= 1
            BY <1>1
          <6> HIDE DEF m
          <6> QED BY <6>1
        <5> QED BY <2>1, <2>3, <3>2, <5>1
      <4>2. i \in 1 .. m + 1
        BY <1>1
      <4> QED BY <2>1, <3>2, <4>1, <4>2 DEF Sends
    <3> QED BY <2>3, <3>1, <3>2 DEF Sends
  <2>4. ASSUME Sends(sub, t, k, n, m + 1), ~Wants(x.request, k, n)
        PROVE  Sends(sub, td, k, n, m) /\ ~Unwants(x.request, k, n)
    <3>1. CASE n \in sub /\ \A l \in 1 .. m + 1 : ~Unwants(t[l].request, k, n)
      <4>1. \A l \in 1 .. m : l \in 1 .. m + 1
        BY <1>1
      <4> QED BY <2>1, <3>1, <4>1 DEF Sends
    <3>2. ASSUME NEW i \in 1 .. m + 1, Wants(t[i].request, k, n),
                 \A l \in i + 1 .. m + 1 : ~Unwants(t[l].request, k, n)
          PROVE  Sends(sub, td, k, n, m) /\ ~Unwants(x.request, k, n)
      <4>1. i \in 1 .. m
        BY <2>1, <2>4, <3>2
      <4>2. \A l \in i + 1 .. m : l \in i + 1 .. m + 1 /\ l \in 1 .. m
        BY <1>1
      <4> QED BY <2>1, <3>2, <4>1, <4>2 DEF Sends
    <3> QED BY <2>4, <3>1, <3>2 DEF Sends
  <2> QED BY <2>2, <2>3, <2>4
<1> QED BY <1>2, <1>3, <1>4 DEF t

\* the first call is applied
LEMMA SendsTail ==
  ASSUME NEW td \in Seq(Accepted), td # <<>>, NEW sub, NEW new, NEW k, NEW n,
         n \in new <=> \/ Wants(Head(td).request, k, n)
                       \/ n \in sub /\ ~Unwants(Head(td).request, k, n)
  PROVE  \A j \in 0 .. Len(td) - 1 :
            Sends(new, Tail(td), k, n, j) <=> Sends(sub, td, k, n, j + 1)
<1> DEFINE t == Tail(td)
<1>1. /\ Len(td) \in Nat \ {0} /\ Head(td) = td[1]
      /\ \A i \in 1 .. Len(td) - 1 : t[i] = td[i + 1]
  BY FrontOf
<1> HIDE DEF t
<1> SUFFICES ASSUME NEW j \in 0 .. Len(td) - 1
             PROVE  Sends(new, t, k, n, j) <=> Sends(sub, td, k, n, j + 1)
  BY DEF t
<1>2. j \in Nat /\ \A i \in 1 .. j : t[i] = td[i + 1] /\ i + 1 \in 1 .. j + 1
  BY <1>1
<1>3. \A i \in 1 .. j + 1 : i = 1 \/ (i - 1 \in 1 .. j /\ (i - 1) + 1 = i)
  BY <1>2
<1>4. 1 \in 1 .. j + 1
  BY <1>2
<1>5. ASSUME Sends(new, t, k, n, j) PROVE Sends(sub, td, k, n, j + 1)
  <2>1. CASE n \in new /\ \A l \in 1 .. j : ~Unwants(t[l].request, k, n)
    <3>1. \A l \in 1 + 1 .. j + 1 : ~Unwants(td[l].request, k, n)
      <4> TAKE l \in 1 + 1 .. j + 1
      <4>1. l - 1 \in 1 .. j /\ (l - 1) + 1 = l
        BY <1>2
      <4>2. t[l - 1] = td[l]
        BY <1>2, <4>1
      <4> QED BY <2>1, <4>1, <4>2
    <3>2. CASE Wants(td[1].request, k, n)
      BY <1>4, <3>1, <3>2 DEF Sends
    <3>3. CASE n \in sub /\ ~Unwants(td[1].request, k, n)
      <4>1. \A l \in 1 .. j + 1 : l = 1 \/ l \in 1 + 1 .. j + 1
        BY <1>2
      <4> QED BY <3>1, <3>3, <4>1 DEF Sends
    <3> QED BY <1>1, <2>1, <3>2, <3>3
  <2>2. ASSUME NEW i \in 1 .. j, Wants(t[i].request, k, n),
               \A l \in i + 1 .. j : ~Unwants(t[l].request, k, n)
        PROVE  Sends(sub, td, k, n, j + 1)
    <3>1. i + 1 \in 1 .. j + 1 /\ Wants(td[i + 1].request, k, n)
      BY <1>2, <2>2
    <3>2. \A l \in (i + 1) + 1 .. j + 1 : ~Unwants(td[l].request, k, n)
      <4> TAKE l \in (i + 1) + 1 .. j + 1
      <4>1. l - 1 \in i + 1 .. j /\ l - 1 \in 1 .. j /\ (l - 1) + 1 = l
        BY <1>2
      <4> QED BY <1>2, <2>2, <4>1
    <3> QED BY <3>1, <3>2 DEF Sends
  <2> QED BY <1>5, <2>1, <2>2 DEF Sends
<1>6. ASSUME Sends(sub, td, k, n, j + 1) PROVE Sends(new, t, k, n, j)
  <2>1. CASE n \in sub /\ \A l \in 1 .. j + 1 : ~Unwants(td[l].request, k, n)
    <3>1. n \in new
      BY <1>1, <1>4, <2>1
    <3> QED BY <1>2, <2>1, <3>1 DEF Sends
  <2>2. ASSUME NEW i \in 1 .. j + 1, Wants(td[i].request, k, n),
               \A l \in i + 1 .. j + 1 : ~Unwants(td[l].request, k, n)
        PROVE  Sends(new, t, k, n, j)
    <3>1. CASE i = 1
      <4>1. n \in new
        BY <1>1, <2>2, <3>1
      <4>2. \A l \in 1 .. j : l + 1 \in i + 1 .. j + 1
        BY <1>2, <3>1
      <4> QED BY <1>2, <2>2, <4>1, <4>2 DEF Sends
    <3>2. CASE i # 1
      <4>1. i - 1 \in 1 .. j /\ (i - 1) + 1 = i
        BY <1>3, <3>2
      <4>2. Wants(t[i - 1].request, k, n)
        BY <1>2, <2>2, <4>1
      <4>3. \A l \in (i - 1) + 1 .. j : ~Unwants(t[l].request, k, n)
        <5> TAKE l \in (i - 1) + 1 .. j
        <5>1. l + 1 \in i + 1 .. j + 1 /\ l \in 1 .. j
          BY <1>2, <4>1
        <5> QED BY <1>2, <2>2, <5>1
      <4> QED BY <4>1, <4>2, <4>3 DEF Sends
    <3> QED BY <3>1, <3>2
  <2> QED BY <1>6, <2>1, <2>2 DEF Sends
<1> QED BY <1>5, <1>6

\* nothing is sent of a name: while calls that leave it alone are accepted, or
\* are given up
LEMMA QuietCalls ==
  ASSUME NEW td \in Seq(Accepted), NEW x \in Accepted, NEW sub, NEW k, NEW n, NEW r, NEW str, NEW P
  PROVE  /\ Quiet(sub, td, k, n, r, str, P) /\ x.id # r /\ ~Wants(x.request, k, n) =>
               Quiet(sub, Append(td, x), k, n, r, str, P)
         /\ Quiet(sub, Append(td, x), k, n, r, str, P) /\ x.id # r => Quiet(sub, td, k, n, r, str, P)
         /\ ~Sends(sub, Append(td, x), k, n, Len(td) + 1) =>
               Quiet(sub, Append(td, x), k, n, x.id, str, P)
<1> DEFINE t == Append(td, x)
<1>1. /\ Len(td) \in Nat /\ t[Len(td) + 1] = x /\ \A i \in 1 .. Len(td) : t[i] = td[i]
      /\ Len(t) = Len(td) + 1 /\ 0 .. Len(t) = 0 .. Len(td) \cup {Len(t)}
  BY EndOf
<1> HIDE DEF t
<1>2. ASSUME NEW j \in 0 .. Len(td)
      PROVE  /\ Late(t, j, r) <=> Late(td, j, r) /\ x.id # r
             /\ ~Late(t, j, x.id)
  <2>1. j + 1 .. Len(t) = j + 1 .. Len(td) \cup {Len(t)} /\ j \in Nat
    BY <1>1
  <2>2. \A i \in j + 1 .. Len(td) : t[i] = td[i]
    BY <1>1, <2>1
  <2> QED BY <1>1, <2>1, <2>2 DEF Late
<1>3. 0 \in 0 .. Len(td) /\ Len(td) \in 0 .. Len(td) /\ Late(td, Len(td), r)
  BY <1>1 DEF Late
<1>4. /\ \A j \in 0 .. Len(td) : Sends(sub, t, k, n, j) <=> Sends(sub, td, k, n, j)
      /\ Sends(sub, t, k, n, Len(td) + 1) <=>
               \/ Wants(x.request, k, n)
               \/ Sends(sub, td, k, n, Len(td)) /\ ~Unwants(x.request, k, n)
  BY SendsAppended DEF t
<1>5. ASSUME Quiet(sub, td, k, n, r, str, P), x.id # r, ~Wants(x.request, k, n)
      PROVE  Quiet(sub, t, k, n, r, str, P)
  <2>1. ASSUME NEW j \in 0 .. Len(t), Late(t, j, r) PROVE ~Sends(sub, t, k, n, j)
    <3>1. CASE j \in 0 .. Len(td)
      BY <1>2, <1>4, <1>5, <2>1, <3>1 DEF Quiet
    <3>2. CASE j = Len(td) + 1
      BY <1>3, <1>4, <1>5, <3>2 DEF Quiet
    <3> QED BY <1>1, <3>1, <3>2
  <2>2. \A m \in P : ~Behind(str, t, r, m)
    BY <1>2, <1>3, <1>5 DEF Quiet, Behind
  <2> QED BY <2>1, <2>2 DEF Quiet
<1>6. ASSUME Quiet(sub, t, k, n, r, str, P), x.id # r PROVE Quiet(sub, td, k, n, r, str, P)
  <2>1. ASSUME NEW j \in 0 .. Len(td), Late(td, j, r) PROVE ~Sends(sub, td, k, n, j)
    BY <1>1, <1>2, <1>4, <1>6, <2>1 DEF Quiet
  <2>2. \A m \in P : ~Behind(str, td, r, m)
    BY <1>2, <1>3, <1>6 DEF Quiet, Behind
  <2> QED BY <2>1, <2>2 DEF Quiet
<1>7. ASSUME ~Sends(sub, t, k, n, Len(td) + 1) PROVE Quiet(sub, t, k, n, x.id, str, P)
  BY <1>1, <1>2, <1>3, <1>7 DEF Quiet, Behind
<1> QED BY <1>5, <1>6, <1>7 DEF t

\* ... while the first call is applied
LEMMA QuietApplied ==
  ASSUME NEW td \in Seq(Accepted), td # <<>>, NEW sub, NEW new, NEW k, NEW n, NEW r,
         NEW str \in Seq(Blocks), NEW P \in SUBSET (DOMAIN str), Quiet(sub, td, k, n, r, str, P),
         n \in new <=> \/ Wants(Head(td).request, k, n)
                       \/ n \in sub /\ ~Unwants(Head(td).request, k, n)
  PROVE  Quiet(new, Tail(td), k, n, r, Append(str, CommandBlock(Head(td).id)), P)
<1> DEFINE t == Tail(td)
           b == CommandBlock(Head(td).id)
           s == Append(str, b)
<1>1. /\ Len(td) \in Nat \ {0} /\ Head(td) = td[1] /\ Len(t) = Len(td) - 1
      /\ Head(td) \in Accepted /\ \A i \in 1 .. Len(td) - 1 : t[i] = td[i + 1]
  BY FrontOf
<1>2. b \in Blocks /\ b.id = Head(td).id
  <2>1. Head(td).id \in Nat
    BY <1>1 DEF Accepted
  <2> QED BY <2>1, CommandBlocks
<1>3. /\ Len(str) \in Nat /\ DOMAIN str = 1 .. Len(str) /\ Len(s) = Len(str) + 1
      /\ s[Len(str) + 1] = b /\ \A i \in 1 .. Len(str) : s[i] = str[i]
  <2> HIDE DEF b
  <2> QED BY <1>2, EndOf
<1>4. \A j \in 0 .. Len(t) : Sends(new, t, k, n, j) <=> Sends(sub, td, k, n, j + 1)
  BY <1>1, SendsTail
<1> HIDE DEF t, s, b
<1>5. ASSUME NEW j \in 0 .. Len(t) PROVE Late(t, j, r) <=> Late(td, j + 1, r)
  <2>1. \A i \in (j + 1) + 1 .. Len(td) :
           i - 1 \in j + 1 .. Len(t) /\ i - 1 \in 1 .. Len(td) - 1 /\ (i - 1) + 1 = i
    BY <1>1
  <2>2. \A i \in j + 1 .. Len(t) : i + 1 \in (j + 1) + 1 .. Len(td) /\ i \in 1 .. Len(td) - 1
    BY <1>1
  <2>3. ASSUME Late(t, j, r) PROVE Late(td, j + 1, r)
    <3>1. \A i \in (j + 1) + 1 .. Len(td) : t[i - 1] = td[i]
      BY <1>1, <2>1
    <3> QED BY <2>1, <2>3, <3>1 DEF Late
  <2>4. ASSUME Late(td, j + 1, r) PROVE Late(t, j, r)
    BY <1>1, <2>2, <2>4 DEF Late
  <2> QED BY <2>3, <2>4
<1>6. ASSUME NEW j \in 0 .. Len(t), Late(t, j, r) PROVE ~Sends(new, t, k, n, j)
  <2>1. j + 1 \in 0 .. Len(td)
    BY <1>1
  <2> QED BY <1>4, <1>5, <1>6, <2>1 DEF Quiet
<1>7. ASSUME NEW m \in P, Behind(s, t, r, m) PROVE FALSE
  <2>1. m \in 1 .. Len(str) /\ Len(str) + 1 \in m + 1 .. Len(s)
    BY <1>3
  <2>2. td[1].id # r
    BY <1>1, <1>3, <1>7, <2>1 DEF Behind, b
  <2>3. Late(td, 0, r)
    <3>1. 0 \in 0 .. Len(t) /\ 0 + 1 = 1
      BY <1>1
    <3>2. Late(td, 0 + 1, r)
      BY <1>5, <1>7, <3>1 DEF Behind
    <3>3. \A i \in 0 + 1 .. Len(td) : i = 1 \/ i \in (0 + 1) + 1 .. Len(td)
      BY <1>1
    <3> QED BY <2>2, <3>2, <3>3 DEF Late
  <2>4. \A i \in m + 1 .. Len(str) : str[i] # CommandBlock(r)
    <3>1. \A i \in m + 1 .. Len(str) : i \in m + 1 .. Len(s) /\ i \in 1 .. Len(str)
      BY <1>3, <2>1
    <3> QED BY <1>3, <1>7, <3>1 DEF Behind
  <2> QED BY <1>7, <2>3, <2>4 DEF Quiet, Behind
<1> QED BY <1>6, <1>7 DEF Quiet, t, s, b

\* ... while other blocks are sent
LEMMA QuietSent ==
  ASSUME NEW td \in Seq(Accepted), NEW sub, NEW k, NEW n, NEW r, NEW str \in Seq(Blocks),
         NEW P \in SUBSET (DOMAIN str), Quiet(sub, td, k, n, r, str, P), NEW b \in Blocks,
         NEW Q \in SUBSET (P \cup {Len(str) + 1}), Len(str) + 1 \in Q => n \in sub
  PROVE  Quiet(sub, td, k, n, r, Append(str, b), Q)
<1> DEFINE s == Append(str, b)
<1>1. /\ Len(str) \in Nat /\ DOMAIN str = 1 .. Len(str) /\ Len(s) = Len(str) + 1
      /\ \A i \in 1 .. Len(str) : s[i] = str[i]
  BY EndOf
<1> HIDE DEF s
<1>2. ASSUME NEW m \in P PROVE ~Behind(s, td, r, m)
  <2>1. m \in 1 .. Len(str)
    BY <1>1
  <2>2. \A i \in m + 1 .. Len(str) : i \in m + 1 .. Len(s) /\ i \in 1 .. Len(str)
    BY <1>1, <2>1
  <2> QED BY <1>1, <1>2, <2>2 DEF Quiet, Behind
<1>3. ASSUME n \in sub PROVE ~Behind(s, td, r, Len(str) + 1)
  <2>1. Sends(sub, td, k, n, 0) /\ 0 \in 0 .. Len(td)
    BY <1>3, SendsAppended DEF Sends
  <2> QED BY <2>1 DEF Quiet, Behind
<1>4. \A m \in Q : ~Behind(s, td, r, m)
  BY <1>2, <1>3
<1> QED BY <1>4 DEF Quiet, s

\* ... and while blocks are read, be it the end of call r itself
LEMMA QuietRead ==
  ASSUME NEW td \in Seq(Accepted), NEW sub, NEW k, NEW n, NEW r, NEW str \in Seq(Blocks),
         str # <<>>, NEW P \in SUBSET (DOMAIN str), Quiet(sub, td, k, n, r, str, P),
         NEW Q \in SUBSET (DOMAIN Tail(str)), \A m \in Q : m + 1 \in P
  PROVE  /\ Quiet(sub, td, k, n, r, Tail(str), Q)
         /\ (\A i \in DOMAIN td : td[i].id # r) /\ (\A i \in 2 .. Len(str) : str[i] # CommandBlock(r))
            => \A q : Quiet(sub, td, k, n, q, Tail(str), Q)
<1> DEFINE s == Tail(str)
<1>1. /\ Len(str) \in Nat \ {0} /\ DOMAIN s = 1 .. Len(str) - 1 /\ Len(s) = Len(str) - 1
      /\ \A i \in 1 .. Len(str) - 1 : s[i] = str[i + 1]
  BY FrontOf
<1> HIDE DEF s
<1>2. \A m \in Q : m \in 1 .. Len(str) - 1 /\ m + 1 \in P
  BY <1>1 DEF s
<1>3. ASSUME NEW m \in Q PROVE ~Behind(s, td, r, m)
  <2>1. \A i \in (m + 1) + 1 .. Len(str) : i - 1 \in m + 1 .. Len(s) /\ s[i - 1] = str[i]
    BY <1>1, <1>2
  <2>2. Behind(s, td, r, m) => Behind(str, td, r, m + 1)
    BY <2>1 DEF Behind
  <2> QED BY <1>2, <2>2 DEF Quiet
<1>4. ASSUME \A i \in DOMAIN td : td[i].id # r, \A i \in 2 .. Len(str) : str[i] # CommandBlock(r),
             NEW q
      PROVE  Quiet(sub, td, k, n, q, s, Q)
  <2>1. DOMAIN td = 1 .. Len(td) /\ Len(td) \in Nat
    OBVIOUS
  <2>2. \A j \in 0 .. Len(td) : Late(td, j, r)
    BY <1>4, <2>1 DEF Late
  <2>3. \A j \in 0 .. Len(td) : ~Sends(sub, td, k, n, j)
    BY <2>2 DEF Quiet
  <2>4. ASSUME NEW m \in Q PROVE FALSE
    <3>1. \A i \in (m + 1) + 1 .. Len(str) : i \in 2 .. Len(str)
      BY <1>1, <1>2
    <3>2. Behind(str, td, r, m + 1)
      BY <1>4, <2>1, <2>2, <3>1 DEF Behind
    <3> QED BY <1>2, <3>2 DEF Quiet
  <2> QED BY <2>3, <2>4 DEF Quiet
<1> QED BY <1>3, <1>4 DEF Quiet, s

-----------------------------------------------------------------------------
(* How many resets came before what next() may still read.                 *)

\* resets are counted on when a call is accepted, and from the next one on when
\* the first is applied
LEMMA ResetsToKept ==
  ASSUME NEW td \in Seq(Accepted)
  PROVE  /\ ResetsTo(td, 0) = 0 /\ \A j \in 0 .. Len(td) : ResetsTo(td, j) \in Int
         /\ \A x \in Accepted :
               LET d == IF x.request.kind = "reset" THEN 1 ELSE 0 IN
               /\ \A j \in 0 .. Len(td) : ResetsTo(Append(td, x), j) = ResetsTo(td, j)
               /\ ResetsTo(Append(td, x), Len(td) + 1) = ResetsTo(td, Len(td)) + d
         /\ td # <<>> =>
               LET d == IF Head(td).request.kind = "reset" THEN 1 ELSE 0 IN
               \A j \in 0 .. Len(td) - 1 : ResetsTo(td, j + 1) = ResetsTo(Tail(td), j) + d
<1>1. /\ Len(td) \in Nat /\ 1 \in 1 .. Len(td) + 1
      /\ \A j \in 0 .. Len(td) : j + 1 \in 1 .. Len(td) + 1 /\ j + 1 \in Nat \ {0}
  OBVIOUS
<1>2. /\ \A i \in Nat \ {0} : ResetsFrom(td, i) \in Nat
      /\ ResetsFrom(td, Len(td) + 1) = 0
  BY ResetsFromPlace
<1>3. ResetsTo(td, 0) = 0 /\ \A j \in 0 .. Len(td) : ResetsTo(td, j) \in Int
  <2>1. 0 + 1 = 1 /\ ResetsFrom(td, 1) \in Nat
    BY <1>2
  <2> QED BY <1>1, <1>2, <2>1 DEF ResetsTo
<1>4. ASSUME NEW x \in Accepted, NEW d, d = IF x.request.kind = "reset" THEN 1 ELSE 0
      PROVE  /\ \A j \in 0 .. Len(td) : ResetsTo(Append(td, x), j) = ResetsTo(td, j)
             /\ ResetsTo(Append(td, x), Len(td) + 1) = ResetsTo(td, Len(td)) + d
  <2>1. \A i \in 1 .. Len(td) + 1 : ResetsFrom(Append(td, x), i) = ResetsFrom(td, i) + d
    BY <1>4, ResetsFromAppended
  <2>2. ResetsFrom(Append(td, x), (Len(td) + 1) + 1) = 0
    <3>1. Append(td, x) \in Seq(Accepted) /\ Len(Append(td, x)) = Len(td) + 1
      BY EndOf
    <3> QED BY <3>1, ResetsFromPlace
  <2>3. d \in Int
    BY <1>4
  <2>4. ASSUME NEW j \in 0 .. Len(td) PROVE ResetsTo(Append(td, x), j) = ResetsTo(td, j)
    <3>1. /\ ResetsFrom(td, 1) \in Nat /\ ResetsFrom(td, j + 1) \in Nat
          /\ ResetsFrom(Append(td, x), 1) = ResetsFrom(td, 1) + d
          /\ ResetsFrom(Append(td, x), j + 1) = ResetsFrom(td, j + 1) + d
      BY <1>1, <1>2, <2>1
    <3> QED BY <2>3, <3>1 DEF ResetsTo
  <2>5. ResetsTo(Append(td, x), Len(td) + 1) = ResetsTo(td, Len(td)) + d
    <3>1. /\ ResetsFrom(td, 1) \in Nat /\ ResetsFrom(td, Len(td) + 1) = 0
          /\ ResetsFrom(Append(td, x), 1) = ResetsFrom(td, 1) + d
      BY <1>1, <1>2, <2>1
    <3> QED BY <2>2, <2>3, <3>1 DEF ResetsTo
  <2> QED BY <2>4, <2>5
<1>5. ASSUME td # <<>>, NEW d, d = IF Head(td).request.kind = "reset" THEN 1 ELSE 0,
             NEW j \in 0 .. Len(td) - 1
      PROVE  ResetsTo(td, j + 1) = ResetsTo(Tail(td), j) + d
  <2>1. ResetsFrom(Tail(td), 1) = ResetsFrom(td, 1) - d
    BY <1>5, ResetsFromTail
  <2>2. ResetsFrom(Tail(td), j + 1) = ResetsFrom(td, (j + 1) + 1)
    <3>1. j + 1 \in 1 .. Len(td)
      BY <1>1
    <3> QED BY <1>5, <3>1, ResetsFromTail
  <2>3. ResetsFrom(td, 1) \in Nat /\ ResetsFrom(td, (j + 1) + 1) \in Nat /\ d \in Int
    BY <1>2, <1>5
  <2> QED BY <2>1, <2>2, <2>3 DEF ResetsTo
<1> QED BY <1>3, <1>4, <1>5

\* what a block carries, by its kind: a position, or a name
LEMMA BlocksCarry ==
  /\ \A b \in Blocks : b.kind = "message" => b.position \in Nat
  /\ \A b \in Blocks : b.kind = "entity" => b.name \in Entities
  /\ \A b \in Blocks : b.kind = "type" => b.name \in Types
BY BlockTypes

\* the bound holds for fewer commands
LEMMA AtMostFewer ==
  ASSUME NEW str \in Seq(Blocks), NEW td \in Seq(Accepted), NEW pos \in Nat,
         NEW ids, NEW n \in Int, AtMost(str, td, pos, ids, n),
         NEW few, \A i \in Nat : i \in few => i \in ids, NEW m \in Int, n <= m
  PROVE  AtMost(str, td, pos, few, m)
<1>1. DOMAIN str = 1 .. Len(str) /\ Len(str) \in Nat
  OBVIOUS
<1>2. \A i \in DOMAIN str : str[i] \in Blocks /\ (str[i].kind = "command" => str[i].id \in Nat)
  BY CommandBlocks
<1>3. ASSUME NEW k \in 1 .. Len(str) + 1, OnlyBefore(str, k, few) PROVE OnlyBefore(str, k, ids)
  <2>1. \A i \in 1 .. k - 1 : i \in DOMAIN str
    BY <1>1
  <2> QED BY <1>2, <1>3, <2>1 DEF OnlyBefore
<1>4. ASSUME NEW k \in DOMAIN str, str[k].kind = "message", OnlyBefore(str, k, few)
      PROVE  str[k].position <= m
  <2>1. k \in 1 .. Len(str) + 1 /\ str[k].position \in Nat
    <3>1. k \in 1 .. Len(str) + 1
      BY <1>1
    <3> QED BY <1>2, <1>4, <3>1, BlocksCarry
  <2>2. str[k].position <= n
    BY <1>3, <1>4, <2>1 DEF AtMost
  <2> QED BY <2>1, <2>2
<1>5. ASSUME NEW j \in 0 .. Len(td), OnlyBefore(str, Len(str) + 1, few),
             \A i \in 1 .. j : td[i].id \in few
      PROVE  pos + ResetsTo(td, j) <= m
  <2>1. \A i \in 1 .. j : i \in DOMAIN td /\ td[i].id \in Nat
    <3>1. \A i \in 1 .. j : i \in DOMAIN td /\ td[i] \in Accepted
      OBVIOUS
    <3> QED BY <3>1 DEF Accepted
  <2>2. Len(str) + 1 \in 1 .. Len(str) + 1
    BY <1>1
  <2>3. pos + ResetsTo(td, j) <= n
    BY <1>3, <1>5, <2>1, <2>2 DEF AtMost
  <2>4. ResetsTo(td, j) \in Int
    BY ResetsToKept
  <2> QED BY <2>3, <2>4
<1> QED BY <1>4, <1>5 DEF AtMost

\* ... while calls are accepted, be they expected or not
LEMMA AtMostAccepted ==
  ASSUME NEW str \in Seq(Blocks), NEW td \in Seq(Accepted), NEW pos \in Nat,
         NEW ids, NEW n \in Int, AtMost(str, td, pos, ids, n), NEW x \in Accepted
  PROVE  /\ x.id \notin ids => AtMost(str, Append(td, x), pos, ids, n)
         /\ (\A i \in DOMAIN td : td[i].id # x.id)
            /\ (\A i \in DOMAIN str : str[i].kind = "command" => str[i].id # x.id)
            => AtMost(str, Append(td, x), pos, ids \cup {x.id},
                      n + (IF x.request.kind = "reset" THEN 1 ELSE 0))
<1> DEFINE t == Append(td, x)
           d == IF x.request.kind = "reset" THEN 1 ELSE 0
<1>1. /\ Len(td) \in Nat /\ Len(t) = Len(td) + 1 /\ t[Len(td) + 1] = x
      /\ DOMAIN td = 1 .. Len(td) /\ \A i \in 1 .. Len(td) : t[i] = td[i]
  BY EndOf
<1>2. /\ \A j \in 0 .. Len(td) : ResetsTo(t, j) = ResetsTo(td, j) /\ ResetsTo(td, j) \in Int
      /\ ResetsTo(t, Len(td) + 1) = ResetsTo(td, Len(td)) + d
      /\ d \in {0, 1}
  BY ResetsToKept
<1> HIDE DEF t, d
<1>3. \A j \in 0 .. Len(t) : j \in 0 .. Len(td) \/ j = Len(td) + 1
  BY <1>1
<1>4. ASSUME x.id \notin ids PROVE AtMost(str, t, pos, ids, n)
  <2>1. ASSUME NEW j \in 0 .. Len(t), OnlyBefore(str, Len(str) + 1, ids),
               \A i \in 1 .. j : t[i].id \in ids
        PROVE  pos + ResetsTo(t, j) <= n
    <3>1. j # Len(td) + 1
      <4>1. Len(td) + 1 \in 1 .. Len(td) + 1
        BY <1>1
      <4> QED BY <1>1, <1>4, <2>1, <4>1
    <3>2. j \in 0 .. Len(td) /\ \A i \in 1 .. j : t[i] = td[i]
      BY <1>1, <1>3, <3>1
    <3> QED BY <1>2, <2>1, <3>2 DEF AtMost
  <2> QED BY <2>1 DEF AtMost
<1>5. ASSUME \A i \in DOMAIN td : td[i].id # x.id,
             \A i \in DOMAIN str : str[i].kind = "command" => str[i].id # x.id
      PROVE  AtMost(str, t, pos, ids \cup {x.id}, n + d)
  <2>1. ASSUME NEW k \in 1 .. Len(str) + 1, OnlyBefore(str, k, ids \cup {x.id})
        PROVE  OnlyBefore(str, k, ids)
    <3>1. \A i \in 1 .. k - 1 : i \in DOMAIN str
      OBVIOUS
    <3> QED BY <1>5, <2>1, <3>1 DEF OnlyBefore
  <2>2. ASSUME NEW k \in DOMAIN str, str[k].kind = "message", OnlyBefore(str, k, ids \cup {x.id})
        PROVE  str[k].position <= n + d
    <3>1. k \in 1 .. Len(str) + 1 /\ str[k] \in Blocks
      OBVIOUS
    <3>2. str[k].position <= n /\ str[k].position \in Nat
      <4>1. str[k].position \in Nat
        BY <2>2, <3>1, BlocksCarry
      <4> QED BY <2>1, <2>2, <4>1 DEF AtMost
    <3> QED BY <1>2, <3>2
  <2>3. ASSUME NEW j \in 0 .. Len(t), OnlyBefore(str, Len(str) + 1, ids \cup {x.id}),
               \A i \in 1 .. j : t[i].id \in ids \cup {x.id}
        PROVE  pos + ResetsTo(t, j) <= n + d
    <3>1. OnlyBefore(str, Len(str) + 1, ids)
      <4>1. Len(str) + 1 \in 1 .. Len(str) + 1
        OBVIOUS
      <4> QED BY <2>1, <2>3, <4>1
    <3>2. CASE j \in 0 .. Len(td)
      <4>1. \A i \in 1 .. j : i \in DOMAIN td /\ t[i] = td[i]
        BY <1>1, <3>2
      <4>2. \A i \in 1 .. j : td[i].id \in ids
        BY <1>5, <2>3, <4>1
      <4>3. pos + ResetsTo(td, j) <= n
        BY <3>1, <3>2, <4>2 DEF AtMost
      <4> QED BY <1>2, <3>2, <4>3
    <3>3. CASE j = Len(td) + 1
      <4>1. \A i \in 1 .. Len(td) : i \in 1 .. j /\ i \in DOMAIN td /\ t[i] = td[i]
        BY <1>1, <3>3
      <4>2. \A i \in 1 .. Len(td) : td[i].id \in ids
        BY <1>5, <2>3, <4>1
      <4>3. Len(td) \in 0 .. Len(td)
        BY <1>1
      <4>4. pos + ResetsTo(td, Len(td)) <= n
        BY <3>1, <4>2, <4>3 DEF AtMost
      <4> QED BY <1>2, <3>3, <4>3, <4>4
    <3> QED BY <1>3, <3>2, <3>3
  <2> QED BY <2>2, <2>3 DEF AtMost
<1> QED BY <1>4, <1>5 DEF t, d

\* ... while the first call is applied
LEMMA AtMostApplied ==
  ASSUME NEW str \in Seq(Blocks), NEW td \in Seq(Accepted), NEW pos \in Nat,
         NEW ids, NEW n \in Int, AtMost(str, td, pos, ids, n), td # <<>>
  PROVE  AtMost(Append(str, CommandBlock(Head(td).id)), Tail(td),
                pos + (IF Head(td).request.kind = "reset" THEN 1 ELSE 0), ids, n)
<1> DEFINE t == Tail(td)
           b == CommandBlock(Head(td).id)
           s == Append(str, b)
           d == IF Head(td).request.kind = "reset" THEN 1 ELSE 0
<1>1. /\ Len(td) \in Nat \ {0} /\ Head(td) = td[1] /\ Len(t) = Len(td) - 1
      /\ Head(td) \in Accepted /\ \A i \in 1 .. Len(td) - 1 : t[i] = td[i + 1]
  BY FrontOf
<1>2. b \in Blocks /\ b.kind = "command" /\ b.id = Head(td).id
  <2>1. Head(td).id \in Nat
    BY <1>1 DEF Accepted
  <2> QED BY <2>1, CommandBlocks
<1>3. /\ Len(str) \in Nat /\ DOMAIN str = 1 .. Len(str) /\ Len(s) = Len(str) + 1
      /\ DOMAIN s = 1 .. Len(str) + 1
      /\ s[Len(str) + 1] = b /\ \A i \in 1 .. Len(str) : s[i] = str[i]
  <2> HIDE DEF b
  <2> QED BY <1>2, EndOf
<1>4. /\ \A j \in 0 .. Len(td) - 1 : ResetsTo(td, j + 1) = ResetsTo(t, j) + d
      /\ \A j \in 0 .. Len(t) : ResetsTo(t, j) \in Int
      /\ d \in Int
  <2>1. t \in Seq(Accepted)
    BY FrontOf
  <2>2. \A j \in 0 .. Len(td) - 1 : ResetsTo(td, j + 1) = ResetsTo(t, j) + d
    BY ResetsToKept
  <2> HIDE DEF t
  <2>3. \A j \in 0 .. Len(t) : ResetsTo(t, j) \in Int
    BY <2>1, ResetsToKept
  <2> QED BY <2>2, <2>3
<1> HIDE DEF t, s, b, d
<1>5. ASSUME NEW k \in DOMAIN s, s[k].kind = "message", OnlyBefore(s, k, ids)
      PROVE  s[k].position <= n
  <2>1. k \in 1 .. Len(str)
    BY <1>2, <1>3, <1>5
  <2>2. \A i \in 1 .. k - 1 : s[i] = str[i]
    BY <1>3, <2>1
  <2>3. OnlyBefore(str, k, ids)
    BY <1>5, <2>2 DEF OnlyBefore
  <2> QED BY <1>3, <1>5, <2>1, <2>3 DEF AtMost
<1>6. ASSUME NEW j \in 0 .. Len(t), OnlyBefore(s, Len(s) + 1, ids),
             \A i \in 1 .. j : t[i].id \in ids
      PROVE  (pos + d) + ResetsTo(t, j) <= n
  <2>1. \A i \in 1 .. Len(str) : i \in 1 .. (Len(s) + 1) - 1 /\ s[i] = str[i]
    BY <1>3
  <2>2. OnlyBefore(str, Len(str) + 1, ids)
    <3>1. (Len(str) + 1) - 1 = Len(str)
      BY <1>3
    <3> QED BY <1>6, <2>1, <3>1 DEF OnlyBefore
  <2>3. td[1].id \in ids
    <3>1. Len(str) + 1 \in 1 .. (Len(s) + 1) - 1
      BY <1>3
    <3> QED BY <1>1, <1>2, <1>3, <1>6, <3>1 DEF OnlyBefore
  <2>4. \A i \in 1 .. j + 1 : td[i].id \in ids
    <3> TAKE i \in 1 .. j + 1
    <3>1. CASE i = 1
      BY <2>3, <3>1
    <3>2. CASE i # 1
      <4>1. i - 1 \in 1 .. j /\ i - 1 \in 1 .. Len(td) - 1 /\ (i - 1) + 1 = i
        BY <1>1, <3>2
      <4> QED BY <1>1, <1>6, <4>1
    <3> QED BY <3>1, <3>2
  <2>5. j + 1 \in 0 .. Len(td) /\ j \in 0 .. Len(td) - 1
    BY <1>1
  <2>6. pos + ResetsTo(td, j + 1) <= n
    BY <2>2, <2>4, <2>5 DEF AtMost
  <2> QED BY <1>4, <2>5, <2>6
<1> QED BY <1>5, <1>6 DEF AtMost, t, s, b, d

\* ... while other blocks are sent
LEMMA AtMostSent ==
  ASSUME NEW str \in Seq(Blocks), NEW td \in Seq(Accepted), NEW pos \in Nat,
         NEW ids, NEW n \in Int, AtMost(str, td, pos, ids, n),
         NEW b \in Blocks, b.kind # "command", b.kind = "message" => b.position = pos
  PROVE  AtMost(Append(str, b), td, pos, ids, n)
<1> DEFINE s == Append(str, b)
<1>1. /\ Len(str) \in Nat /\ DOMAIN str = 1 .. Len(str) /\ Len(s) = Len(str) + 1
      /\ DOMAIN s = 1 .. Len(str) + 1
      /\ s[Len(str) + 1] = b /\ \A i \in 1 .. Len(str) : s[i] = str[i]
  BY EndOf
<1> HIDE DEF s
<1>2. ASSUME NEW k \in 1 .. Len(str) + 1, OnlyBefore(s, k, ids) PROVE OnlyBefore(str, k, ids)
  <2>1. \A i \in 1 .. k - 1 : s[i] = str[i]
    BY <1>1
  <2> QED BY <1>2, <2>1 DEF OnlyBefore
<1>3. ASSUME OnlyBefore(s, Len(s) + 1, ids) PROVE OnlyBefore(str, Len(str) + 1, ids)
  <2>1. \A i \in 1 .. (Len(str) + 1) - 1 : i \in 1 .. (Len(s) + 1) - 1
    BY <1>1
  <2>2. OnlyBefore(s, Len(str) + 1, ids)
    BY <1>3, <2>1 DEF OnlyBefore
  <2>3. Len(str) + 1 \in 1 .. Len(str) + 1
    BY <1>1
  <2> QED BY <1>2, <2>2, <2>3
<1>4. ASSUME NEW k \in DOMAIN s, s[k].kind = "message", OnlyBefore(s, k, ids)
      PROVE  s[k].position <= n
  <2>1. OnlyBefore(str, k, ids)
    BY <1>1, <1>2, <1>4
  <2>2. CASE k = Len(str) + 1
    <3>1. 0 \in 0 .. Len(td) /\ ResetsTo(td, 0) = 0 /\ \A i \in 1 .. 0 : td[i].id \in ids
      BY ResetsToKept
    <3>2. pos + ResetsTo(td, 0) <= n
      BY <2>1, <2>2, <3>1 DEF AtMost
    <3> QED BY <1>1, <1>4, <2>2, <3>1, <3>2
  <2>3. CASE k # Len(str) + 1
    <3>1. k \in DOMAIN str /\ s[k] = str[k]
      BY <1>1, <2>3
    <3> QED BY <1>4, <2>1, <3>1 DEF AtMost
  <2> QED BY <2>2, <2>3
<1> QED BY <1>3, <1>4 DEF AtMost, s

\* ... and while blocks are read
LEMMA AtMostRead ==
  ASSUME NEW str \in Seq(Blocks), str # <<>>, NEW td \in Seq(Accepted), NEW pos \in Nat,
         NEW ids, NEW n \in Int, AtMost(str, td, pos, ids, n),
         Head(str).kind = "command" => Head(str).id \in ids
  PROVE  AtMost(Tail(str), td, pos, ids, n)
<1> DEFINE s == Tail(str)
<1>1. /\ Len(str) \in Nat \ {0} /\ DOMAIN str = 1 .. Len(str) /\ Head(str) = str[1]
      /\ DOMAIN s = 1 .. Len(str) - 1 /\ Len(s) = Len(str) - 1
      /\ \A i \in 1 .. Len(str) - 1 : s[i] = str[i + 1]
  BY FrontOf
<1> HIDE DEF s
<1>2. ASSUME NEW k \in 1 .. Len(str), OnlyBefore(s, k, ids) PROVE OnlyBefore(str, k + 1, ids)
  <2>1. ASSUME NEW i \in 1 .. (k + 1) - 1, str[i].kind = "command" PROVE str[i].id \in ids
    <3>1. CASE i = 1
      BY <1>1, <2>1, <3>1
    <3>2. CASE i # 1
      <4>1. i - 1 \in 1 .. k - 1 /\ i - 1 \in 1 .. Len(str) - 1 /\ (i - 1) + 1 = i
        BY <1>1, <3>2
      <4> QED BY <1>1, <1>2, <2>1, <4>1 DEF OnlyBefore
    <3> QED BY <3>1, <3>2
  <2> QED BY <2>1 DEF OnlyBefore
<1>3. ASSUME NEW k \in DOMAIN s, s[k].kind = "message", OnlyBefore(s, k, ids)
      PROVE  s[k].position <= n
  <2>1. k \in 1 .. Len(str) /\ k + 1 \in DOMAIN str /\ s[k] = str[k + 1]
    BY <1>1
  <2> QED BY <1>2, <1>3, <2>1 DEF AtMost
<1>4. ASSUME OnlyBefore(s, Len(s) + 1, ids) PROVE OnlyBefore(str, Len(str) + 1, ids)
  <2>1. Len(s) + 1 \in 1 .. Len(str) /\ (Len(s) + 1) + 1 = Len(str) + 1
    BY <1>1
  <2> QED BY <1>2, <1>4, <2>1
<1> QED BY <1>3, <1>4 DEF AtMost, s

-----------------------------------------------------------------------------
(* What a call changes.                                                    *)

\* a call that is given everything names nothing and does not say SET; what the
\* server takes it for is what it is
LEMMA CallsAre ==
  ASSUME NEW c \in Calls
  PROVE  /\ c.kind = "reset" \/ c.kind \in Kinds
         /\ c.action \in {"ADD", "REMOVE", "SET"} /\ Request(c) = c
         /\ c.kind \in Kinds => /\ c.list.all \in BOOLEAN
                                /\ c.list.names \in SUBSET AskedNames(c.kind)
                                /\ c.list.all => c.list.names = {} /\ c.action # "SET"
<1>1. /\ \A S : \A l \in Lists(S) : l.all = FALSE /\ l.names # {} /\ l.names \in SUBSET S
      /\ Everything.all = TRUE /\ Everything.names = {}
      /\ Only({}).all = FALSE /\ Only({}).names = {}
  BY DEF Lists, Only, Everything
<1>2. CASE c.kind = "entities"
  <2>1. \/ c.action \in {"ADD", "REMOVE"} /\ c.list \in Lists(Entities) \cup {Everything}
        \/ c.action = "SET" /\ c.list \in Lists(Entities)
    BY <1>2 DEF Calls
  <2>2. c.list.names = {} => c.list = Everything
    BY <1>1, <2>1
  <2>3. c.list = Everything => [c EXCEPT !.list = Everything] = c
    BY <1>2 DEF Calls
  <2> QED BY <1>1, <1>2, <2>1, <2>2, <2>3 DEF Kinds, AskedNames, Request
<1>3. CASE c.kind = "types"
  <2>1. \/ /\ c.action \in {"ADD", "REMOVE"}
           /\ c.list \in Lists(Types \ SystemTypes) \cup {Everything}
        \/ c.action = "SET" /\ c.list \in Lists(Types \ SystemTypes) \cup {Only({})}
    BY <1>3 DEF Calls
  <2> QED BY <1>1, <1>3, <2>1 DEF Kinds, AskedNames, Request
<1>4. CASE c.kind = "reset"
  <2>1. c = [kind |-> "reset", action |-> "SET", list |-> Only({})]
    BY <1>4 DEF Calls
  <2> QED BY <1>4, <2>1 DEF Kinds, Request
<1>5. c.kind \in {"entities", "types", "reset"}
  BY DEF Calls
<1> QED BY <1>2, <1>3, <1>4, <1>5

\* the call being made is one the application can make
LEMMA CallStays ==
  ASSUME TypeInv, CallInv, [Next]_vars
  PROVE  CallInv'
<1> USE DEF callVars, serverVars, readerVars, cursorVars
<1>1. ASSUME NEW c \in Calls, BeginCall(c) PROVE CallInv'
  BY <1>1 DEF BeginCall, CallInv
<1>2. CASE RequestFails \/ RequestAnswered \/ AnswerMalformed
  <2>1. caller' = Free
    BY <1>2 DEF RequestFails, RequestAnswered, AnswerMalformed, EndCall
  <2> QED BY <2>1 DEF CallInv, Free
<1>3. CASE AcceptCall
  <2>1. caller' = [pc |-> "answered", call |-> caller.call, id |-> nextId]
        /\ caller.pc = "asking"
    BY <1>3 DEF AcceptCall
  <2> QED BY <2>1 DEF CallInv
<1>4. CASE RegisterUserMessageType
  BY <1>4 DEF RegisterUserMessageType, CallInv
<1>5. CASE \/ ApplyCall \/ SendMessage \/ SendTerminator
           \/ \E n \in Entities : SendEntity(n)
           \/ \E n \in Types : SendType(n)
  BY <1>5 DEF ApplyCall, SendMessage, SendTerminator, SendEntity, SendType, Send, CallInv
<1>6. CASE NextStep
  BY <1>6 DEF NextStep, CallNext, ReadEntity, ReadMessageType, ReadCommand, ReadTerminator, End,
              ReadHeader, Filter, CallInv
<1>7. CASE UNCHANGED vars
  BY <1>7 DEF vars, CallInv
<1> QED BY <1>1, <1>2, <1>3, <1>4, <1>5, <1>6, <1>7 DEF Next, CallStep, ServerStep

NamesOf(k) == IF k = "entities" THEN Entities ELSE Types

\* what is asked for after a call
LEMMA AskedFor ==
  ASSUME TypeInv, NEW c \in CallTypes, NEW k \in Kinds, NEW n \in NamesOf(k)
  PROVE  /\ n \in AskFor(c)[k] <=> Wants(c, k, n) \/ (n \in asked[k] /\ ~Unwants(c, k, n))
         /\ n \notin AskFor(c).unsure =>
               n \notin asked.unsure
               /\ (c.kind = k => n \notin Wavering(copy[shadow][k], c.action, c.list))
         /\ AskFor(c).stuck = asked.stuck
<1>1. /\ asked \in Askings /\ copy[shadow] \in Copies
      /\ c.action \in {"ADD", "REMOVE", "SET"} /\ c.kind \in {"entities", "types", "reset"}
  BY CallsHaveTypes DEF TypeInv, CallerTypes, CursorTypes
<1>2. (k = "entities" /\ n \in Entities) \/ (k = "types" /\ n \in Types)
  BY DEF Kinds, NamesOf
<1>3. c.kind # k => ~Wants(c, k, n) /\ ~Unwants(c, k, n)
  BY DEF Wants, Unwants
<1>4. CASE c.kind = "reset"
  <2>1. AskFor(c) = asked /\ c.kind # k
    BY <1>2, <1>4 DEF AskFor
  <2> QED BY <1>3, <2>1
<1>5. CASE c.kind = "entities"
  <2> DEFINE w == Wavering(copy[shadow].entities, c.action, c.list)
             m == Subscribed(asked.entities, c.action, c.list, Entities)
  <2>1. AskFor(c) = [asked EXCEPT !.entities = m, !.unsure = asked.unsure \cup w]
    BY <1>1, <1>5 DEF AskFor, Askings
  <2>2. k = "entities" => (n \in m <=> Wants(c, k, n) \/ (n \in asked.entities /\ ~Unwants(c, k, n)))
    BY <1>1, <1>2, <1>5 DEF Subscribed, Wants, Unwants
  <2>3. k = "types" => ~Wants(c, k, n) /\ ~Unwants(c, k, n)
    BY <1>3, <1>5
  <2> HIDE DEF w, m
  <2>4. /\ AskFor(c).entities = m /\ AskFor(c).types = asked.types
        /\ AskFor(c).unsure = asked.unsure \cup w /\ AskFor(c).stuck = asked.stuck
    BY <1>1, <2>1 DEF Askings
  <2>5. n \notin AskFor(c).unsure => n \notin asked.unsure /\ n \notin w
    BY <2>4
  <2>6. k = "entities" => (n \in AskFor(c)[k] <=> Wants(c, k, n) \/ (n \in asked[k] /\ ~Unwants(c, k, n)))
    BY <2>2, <2>4
  <2>7. k = "types" => (n \in AskFor(c)[k] <=> Wants(c, k, n) \/ (n \in asked[k] /\ ~Unwants(c, k, n)))
    BY <2>3, <2>4
  <2> QED BY <1>2, <1>5, <2>4, <2>5, <2>6, <2>7 DEF w
<1>6. CASE c.kind = "types"
  <2> DEFINE w == Wavering(copy[shadow].types, c.action, c.list)
             m == Subscribed(asked.types, c.action, c.list, Types)
  <2>1. AskFor(c) = [asked EXCEPT !.types = m, !.unsure = asked.unsure \cup w]
    BY <1>1, <1>6 DEF AskFor, Askings
  <2>2. k = "types" => (n \in m <=> Wants(c, k, n) \/ (n \in asked.types /\ ~Unwants(c, k, n)))
    BY <1>1, <1>2, <1>6 DEF Subscribed, Wants, Unwants
  <2>3. k = "entities" => ~Wants(c, k, n) /\ ~Unwants(c, k, n)
    BY <1>3, <1>6
  <2> HIDE DEF w, m
  <2>4. /\ AskFor(c).types = m /\ AskFor(c).entities = asked.entities
        /\ AskFor(c).unsure = asked.unsure \cup w /\ AskFor(c).stuck = asked.stuck
    BY <1>1, <2>1 DEF Askings
  <2>5. n \notin AskFor(c).unsure => n \notin asked.unsure /\ n \notin w
    BY <2>4
  <2>6. k = "types" => (n \in AskFor(c)[k] <=> Wants(c, k, n) \/ (n \in asked[k] /\ ~Unwants(c, k, n)))
    BY <2>2, <2>4
  <2>7. k = "entities" => (n \in AskFor(c)[k] <=> Wants(c, k, n) \/ (n \in asked[k] /\ ~Unwants(c, k, n)))
    BY <2>3, <2>4
  <2> QED BY <1>2, <1>6, <2>4, <2>5, <2>6, <2>7 DEF w
<1> QED BY <1>1, <1>4, <1>5, <1>6

\* what the server sends after it applied a call
LEMMA SubscribesTo ==
  ASSUME TypeInv, ApplyCall, NEW k \in Kinds, NEW n \in NamesOf(k)
  PROVE  n \in subscription'[k] <=> \/ Wants(Head(todo).request, k, n)
                                    \/ n \in subscription[k] /\ ~Unwants(Head(todo).request, k, n)
<1> DEFINE r == Head(todo).request
<1>1. /\ todo \in Seq(Accepted) /\ todo # <<>>
      /\ subscription \in [entities : SUBSET Entities, types : SUBSET Types]
  BY DEF TypeInv, ServerTypes, ApplyCall
<1>2. r \in CallTypes
  <2>1. Head(todo) \in Accepted
    BY <1>1, FrontOf
  <2> QED BY <2>1 DEF Accepted
<1>3. r.kind \in {"entities", "types", "reset"} /\ r.action \in {"ADD", "REMOVE", "SET"}
  BY <1>2, CallsHaveTypes
<1>4. (k = "entities" /\ n \in Entities) \/ (k = "types" /\ n \in Types)
  BY DEF Kinds, NamesOf
<1>5. r.kind # k => ~Wants(r, k, n) /\ ~Unwants(r, k, n)
  BY DEF Wants, Unwants
<1>6. subscription' =
         CASE r.kind = "reset" -> subscription
           [] r.kind = "entities" ->
                [subscription EXCEPT !.entities = Subscribed(@, r.action, r.list, Entities)]
           [] r.kind = "types" ->
                [subscription EXCEPT !.types = Subscribed(@, r.action, r.list, Types)]
  BY DEF ApplyCall
<1> HIDE DEF r
<1>7. CASE r.kind = "reset"
  BY <1>4, <1>5, <1>6, <1>7 DEF r
<1>8. CASE r.kind = "entities"
  <2> DEFINE m == Subscribed(subscription.entities, r.action, r.list, Entities)
  <2>1. k = "entities" => (n \in m <=> Wants(r, k, n) \/ (n \in subscription.entities /\ ~Unwants(r, k, n)))
    BY <1>3, <1>4, <1>8 DEF Subscribed, Wants, Unwants
  <2>2. subscription' = [subscription EXCEPT !.entities = m]
    BY <1>1, <1>6, <1>8
  <2> HIDE DEF m
  <2>3. subscription'.entities = m /\ subscription'.types = subscription.types
    BY <1>1, <2>2
  <2> QED BY <1>4, <1>5, <1>8, <2>1, <2>3 DEF r
<1>9. CASE r.kind = "types"
  <2> DEFINE m == Subscribed(subscription.types, r.action, r.list, Types)
  <2>1. k = "types" => (n \in m <=> Wants(r, k, n) \/ (n \in subscription.types /\ ~Unwants(r, k, n)))
    BY <1>3, <1>4, <1>9 DEF Subscribed, Wants, Unwants
  <2>2. subscription' = [subscription EXCEPT !.types = m]
    BY <1>1, <1>6, <1>9
  <2> HIDE DEF m
  <2>3. subscription'.types = m /\ subscription'.entities = subscription.entities
    BY <1>1, <2>2
  <2> QED BY <1>4, <1>5, <1>9, <2>1, <2>3 DEF r
<1> QED BY <1>3, <1>7, <1>8, <1>9

-----------------------------------------------------------------------------
(* What the filters say.                                                   *)

\* the filters of a copy, by the kind of their names
LEMMA FiltersOf ==
  ASSUME NEW s \in Copies, NEW k \in Kinds
  PROVE  s[k] \in Filters(NamesOf(k)) /\ AskedNames(k) \subseteq NamesOf(k)
BY DEF Copies, Kinds, NamesOf, AskedNames

\* t has the filters of s
SameFilters(t, s) == t.entities = s.entities /\ t.types = s.types

\* what a call makes of a filter
LEMMA WrittenFilter ==
  ASSUME TypeInv, NEW c \in CallTypes, NEW k \in Kinds
  PROVE  /\ Written(c)[k] = IF c.kind = "reset" THEN Cleared(copy[shadow][k], FALSE)
                            ELSE IF c.kind = k
                            THEN Modify(copy[shadow][k], c.action, c.list)
                            ELSE copy[shadow][k]
         /\ c.kind = k => c.list \in Listings(NamesOf(k))
<1> DEFINE s == copy[shadow]
<1>1. s \in Copies /\ c.kind \in {"entities", "types", "reset"}
  BY CallsHaveTypes DEF TypeInv, CursorTypes
<1>2. k = "entities" \/ k = "types"
  BY DEF Kinds
<1>3. c.kind = k => c.list \in Listings(NamesOf(k))
  BY <1>2, CallsHaveTypes DEF NamesOf
<1>4. Written(c) =
         CASE c.kind = "reset" ->
                [s EXCEPT !.resetting = TRUE, !.entities = Cleared(s.entities, FALSE),
                          !.types = Cleared(s.types, FALSE)]
           [] c.kind = "entities" -> [s EXCEPT !.entities = Modify(s.entities, c.action, c.list)]
           [] c.kind = "types"    -> [s EXCEPT !.types = Modify(s.types, c.action, c.list)]
  BY <1>1 DEF Written, Copies
<1> HIDE DEF s
<1>5. Written(c)[k] = IF c.kind = "reset" THEN Cleared(s[k], FALSE)
                      ELSE IF c.kind = k THEN Modify(s[k], c.action, c.list) ELSE s[k]
  <2>1. CASE c.kind = "reset"
    <3>1. Written(c) = [s EXCEPT !.resetting = TRUE, !.entities = Cleared(s.entities, FALSE),
                                 !.types = Cleared(s.types, FALSE)]
      BY <1>4, <2>1
    <3>2. Written(c).entities = Cleared(s.entities, FALSE)
          /\ Written(c).types = Cleared(s.types, FALSE)
      BY <1>1, <3>1 DEF Copies
    <3> QED BY <1>2, <2>1, <3>2
  <2>2. CASE c.kind = "entities"
    <3>1. Written(c) = [s EXCEPT !.entities = Modify(s.entities, c.action, c.list)]
      BY <1>4, <2>2
    <3>2. Written(c).entities = Modify(s.entities, c.action, c.list)
          /\ Written(c).types = s.types
      BY <1>1, <3>1 DEF Copies
    <3> QED BY <1>2, <2>2, <3>2
  <2>3. CASE c.kind = "types"
    <3>1. Written(c) = [s EXCEPT !.types = Modify(s.types, c.action, c.list)]
      BY <1>4, <2>3
    <3>2. Written(c).types = Modify(s.types, c.action, c.list)
          /\ Written(c).entities = s.entities
      BY <1>1, <3>1 DEF Copies
    <3> QED BY <1>2, <2>3, <3>2
  <2> QED BY <1>1, <2>1, <2>2, <2>3
<1> QED BY <1>3, <1>5 DEF s

\* what the filters say of a name after a call
LEMMA SaysWritten ==
  ASSUME TypeInv, FilterInv, NEW c \in Calls, BeginCall(c), NEW k \in Kinds, NEW n
  PROVE  LET before == Says(copy[shadow][k], n)
             after  == Says(copy'[shadow'][k], n)
         IN
         /\ WaitsUnmet(copy'[shadow'][k])
         /\ c.kind = "reset" => after = {FALSE}
         /\ c.kind \in Kinds \ {k} => after = before
         /\ c.kind = k /\ n \in c.list.names /\ n \notin asked'.unsure =>
               after = {c.action = "REMOVE"}
         /\ c.kind = k /\ n \notin c.list.names =>
               after = IF c.list.all \/ c.action = "SET" THEN {c.action # "ADD"} ELSE before
<1> DEFINE f == copy[shadow][k]
           g == copy'[shadow'][k]
<1>1. c \in CallTypes /\ c.action \in {"ADD", "REMOVE", "SET"}
  BY CallsHaveTypes
<1>2. copy'[shadow'] = Written(c) /\ asked' = AskFor(c)
  <2>1. WriteShadow(Written(c)) /\ asked' = AskFor(c)
    BY DEF BeginCall, Written
  <2>2. Written(c) \in Copies
    BY <1>1, WrittenCopy
  <2> QED BY <2>1, <2>2, WritesShadow
<1>3. f \in Filters(NamesOf(k)) /\ WaitsUnmet(f)
  BY FiltersOf DEF FilterInv, TypeInv, CursorTypes, Kinds
<1>4. /\ g = IF c.kind = "reset" THEN Cleared(f, FALSE)
             ELSE IF c.kind = k THEN Modify(f, c.action, c.list) ELSE f
      /\ c.kind = k => c.list \in Listings(NamesOf(k))
  <2>1. c \in CallTypes
    BY <1>1
  <2>2. Written(c)[k] = (IF c.kind = "reset" THEN Cleared(f, FALSE)
                         ELSE IF c.kind = k THEN Modify(f, c.action, c.list) ELSE f)
        /\ (c.kind = k => c.list \in Listings(NamesOf(k)))
    BY <2>1, WrittenFilter
  <2>3. g = Written(c)[k]
    BY <1>2
  <2> HIDE DEF f, g
  <2> QED BY <2>2, <2>3
<1>5. c.kind = k /\ n \in c.list.names /\ n \notin asked'.unsure =>
         n \notin Wavering(f, c.action, c.list)
  <2>1. c.kind = k => c.list.names \subseteq NamesOf(k)
    BY <1>4 DEF Listings
  <2> QED BY <1>1, <1>2, <2>1, AskedFor
<1>6. k # "reset"
  BY DEF Kinds
<1> HIDE DEF f, g
<1>7. CASE c.kind = "reset"
  <2>1. g = Cleared(f, FALSE)
    BY <1>4, <1>7
  <2>2. WaitsUnmet(g) /\ Says(g, n) = {FALSE}
    BY <1>3, <2>1, ClearedSays
  <2> QED BY <1>6, <1>7, <2>2 DEF f, g, Kinds
<1>8. CASE c.kind = k
  <2>1. g = Modify(f, c.action, c.list) /\ c.list \in Listings(NamesOf(k))
    BY <1>4, <1>6, <1>8
  <2>2. /\ WaitsUnmet(g)
        /\ n \in c.list.names /\ n \notin Wavering(f, c.action, c.list) =>
              Says(g, n) = {c.action = "REMOVE"}
        /\ n \notin c.list.names =>
              Says(g, n) = IF c.list.all \/ c.action = "SET" THEN {c.action # "ADD"} ELSE Says(f, n)
    <3> DEFINE S == NamesOf(k)
               a == c.action
               l == c.list
    <3>1. f \in Filters(S) /\ WaitsUnmet(f) /\ a \in {"ADD", "REMOVE", "SET"} /\ l \in Listings(S)
      BY <1>1, <1>3, <2>1
    <3> HIDE DEF S, a, l
    <3>2. LET h == Modify(f, a, l) IN
          /\ WaitsUnmet(h)
          /\ n \in l.names /\ n \notin Wavering(f, a, l) => Says(h, n) = {a = "REMOVE"}
          /\ n \notin l.names =>
                Says(h, n) = IF l.all \/ a = "SET" THEN {a # "ADD"} ELSE Says(f, n)
      BY <3>1, ModifySays
    <3>3. g = Modify(f, a, l)
      BY <2>1 DEF a, l
    <3> QED BY <3>2, <3>3 DEF a, l
  <2> QED BY <1>5, <1>6, <1>8, <2>2 DEF f, g
<1>9. CASE c.kind # "reset" /\ c.kind # k
  BY <1>3, <1>4, <1>9 DEF f, g, Kinds
<1> QED BY <1>7, <1>8, <1>9

\* a name that is met is one that was not, or a type, of which there may be
\* several
LEMMA SaysRead ==
  ASSUME TypeInv, NamesInv, FilterInv, ReadEntity \/ ReadMessageType, NEW k \in Kinds
  PROVE  WaitsUnmet(copy'[shadow'][k]) /\ \A n : Says(copy'[shadow'][k], n) = Says(copy[shadow][k], n)
<1> DEFINE s == copy[shadow]
           b == Head(stream)
<1>1. /\ s \in Copies /\ s.entities \in Filters(Entities) /\ s.types \in Filters(Types)
      /\ WaitsUnmet(s.entities) /\ WaitsUnmet(s.types) /\ HasArrived(s)
      /\ announced.entities \in Seq(Entities)
  BY DEF TypeInv, CursorTypes, Copies, FilterInv, NamesInv, ServerTypes
<1>2. k = "entities" \/ k = "types"
  BY DEF Kinds
<1>3. ASSUME NEW t \in Copies, SynchronizeAnd(t) PROVE copy'[shadow'] = t
  BY <1>3, TakesShadow
<1>4. rpc = "record" /\ rpc' = "record"
  BY NameIsNext DEF ReadEntity, ReadMessageType, AtBlock
<1>5. CASE ReadEntity
  <2> DEFINE t == [s EXCEPT !.entities = RegisterInstrument(@, b.name)]
             f == RegisterInstrument(s.entities, b.name)
  <2>1. AtBlock("entity") /\ UNCHANGED announced
    BY <1>5 DEF ReadEntity, serverVars
  <2>2. b.kind = "entity" /\ b.name \in Entities /\ stream # <<>> /\ stream' = Tail(stream)
    <3>1. b \in Blocks /\ b.kind = "entity" /\ stream # <<>> /\ stream' = Tail(stream)
      BY <2>1, TakesBlock
    <3> QED BY <3>1, BlocksCarry
  <2>3. b.id = Len(s.entities.names) + 1
    BY <1>4, <1>5 DEF ReadEntity, Throw
  <2>4. SynchronizeAnd(t)
    BY <1>5, <2>3 DEF ReadEntity
  <2>5. t \in Copies /\ t.types = s.types
    BY <1>1, <2>2, MetName
  <2>6. t.entities = f
    BY <1>1 DEF Copies
  <2>7. Numbers(s.entities, b.name) = {}
    <3> DEFINE e == announced.entities
               a == Len(e) - From(stream, 1, "entity")
    <3>1. /\ Announces(stream, "entity", e) /\ stream \in Seq(Blocks) /\ 1 \in DOMAIN stream
          /\ b = stream[1]
      BY <2>2, FrontOf DEF NamesInv, TypeInv, StreamTypes
    <3>2. From(stream, 1, "entity") \in Nat /\ From(stream, 1 + 1, "entity") \in Nat
          /\ From(stream, 1, "entity") = From(stream, 1 + 1, "entity") + 1
      <4>1. /\ \A i \in Nat \ {0} : From(stream, i, "entity") \in Nat
            /\ \A i \in 1 .. Len(stream) : From(stream, i, "entity") =
                  From(stream, i + 1, "entity") + (IF stream[i].kind = "entity" THEN 1 ELSE 0)
        BY <3>1, FromPlace
      <4> QED BY <2>2, <3>1, <4>1
    <3>3. Len(e) - From(stream, 1 + 1, "entity") \in 1 .. Len(e)
          /\ b.name = e[Len(e) - From(stream, 1 + 1, "entity")]
      BY <2>2, <3>1 DEF Announces
    <3>4. a + 1 \in 1 .. Len(e) /\ b.name = e[a + 1] /\ a \in Nat
      <4>1. Len(e) \in Nat
        BY <1>1
      <4> HIDE DEF e
      <4>2. Len(e) - From(stream, 1 + 1, "entity") = a + 1
        BY <3>2, <4>1
      <4> QED BY <3>2, <3>3, <4>1, <4>2
    <3>5. s.entities.names = SubSeq(e, 1, a) /\ e \in Seq(Entities)
      BY <1>1 DEF HasArrived, Arrived
    <3>6. \A i, j \in DOMAIN e : e[i] = e[j] => i = j
      BY DEF FilterInv
    <3>7. DOMAIN e = 1 .. Len(e) /\ Len(e) \in Nat
      BY <3>5
    <3> HIDE DEF e, a, s, b
    <3>8. DOMAIN s.entities.names = 1 .. a /\ \A i \in 1 .. a : s.entities.names[i] = e[i]
      BY <3>4, <3>5, <3>7
    <3>9. ASSUME NEW i \in 1 .. a, s.entities.names[i] = b.name PROVE FALSE
      <4>1. i \in DOMAIN e /\ a + 1 \in DOMAIN e /\ e[i] = e[a + 1]
        BY <3>4, <3>7, <3>8, <3>9
      <4> QED BY <3>4, <3>6, <4>1
    <3> QED BY <3>8, <3>9 DEF Numbers
  <2>8. WaitsUnmet(f) /\ \A n : Says(f, n) = Says(s.entities, n)
    BY <1>1, <2>2, <2>7, InstrumentSays
  <2>9. copy'[shadow'] = t
    BY <1>3, <2>4, <2>5
  <2>10. copy'[shadow'].entities = f /\ copy'[shadow'].types = s.types
    BY <2>5, <2>6, <2>9
  <2> HIDE DEF t, f, s, b
  <2>11. CASE k = "entities"
    BY <1>1, <2>8, <2>10, <2>11 DEF s
  <2>12. CASE k = "types"
    BY <1>1, <2>10, <2>12 DEF s
  <2> QED BY <1>2, <2>11, <2>12
<1>6. CASE ReadMessageType
  <2> DEFINE t == [s EXCEPT !.types = RegisterMessageType(@, b.name)]
             f == RegisterMessageType(s.types, b.name)
  <2>1. AtBlock("type")
    BY <1>6 DEF ReadMessageType
  <2>2. b.name \in Types
    <3>1. b \in Blocks /\ b.kind = "type"
      BY <2>1, TakesBlock
    <3> QED BY <3>1, BlocksCarry
  <2>3. b.id = Len(s.types.names) + 1
    BY <1>4, <1>6 DEF ReadMessageType, Throw
  <2>4. SynchronizeAnd(t)
    BY <1>6, <2>3 DEF ReadMessageType
  <2>5. t \in Copies /\ t.entities = s.entities
    BY <1>1, <2>2, MetName
  <2>6. t.types = f
    BY <1>1 DEF Copies
  <2>7. WaitsUnmet(f) /\ \A n : Says(f, n) = Says(s.types, n)
    BY <1>1, <2>2, TypeSays
  <2>8. copy'[shadow'] = t
    BY <1>3, <2>4, <2>5
  <2>9. copy'[shadow'].types = f /\ copy'[shadow'].entities = s.entities
    BY <2>5, <2>6, <2>8
  <2> HIDE DEF t, f, s, b
  <2>10. CASE k = "types"
    BY <1>1, <2>7, <2>9, <2>10 DEF s
  <2>11. CASE k = "entities"
    BY <1>1, <2>9, <2>11 DEF s
  <2> QED BY <1>2, <2>10, <2>11
<1> QED BY <1>5, <1>6

\* no step but a call changes what the filters say
LEMMA SaysKept ==
  ASSUME TypeInv, NumbersInv, NamesInv, FilterInv, [Next]_vars, ~\E c \in Calls : BeginCall(c),
         NEW k \in Kinds
  PROVE  WaitsUnmet(copy'[shadow'][k]) /\ \A n : Says(copy'[shadow'][k], n) = Says(copy[shadow][k], n)
<1> USE DEF callVars, serverVars, readerVars, cursorVars
<1> DEFINE s == copy[shadow]
<1>1. copy \in [SubStates -> Copies] /\ shadow \in SubStates /\ s \in Copies /\ caller \in Callers
  BY DEF TypeInv, CursorTypes, CallerTypes
<1>2. WaitsUnmet(s[k]) /\ (k = "entities" \/ k = "types")
  BY DEF FilterInv, Kinds
<1>3. ASSUME copy'[shadow'].entities = s.entities, copy'[shadow'].types = s.types
      PROVE  WaitsUnmet(copy'[shadow'][k]) /\ \A n : Says(copy'[shadow'][k], n) = Says(s[k], n)
  BY <1>2, <1>3
<1> HIDE DEF s
<1>4. CASE RegisterUserMessageType
  <2>1. WriteShadow(s)
    BY <1>4 DEF RegisterUserMessageType, s
  <2> QED BY <1>1, <1>3, <2>1, WritesShadow DEF s
<1>5. CASE RequestAnswered \/ AnswerMalformed
  <2>1. PICK id \in Int : EndCall(id) /\ caller.pc = "answered"
    <3>1. CASE RequestAnswered
      BY <3>1, <1>1 DEF RequestAnswered, NumbersInv, TypeInv, ServerTypes
    <3>2. CASE AnswerMalformed
      BY <3>2 DEF AnswerMalformed, None
    <3> QED BY <1>5, <3>1, <3>2
  <2>2. shadow' = shadow
    BY <2>1 DEF EndCall
  <2> QED BY <1>3, <2>1, <2>2, EndedCall DEF s
<1>6. CASE ReadCommand
  <2>1. PICK t \in Copies : Reads("command", t) /\ SameFilters(t, s)
    <3>1. PICK t \in Copies, r \in Readings(s) :
             Reads("command", t) /\ (t = Executed(r) \/ t = r)
      BY <1>6, CommandRead DEF s
    <3>2. /\ r \in Copies /\ r.entities = s.entities /\ r.types = s.types
      BY <1>1, ExecutedCopy
    <3>3. Executed(r).entities = r.entities /\ Executed(r).types = r.types
      BY <3>2, ExecutedCopy
    <3> QED BY <3>1, <3>2, <3>3 DEF SameFilters
  <2>2. copy'[shadow'] = t
    BY <2>1, TakesShadow DEF Reads
  <2> QED BY <1>3, <2>1, <2>2 DEF s, SameFilters
<1>7. CASE ReadTerminator \/ ReadHeader
  <2>1. copy'[shadow'] = s
    <3>1. SynchronizeAnd(s) \/ UNCHANGED cursorVars
      BY <1>7, TerminatorRead, HeaderRead DEF Reads, s
    <3> QED BY <1>1, <3>1, TakesShadow DEF s
  <2> QED BY <1>3, <2>1 DEF s
<1>8. CASE ReadEntity \/ ReadMessageType
  BY <1>8, SaysRead DEF s
<1>9. CASE \/ RequestFails \/ ServerStep \/ CallNext \/ End \/ Filter \/ UNCHANGED vars
  <2>1. UNCHANGED <<copy, shadow>>
    BY <1>9 DEF RequestFails, ServerStep, AcceptCall, ApplyCall, SendMessage, SendTerminator,
                SendEntity, SendType, Send, CallNext, End, Filter, Throw, vars
  <2> QED BY <1>3, <2>1 DEF s
<1> QED BY <1>4, <1>5, <1>6, <1>7, <1>8, <1>9 DEF Next, CallStep, NextStep, s

\* the word for later stays one for names that were not met, and an entity is
\* announced once
LEMMA FilterStep ==
  ASSUME TypeInv, NumbersInv, NamesInv, FilterInv, [Next]_vars
  PROVE  FilterInv'
<1> USE DEF callVars, serverVars, readerVars, cursorVars
<1>1. ASSUME NEW k \in Kinds PROVE WaitsUnmet(copy'[shadow'][k])
  BY SaysWritten, SaysKept
<1>2. WaitsUnmet(copy'[shadow'].entities) /\ WaitsUnmet(copy'[shadow'].types)
  BY <1>1 DEF Kinds
<1>3. ASSUME UNCHANGED announced PROVE FilterInv'
  BY <1>2, <1>3 DEF FilterInv
<1>4. ASSUME NEW n \in Entities, SendEntity(n) PROVE FilterInv'
  <2> DEFINE e == announced.entities
  <2>1. e \in Seq(Entities) /\ announced \in [entities : Seq(Entities), types : Seq(Types)]
    BY DEF TypeInv, ServerTypes
  <2>2. announced'.entities = Append(e, n) /\ \A i \in DOMAIN e : e[i] # n
    BY <1>4, <2>1 DEF SendEntity
  <2>3. /\ DOMAIN e = 1 .. Len(e) /\ DOMAIN announced'.entities = 1 .. Len(e) + 1
        /\ announced'.entities[Len(e) + 1] = n /\ Len(e) \in Nat
        /\ \A i \in 1 .. Len(e) : announced'.entities[i] = e[i]
    BY <2>1, <2>2, EndOf
  <2>4. \A i, j \in DOMAIN e : e[i] = e[j] => i = j
    BY DEF FilterInv
  <2> HIDE DEF e
  <2>5. \A i, j \in DOMAIN announced'.entities :
           announced'.entities[i] = announced'.entities[j] => i = j
    BY <2>2, <2>3, <2>4
  <2> QED BY <1>2, <2>5 DEF FilterInv
<1>5. ASSUME NEW n \in Types, SendType(n) PROVE FilterInv'
  <2>1. announced'.entities = announced.entities
    BY <1>5 DEF SendType, TypeInv, ServerTypes
  <2> QED BY <1>2, <2>1 DEF FilterInv
<1>6. CASE CallStep \/ AcceptCall \/ ApplyCall \/ SendMessage \/ SendTerminator
  BY <1>3, <1>6 DEF CallStep, BeginCall, RegisterUserMessageType, RequestFails, RequestAnswered,
     AnswerMalformed, EndCall, AcceptCall, ApplyCall, SendMessage, SendTerminator
<1>7. CASE NextStep \/ UNCHANGED vars
  BY <1>3, <1>7 DEF NextStep, CallNext, ReadEntity, ReadMessageType, ReadCommand, ReadTerminator,
     End, ReadHeader, Filter, vars
<1> QED BY <1>4, <1>5, <1>6, <1>7 DEF Next, ServerStep

\* only a call asks for something, and what became unsure stays so
LEMMA AskedKept ==
  ASSUME TypeInv, [Next]_vars, ~\E c \in Calls : BeginCall(c)
  PROVE  /\ \A k \in Kinds : asked'[k] = asked[k]
         /\ asked.unsure \subseteq asked'.unsure
<1> USE DEF callVars, serverVars, readerVars, cursorVars
<1>1. asked \in Askings
  BY DEF TypeInv, CallerTypes
<1>2. ASSUME NEW c, asked' \in {asked, Doubted(c), [asked EXCEPT !.resets = @ + 1, !.stuck = FALSE]}
      PROVE  /\ \A k \in Kinds : asked'[k] = asked[k]
             /\ asked.unsure \subseteq asked'.unsure
  BY <1>1, <1>2 DEF Doubted, Askings, Kinds
<1>3. CASE RequestFails \/ RequestAnswered \/ AnswerMalformed
  <2>1. asked' \in {asked, Doubted(caller.call), [asked EXCEPT !.resets = @ + 1, !.stuck = FALSE]}
    BY <1>3 DEF RequestFails, RequestAnswered, AnswerMalformed, EndCall
  <2> QED BY <1>2, <2>1
<1>4. CASE RegisterUserMessageType \/ ServerStep
  BY <1>2, <1>4 DEF RegisterUserMessageType, ServerStep, AcceptCall, ApplyCall, SendMessage,
     SendTerminator, SendEntity, SendType, Send
<1>5. CASE NextStep \/ UNCHANGED vars
  BY <1>2, <1>5 DEF NextStep, CallNext, ReadEntity, ReadMessageType, ReadCommand, ReadTerminator,
     End, ReadHeader, Filter, vars
<1> QED BY <1>3, <1>4, <1>5 DEF Next, CallStep

\* what a call asks for the filter lets pass
LEMMA DropStep ==
  ASSUME TypeInv, NumbersInv, NamesInv, FilterInv, DropInv, [Next]_vars
  PROVE  DropInv'
<1> SUFFICES ASSUME NEW k \in Kinds, NEW n \in asked'[k] \ asked'.unsure
             PROVE  TRUE \notin Says(copy'[shadow'][k], n)
  BY DEF DropInv
<1>1. CASE ~\E c \in Calls : BeginCall(c)
  <2>1. n \in asked[k] \ asked.unsure
    BY <1>1, AskedKept
  <2>2. Says(copy'[shadow'][k], n) = Says(copy[shadow][k], n)
    BY <1>1, SaysKept
  <2> QED BY <2>1, <2>2 DEF DropInv
<1>2. ASSUME NEW c \in Calls, BeginCall(c) PROVE TRUE \notin Says(copy'[shadow'][k], n)
  <2> DEFINE before == Says(copy[shadow][k], n)
             after  == Says(copy'[shadow'][k], n)
  <2>1. /\ c.kind = "reset" => after = {FALSE}
        /\ c.kind \in Kinds \ {k} => after = before
        /\ c.kind = k /\ n \in c.list.names => after = {c.action = "REMOVE"}
        /\ c.kind = k /\ n \notin c.list.names =>
              after = IF c.list.all \/ c.action = "SET" THEN {c.action # "ADD"} ELSE before
    BY <1>2, SaysWritten
  <2>2. Wants(c, k, n) \/ (n \in asked[k] \ asked.unsure /\ ~Unwants(c, k, n))
    <3>1. asked' = AskFor(c) /\ c \in CallTypes
      BY <1>2, CallsHaveTypes DEF BeginCall
    <3>2. n \in NamesOf(k)
      <4>1. AskFor(c) \in Askings
        BY <3>1, AskingTypes
      <4> QED BY <3>1, <4>1 DEF Askings, Kinds, NamesOf
    <3> QED BY <3>1, <3>2, AskedFor
  <2>3. n \in asked[k] \ asked.unsure => TRUE \notin before
    BY DEF DropInv
  <2>4. c.kind = "reset" \/ c.kind \in Kinds
    BY CallsAre
  <2> HIDE DEF before, after
  <2>5. CASE c.kind # k
    <3>1. n \in asked[k] \ asked.unsure
      BY <2>2, <2>5 DEF Wants
    <3> QED BY <2>1, <2>3, <2>4, <2>5, <3>1 DEF after
  <2>6. CASE c.kind = k /\ n \in c.list.names
    <3>1. c.action # "REMOVE"
      BY <2>2, <2>6 DEF Wants, Unwants
    <3> QED BY <2>1, <2>6, <3>1 DEF after
  <2>7. CASE c.kind = k /\ n \notin c.list.names /\ c.list.all
    <3>1. c.action \in {"ADD", "REMOVE"} /\ c.action # "REMOVE"
      BY <2>2, <2>4, <2>7, CallsAre DEF Wants, Unwants
    <3> QED BY <2>1, <2>7, <3>1 DEF after
  <2>8. CASE c.kind = k /\ n \notin c.list.names /\ ~c.list.all
    <3>1. c.action # "SET" /\ n \in asked[k] \ asked.unsure
      BY <2>2, <2>8 DEF Wants, Unwants
    <3> QED BY <2>1, <2>3, <2>8, <3>1 DEF after
  <2> QED BY <2>5, <2>6, <2>7, <2>8 DEF after
<1> QED BY <1>1, <1>2

-----------------------------------------------------------------------------
(* What the server sends.                                                  *)

\* the calls that are not applied
LEMMA PendingCalls ==
  ASSUME TypeInv, NumbersInv
  PROVE  /\ Pending \in Seq(Accepted) /\ todo \in Seq(Accepted)
         /\ caller.pc = "asking" =>
               LET x == [id |-> nextId, request |-> caller.call] IN
               x \in Accepted /\ Pending = Append(todo, x)
         /\ caller.pc # "asking" => Pending = todo
         /\ ~ResetCalled => Border \in Nat /\ Border < nextId
                            /\ Border = IF copy[shadow].lastReset >= 1
                                        THEN copy[shadow].lastReset ELSE 0
<1>1. todo \in Seq(Accepted) /\ nextId \in Nat \ {0} /\ caller \in Callers
  BY DEF TypeInv, ServerTypes, CallerTypes
<1>2. ASSUME caller.pc = "asking"
      PROVE  LET x == [id |-> nextId, request |-> caller.call] IN
             x \in Accepted /\ Pending = Append(todo, x) /\ Pending \in Seq(Accepted)
  <2> DEFINE x == [id |-> nextId, request |-> caller.call]
  <2>1. caller.call \in CallTypes
    BY <1>1, <1>2 DEF Callers, Free
  <2>2. x \in Accepted
    BY <1>1, <2>1 DEF Accepted
  <2>3. Pending = Append(todo, x)
    BY <1>2 DEF Pending
  <2> HIDE DEF x
  <2>4. Pending \in Seq(Accepted)
    BY <1>1, <2>2, <2>3, EndOf
  <2> QED BY <2>2, <2>3, <2>4 DEF x
<1>3. caller.pc # "asking" => Pending = todo
  BY DEF Pending
<1>4. ASSUME ~ResetCalled
      PROVE  Border \in Nat /\ Border < nextId
             /\ Border = IF copy[shadow].lastReset >= 1 THEN copy[shadow].lastReset ELSE 0
  <2>1. copy[shadow].lastReset \in Int /\ copy[shadow].lastReset < nextId
    BY DEF NumbersInv, IdsOk, TypeInv, CursorTypes, Copies
  <2> QED BY <1>1, <1>4, <2>1 DEF Border
<1> QED BY <1>1, <1>2, <1>3, <1>4

\* a call more, at the end, and one less, at the head
LEMMA TailAppended ==
  ASSUME NEW S, NEW s \in Seq(S), s # <<>>, NEW x \in S
  PROVE  Head(Append(s, x)) = Head(s) /\ Tail(Append(s, x)) = Append(Tail(s), x)
<1> DEFINE a == Tail(Append(s, x))
           b == Append(Tail(s), x)
<1>1. /\ Len(s) \in Nat \ {0} /\ Head(s) = s[1] /\ Tail(s) \in Seq(S)
      /\ Len(Tail(s)) = Len(s) - 1 /\ \A i \in 1 .. Len(s) - 1 : Tail(s)[i] = s[i + 1]
  BY FrontOf
<1>2. /\ Append(s, x) \in Seq(S) /\ Len(Append(s, x)) = Len(s) + 1
      /\ Append(s, x)[Len(s) + 1] = x /\ \A i \in 1 .. Len(s) : Append(s, x)[i] = s[i]
  BY EndOf
<1>3. Append(s, x) # <<>>
  BY <1>1, <1>2
<1>4. /\ Head(Append(s, x)) = Append(s, x)[1] /\ a \in Seq(S) /\ Len(a) = Len(s)
      /\ \A i \in 1 .. Len(s) : a[i] = Append(s, x)[i + 1]
  <2>1. /\ Head(Append(s, x)) = Append(s, x)[1] /\ a \in Seq(S)
        /\ Len(a) = Len(Append(s, x)) - 1
        /\ \A i \in 1 .. Len(Append(s, x)) - 1 : a[i] = Append(s, x)[i + 1]
    BY <1>2, <1>3, FrontOf
  <2> QED BY <1>1, <1>2, <2>1
<1>5. /\ b \in Seq(S) /\ Len(b) = Len(s) /\ b[Len(s)] = x
      /\ \A i \in 1 .. Len(s) - 1 : b[i] = Tail(s)[i]
  <2>1. /\ b \in Seq(S) /\ Len(b) = Len(Tail(s)) + 1 /\ b[Len(Tail(s)) + 1] = x
        /\ \A i \in 1 .. Len(Tail(s)) : b[i] = Tail(s)[i]
    BY <1>1, EndOf
  <2> QED BY <1>1, <2>1
<1> HIDE DEF a, b
<1>6. ASSUME NEW i \in 1 .. Len(s) PROVE a[i] = b[i]
  <2>1. CASE i = Len(s)
    BY <1>1, <1>2, <1>4, <1>5, <2>1
  <2>2. CASE i # Len(s)
    <3>1. i \in 1 .. Len(s) - 1 /\ i + 1 \in 1 .. Len(s)
      <4>1. Len(s) \in Nat
        OBVIOUS
      <4> HIDE DEF a, b
      <4> QED BY <2>2, <4>1
    <3>2. a[i] = Append(s, x)[i + 1] /\ Append(s, x)[i + 1] = s[i + 1]
      BY <1>2, <1>4, <3>1
    <3>3. b[i] = Tail(s)[i] /\ Tail(s)[i] = s[i + 1]
      BY <1>1, <1>5, <3>1
    <3> QED BY <3>2, <3>3
  <2> QED BY <2>1, <2>2
<1>7. a = b
  BY <1>1, <1>4, <1>5, <1>6
<1> QED BY <1>1, <1>2, <1>4, <1>7 DEF a, b

\* the command that is read is nowhere else
LEMMA HeadOnly ==
  ASSUME NEW str \in Seq(Blocks), NEW td \in Seq(Accepted), NEW next \in Nat,
         CommandsBefore(str, next), NumberedFrom(td, next), str # <<>>, Head(str).kind = "command"
  PROVE  /\ Head(str).id \in Nat /\ Head(str).id < next
         /\ \A i \in DOMAIN td : td[i].id # Head(str).id
         /\ \A i \in 2 .. Len(str) : str[i] # CommandBlock(Head(str).id)
<1> DEFINE r == Head(str).id
<1>1. /\ Len(str) \in Nat \ {0} /\ DOMAIN str = 1 .. Len(str) /\ Head(str) = str[1]
      /\ Head(str) \in Blocks /\ \A j \in 1 .. Len(str) : str[j] \in Blocks
  BY FrontOf
<1>2. r \in Nat /\ r < next
  <2>1. r \in Nat
    BY <1>1, CommandBlocks
  <2>2. 1 \in DOMAIN str /\ str[1].kind = "command" /\ str[1].id = r
    BY <1>1
  <2> QED BY <2>1, <2>2 DEF CommandsBefore
<1>3. ASSUME NEW j \in DOMAIN td PROVE td[j].id # r
  <2>1. j \in Nat \ {0} /\ td[j].id = next + j - 1
    BY <1>3 DEF NumberedFrom
  <2> HIDE DEF r
  <2> QED BY <1>2, <2>1
<1>4. ASSUME NEW k \in 2 .. Len(str), str[k] = CommandBlock(r) PROVE FALSE
  <2>1. str[k].kind = "command" /\ str[k].id = r
    BY <1>4 DEF CommandBlock
  <2>2. str[1].id < str[k].id
    BY <1>1, <2>1 DEF CommandsBefore
  <2> QED BY <1>1, <1>2, <2>1, <2>2
<1> QED BY <1>2, <1>3, <1>4

\* where a name was sent, when there is a block more
LEMMA PlacesAppended ==
  ASSUME NEW k, NEW n, NEW str \in Seq(Blocks), NEW b \in Blocks, NEW ann, NEW new,
         \A m \in DOMAIN str : str[m].kind = "message" =>
             new[NumberOf(k, str[m])] = ann[NumberOf(k, str[m])]
  PROVE  Places(Append(str, b), k, new, n) \subseteq Places(str, k, ann, n) \cup {Len(str) + 1}
<1> DEFINE a == Append(str, b)
<1>1. /\ Len(str) \in Nat /\ DOMAIN str = 1 .. Len(str) /\ DOMAIN a = 1 .. Len(str) + 1
      /\ a[Len(str) + 1] = b /\ \A i \in 1 .. Len(str) : a[i] = str[i]
  BY EndOf
<1> HIDE DEF a
<1>2. ASSUME NEW m \in Places(a, k, new, n), m # Len(str) + 1 PROVE m \in Places(str, k, ann, n)
  <2>1. m \in 1 .. Len(str) /\ str[m].kind = "message" /\ new[NumberOf(k, str[m])] = n
    BY <1>1, <1>2 DEF Places
  <2> QED BY <1>1, <2>1 DEF Places
<1> QED BY <1>2 DEF a

\* the block more is such a place only if it is a message of the name
LEMMA LastPlace ==
  ASSUME NEW k, NEW n, NEW str \in Seq(Blocks), NEW b \in Blocks, NEW new,
         Len(str) + 1 \in Places(Append(str, b), k, new, n)
  PROVE  b.kind = "message" /\ new[NumberOf(k, b)] = n
BY EndOf DEF Places

\* and when there is one less
LEMMA PlacesTail ==
  ASSUME NEW k, NEW n, NEW str \in Seq(Blocks), str # <<>>, NEW ann
  PROVE  /\ Places(Tail(str), k, ann, n) \in SUBSET (DOMAIN Tail(str))
         /\ \A m \in Places(Tail(str), k, ann, n) : m + 1 \in Places(str, k, ann, n)
<1> DEFINE t == Tail(str)
<1>1. /\ Len(str) \in Nat \ {0} /\ DOMAIN str = 1 .. Len(str) /\ DOMAIN t = 1 .. Len(str) - 1
      /\ \A i \in 1 .. Len(str) - 1 : t[i] = str[i + 1]
  BY FrontOf
<1> HIDE DEF t
<1>2. ASSUME NEW m \in Places(t, k, ann, n) PROVE m + 1 \in Places(str, k, ann, n)
  <2>1. m \in 1 .. Len(str) - 1 /\ t[m].kind = "message" /\ ann[NumberOf(k, t[m])] = n
    BY <1>1, <1>2 DEF Places
  <2>2. m + 1 \in DOMAIN str /\ t[m] = str[m + 1]
    BY <1>1, <2>1
  <2> QED BY <2>1, <2>2 DEF Places
<1> QED BY <1>2 DEF Places, t

\* a call makes the server send no other names
LEMMA SilentCalled ==
  ASSUME TypeInv, NumbersInv, FilterInv, LeakInv, rpc # "dead",
         NEW c \in Calls, BeginCall(c), NEW k \in Kinds, NEW n \in AskedNames(k),
         n \notin asked'[k], n \notin asked'.unsure
  PROVE  Silent(k, n)'
<1> USE DEF callVars, serverVars, readerVars, cursorVars
<1> DEFINE x == [id |-> nextId, request |-> c]
           S == subscription[k]
           P == Places(stream, k, announced[k], n)
           before == Says(copy[shadow][k], n)
           after  == Says(copy'[shadow'][k], n)
<1>1. /\ c \in CallTypes /\ asked' = AskFor(c) /\ caller' = [pc |-> "asking", call |-> c]
      /\ caller.pc = "free" /\ UNCHANGED <<subscription, stream, announced, todo, nextId>>
      /\ nextId \in Nat /\ WriteShadow(Written(c))
  BY CallsHaveTypes DEF BeginCall, thisLockFree, TypeInv, ServerTypes, Written
<1>2. n \in NamesOf(k)
  BY DEF AskedNames, NamesOf, Kinds
<1>3. /\ ~Wants(c, k, n) /\ (n \notin asked[k] \/ Unwants(c, k, n)) /\ n \notin asked.unsure
      /\ asked'.stuck = asked.stuck
  BY <1>1, <1>2, AskedFor
<1>4. /\ caller'.pc = "asking" /\ caller'.call = c
      /\ Pending = todo /\ Pending' = Append(todo, x) /\ x \in Accepted /\ x.id = nextId
      /\ x.request = c /\ todo \in Seq(Accepted)
  <2>1. caller'.pc = "asking" /\ caller'.call = c
    BY <1>1
  <2>2. Pending = todo /\ Pending' = Append(todo, x)
    BY <1>1, <2>1 DEF Pending
  <2>3. x \in Accepted /\ todo \in Seq(Accepted)
    BY <1>1 DEF Accepted, TypeInv, ServerTypes
  <2> QED BY <2>1, <2>2, <2>3
<1>5. n \notin asked[k] => Silent(k, n)
  BY <1>3 DEF LeakInv
<1>6. /\ Len(todo) \in Nat /\ Len(Pending') = Len(todo) + 1
  BY <1>4, EndOf
<1> HIDE DEF x
<1>7. ~Sends(S, Append(todo, x), k, n, Len(todo) + 1)
  <2>1. ~Unwants(c, k, n) => ~Sends(S, todo, k, n, Len(todo))
    BY <1>3, <1>4, <1>5 DEF Silent
  <2> HIDE DEF S
  <2> QED BY <1>3, <1>4, <2>1, SendsAppended
<1>8. c.kind \in Kinds \/ c.kind = "reset"
  BY CallsAre
<1>9. ~ResetCalled /\ (ResetCalled' <=> c.kind = "reset")
  BY <1>1, <1>4 DEF ResetCalled
<1>10. ASSUME FALSE \in after, ~asked'.stuck \/ ResetCalled'
       PROVE  Quiet(S, Append(todo, x), k, n, Border', stream, P)
  <2>1. CASE c.kind = "reset"
    <3>1. Border' = x.id
      BY <1>1, <1>4, <1>9, <2>1 DEF Border
    <3> HIDE DEF S, P
    <3> QED BY <1>4, <1>7, <3>1, QuietCalls
  <2>2. CASE c.kind # "reset"
    <3>1. /\ c.kind \in Kinds \ {k} => after = before
          /\ c.kind = k /\ n \in c.list.names => after = {c.action = "REMOVE"}
          /\ c.kind = k /\ n \notin c.list.names =>
                after = IF c.list.all \/ c.action = "SET" THEN {c.action # "ADD"} ELSE before
      BY SaysWritten
    <3> HIDE DEF before, after
    <3>2. ~(c.kind = k /\ n \in c.list.names)
      <4>1. ASSUME c.kind = k, n \in c.list.names PROVE FALSE
        <5>1. c.action # "REMOVE"
          BY <1>10, <3>1, <4>1
        <5> QED BY <1>3, <4>1, <5>1 DEF Wants
      <4> QED BY <4>1
    <3>3. ~(c.kind = k /\ (c.list.all \/ c.action = "SET"))
      <4>1. ASSUME c.kind = k, c.list.all \/ c.action = "SET" PROVE FALSE
        <5>1. c.action = "ADD" /\ c.list.all
          BY <1>10, <3>1, <3>2, <4>1
        <5> QED BY <1>3, <4>1, <5>1 DEF Wants
      <4> QED BY <4>1
    <3>4. after = before
      BY <1>8, <2>2, <3>1, <3>2, <3>3
    <3>5. ~Unwants(c, k, n)
      BY <3>2, <3>3 DEF Unwants
    <3>6. Quiet(S, todo, k, n, Border, stream, P)
      BY <1>3, <1>4, <1>5, <1>9, <1>10, <2>2, <3>4, <3>5 DEF Silent, before
    <3>7. Border' = Border /\ Border \in Nat /\ Border < nextId
      <4>1. Written(c) \in Copies /\ Written(c).lastReset = copy[shadow].lastReset
        BY <1>1, WrittenCopy
      <4>2. copy'[shadow'] = Written(c)
        BY <1>1, <4>1, WritesShadow
      <4>3. /\ ~(ResetCalled')
            /\ Border = IF copy[shadow].lastReset >= 1 THEN copy[shadow].lastReset ELSE 0
        BY <1>9, <2>2, PendingCalls
      <4>4. Border' = IF copy'[shadow'].lastReset >= 1 THEN copy'[shadow'].lastReset ELSE 0
        BY <4>3 DEF Border
      <4>5. Border \in Nat /\ Border < nextId
        BY <1>9, PendingCalls
      <4> QED BY <4>1, <4>2, <4>3, <4>4, <4>5
    <3>8. x.id # Border
      BY <1>1, <1>4, <3>7
    <3> HIDE DEF S, P
    <3> QED BY <1>3, <1>4, <3>6, <3>7, <3>8, QuietCalls
  <2> QED BY <2>1, <2>2
<1> QED BY <1>1, <1>4, <1>6, <1>7, <1>10 DEF Silent

\* a call that failed did not touch the name, or it is unsure
LEMMA SilentFailed ==
  ASSUME TypeInv, NumbersInv, CallInv, RequestFails, NEW k \in Kinds, NEW n \in AskedNames(k),
         Silent(k, n), n \notin asked'.unsure, Says(copy'[shadow'][k], n) = Says(copy[shadow][k], n)
  PROVE  Silent(k, n)'
<1> USE DEF callVars, serverVars, readerVars, cursorVars
<1> DEFINE c == caller.call
           x == [id |-> nextId, request |-> c]
           S == subscription[k]
           P == Places(stream, k, announced[k], n)
<1>1. /\ caller.pc \in {"asking", "answered"} /\ caller' = Free /\ asked' = Doubted(c)
      /\ UNCHANGED <<subscription, stream, announced, todo, nextId, copy, shadow>>
      /\ asked \in Askings /\ nextId \in Nat
  BY DEF RequestFails, TypeInv, CallerTypes, ServerTypes
<1>2. c \in Calls /\ (c.kind \in Kinds \/ c.kind = "reset") /\ c.action \in {"ADD", "REMOVE", "SET"}
  BY <1>1, CallsAre DEF CallInv
<1>3. /\ caller'.pc = "free" /\ Pending' = todo /\ ~(ResetCalled')
      /\ Border' = IF copy[shadow].lastReset >= 1 THEN copy[shadow].lastReset ELSE 0
  BY <1>1 DEF Free, Pending, ResetCalled, Border
<1>4. /\ asked'.stuck = (asked.stuck \/ c.kind = "reset")
      /\ n \notin Touched(c)
  <2> HIDE DEF c
  <2> QED BY <1>1 DEF Doubted, Askings, c
<1>5. ~Wants(c, k, n) /\ ~Unwants(c, k, n)
  <2>1. n \in NamesOf(k)
    BY DEF AskedNames, NamesOf, Kinds
  <2>2. ASSUME c.kind = k PROVE ~(c.list.all \/ c.action = "SET") /\ n \notin c.list.names
    <3>1. Touched(c) = IF c.list.all \/ c.action = "SET" THEN NamesOf(k) ELSE c.list.names
      BY <1>2, <2>2 DEF Touched, Kinds, NamesOf
    <3> HIDE DEF c
    <3> QED BY <1>4, <2>1, <3>1
  <2> QED BY <2>2 DEF Wants, Unwants
<1>6. ResetCalled <=> c.kind = "reset"
  BY <1>1 DEF ResetCalled
<1>7. ~asked'.stuck => ~asked.stuck /\ ~ResetCalled
  BY <1>1, <1>4, <1>6 DEF Askings
<1>8. ~ResetCalled => Border' = Border /\ Border \in Nat /\ Border < nextId
  BY <1>3, PendingCalls
<1>9. todo \in Seq(Accepted) /\ Len(todo) \in Nat
  BY DEF TypeInv, ServerTypes
<1>10. CASE caller.pc = "asking"
  <2>1. x \in Accepted /\ Pending = Append(todo, x)
    BY <1>10, PendingCalls
  <2>2. x.id = nextId /\ x.request = c /\ Len(Pending) = Len(todo) + 1
    BY <1>9, <2>1, EndOf
  <2>3. /\ ~Sends(S, Append(todo, x), k, n, Len(todo) + 1)
        /\ FALSE \in Says(copy[shadow][k], n) /\ (~asked.stuck \/ ResetCalled) =>
              Quiet(S, Append(todo, x), k, n, Border, stream, P)
    BY <2>1, <2>2 DEF Silent
  <2> HIDE DEF x, S, P, c
  <2>4. ~Sends(S, todo, k, n, Len(todo))
    BY <1>5, <1>9, <2>1, <2>2, <2>3, SendsAppended
  <2>5. ASSUME FALSE \in Says(copy[shadow][k], n), ~asked'.stuck
        PROVE  Quiet(S, todo, k, n, Border', stream, P)
    <3>1. Quiet(S, Append(todo, x), k, n, Border, stream, P) /\ Border' = Border
          /\ x.id # Border
      <4>1. ~asked.stuck /\ ~ResetCalled
        BY <1>7, <2>5
      <4>2. Quiet(S, Append(todo, x), k, n, Border, stream, P)
        BY <2>3, <2>5, <4>1
      <4>3. x.id # Border
        BY <1>1, <1>8, <2>2, <4>1
      <4> QED BY <1>8, <4>1, <4>2, <4>3
    <3>2. Quiet(S, todo, k, n, Border, stream, P)
      BY <1>9, <2>1, <3>1, QuietCalls
    <3> QED BY <3>1, <3>2
  <2> QED BY <1>1, <1>3, <2>4, <2>5 DEF Silent, S, P
<1>11. CASE caller.pc = "answered"
  <2>1. Pending = todo
    BY <1>11, PendingCalls
  <2> HIDE DEF c, x
  <2> QED BY <1>1, <1>3, <1>7, <1>8, <2>1 DEF Silent
<1> QED BY <1>1, <1>10, <1>11

\* a call that ends leaves what it asked for
LEMMA SilentEnded ==
  ASSUME TypeInv, NumbersInv, NEW id \in Int, caller.pc = "answered", EndCall(id),
         id = caller.id \/ id = None, NEW k \in Kinds, NEW n \in AskedNames(k),
         Silent(k, n), Says(copy'[shadow'][k], n) = Says(copy[shadow][k], n)
  PROVE  Silent(k, n)'
<1> USE DEF callVars, serverVars, readerVars, cursorVars
<1> DEFINE s == copy[shadow]
           c == caller.call
           reset == c.kind = "reset"
           fits == s.last = None \/ id = s.last + 1
           t == copy'[shadow]
<1>1. /\ caller' = Free /\ shadow' = shadow /\ asked \in Askings
      /\ UNCHANGED <<subscription, stream, announced, todo, nextId>>
  BY DEF EndCall, TypeInv, CallerTypes
<1>2. /\ fits => t.lastReset = IF reset THEN id ELSE s.lastReset
      /\ ~fits => t = s
  BY EndedCall
<1>3. asked' = IF ~fits \/ id = None THEN Doubted(c)
               ELSE IF reset THEN [asked EXCEPT !.resets = @ + 1, !.stuck = FALSE]
               ELSE asked
  BY DEF EndCall
<1>4. /\ caller'.pc = "free" /\ Pending' = todo /\ Pending = todo /\ ~(ResetCalled')
      /\ (ResetCalled <=> reset)
      /\ Border' = IF t.lastReset >= 1 THEN t.lastReset ELSE 0
  BY <1>1 DEF Free, Pending, ResetCalled, Border
<1>5. ~asked'.stuck => /\ reset => fits /\ id # None
                       /\ ~reset => ~asked.stuck
  <2> HIDE DEF fits, reset
  <2>1. CASE ~fits \/ id = None
    BY <1>1, <1>3, <2>1 DEF Doubted, Askings, reset
  <2>2. CASE ~(~fits \/ id = None) /\ ~reset
    BY <1>3, <2>2
  <2>3. CASE ~(~fits \/ id = None) /\ reset
    BY <2>3
  <2> QED BY <2>1, <2>2, <2>3
<1>6. ~reset => Border' = Border
  <2>1. ~reset => t.lastReset = s.lastReset
    BY <1>2
  <2>2. ~reset => Border = IF s.lastReset >= 1 THEN s.lastReset ELSE 0
    BY <1>4, PendingCalls
  <2> QED BY <1>4, <2>1, <2>2
<1>7. reset /\ fits /\ id # None => Border' = Border
  <2>1. caller.id \in Nat \ {0} /\ Border = IF reset THEN caller.id ELSE Border
    BY <1>4 DEF Border, NumbersInv, TypeInv, ServerTypes
  <2>2. reset /\ fits /\ id # None => t.lastReset = caller.id
    BY <1>2
  <2> HIDE DEF t, reset, fits
  <2> QED BY <1>4, <2>1, <2>2
<1> HIDE DEF s, t, c, reset, fits
<1> QED BY <1>1, <1>4, <1>5, <1>6, <1>7 DEF Silent

\* what the server applies changes what it sends as the call wants
LEMMA SilentApplied ==
  ASSUME TypeInv, NumbersInv, ApplyCall, NEW k \in Kinds, NEW n \in AskedNames(k), Silent(k, n)
  PROVE  Silent(k, n)'
<1> USE DEF callVars, serverVars, readerVars, cursorVars
<1> DEFINE b == CommandBlock(Head(todo).id)
           P == Places(stream, k, announced[k], n)
           Q == Places(stream', k, announced[k], n)
           S == subscription[k]
           T == subscription'[k]
<1>1. /\ todo # <<>> /\ todo' = Tail(todo) /\ stream' = Append(stream, b)
      /\ UNCHANGED <<nextId, announced, cursorVars, readerVars, callVars>>
      /\ stream \in Seq(Blocks) /\ todo \in Seq(Accepted)
  BY DEF ApplyCall, TypeInv, StreamTypes, ServerTypes
<1>2. b \in Blocks /\ b.kind = "command"
  <2>1. Head(todo) \in Accepted
    BY <1>1, FrontOf
  <2>2. Head(todo).id \in Nat
    BY <2>1 DEF Accepted
  <2> QED BY <2>2, CommandBlocks
<1>3. n \in T <=> \/ Wants(Head(todo).request, k, n)
                  \/ n \in S /\ ~Unwants(Head(todo).request, k, n)
  <2>1. n \in NamesOf(k)
    BY DEF AskedNames, NamesOf, Kinds
  <2> QED BY <2>1, SubscribesTo
<1>4. /\ Pending \in Seq(Accepted) /\ Pending # <<>> /\ Head(Pending) = Head(todo)
      /\ Pending' = Tail(Pending)
  <2>1. CASE caller.pc = "asking"
    <3> DEFINE x == [id |-> nextId, request |-> caller.call]
    <3>1. x \in Accepted /\ Pending = Append(todo, x) /\ Pending \in Seq(Accepted)
      BY <2>1, PendingCalls
    <3>2. Pending' = Append(Tail(todo), x)
      BY <1>1, <2>1 DEF Pending
    <3> HIDE DEF x
    <3>3. Pending # <<>>
      <4>1. Len(Pending) = Len(todo) + 1 /\ Len(todo) \in Nat
        BY <1>1, <3>1, EndOf
      <4> QED BY <4>1
    <3> QED BY <1>1, <3>1, <3>2, <3>3, TailAppended
  <2>2. CASE caller.pc # "asking"
    BY <1>1, <2>2, PendingCalls DEF Pending
  <2> QED BY <2>1, <2>2
<1>5. Border' = Border /\ ResetCalled' = ResetCalled
  BY <1>1 DEF Border, ResetCalled
<1>6. /\ Len(Pending) \in Nat \ {0} /\ Len(Pending') = Len(Pending) - 1
      /\ Len(Pending) - 1 \in 0 .. Len(Pending) - 1
  <2>1. Len(Pending) \in Nat \ {0} /\ Len(Tail(Pending)) = Len(Pending) - 1
    BY <1>4, FrontOf
  <2> QED BY <1>4, <2>1
<1>7. Q \in SUBSET (DOMAIN stream) /\ P \in SUBSET (DOMAIN stream) /\ Q \subseteq P
  <2>1. /\ P \in SUBSET (DOMAIN stream)
        /\ Q \subseteq P \cup {Len(stream) + 1}
        /\ Len(stream) + 1 \in Q => b.kind = "message"
    <3>1. P \in SUBSET (DOMAIN stream)
      BY DEF Places
    <3> HIDE DEF b
    <3> QED BY <1>1, <1>2, <3>1, PlacesAppended, LastPlace
  <2> HIDE DEF P, Q, b
  <2> QED BY <1>2, <2>1
<1> HIDE DEF b, P, Q, S, T
<1>8. ~Sends(T, Pending', k, n, Len(Pending'))
  <2>1. ~Sends(S, Pending, k, n, Len(Pending))
    BY DEF Silent, S
  <2>2. \A j \in 0 .. Len(Pending) - 1 :
           Sends(T, Tail(Pending), k, n, j) <=> Sends(S, Pending, k, n, j + 1)
    BY <1>3, <1>4, SendsTail
  <2>3. (Len(Pending) - 1) + 1 = Len(Pending)
    BY <1>6
  <2> QED BY <1>4, <1>6, <2>1, <2>2, <2>3
<1>9. ASSUME Quiet(S, Pending, k, n, Border, stream, P)
      PROVE  Quiet(T, Pending', k, n, Border, stream', Q)
  <2>1. Quiet(T, Tail(Pending), k, n, Border, Append(stream, CommandBlock(Head(Pending).id)), P)
    BY <1>1, <1>3, <1>4, <1>7, <1>9, QuietApplied
  <2>2. Quiet(T, Pending', k, n, Border, stream', P)
    BY <1>1, <1>4, <2>1 DEF b
  <2> QED BY <1>7, <2>2 DEF Quiet
<1> QED BY <1>1, <1>5, <1>8, <1>9 DEF Silent, S, T, P, Q

\* what the server sends is of names it was asked for
LEMMA SentPlaces ==
  ASSUME TypeInv, NamesInv,
         \/ \E e \in Entities : SendEntity(e)
         \/ \E t \in Types : SendType(t)
         \/ SendMessage \/ SendTerminator,
         NEW k \in Kinds, NEW n \in AskedNames(k)
  PROVE  LET P == Places(stream, k, announced[k], n)
             Q == Places(stream, k, announced[k], n)'
         IN  /\ P \in SUBSET (DOMAIN stream)
             /\ \E b \in Blocks : stream' = Append(stream, b)
             /\ Q \in SUBSET (P \cup {Len(stream) + 1})
             /\ Len(stream) + 1 \in Q => n \in subscription[k]
<1> DEFINE P == Places(stream, k, announced[k], n)
           Q == Places(stream', k, announced'[k], n)
           e == announced.entities
           t == announced.types
<1>1. /\ stream \in Seq(Blocks) /\ e \in Seq(Entities) /\ t \in Seq(Types)
      /\ announced \in [entities : Seq(Entities), types : Seq(Types)]
      /\ Len(e) \in Nat /\ Len(t) \in Nat /\ position \in Nat
      /\ DOMAIN e = 1 .. Len(e) /\ DOMAIN t = 1 .. Len(t)
  BY DEF TypeInv, StreamTypes, ServerTypes
<1>2. k = "entities" \/ k = "types"
  BY DEF Kinds
<1>3. ASSUME NEW m \in DOMAIN stream, stream[m].kind = "message"
      PROVE  stream[m].entity \in 1 .. Len(e) /\ stream[m].type \in 1 .. Len(t)
  <2>1. /\ stream[m].entity \in 1 .. Len(e) - From(stream, m, "entity")
        /\ stream[m].type \in 1 .. Len(t) - From(stream, m, "type")
    BY <1>3 DEF NamesInv, MessagesKnown
  <2>2. m \in Nat \ {0}
    BY <1>1, <1>3
  <2>3. From(stream, m, "entity") \in Nat /\ From(stream, m, "type") \in Nat
    BY <1>1, <2>2, FromPlace
  <2> HIDE DEF e, t
  <2> QED BY <1>1, <2>1, <2>3
<1>4. ASSUME NEW b \in Blocks, stream' = Append(stream, b),
             \A m \in DOMAIN stream : stream[m].kind = "message" =>
                 announced'[k][NumberOf(k, stream[m])] = announced[k][NumberOf(k, stream[m])],
             b.kind = "message" /\ announced'[k][NumberOf(k, b)] = n => n \in subscription[k]
      PROVE  /\ P \in SUBSET (DOMAIN stream)
             /\ \E d \in Blocks : stream' = Append(stream, d)
             /\ Q \in SUBSET (P \cup {Len(stream) + 1})
             /\ Len(stream) + 1 \in Q => n \in subscription[k]
  <2>1. /\ P \in SUBSET (DOMAIN stream)
        /\ Q \subseteq P \cup {Len(stream) + 1}
        /\ Len(stream) + 1 \in Q => b.kind = "message" /\ announced'[k][NumberOf(k, b)] = n
    <3> DEFINE a == announced[k]
               w == announced'[k]
    <3>1. \A m \in DOMAIN stream : stream[m].kind = "message" =>
             w[NumberOf(k, stream[m])] = a[NumberOf(k, stream[m])]
      BY <1>4
    <3> HIDE DEF a, w
    <3>2. /\ Places(Append(stream, b), k, w, n) \subseteq Places(stream, k, a, n) \cup {Len(stream) + 1}
          /\ Len(stream) + 1 \in Places(Append(stream, b), k, w, n) =>
                b.kind = "message" /\ w[NumberOf(k, b)] = n
      <4>1. b \in Blocks /\ stream \in Seq(Blocks)
        BY <1>1, <1>4
      <4> QED BY <3>1, <4>1, PlacesAppended, LastPlace
    <3>3. P \in SUBSET (DOMAIN stream)
      BY DEF Places
    <3> QED BY <1>4, <3>2, <3>3 DEF a, w
  <2> HIDE DEF P, Q
  <2> QED BY <1>4, <2>1
<1>5. CASE SendTerminator
  <2>1. Terminator \in Blocks /\ Terminator.kind = "terminator"
    BY BlockTypes
  <2>2. stream' = Append(stream, Terminator) /\ UNCHANGED announced
    BY <1>5 DEF SendTerminator
  <2> HIDE DEF P, Q
  <2> QED BY <1>4, <2>1, <2>2 DEF P, Q
<1>6. CASE SendMessage
  <2>1. PICK i \in DOMAIN e, j \in DOMAIN t :
           /\ e[i] \in subscription.entities /\ t[j] \in subscription.types \cup SystemTypes
           /\ stream' = Append(stream, Message(i, j, position)) /\ UNCHANGED announced
    BY <1>6 DEF SendMessage, Send
  <2> DEFINE b == Message(i, j, position)
  <2>2. b \in Blocks /\ b.entity = i /\ b.type = j
    <3>1. i \in Nat /\ j \in Nat
      BY <1>1
    <3> QED BY <1>1, <3>1 DEF Message, Messages, Blocks
  <2> HIDE DEF b, e, t
  <2>3. announced[k][NumberOf(k, b)] = n => n \in subscription[k]
    BY <1>2, <2>1, <2>2 DEF NumberOf, AskedNames, e, t
  <2> HIDE DEF P, Q
  <2> QED BY <1>4, <2>1, <2>2, <2>3 DEF P, Q, b
<1>7. ASSUME NEW o \in Entities, SendEntity(o)
      PROVE  /\ P \in SUBSET (DOMAIN stream)
             /\ \E d \in Blocks : stream' = Append(stream, d)
             /\ Q \in SUBSET (P \cup {Len(stream) + 1})
             /\ Len(stream) + 1 \in Q => n \in subscription[k]
  <2> DEFINE b == EntityBlock(Len(e) + 1, o)
  <2>1. stream' = Append(stream, b) /\ announced' = [announced EXCEPT !.entities = Append(e, o)]
    BY <1>1, <1>7 DEF SendEntity, Send
  <2>2. b \in Blocks /\ b.kind = "entity"
    BY <1>1, BlockTypes
  <2>3. announced'.types = t /\ \A i \in 1 .. Len(e) : announced'.entities[i] = e[i]
    BY <1>1, <2>1
  <2> HIDE DEF b, P, Q, e, t
  <2>4. \A m \in DOMAIN stream : stream[m].kind = "message" =>
           announced'[k][NumberOf(k, stream[m])] = announced[k][NumberOf(k, stream[m])]
    BY <1>2, <1>3, <2>3 DEF NumberOf, e, t
  <2> QED BY <1>4, <2>1, <2>2, <2>4
<1>8. ASSUME NEW o \in Types, SendType(o)
      PROVE  /\ P \in SUBSET (DOMAIN stream)
             /\ \E d \in Blocks : stream' = Append(stream, d)
             /\ Q \in SUBSET (P \cup {Len(stream) + 1})
             /\ Len(stream) + 1 \in Q => n \in subscription[k]
  <2> DEFINE b == TypeBlock(Len(t) + 1, o)
  <2>1. stream' = Append(stream, b) /\ announced' = [announced EXCEPT !.types = Append(t, o)]
    BY <1>1, <1>8 DEF SendType, Send
  <2>2. b \in Blocks /\ b.kind = "type"
    BY <1>1, BlockTypes
  <2>3. announced'.entities = e /\ \A i \in 1 .. Len(t) : announced'.types[i] = t[i]
    BY <1>1, <2>1
  <2> HIDE DEF b, P, Q, e, t
  <2>4. \A m \in DOMAIN stream : stream[m].kind = "message" =>
           announced'[k][NumberOf(k, stream[m])] = announced[k][NumberOf(k, stream[m])]
    BY <1>2, <1>3, <2>3 DEF NumberOf, e, t
  <2> QED BY <1>4, <2>1, <2>2, <2>4
<1> QED BY <1>5, <1>6, <1>7, <1>8

\* a block that is sent
LEMMA SilentSent ==
  ASSUME TypeInv, NumbersInv, NamesInv,
         \/ \E e \in Entities : SendEntity(e)
         \/ \E t \in Types : SendType(t)
         \/ SendMessage \/ SendTerminator,
         NEW k \in Kinds, NEW n \in AskedNames(k), Silent(k, n)
  PROVE  Silent(k, n)'
<1> DEFINE P == Places(stream, k, announced[k], n)
           Q == Places(stream', k, announced'[k], n)
           S == subscription[k]
<1>1. UNCHANGED <<subscription, todo, nextId, position, cursorVars, readerVars, callVars>>
  BY DEF SendEntity, SendType, SendMessage, SendTerminator, Send
<1>2. UNCHANGED <<caller, asked, copy, shadow>>
  BY <1>1 DEF callVars, cursorVars
<1>3. Pending' = Pending /\ Border' = Border /\ ResetCalled' = ResetCalled
  BY <1>1, <1>2 DEF Pending, Border, ResetCalled
<1>4. /\ P \in SUBSET (DOMAIN stream)
      /\ \E b \in Blocks : stream' = Append(stream, b)
      /\ Q \in SUBSET (P \cup {Len(stream) + 1})
      /\ Len(stream) + 1 \in Q => n \in S
  BY SentPlaces
<1>5. Pending \in Seq(Accepted) /\ stream \in Seq(Blocks)
  BY PendingCalls DEF TypeInv, StreamTypes
<1> HIDE DEF P, Q, S
<1>6. Quiet(S, Pending, k, n, Border, stream, P) => Quiet(S, Pending, k, n, Border, stream', Q)
  BY <1>4, <1>5, QuietSent
<1> QED BY <1>1, <1>2, <1>3, <1>6 DEF Silent, P, Q, S

\* a block that is read; when it is the end of the last reset, nothing from
\* before it is left
LEMMA SilentRead ==
  ASSUME TypeInv, NumbersInv, stream # <<>>, stream' = Tail(stream),
         UNCHANGED <<subscription, todo, announced, nextId, caller, asked>>,
         NEW k \in Kinds, NEW n \in AskedNames(k), Silent(k, n),
         Says(copy'[shadow'][k], n) = Says(copy[shadow][k], n),
         ~asked.stuck \/ ResetCalled =>
            \/ Border' = Border
            \/ /\ \A i \in DOMAIN Pending : Pending[i].id # Border
               /\ \A i \in 2 .. Len(stream) : stream[i] # CommandBlock(Border)
  PROVE  Silent(k, n)'
<1> DEFINE P == Places(stream, k, announced[k], n)
           Q == Places(stream', k, announced[k], n)
           S == subscription[k]
<1>1. Pending' = Pending /\ ResetCalled' = ResetCalled
  BY DEF Pending, ResetCalled
<1>2. Pending \in Seq(Accepted) /\ stream \in Seq(Blocks)
  BY PendingCalls DEF TypeInv, StreamTypes
<1>3. /\ P \in SUBSET (DOMAIN stream) /\ Q \in SUBSET (DOMAIN Tail(stream))
      /\ \A m \in Q : m + 1 \in P
  <2>1. P \in SUBSET (DOMAIN stream)
    BY DEF Places
  <2> QED BY <1>2, <2>1, PlacesTail
<1> HIDE DEF P, Q, S
<1>4. ASSUME Quiet(S, Pending, k, n, Border, stream, P)
      PROVE  /\ Quiet(S, Pending, k, n, Border, Tail(stream), Q)
             /\ (\A i \in DOMAIN Pending : Pending[i].id # Border)
                /\ (\A i \in 2 .. Len(stream) : stream[i] # CommandBlock(Border))
                => \A q : Quiet(S, Pending, k, n, q, Tail(stream), Q)
  BY <1>2, <1>3, <1>4, QuietRead
<1>5. ASSUME Quiet(S, Pending, k, n, Border, stream, P), ~asked.stuck \/ ResetCalled
      PROVE  Quiet(S, Pending, k, n, Border', Tail(stream), Q)
  BY <1>4, <1>5
<1> QED BY <1>1, <1>5 DEF Silent, P, Q, S

\* a cursor that failed does not recover
LEMMA DeadStays ==
  ASSUME [Next]_vars, rpc = "dead"
  PROVE  rpc' = "dead"
<1> USE DEF callVars, serverVars, readerVars, cursorVars
<1>1. CASE CallStep \/ ServerStep \/ UNCHANGED vars
  BY <1>1 DEF CallStep, BeginCall, RegisterUserMessageType, RequestFails, RequestAnswered,
     AnswerMalformed, EndCall, ServerStep, AcceptCall, ApplyCall, SendMessage, SendTerminator,
     SendEntity, SendType, Send, vars
<1>2. CASE NextStep
  BY <1>2 DEF NextStep, CallNext, ReadEntity, ReadMessageType, ReadCommand, ReadTerminator, End,
     ReadHeader, Filter, AtBlock
<1> QED BY <1>1, <1>2 DEF Next

\* what a read of a block other than a command leaves
LEMMA OtherRead ==
  ASSUME TypeInv, NumbersInv, ReadEntity \/ ReadMessageType \/ ReadTerminator \/ ReadHeader
  PROVE  /\ stream # <<>> /\ stream' = Tail(stream) /\ Head(stream).kind # "command"
         /\ Head(stream) = stream[1] /\ rpc = "record"
         /\ UNCHANGED <<subscription, todo, announced, nextId, position, caller, asked>>
         /\ SameCommands(copy'[shadow'], copy[shadow])
<1> USE DEF callVars, serverVars, readerVars, cursorVars
<1>1. PICK kind \in {"entity", "type", "terminator", "message"} :
         /\ AtBlock(kind)
         /\ UNCHANGED <<subscription, todo, announced, nextId, position, caller, asked>>
  BY DEF ReadEntity, ReadMessageType, ReadTerminator, ReadHeader
<1>2. SameCommands(copy'[shadow'], copy[shadow])
  <2>1. CASE ReadEntity \/ ReadMessageType
    <3>1. PICK t \in Copies : SynchronizeAnd(t) /\ SameCommands(t, copy[shadow])
      BY <2>1, EntityRead, TypeRead DEF Reads
    <3> QED BY <3>1, TakesShadow
  <2>2. CASE ReadTerminator \/ ReadHeader
    <3>1. (SynchronizeAnd(copy[shadow]) /\ copy[shadow] \in Copies) \/ UNCHANGED cursorVars
      BY <2>2, TerminatorRead, HeaderRead DEF Reads
    <3>2. copy'[shadow'] = copy[shadow]
      BY <3>1, TakesShadow
    <3> QED BY <3>2 DEF SameCommands
  <2> QED BY <2>1, <2>2
<1>3. Head(stream) = stream[1] /\ rpc = "record" /\ stream # <<>> /\ stream' = Tail(stream)
      /\ Head(stream).kind = kind
  BY <1>1, TakesBlock
<1> QED BY <1>1, <1>2, <1>3

\* A command that is read without an error is the first of those the shadow
\* expects; whether it is the end of the last reset is known, unless a reset
\* failed since.
LEMMA RightCommand ==
  ASSUME TypeInv, NumbersInv, CommandsInv, ResetInv, BoundInv, ReadCommand, rpc' # "dead"
  PROVE  LET s == copy[shadow]
             t == copy'[shadow']
         IN
         /\ stream # <<>> /\ stream' = Tail(stream) /\ Head(stream).kind = "command"
         /\ rpc = "record" /\ caller = Free /\ Head(stream).id = s.first /\ s.first \in Nat
         /\ \A i \in DOMAIN todo : todo[i].id # s.first
         /\ \A i \in 2 .. Len(stream) : stream[i] # CommandBlock(s.first)
         /\ UNCHANGED <<subscription, todo, announced, nextId, position, caller, asked>>
         /\ t.first = IF s.first = s.last THEN None ELSE s.first + 1
         /\ t.last = IF s.first = s.last THEN None ELSE s.last
         /\ s.resetting /\ s.first = s.lastReset => t.resetting = FALSE /\ t.lastReset = None
         /\ ~asked.stuck /\ ~(s.resetting /\ s.first = s.lastReset) =>
               t.resetting = s.resetting /\ t.lastReset = s.lastReset
         /\ t.lastReset >= 1 => t.lastReset = s.lastReset \/ asked.stuck
<1> USE DEF callVars, serverVars, readerVars, cursorVars
<1> DEFINE s == copy[shadow]
           t == copy'[shadow']
<1>1. /\ s \in Copies /\ stream \in Seq(Blocks) /\ todo \in Seq(Accepted)
      /\ nextId - Len(todo) \in Nat /\ IdsOk(s, nextId)
  BY DEF TypeInv, CursorTypes, StreamTypes, ServerTypes, NumbersInv
<1>2. PICK r \in Readings(s) :
         /\ Reads("command", t) /\ r \in Copies /\ Head(stream).id = r.first /\ ~ResetLost(r)
         /\ t = Executed(r)
  <2>1. PICK u \in Copies, r \in Readings(s) :
           /\ Reads("command", u) /\ r \in Copies
           /\ Head(stream).id = r.first /\ ~ResetLost(r) /\ u = Executed(r)
    BY CommandRead
  <2>2. u = t
    BY <2>1, TakesShadow DEF Reads
  <2> QED BY <2>1, <2>2
<1>3. /\ SynchronizeAnd(t) /\ AtBlock("command")
      /\ UNCHANGED <<subscription, todo, announced, nextId, position, caller, asked>>
  BY <1>2 DEF Reads
<1>4. /\ stream # <<>> /\ stream' = Tail(stream) /\ Head(stream).kind = "command"
      /\ rpc = "record" /\ caller = Free
  <2>1. t \in Copies
    BY <1>2, ExecutedCopy
  <2> QED BY <1>3, <2>1, TakesBlock, TakesShadow
<1>5. /\ r.first = s.first /\ r.last = s.last /\ r.resetting = s.resetting
      /\ \/ r.lastReset = s.lastReset
         \/ /\ s.resetting /\ s.lastReset = Unset
            /\ r.lastReset = None \/ r.lastReset = s.first
  BY <1>1, <1>2, ExecutedCopy
<1>6. /\ s.first \in Nat /\ \A i \in DOMAIN todo : todo[i].id # s.first
      /\ \A i \in 2 .. Len(stream) : stream[i] # CommandBlock(s.first)
  BY <1>1, <1>2, <1>4, <1>5, HeadOnly DEF CommandsInv
<1>7. /\ t.first = IF r.first = r.last THEN None ELSE r.first + 1
      /\ t.last = IF r.first = r.last THEN None ELSE r.last
      /\ r.resetting /\ r.first = r.lastReset => t.resetting = FALSE /\ t.lastReset = None
      /\ ~(r.resetting /\ r.first = r.lastReset) =>
            t.resetting = r.resetting /\ t.lastReset = r.lastReset
  BY <1>2, ExecutedCopy
<1>8. s.resetting /\ ~asked.stuck => s.lastReset >= 1
  <2>1. ~ResetCalled
    BY <1>4 DEF ResetCalled, Free
  <2> QED BY <1>4, <2>1 DEF BoundInv
<1>9. ~asked.stuck => r.lastReset = s.lastReset
  <2>1. s.lastReset = Unset => ~(s.lastReset >= 1)
    BY DEF Unset
  <2> QED BY <1>5, <1>8, <2>1
<1>10. s.resetting /\ s.first = s.lastReset => t.resetting = FALSE /\ t.lastReset = None
  <2>1. ASSUME s.resetting, s.first = s.lastReset PROVE r.first = r.lastReset
    <3>1. CASE r.lastReset = None
      <4>1. s.lastReset = Unset \/ r.lastReset = s.lastReset
        BY <1>5
      <4>2. r.lastReset \in r.first .. r.last
        BY <1>2, <1>5, <2>1 DEF ResetLost
      <4> QED BY <1>5, <1>6, <3>1, <4>2 DEF None
    <3> QED BY <1>5, <2>1, <3>1
  <2> QED BY <1>5, <1>7, <2>1
<1> HIDE DEF s, t
<1>11. t.lastReset >= 1 => t.lastReset = s.lastReset \/ asked.stuck
  BY <1>5, <1>7, <1>9 DEF None
<1> QED BY <1>2, <1>3, <1>4, <1>5, <1>6, <1>7, <1>9, <1>10, <1>11 DEF s, t

\* no step makes the server send a name that was not asked for, or lets one pass
\* that is on the way
LEMMA LeakStep ==
  ASSUME TypeInv, NumbersInv, NamesInv, CommandsInv, ResetInv, CallInv, FilterInv, LeakInv, BoundInv,
         [Next]_vars
  PROVE  LeakInv'
<1> USE DEF callVars, serverVars, readerVars, cursorVars
<1> SUFFICES ASSUME rpc' # "dead", NEW k \in Kinds, NEW n \in AskedNames(k),
                    n \notin asked'[k], n \notin asked'.unsure
             PROVE  Silent(k, n)'
  BY DEF LeakInv
<1>1. rpc # "dead"
  BY DeadStays
<1>2. ASSUME NEW c \in Calls, BeginCall(c) PROVE Silent(k, n)'
  BY <1>1, <1>2, SilentCalled
<1>3. CASE ~\E c \in Calls : BeginCall(c)
  <2>1. n \notin asked[k] /\ n \notin asked.unsure
    BY <1>3, AskedKept
  <2>2. Silent(k, n)
    BY <1>1, <2>1 DEF LeakInv
  <2>3. Says(copy'[shadow'][k], n) = Says(copy[shadow][k], n)
    BY <1>3, SaysKept
  <2>4. ASSUME UNCHANGED <<subscription, stream, announced, asked>>, Pending' = Pending,
               Border' = Border, ResetCalled' = ResetCalled
        PROVE  Silent(k, n)'
    BY <2>2, <2>3, <2>4 DEF Silent
  <2>5. CASE RequestFails
    BY <2>2, <2>3, <2>5, SilentFailed
  <2>6. CASE RequestAnswered \/ AnswerMalformed
    <3>1. PICK id \in Int : EndCall(id) /\ (id = caller.id \/ id = None) /\ caller.pc = "answered"
      <4>1. CASE RequestAnswered
        BY <4>1 DEF RequestAnswered, NumbersInv, TypeInv, ServerTypes
      <4>2. CASE AnswerMalformed
        BY <4>2 DEF AnswerMalformed, None
      <4> QED BY <2>6, <4>1, <4>2
    <3> QED BY <2>2, <2>3, <3>1, SilentEnded
  <2>7. CASE RegisterUserMessageType
    <3>1. /\ UNCHANGED <<subscription, stream, announced, asked, caller, todo, nextId>>
          /\ WriteShadow(copy[shadow]) /\ copy[shadow] \in Copies
      BY <2>7 DEF RegisterUserMessageType, TypeInv, CursorTypes
    <3>2. copy'[shadow'] = copy[shadow]
      BY <3>1, WritesShadow
    <3>3. Pending' = Pending /\ Border' = Border /\ ResetCalled' = ResetCalled
      BY <3>1, <3>2 DEF Pending, Border, ResetCalled
    <3> QED BY <2>4, <3>1, <3>3
  <2>8. CASE AcceptCall
    <3>1. /\ caller.pc = "asking" /\ caller' = [pc |-> "answered", call |-> caller.call, id |-> nextId]
          /\ todo' = Append(todo, [id |-> nextId, request |-> Request(caller.call)])
          /\ UNCHANGED <<subscription, stream, announced, asked, copy, shadow>>
      BY <2>8 DEF AcceptCall
    <3>2. /\ caller'.pc = "answered" /\ caller'.call = caller.call /\ caller'.id = nextId
      BY <3>1
    <3>3. Request(caller.call) = caller.call
      BY <3>1, CallsAre DEF CallInv
    <3>4. Pending' = Pending /\ ResetCalled' = ResetCalled
      BY <3>1, <3>2, <3>3 DEF Pending, ResetCalled
    <3>5. Border' = Border
      BY <3>1, <3>2, <3>4 DEF Border
    <3> QED BY <2>4, <3>1, <3>4, <3>5
  <2>9. CASE ApplyCall
    <3>1. UNCHANGED asked
      BY <2>9 DEF ApplyCall
    <3> QED BY <2>2, <2>9, SilentApplied
  <2>10. CASE \/ \E e \in Entities : SendEntity(e)
              \/ \E t \in Types : SendType(t)
              \/ SendMessage \/ SendTerminator
    BY <2>2, <2>10, SilentSent
  <2>11. CASE CallNext \/ End \/ Filter \/ UNCHANGED vars
    <3>1. UNCHANGED <<subscription, stream, announced, asked, caller, todo, nextId, copy, shadow>>
      BY <2>11 DEF CallNext, End, Filter, Throw, vars
    <3>2. Pending' = Pending /\ Border' = Border /\ ResetCalled' = ResetCalled
      BY <3>1 DEF Pending, Border, ResetCalled
    <3> QED BY <2>4, <3>1, <3>2
  <2>12. CASE ReadEntity \/ ReadMessageType \/ ReadTerminator \/ ReadHeader
    <3>1. /\ stream # <<>> /\ stream' = Tail(stream)
          /\ UNCHANGED <<subscription, todo, announced, nextId, caller, asked>>
          /\ copy'[shadow'].lastReset = copy[shadow].lastReset
      BY <2>12, OtherRead DEF SameCommands
    <3>2. Border' = Border
      BY <3>1 DEF Border, ResetCalled
    <3> QED BY <2>2, <2>3, <3>1, <3>2, SilentRead
  <2>13. CASE ReadCommand
    <3> DEFINE s == copy[shadow]
               t == copy'[shadow']
    <3>1. /\ stream # <<>> /\ stream' = Tail(stream) /\ caller = Free /\ s.first \in Nat
          /\ UNCHANGED <<subscription, todo, announced, nextId, caller, asked>>
          /\ \A i \in DOMAIN todo : todo[i].id # s.first
          /\ \A i \in 2 .. Len(stream) : stream[i] # CommandBlock(s.first)
          /\ s.resetting /\ s.first = s.lastReset => t.lastReset = None
          /\ ~asked.stuck /\ ~(s.resetting /\ s.first = s.lastReset) => t.lastReset = s.lastReset
      BY <2>13, RightCommand
    <3>2. /\ ~ResetCalled /\ ~(ResetCalled') /\ Pending = todo
          /\ Border = IF s.lastReset >= 1 THEN s.lastReset ELSE 0
          /\ Border' = IF t.lastReset >= 1 THEN t.lastReset ELSE 0
      BY <3>1 DEF ResetCalled, Free, Pending, Border
    <3> HIDE DEF s, t
    <3>3. ASSUME ~asked.stuck \/ ResetCalled
          PROVE  \/ Border' = Border
                 \/ /\ \A i \in DOMAIN Pending : Pending[i].id # Border
                    /\ \A i \in 2 .. Len(stream) : stream[i] # CommandBlock(Border)
      <4>1. CASE s.resetting /\ s.first = s.lastReset
        <5>1. CASE s.lastReset >= 1
          <6>1. Border = s.first
            BY <3>2, <4>1, <5>1
          <6> QED BY <3>1, <3>2, <6>1
        <5>2. CASE ~(s.lastReset >= 1)
          BY <3>1, <3>2, <4>1, <5>2 DEF None
        <5> QED BY <5>1, <5>2
      <4>2. CASE ~(s.resetting /\ s.first = s.lastReset)
        BY <3>1, <3>2, <3>3, <4>2
      <4> QED BY <4>1, <4>2
    <3> QED BY <2>2, <2>3, <3>1, <3>3, SilentRead
  <2> QED BY <1>3, <2>5, <2>6, <2>7, <2>8, <2>9, <2>10, <2>11, <2>12, <2>13
          DEF Next, CallStep, ServerStep, NextStep
<1> QED BY <1>2, <1>3

-----------------------------------------------------------------------------
(* What comes before the end of a reset.                                   *)

\* what does not change the bounds of any commands keeps the invariant
LEMMA BoundKept ==
  ASSUME TypeInv, BoundInv, rpc # "dead", SameCommands(copy'[shadow'], copy[shadow]),
         UNCHANGED <<asked, caller>>,
         \A ids : \A m \in Int : AtMost(stream, todo, position, ids, m) =>
                                     AtMost(stream', todo', position', ids, m)
  PROVE  BoundInv'
<1> DEFINE s == copy[shadow]
           t == copy'[shadow']
           n == asked.resets
<1>1. n \in Int /\ n - 1 \in Int /\ n + AnsweredReset \in Int
  BY DEF TypeInv, CallerTypes, Askings, AnsweredReset
<1>2. /\ Expected(t) = Expected(s) /\ t.lastReset = s.lastReset /\ t.resetting = s.resetting
      /\ Answered' = Answered /\ AnsweredReset' = AnsweredReset /\ ResetCalled' = ResetCalled
      /\ asked' = asked
  BY DEF SameCommands, Expected, Answered, AnsweredReset, ResetCalled
<1> HIDE DEF s, t, n
<1>3. /\ AtMost(stream', todo', position', Expected(t), n)
      /\ AtMost(stream', todo', position', Expected(t) \cup Answered, n + AnsweredReset)
  BY <1>1, <1>2 DEF BoundInv, s, n
<1>4. ASSUME t.lastReset >= 1, ~asked.stuck
      PROVE  /\ AtMost(stream', todo', position', Expected(t) \ {t.lastReset}, n - 1)
             /\ ~ResetCalled => AtMost(stream', todo', position',
                                       (Expected(t) \cup Answered) \ {t.lastReset}, n - 1)
  BY <1>1, <1>2, <1>4 DEF BoundInv, s, n
<1>5. t.resetting /\ ~ResetCalled /\ ~asked.stuck => t.lastReset >= 1
  BY <1>2 DEF BoundInv, s
<1> QED BY <1>2, <1>3, <1>4, <1>5 DEF BoundInv, t, n

\* a call begins, with nothing done yet
LEMMA BoundCalled ==
  ASSUME TypeInv, BoundInv, rpc # "dead", NEW c \in Calls, BeginCall(c)
  PROVE  BoundInv'
<1> USE DEF serverVars
<1> DEFINE s == copy[shadow]
           t == copy'[shadow']
           n == asked.resets
<1>1. /\ c \in CallTypes /\ WriteShadow(Written(c)) /\ caller.pc = "free" /\ asked' = AskFor(c)
      /\ caller' = [pc |-> "asking", call |-> c] /\ UNCHANGED <<stream, todo, position>>
  BY CallsHaveTypes DEF BeginCall, thisLockFree, Written
<1>2. /\ t.first = s.first /\ t.last = s.last /\ t.lastReset = s.lastReset
      /\ t.resetting = (s.resetting \/ c.kind = "reset")
  <2>1. /\ Written(c) \in Copies
        /\ Written(c).first = s.first /\ Written(c).last = s.last
        /\ Written(c).lastReset = s.lastReset
        /\ Written(c).resetting = (s.resetting \/ c.kind = "reset")
    BY <1>1, WrittenCopy
  <2>2. t = Written(c)
    BY <1>1, <2>1, WritesShadow
  <2> QED BY <2>1, <2>2
<1>3. asked'.resets = n /\ n \in Nat
  BY <1>1, AskingTypes DEF TypeInv, CallerTypes, Askings
<1>4. asked'.stuck = asked.stuck
  BY <1>1 DEF AskFor, TypeInv, CallerTypes, Askings, CallTypes
<1>5. /\ Answered = {} /\ Answered' = {} /\ AnsweredReset = 0 /\ AnsweredReset' = 0
      /\ ~ResetCalled /\ (ResetCalled' <=> c.kind = "reset")
  BY <1>1 DEF Answered, AnsweredReset, ResetCalled
<1>6. Expected(t) = Expected(s)
  BY <1>2 DEF Expected
<1> HIDE DEF s, t, n
<1> QED BY <1>1, <1>2, <1>3, <1>4, <1>5, <1>6 DEF BoundInv, s, t, n

\* a call that ends without being counted among those that are expected: its
\* request failed, or its number does not fit
LEMMA BoundDoubted ==
  ASSUME TypeInv, BoundInv, rpc # "dead", caller.pc # "free", caller' = Free,
         asked' = Doubted(caller.call), UNCHANGED <<stream, todo, position>>,
         \A i \in Nat : i \in Expected(copy'[shadow']) => i \in Expected(copy[shadow]),
         ~ResetCalled => copy'[shadow'].lastReset = copy[shadow].lastReset,
         copy'[shadow'].resetting = copy[shadow].resetting
  PROVE  BoundInv'
<1> DEFINE s == copy[shadow]
           t == copy'[shadow']
           n == asked.resets
<1>1. /\ n \in Int /\ n - 1 \in Int /\ n <= n /\ n - 1 <= n - 1 /\ asked'.resets = n
      /\ stream \in Seq(Blocks) /\ todo \in Seq(Accepted) /\ position \in Nat /\ asked \in Askings
  <2>1. /\ n \in Nat /\ stream \in Seq(Blocks) /\ todo \in Seq(Accepted) /\ position \in Nat
        /\ asked \in Askings
    BY DEF TypeInv, CallerTypes, ServerTypes, StreamTypes, Askings
  <2>2. caller.call \in CallTypes
    BY DEF TypeInv, CallerTypes, Callers, Free
  <2>3. asked'.resets = n
    BY <2>2, AskingTypes
  <2> HIDE DEF n
  <2> QED BY <2>1, <2>3
<1>2. asked'.stuck = (asked.stuck \/ ResetCalled)
  BY <1>1 DEF Doubted, Askings, ResetCalled
<1>3. Answered' = {} /\ AnsweredReset' = 0 /\ ~(ResetCalled')
  BY DEF Answered, AnsweredReset, ResetCalled, Free
<1> HIDE DEF s, t, n
<1>4. AtMost(stream, todo, position, Expected(t), n)
  <2>1. AtMost(stream, todo, position, Expected(s), n)
    BY DEF BoundInv, s, n
  <2> QED BY <1>1, <2>1, AtMostFewer DEF s, t
<1>5. ASSUME t.lastReset >= 1, ~asked.stuck, ~ResetCalled
      PROVE  AtMost(stream, todo, position, Expected(t) \ {t.lastReset}, n - 1)
  <2>1. t.lastReset = s.lastReset
    BY <1>5 DEF s, t
  <2>2. AtMost(stream, todo, position, Expected(s) \ {t.lastReset}, n - 1)
    BY <1>5, <2>1 DEF BoundInv, s, n
  <2>3. \A i \in Nat : i \in Expected(t) \ {t.lastReset} => i \in Expected(s) \ {t.lastReset}
    BY DEF s, t
  <2> QED BY <1>1, <2>2, <2>3, AtMostFewer
<1>6. t.resetting /\ ~asked.stuck /\ ~ResetCalled => t.lastReset >= 1
  BY DEF BoundInv, s, t
<1>7. Expected(t) \cup {} = Expected(t) /\ n + 0 = n
  BY <1>1
<1>8. AtMost(stream, todo, position, Expected(t) \cup {}, n + 0)
  BY <1>4, <1>7
<1>9. asked'.stuck \in BOOLEAN /\ asked.stuck \in BOOLEAN
  BY <1>1, <1>2 DEF Askings, ResetCalled
<1>10. ~asked'.stuck => ~asked.stuck /\ ~ResetCalled
  BY <1>2, <1>9
<1> QED BY <1>1, <1>3, <1>4, <1>5, <1>6, <1>7, <1>8, <1>10 DEF BoundInv, t, n

\* a call ends that is counted among those that are expected
LEMMA BoundCounted ==
  ASSUME TypeInv, BoundInv, rpc # "dead", caller.pc = "answered", caller.id \in Nat \ {0},
         caller' = Free, UNCHANGED <<stream, todo, position>>,
         \A i \in Nat : i \in Expected(copy'[shadow']) =>
                            i \in Expected(copy[shadow]) \/ i = caller.id,
         copy'[shadow'].lastReset = IF ResetCalled THEN caller.id ELSE copy[shadow].lastReset,
         copy'[shadow'].resetting = copy[shadow].resetting,
         asked' = IF ResetCalled THEN [asked EXCEPT !.resets = @ + 1, !.stuck = FALSE] ELSE asked
  PROVE  BoundInv'
<1> DEFINE s == copy[shadow]
           t == copy'[shadow']
           n == asked.resets
           E == Expected(t)
           m == n + AnsweredReset
<1>1. /\ n \in Nat /\ stream \in Seq(Blocks) /\ todo \in Seq(Accepted) /\ position \in Nat
      /\ asked \in Askings
  BY DEF TypeInv, CallerTypes, ServerTypes, StreamTypes, Askings
<1>2. /\ Answered = {caller.id} /\ AnsweredReset = IF ResetCalled THEN 1 ELSE 0
      /\ Answered' = {} /\ AnsweredReset' = 0 /\ ~(ResetCalled')
  BY DEF Answered, AnsweredReset, ResetCalled, Free
<1>3. /\ asked'.resets = m /\ m \in Nat /\ n <= m /\ m - 1 \in Int /\ n - 1 \in Int
      /\ ResetCalled => m = n + 1 /\ n <= m - 1 /\ ~asked'.stuck
      /\ ~ResetCalled => m = n /\ asked' = asked
  <2>1. ResetCalled => asked'.resets = n + 1 /\ asked'.stuck = FALSE
    BY <1>1 DEF Askings
  <2>2. ~ResetCalled => asked'.resets = n
    OBVIOUS
  <2> HIDE DEF n
  <2> QED BY <1>1, <1>2, <2>1, <2>2
<1> HIDE DEF s, t, n, m, E
<1>4. AtMost(stream, todo, position, E, m)
  <2>1. AtMost(stream, todo, position, Expected(s) \cup Answered, m)
    BY DEF BoundInv, s, n, m
  <2>2. \A i \in Nat : i \in E => i \in Expected(s) \cup Answered
    BY <1>2 DEF E, s, t
  <2> QED BY <1>1, <1>3, <2>1, <2>2, AtMostFewer
<1>5. ASSUME t.lastReset >= 1, ~asked'.stuck
      PROVE  AtMost(stream, todo, position, E \ {t.lastReset}, m - 1)
  <2>1. CASE ResetCalled
    <3>1. AtMost(stream, todo, position, Expected(s), n)
      BY DEF BoundInv, s, n
    <3>2. \A i \in Nat : i \in E \ {t.lastReset} => i \in Expected(s)
      BY <2>1 DEF E, s, t
    <3> QED BY <1>1, <1>3, <2>1, <3>1, <3>2, AtMostFewer
  <2>2. CASE ~ResetCalled
    <3>1. t.lastReset = s.lastReset /\ m = n /\ ~asked.stuck
      BY <1>3, <1>5, <2>2 DEF s, t
    <3>2. AtMost(stream, todo, position, (Expected(s) \cup Answered) \ {t.lastReset}, m - 1)
      BY <1>5, <2>2, <3>1 DEF BoundInv, s, n
    <3>3. \A i \in Nat : i \in E \ {t.lastReset} =>
              i \in (Expected(s) \cup Answered) \ {t.lastReset}
      BY <1>2 DEF E, s, t
    <3>4. m - 1 <= m - 1
      BY <1>3
    <3> QED BY <1>1, <1>3, <3>2, <3>3, <3>4, AtMostFewer
  <2> QED BY <2>1, <2>2
<1>6. t.resetting /\ ~asked'.stuck => t.lastReset >= 1
  <2>1. CASE ResetCalled
    BY <2>1 DEF t
  <2>2. CASE ~ResetCalled
    BY <1>3, <2>2 DEF BoundInv, s, t
  <2> QED BY <2>1, <2>2
<1>7. E \cup {} = E /\ m + 0 = m
  BY <1>3
<1>8. AtMost(stream, todo, position, E \cup {}, m + 0)
  BY <1>4, <1>7
<1> QED BY <1>2, <1>3, <1>4, <1>5, <1>6, <1>7, <1>8 DEF BoundInv, t, E

\* a call ends
LEMMA BoundEnded ==
  ASSUME TypeInv, NumbersInv, BoundInv, rpc # "dead", NEW id \in Int, caller.pc = "answered",
         EndCall(id), id = caller.id \/ id = None
  PROVE  BoundInv'
<1> USE DEF serverVars
<1> DEFINE s == copy[shadow]
           t == copy'[shadow']
           reset == caller.call.kind = "reset"
           fits == s.last = None \/ id = s.last + 1
<1>1. /\ caller' = Free /\ shadow' = shadow /\ UNCHANGED <<stream, todo, position>>
      /\ asked' = IF ~fits \/ id = None THEN Doubted(caller.call)
                  ELSE IF reset THEN [asked EXCEPT !.resets = @ + 1, !.stuck = FALSE] ELSE asked
  BY DEF EndCall
<1>2. /\ t.resetting = s.resetting
      /\ fits => /\ t.first = IF s.last = None THEN id ELSE s.first
                 /\ t.last = id
                 /\ t.lastReset = IF reset THEN id ELSE s.lastReset
      /\ ~fits => t = s
  BY <1>1, EndedCall
<1>3. /\ s.first \in Int /\ s.last \in Int /\ (s.first = None <=> s.last = None)
      /\ caller.id \in Nat \ {0} /\ (ResetCalled <=> reset)
      /\ s.last = None \/ s.last >= 1
  <2>1. s \in Copies /\ IdsOk(s, nextId) /\ nextId \in Nat
    BY DEF TypeInv, CursorTypes, ServerTypes, NumbersInv
  <2> QED BY <2>1 DEF Copies, NumbersInv, IdsOk, ResetCalled, None
<1> HIDE DEF s, t, reset, fits
<1>4. CASE ~fits \/ id = None
  <2>1. \A i \in Nat : i \in Expected(t) => i \in Expected(s)
    <3>1. CASE ~fits
      BY <1>2, <3>1
    <3>2. CASE fits /\ id = None
      <4>1. t.last = None
        BY <1>2, <3>2
      <4>2. t.first = None
        BY <1>2, <1>3, <3>2 DEF fits, None
      <4> QED BY <4>1, <4>2 DEF Expected, None
    <3> QED BY <1>4, <3>1, <3>2
  <2>2. ~ResetCalled => t.lastReset = s.lastReset
    BY <1>2, <1>3
  <2>3. asked' = Doubted(caller.call) /\ caller.pc # "free"
    BY <1>1, <1>4
  <2> QED BY <1>1, <1>2, <2>1, <2>2, <2>3, BoundDoubted DEF s, t
<1>5. CASE fits /\ id # None
  <2>1. id = caller.id
    BY <1>5
  <2>2. \A i \in Nat : i \in Expected(t) => i \in Expected(s) \/ i = caller.id
    <3>1. CASE s.last = None
      <4>1. t.first = id /\ t.last = id
        BY <1>2, <1>5, <3>1
      <4> QED BY <1>3, <2>1, <4>1 DEF Expected
    <3>2. CASE s.last # None
      <4>1. t.first = s.first /\ t.last = s.last + 1 /\ id = s.last + 1
        BY <1>2, <1>5, <3>2 DEF fits
      <4> QED BY <1>3, <2>1, <4>1 DEF Expected
    <3> QED BY <3>1, <3>2
  <2>3. /\ t.lastReset = IF ResetCalled THEN caller.id ELSE s.lastReset
        /\ asked' = IF ResetCalled THEN [asked EXCEPT !.resets = @ + 1, !.stuck = FALSE] ELSE asked
    BY <1>1, <1>2, <1>3, <1>5, <2>1
  <2> QED BY <1>1, <1>2, <1>3, <2>2, <2>3, BoundCounted DEF s, t
<1> QED BY <1>4, <1>5

\* a call is accepted: it will be done after those that are expected
LEMMA BoundAccepted ==
  ASSUME TypeInv, NumbersInv, CommandsInv, BoundInv, rpc # "dead", AcceptCall
  PROVE  BoundInv'
<1> USE DEF cursorVars
<1> DEFINE x == [id |-> nextId, request |-> Request(caller.call)]
           s == copy[shadow]
           n == asked.resets
           d == IF x.request.kind = "reset" THEN 1 ELSE 0
<1>1. /\ n \in Nat /\ stream \in Seq(Blocks) /\ todo \in Seq(Accepted) /\ position \in Nat
      /\ nextId \in Nat /\ s \in Copies /\ IdsOk(s, nextId) /\ nextId \in Nat \ {0}
  BY DEF TypeInv, CallerTypes, ServerTypes, StreamTypes, Askings, CursorTypes, NumbersInv
<1>2. /\ caller.pc = "asking" /\ todo' = Append(todo, x)
      /\ caller' = [pc |-> "answered", call |-> caller.call, id |-> nextId]
      /\ UNCHANGED <<stream, position, asked, copy, shadow>>
  BY DEF AcceptCall
<1>3. /\ x \in Accepted /\ x.id = nextId
      /\ ResetCalled' = ResetCalled /\ (x.request.kind = "reset" <=> ResetCalled)
      /\ Answered = {} /\ Answered' = {nextId} /\ AnsweredReset' = d
  <2>1. caller.call \in CallTypes
    BY <1>2 DEF TypeInv, CallerTypes, Callers, Free
  <2>2. Request(caller.call) \in CallTypes /\ Request(caller.call).kind = caller.call.kind
    BY <2>1, CallsHaveTypes
  <2>3. x \in Accepted /\ x.id = nextId /\ x.request.kind = caller.call.kind
    BY <1>1, <2>2 DEF Accepted
  <2>4. caller'.pc = "answered" /\ caller'.call = caller.call /\ caller'.id = nextId
    BY <1>2
  <2> HIDE DEF x
  <2> QED BY <1>2, <2>3, <2>4 DEF ResetCalled, Answered, AnsweredReset
<1>4. /\ \A i \in DOMAIN todo : todo[i].id # x.id
      /\ \A i \in DOMAIN stream : stream[i].kind = "command" => stream[i].id # x.id
  <2>1. Len(todo) \in Nat /\ DOMAIN todo = 1 .. Len(todo)
    BY <1>1
  <2>2. ASSUME NEW i \in DOMAIN todo PROVE todo[i].id # x.id
    <3>1. todo[i].id = nextId - Len(todo) + i - 1
      BY DEF CommandsInv, NumberedFrom
    <3> HIDE DEF x
    <3> QED BY <1>1, <1>3, <2>1, <3>1
  <2>3. ASSUME NEW i \in DOMAIN stream, stream[i].kind = "command" PROVE stream[i].id # x.id
    <3>1. stream[i].id < nextId - Len(todo) /\ stream[i] \in Blocks
      BY <1>1, <2>3 DEF CommandsInv, CommandsBefore
    <3>2. stream[i].id \in Nat
      BY <2>3, <3>1, CommandBlocks
    <3> HIDE DEF x
    <3> QED BY <1>1, <1>3, <2>1, <3>1, <3>2
  <2> QED BY <2>2, <2>3
<1>5. nextId \notin Expected(s)
  BY <1>1 DEF Expected, IdsOk, Copies, None
<1>6. n \in Int /\ n - 1 \in Int /\ n + d \in Int /\ (n - 1) + d \in Int /\ d \in {0, 1}
  BY <1>1
<1> HIDE DEF x, s, n, d
<1>7. /\ AtMost(stream, todo', position, Expected(s), n)
      /\ AtMost(stream, todo', position, Expected(s) \cup {nextId}, n + d)
  <2>1. AtMost(stream, todo, position, Expected(s), n)
    BY DEF BoundInv, s, n
  <2> QED BY <1>1, <1>2, <1>3, <1>4, <1>5, <1>6, <2>1, AtMostAccepted DEF d
<1>8. ASSUME s.lastReset >= 1, ~asked.stuck
      PROVE  /\ AtMost(stream, todo', position, Expected(s) \ {s.lastReset}, n - 1)
             /\ ~ResetCalled => AtMost(stream, todo', position,
                                       (Expected(s) \cup {nextId}) \ {s.lastReset}, n - 1)
  <2> DEFINE E == Expected(s) \ {s.lastReset}
  <2>1. AtMost(stream, todo, position, E, n - 1) /\ x.id \notin E
    BY <1>3, <1>5, <1>8 DEF BoundInv, s, n
  <2> HIDE DEF E
  <2>2. /\ AtMost(stream, todo', position, E, n - 1)
        /\ AtMost(stream, todo', position, E \cup {x.id}, (n - 1) + d)
    BY <1>1, <1>2, <1>3, <1>4, <1>6, <2>1, AtMostAccepted DEF d
  <2>3. ASSUME ~ResetCalled
        PROVE  AtMost(stream, todo', position, (Expected(s) \cup {nextId}) \ {s.lastReset}, n - 1)
    <3>1. d = 0 /\ (n - 1) + d <= n - 1
      BY <1>3, <1>6, <2>3 DEF d
    <3>2. todo' \in Seq(Accepted)
      BY <1>1, <1>2, <1>3
    <3>3. \A i \in Nat : i \in (Expected(s) \cup {nextId}) \ {s.lastReset} => i \in E \cup {x.id}
      BY <1>3 DEF E
    <3> QED BY <1>1, <1>6, <2>2, <3>1, <3>2, <3>3, AtMostFewer
  <2> QED BY <2>2, <2>3 DEF E
<1>9. s.resetting /\ ~ResetCalled /\ ~asked.stuck => s.lastReset >= 1
  BY DEF BoundInv, s
<1> QED BY <1>2, <1>3, <1>7, <1>8, <1>9 DEF BoundInv, s, n

\* a command is read, the first of those that are expected
LEMMA BoundRead ==
  ASSUME TypeInv, NumbersInv, CommandsInv, ResetInv, BoundInv, ReadCommand, rpc' # "dead"
  PROVE  BoundInv'
<1> DEFINE s == copy[shadow]
           t == copy'[shadow']
           n == asked.resets
<1>1. /\ stream # <<>> /\ stream' = Tail(stream) /\ rpc = "record" /\ caller = Free
      /\ Head(stream).kind = "command" /\ Head(stream).id = s.first /\ s.first \in Nat
      /\ UNCHANGED <<todo, position, caller, asked>>
      /\ t.first = IF s.first = s.last THEN None ELSE s.first + 1
      /\ t.last = IF s.first = s.last THEN None ELSE s.last
      /\ s.resetting /\ s.first = s.lastReset => t.resetting = FALSE /\ t.lastReset = None
      /\ ~asked.stuck /\ ~(s.resetting /\ s.first = s.lastReset) =>
            t.resetting = s.resetting /\ t.lastReset = s.lastReset
      /\ t.lastReset >= 1 => t.lastReset = s.lastReset \/ asked.stuck
  BY RightCommand
<1>2. /\ n \in Int /\ n - 1 \in Int /\ n <= n /\ n - 1 <= n - 1
      /\ stream \in Seq(Blocks) /\ todo \in Seq(Accepted) /\ position \in Nat
  <2>1. /\ n \in Nat /\ stream \in Seq(Blocks) /\ todo \in Seq(Accepted) /\ position \in Nat
    BY DEF TypeInv, CallerTypes, ServerTypes, StreamTypes, Askings
  <2> HIDE DEF n
  <2> QED BY <2>1
<1>3. s \in Copies /\ IdsOk(s, nextId) /\ nextId \in Nat
  BY DEF TypeInv, CursorTypes, ServerTypes, NumbersInv
<1>4. /\ ~ResetCalled /\ Answered = {} /\ AnsweredReset = 0
      /\ ~(ResetCalled') /\ Answered' = {} /\ AnsweredReset' = 0
  BY <1>1 DEF ResetCalled, Answered, AnsweredReset, Free
<1>5. s.lastReset >= 1 => s.resetting
  BY <1>1 DEF ResetInv, KnowsResets
<1> HIDE DEF s, t, n
<1>6. s.first \in Expected(s) /\ \A i \in Nat : i \in Expected(t) => i \in Expected(s)
  BY <1>1, <1>3 DEF Expected, IdsOk, Copies, None
<1>7. Tail(stream) \in Seq(Blocks)
  BY <1>1, <1>2, FrontOf
<1>8. AtMost(stream', todo, position, Expected(t), n)
  <2>1. AtMost(stream, todo, position, Expected(s), n)
    BY <1>1 DEF BoundInv, s, n
  <2>2. AtMost(Tail(stream), todo, position, Expected(s), n)
    BY <1>1, <1>2, <1>6, <2>1, AtMostRead
  <2> QED BY <1>1, <1>2, <1>6, <1>7, <2>2, AtMostFewer
<1>9. ASSUME t.lastReset >= 1, ~asked.stuck
      PROVE  AtMost(stream', todo, position, Expected(t) \ {t.lastReset}, n - 1)
  <2> DEFINE E == Expected(s) \ {s.lastReset}
  <2>1. t.lastReset = s.lastReset
    BY <1>1, <1>9
  <2>2. s.first # s.lastReset
    BY <1>1, <1>5, <1>9, <2>1 DEF None
  <2>3. AtMost(stream, todo, position, E, n - 1)
    BY <1>1, <1>9, <2>1 DEF BoundInv, s, n
  <2>4. s.first \in E /\ \A i \in Nat : i \in Expected(t) \ {t.lastReset} => i \in E
    BY <1>6, <2>1, <2>2
  <2> HIDE DEF E
  <2>5. AtMost(Tail(stream), todo, position, E, n - 1)
    BY <1>1, <1>2, <2>3, <2>4, AtMostRead
  <2> QED BY <1>1, <1>2, <1>7, <2>4, <2>5, AtMostFewer
<1>10. t.resetting /\ ~asked.stuck => t.lastReset >= 1
  <2>1. s.resetting /\ ~asked.stuck => s.lastReset >= 1
    BY <1>1, <1>4 DEF BoundInv, s
  <2> QED BY <1>1, <2>1
<1>11. Expected(t) \cup {} = Expected(t) /\ n + 0 = n
  BY <1>2
<1>12. AtMost(stream', todo, position, Expected(t) \cup {}, n + 0)
  BY <1>8, <1>11
<1> QED BY <1>1, <1>4, <1>8, <1>9, <1>10, <1>12 DEF BoundInv, t, n

\* the bounds are kept by every step
LEMMA BoundStep ==
  ASSUME TypeInv, NumbersInv, CommandsInv, ResetInv, BoundInv, [Next]_vars
  PROVE  BoundInv'
<1> USE DEF callVars, serverVars, readerVars, cursorVars
<1> SUFFICES ASSUME rpc' # "dead" PROVE BoundInv'
  BY DEF BoundInv
<1>1. rpc # "dead"
  BY DeadStays
<1>2. stream \in Seq(Blocks) /\ todo \in Seq(Accepted) /\ position \in Nat
  BY DEF TypeInv, ServerTypes, StreamTypes
<1>3. SameCommands(copy[shadow], copy[shadow])
  BY DEF SameCommands
<1>4. ASSUME NEW c \in Calls, BeginCall(c) PROVE BoundInv'
  BY <1>1, <1>4, BoundCalled
<1>5. CASE RegisterUserMessageType
  <2>1. /\ UNCHANGED <<stream, todo, position, asked, caller>>
        /\ WriteShadow(copy[shadow]) /\ copy[shadow] \in Copies
    BY <1>5 DEF RegisterUserMessageType, TypeInv, CursorTypes
  <2>2. copy'[shadow'] = copy[shadow]
    BY <2>1, WritesShadow
  <2> QED BY <1>1, <1>3, <2>1, <2>2, BoundKept
<1>6. CASE RequestFails
  <2>1. /\ caller.pc # "free" /\ caller' = Free /\ asked' = Doubted(caller.call)
        /\ UNCHANGED <<stream, todo, position, copy, shadow>>
    BY <1>6 DEF RequestFails
  <2> QED BY <1>1, <2>1, BoundDoubted
<1>7. CASE RequestAnswered \/ AnswerMalformed
  <2>1. PICK id \in Int : EndCall(id) /\ (id = caller.id \/ id = None) /\ caller.pc = "answered"
    <3>1. CASE RequestAnswered
      BY <3>1 DEF RequestAnswered, NumbersInv, TypeInv, ServerTypes
    <3>2. CASE AnswerMalformed
      BY <3>2 DEF AnswerMalformed, None
    <3> QED BY <1>7, <3>1, <3>2
  <2> QED BY <1>1, <2>1, BoundEnded
<1>8. CASE AcceptCall
  BY <1>1, <1>8, BoundAccepted
<1>9. CASE ApplyCall
  <2>1. /\ todo # <<>> /\ stream' = Append(stream, CommandBlock(Head(todo).id))
        /\ todo' = Tail(todo) /\ UNCHANGED <<copy, shadow, asked, caller>>
        /\ position' = position + (IF Head(todo).request.kind = "reset" THEN 1 ELSE 0)
    BY <1>2, <1>9 DEF ApplyCall
  <2>2. ASSUME NEW ids, NEW m \in Int, AtMost(stream, todo, position, ids, m)
        PROVE  AtMost(stream', todo', position', ids, m)
    BY <1>2, <2>1, <2>2, AtMostApplied
  <2> QED BY <1>1, <1>3, <2>1, <2>2, BoundKept
<1>10. CASE \/ \E e \in Entities : SendEntity(e)
            \/ \E t \in Types : SendType(t)
            \/ SendMessage \/ SendTerminator
  <2>1. PICK b \in Blocks : /\ stream' = Append(stream, b) /\ b.kind # "command"
                            /\ b.kind = "message" => b.position = position
    BY <1>10, SentBlock
  <2>2. UNCHANGED <<todo, position, copy, shadow, asked, caller>>
    BY <1>10, SentBlock
  <2>3. ASSUME NEW ids, NEW m \in Int, AtMost(stream, todo, position, ids, m)
        PROVE  AtMost(stream', todo', position', ids, m)
    BY <1>2, <2>1, <2>2, <2>3, AtMostSent
  <2> QED BY <1>1, <1>3, <2>2, <2>3, BoundKept
<1>11. CASE ReadEntity \/ ReadMessageType \/ ReadTerminator \/ ReadHeader
  <2>1. /\ stream # <<>> /\ stream' = Tail(stream) /\ Head(stream).kind # "command"
        /\ UNCHANGED <<todo, position, caller, asked>>
        /\ SameCommands(copy'[shadow'], copy[shadow])
    BY <1>11, OtherRead
  <2>2. ASSUME NEW ids, NEW m \in Int, AtMost(stream, todo, position, ids, m)
        PROVE  AtMost(stream', todo', position', ids, m)
    BY <1>2, <2>1, <2>2, AtMostRead
  <2> QED BY <1>1, <2>1, <2>2, BoundKept
<1>12. CASE ReadCommand
  BY <1>12, BoundRead
<1>13. CASE CallNext \/ End \/ Filter \/ UNCHANGED vars
  <2>1. UNCHANGED <<stream, todo, position, asked, caller, copy, shadow>>
    BY <1>13 DEF CallNext, End, Filter, Throw, vars
  <2> QED BY <1>1, <1>3, <2>1, BoundKept
<1> QED BY <1>4, <1>5, <1>6, <1>7, <1>8, <1>9, <1>10, <1>11, <1>12, <1>13
        DEF Next, CallStep, ServerStep, NextStep

-----------------------------------------------------------------------------
(* What next() makes of a message.                                         *)

\* a copy has the names that were announced, in their places
LEMMA NamesMet ==
  ASSUME TypeInv, NamesInv, NEW s, s = copy[main] \/ s = copy[shadow]
  PROVE  /\ \A i \in DOMAIN s.entities.names : i \in DOMAIN announced.entities
                /\ s.entities.names[i] = announced.entities[i]
         /\ \A i \in DOMAIN s.types.names : i \in DOMAIN announced.types
                /\ s.types.names[i] = announced.types[i]
<1>1. HasArrived(s)
  BY DEF NamesInv
<1>2. /\ announced.entities \in Seq(Entities) /\ announced.types \in Seq(Types)
      /\ stream \in Seq(Blocks)
  BY DEF TypeInv, ServerTypes, StreamTypes
<1>3. ASSUME NEW S, NEW ann \in Seq(S), NEW kind, NEW i \in DOMAIN Arrived(ann, stream, kind),
             From(stream, 1, kind) <= Len(ann)
      PROVE  i \in DOMAIN ann /\ Arrived(ann, stream, kind)[i] = ann[i]
  <2>1. From(stream, 1, kind) \in Nat /\ Len(ann) \in Nat
    <3>1. 1 \in Nat \ {0} /\ Len(ann) \in Nat
      BY <1>3
    <3> QED BY <1>2, <3>1, FromPlace
  <2> DEFINE l == Len(ann) - From(stream, 1, kind)
  <2>2. l \in Nat /\ l <= Len(ann)
    BY <1>3, <2>1
  <2> HIDE DEF l
  <2>3. Arrived(ann, stream, kind) = SubSeq(ann, 1, l)
    BY DEF Arrived, l
  <2> QED BY <1>3, <2>1, <2>2, <2>3
<1>4. /\ From(stream, 1, "entity") <= Len(announced.entities)
      /\ From(stream, 1, "type") <= Len(announced.types)
  BY DEF NamesInv, Announces
<1> QED BY <1>1, <1>2, <1>3, <1>4 DEF HasArrived

\* of a message at the head of the stream, both names were met
LEMMA HeadMet ==
  ASSUME TypeInv, NamesInv, stream # <<>>, Head(stream).kind = "message", NEW k \in Kinds
  PROVE  LET f == copy[shadow][k]
             i == NumberOf(k, Head(stream))
             n == announced[k][i]
         IN /\ f.names[i] = n /\ n \in NamesOf(k)
            /\ Skipped(f, i) \in BOOLEAN /\ Skipped(f, i) \in Says(f, n)
            /\ 1 \in Places(stream, k, announced[k], n)
<1> DEFINE s == copy[shadow]
           f == s[k]
           m == Head(stream)
           i == NumberOf(k, m)
           n == announced[k][i]
<1>1. /\ s \in Copies /\ stream \in Seq(Blocks)
      /\ announced.entities \in Seq(Entities) /\ announced.types \in Seq(Types)
  BY DEF TypeInv, CursorTypes, StreamTypes, ServerTypes
<1>2. /\ DOMAIN stream = 1 .. Len(stream) /\ Len(stream) \in Nat \ {0} /\ m = stream[1]
  BY <1>1, FrontOf
<1>3. k = "entities" \/ k = "types"
  BY DEF Kinds
<1>4. i \in DOMAIN f.names
  <2>1. /\ m.entity \in 1 .. Len(announced.entities) - From(stream, 1, "entity")
        /\ m.type \in 1 .. Len(announced.types) - From(stream, 1, "type")
    BY <1>2 DEF NamesInv, MessagesKnown
  <2>2. /\ s.entities.names = SubSeq(announced.entities, 1,
                                     Len(announced.entities) - From(stream, 1, "entity"))
        /\ s.types.names = SubSeq(announced.types, 1,
                                  Len(announced.types) - From(stream, 1, "type"))
    BY DEF NamesInv, HasArrived, Arrived
  <2>3. /\ From(stream, 1, "entity") \in Nat /\ From(stream, 1, "type") \in Nat
        /\ Len(announced.entities) \in Nat /\ Len(announced.types) \in Nat
    <3>1. /\ 1 \in Nat \ {0} /\ Len(announced.entities) \in Nat /\ Len(announced.types) \in Nat
      BY <1>1
    <3> QED BY <1>1, <3>1, FromPlace
  <2> HIDE DEF s, m
  <2>4. CASE k = "entities"
    BY <1>1, <2>1, <2>2, <2>3, <2>4 DEF NumberOf
  <2>5. CASE k = "types"
    BY <1>1, <2>1, <2>2, <2>3, <2>5 DEF NumberOf
  <2> QED BY <1>3, <2>4, <2>5
<1>5. f.names[i] = n /\ n \in NamesOf(k)
  <2>1. CASE k = "entities"
    <3>1. s.entities.names[i] = announced.entities[i] /\ i \in DOMAIN announced.entities
      BY <1>4, <2>1, NamesMet
    <3> QED BY <1>1, <2>1, <3>1 DEF NamesOf
  <2>2. CASE k = "types"
    <3>1. s.types.names[i] = announced.types[i] /\ i \in DOMAIN announced.types
      BY <1>4, <2>2, NamesMet
    <3> QED BY <1>1, <2>2, <3>1 DEF NamesOf
  <2> QED BY <1>3, <2>1, <2>2
<1>6. f \in Filters(NamesOf(k))
  BY <1>1, FiltersOf
<1>7. i \in Numbers(f, n)
  BY <1>4, <1>5 DEF Numbers
<1>8. 1 \in Places(stream, k, announced[k], n)
  BY <1>2 DEF Places
<1> HIDE DEF f, i, n
<1>9. Skipped(f, i) \in BOOLEAN
  BY <1>4, <1>6, SaysSome
<1>10. Skipped(f, i) \in Says(f, n)
  BY <1>7, SaysWhat
<1> QED BY <1>5, <1>8, <1>9, <1>10 DEF f, i, n

\* every command has a number of its own that is not 0
LEMMA NoneIsZero ==
  ASSUME TypeInv, NumbersInv, CommandsInv
  PROVE  Behind(stream, todo, 0, 1)
<1>1. /\ stream \in Seq(Blocks) /\ todo \in Seq(Accepted) /\ Len(stream) \in Nat
      /\ DOMAIN stream = 1 .. Len(stream) /\ DOMAIN todo = 1 .. Len(todo)
      /\ Len(todo) \in Nat /\ nextId \in Nat /\ position \in Nat
  BY DEF TypeInv, StreamTypes, ServerTypes
<1>2. ASSUME NEW i \in 1 .. Len(todo) PROVE todo[i].id # 0
  <2>1. todo[i].id = nextId - Len(todo) + i - 1
    BY <1>1 DEF CommandsInv, NumberedFrom
  <2> QED BY <1>1, <2>1 DEF NumbersInv
<1>3. ASSUME NEW i \in 2 .. Len(stream) PROVE stream[i] # CommandBlock(0)
  <2> SUFFICES ASSUME stream[i].kind = "command", stream[i].id = 0 PROVE FALSE
    BY DEF CommandBlock
  <2>1. 0 = nextId - Len(todo) - From(stream, i, "command")
    BY <1>1 DEF CommandsInv, CommandsBefore
  <2>2. From(stream, i, "command") <= From(stream, 1, "command")
        /\ From(stream, i, "command") \in Nat /\ From(stream, 1, "command") \in Nat
    <3> DEFINE D == {j \in DOMAIN stream : stream[j].kind = "command"}
    <3> HIDE DEF D
    <3>1. IsFiniteSet({j \in 1 .. Len(stream) : j \in D})
      <4>1. 1 \in Int /\ Len(stream) \in Int
        BY <1>1
      <4> QED BY <4>1, CountIsNat
    <3>2. {j \in i .. Len(stream) : j \in D} \in SUBSET {j \in 1 .. Len(stream) : j \in D}
      BY <1>1
    <3>3. Count(D, i, Len(stream)) <= Count(D, 1, Len(stream))
      BY <3>1, <3>2, FS_Subset DEF Count
    <3>4. i \in Nat \ {0} /\ 1 \in Nat \ {0}
      BY <1>1
    <3> QED BY <1>1, <3>3, <3>4, FromPlace DEF From, D
  <2>3. From(stream, 1, "command") + Len(todo) < nextId
    BY DEF CommandsInv
  <2> QED BY <1>1, <2>1, <2>2, <2>3
<1> QED BY <1>2, <1>3 DEF Behind, Late

\* next() reads the header of the first block on the way, with the shadow taken
\* over if it changed, and no call is being made
LEMMA HeaderOf ==
  ASSUME TypeInv, NumbersInv, ReadHeader
  PROVE  /\ copy'[main'] = copy[shadow] /\ msg' = Head(stream) /\ askedThen' = asked
         /\ announced' = announced /\ caller.pc = "free" /\ rpc # "dead"
         /\ stream # <<>> /\ Head(stream).kind = "message" /\ Head(stream) = stream[1]
<1> USE DEF callVars, serverVars, cursorVars
<1>1. /\ AtBlock("message") /\ rpc' = "header" /\ msg' = Head(stream) /\ askedThen' = asked
      /\ announced' = announced
      /\ \/ updated /\ SynchronizeAnd(copy[shadow]) /\ copy[shadow] \in Copies
         \/ ~updated /\ UNCHANGED cursorVars
  BY HeaderRead
<1>2. CASE updated /\ SynchronizeAnd(copy[shadow]) /\ copy[shadow] \in Copies
  <2>1. copy'[main'] = copy[shadow] /\ caller = Free
    BY <1>2, TakesShadow
  <2> QED BY <1>1, <2>1, TakesBlock DEF Free
<1>3. CASE ~updated /\ UNCHANGED cursorVars
  <2>1. main = shadow /\ caller.pc = "free"
    BY <1>3, <1>1 DEF NumbersInv, TypeInv, CallerTypes, Callers, Free
  <2> QED BY <1>1, <1>3, <2>1, TakesBlock
<1> QED BY <1>1, <1>2, <1>3

\* a message that was asked for is from before a reset, if it is dropped
LEMMA HeaderDropped ==
  ASSUME TypeInv, NumbersInv, NamesInv, DropInv, BoundInv, ReadHeader
  PROVE  NothingAskedIsDropped'
<1> DEFINE s == copy[shadow]
           m == Head(stream)
<1>1. /\ copy'[main'] = s /\ msg' = m /\ askedThen' = asked /\ announced' = announced
      /\ caller.pc = "free" /\ rpc # "dead"
      /\ stream # <<>> /\ m.kind = "message" /\ m = stream[1]
  BY HeaderOf
<1>2. SUFFICES ASSUME ~Passes(s, m), ~asked.stuck
      PROVE  \/ announced.entities[m.entity] \notin asked.entities \ asked.unsure
             \/ announced.types[m.type] \notin asked.types \ asked.unsure
             \/ m.position < asked.resets
  <2> HIDE DEF s, m
  <2> QED BY <1>1 DEF NothingAskedIsDropped, Judged, EntityOf, TypeOf
<1>3. /\ Skipped(s.entities, m.entity) \in Says(s.entities, announced.entities[m.entity])
      /\ Skipped(s.entities, m.entity) \in BOOLEAN
      /\ Skipped(s.types, m.type) \in Says(s.types, announced.types[m.type])
      /\ Skipped(s.types, m.type) \in BOOLEAN
  <2>1. "entities" \in Kinds /\ "types" \in Kinds
        /\ NumberOf("entities", m) = m.entity /\ NumberOf("types", m) = m.type
    BY DEF Kinds, NumberOf
  <2> QED BY <1>1, <2>1, HeadMet
<1>4. /\ \A n \in asked.entities \ asked.unsure : TRUE \notin Says(s.entities, n)
      /\ \A n \in asked.types \ asked.unsure : TRUE \notin Says(s.types, n)
  BY DEF DropInv, Kinds
<1>5. CASE s.resetting
  <2>1. s.lastReset >= 1
    BY <1>1, <1>2, <1>5 DEF BoundInv, ResetCalled
  <2>2. AtMost(stream, todo, position, Expected(s) \ {s.lastReset}, asked.resets - 1)
    BY <1>1, <1>2, <2>1 DEF BoundInv
  <2>3. /\ stream \in Seq(Blocks) /\ asked.resets \in Nat
    BY DEF TypeInv, StreamTypes, CallerTypes, Askings
  <2>4. 1 \in DOMAIN stream /\ OnlyBefore(stream, 1, Expected(s) \ {s.lastReset})
    <3>1. DOMAIN stream = 1 .. Len(stream) /\ Len(stream) \in Nat \ {0}
      BY <1>1, <2>3, FrontOf
    <3> QED BY <3>1 DEF OnlyBefore
  <2>5. m.position <= asked.resets - 1
    BY <1>1, <2>2, <2>4 DEF AtMost
  <2>6. m.position \in Nat
    BY <1>1, <2>3, FrontOf, BlockTypes
  <2> HIDE DEF m
  <2> QED BY <2>3, <2>5, <2>6
<1>6. CASE ~s.resetting
  <2>1. Skipped(s.types, m.type) \/ Skipped(s.entities, m.entity)
    BY <1>2, <1>6 DEF Passes
  <2> HIDE DEF s, m
  <2> QED BY <1>3, <1>4, <2>1
<1> QED BY <1>5, <1>6

\* of a name that was not asked for the filter lets nothing pass
LEMMA HeaderReturned ==
  ASSUME TypeInv, NumbersInv, NamesInv, CommandsInv, ResetInv, LeakInv, ReadHeader
  PROVE  NextReturnsOnlyAsked'
<1> DEFINE s == copy[shadow]
           m == Head(stream)
<1>1. /\ copy'[main'] = s /\ msg' = m /\ askedThen' = asked /\ announced' = announced
      /\ caller.pc = "free" /\ rpc # "dead"
      /\ stream # <<>> /\ m.kind = "message" /\ m = stream[1]
  BY HeaderOf
<1>2. SUFFICES ASSUME Passes(s, m), announced.types[m.type] \notin SystemTypes, ~asked.stuck
      PROVE  /\ announced.entities[m.entity] \in asked.entities \cup asked.unsure
             /\ announced.types[m.type] \in asked.types \cup asked.unsure
  <2> HIDE DEF s, m
  <2> QED BY <1>1 DEF NextReturnsOnlyAsked, Judged, EntityOf, TypeOf
<1>3. ASSUME NEW k \in Kinds, announced[k][NumberOf(k, m)] \in AskedNames(k),
             Skipped(s[k], NumberOf(k, m)) = FALSE
      PROVE  announced[k][NumberOf(k, m)] \in asked[k] \cup asked.unsure
  <2> DEFINE n == announced[k][NumberOf(k, m)]
  <2>1. FALSE \in Says(s[k], n) /\ 1 \in Places(stream, k, announced[k], n)
    BY <1>1, <1>3, HeadMet
  <2>2. SUFFICES ASSUME n \notin asked[k], n \notin asked.unsure PROVE FALSE
    OBVIOUS
  <2>3. ~ResetCalled /\ caller.pc # "asking"
    BY <1>1 DEF ResetCalled
  <2>4. Pending = todo /\ Border = 0
    <3>1. ~(s.lastReset >= 1)
      BY <1>1, <1>2 DEF ResetInv, KnowsResets, Passes
    <3> QED BY <2>3, <3>1 DEF Pending, Border
  <2> HIDE DEF n
  <2>5. Silent(k, n)
    BY <1>1, <1>3, <2>2 DEF LeakInv, n
  <2>6. Quiet(subscription[k], todo, k, n, 0, stream, Places(stream, k, announced[k], n))
    BY <1>2, <2>1, <2>4, <2>5 DEF Silent
  <2> QED BY <2>1, <2>6, NoneIsZero DEF Quiet
<1>4. /\ s.types.names[m.type] = announced.types[m.type]
      /\ announced.types[m.type] \in Types /\ announced.entities[m.entity] \in Entities
      /\ Skipped(s.entities, m.entity) \in BOOLEAN /\ Skipped(s.types, m.type) \in BOOLEAN
  <2>1. "entities" \in Kinds /\ "types" \in Kinds
        /\ NumberOf("entities", m) = m.entity /\ NumberOf("types", m) = m.type
        /\ NamesOf("entities") = Entities /\ NamesOf("types") = Types
    BY DEF Kinds, NumberOf, NamesOf
  <2> QED BY <1>1, <2>1, HeadMet
<1>5. Skipped(s.entities, m.entity) = FALSE /\ Skipped(s.types, m.type) = FALSE
  BY <1>2, <1>4 DEF Passes
<1> HIDE DEF s, m
<1> QED BY <1>2, <1>3, <1>4, <1>5 DEF Kinds, NumberOf, AskedNames

\* between reading a header and judging it, next() keeps its copy, and the names
\* of the message stay
LEMMA HeaderStays ==
  ASSUME TypeInv, NumbersInv, NamesInv, [Next]_vars, rpc' = "header", ~ReadHeader
  PROVE  /\ rpc = "header" /\ UNCHANGED <<msg, askedThen>> /\ copy'[main'] = copy[main]
         /\ Known(copy[main], msg) => EntityOf(msg)' = EntityOf(msg) /\ TypeOf(msg)' = TypeOf(msg)
<1> USE DEF callVars, serverVars, readerVars, cursorVars
<1> DEFINE Kept == rpc = "header" /\ UNCHANGED <<msg, askedThen>> /\ copy'[main'] = copy[main]
           Names == /\ \A i \in DOMAIN announced.entities :
                          announced'.entities[i] = announced.entities[i]
                    /\ \A i \in DOMAIN announced.types :
                          announced'.types[i] = announced.types[i]
<1>1. /\ main \in SubStates /\ shadow \in SubStates /\ copy \in [SubStates -> Copies]
      /\ announced.entities \in Seq(Entities) /\ announced.types \in Seq(Types)
      /\ announced \in [entities : Seq(Entities), types : Seq(Types)]
  BY DEF TypeInv, CursorTypes, ServerTypes
<1>2. ASSUME UNCHANGED announced PROVE Names
  BY <1>2
<1>3. ASSUME NEW c \in Calls, BeginCall(c) PROVE Kept /\ Names
  <2>1. /\ WriteShadow(Written(c)) /\ c \in CallTypes
        /\ UNCHANGED <<main, rpc, msg, askedThen, announced>>
    BY <1>3, CallsHaveTypes DEF BeginCall, Written
  <2>2. Written(c) \in Copies
    BY <2>1, WrittenCopy
  <2>3. copy'[main] = copy[main]
    BY <2>1, <2>2, WritesShadow
  <2> QED BY <1>2, <2>1, <2>3
<1>4. CASE RegisterUserMessageType
  <2>1. /\ WriteShadow(copy[shadow]) /\ copy[shadow] \in Copies
        /\ UNCHANGED <<main, rpc, msg, askedThen, announced>>
    BY <1>1, <1>4 DEF RegisterUserMessageType
  <2>2. copy'[main] = copy[main]
    BY <2>1, WritesShadow
  <2>3. Kept /\ Names
    BY <1>2, <2>1, <2>2
  <2> QED BY <2>3, NamesMet DEF Known, EntityOf, TypeOf
<1>5. CASE RequestAnswered \/ AnswerMalformed
  <2>1. caller.pc = "answered" /\ \E id : EndCall(id)
    BY <1>5 DEF RequestAnswered, AnswerMalformed
  <2>2. main # shadow
    BY <2>1 DEF NumbersInv
  <2>3. UNCHANGED <<main, rpc, msg, askedThen, announced>> /\ copy'[main] = copy[main]
    BY <1>1, <2>1, <2>2 DEF EndCall
  <2>4. Kept /\ Names
    BY <1>2, <2>3
  <2> QED BY <2>4, NamesMet DEF Known, EntityOf, TypeOf
<1>6. CASE RequestFails \/ AcceptCall \/ ApplyCall \/ SendMessage \/ SendTerminator \/ UNCHANGED vars
  <2>1. UNCHANGED <<main, copy, rpc, msg, askedThen, announced>>
    BY <1>6 DEF RequestFails, AcceptCall, ApplyCall, SendMessage, SendTerminator, Send, vars
  <2>2. Kept /\ Names
    BY <1>2, <2>1
  <2> QED BY <2>2, NamesMet DEF Known, EntityOf, TypeOf
<1>7. ASSUME NEW n \in Entities, SendEntity(n) PROVE Kept /\ Names
  <2>1. UNCHANGED <<main, copy, rpc, msg, askedThen>>
        /\ announced' = [announced EXCEPT !.entities = Append(@, n)]
    BY <1>7 DEF SendEntity, Send
  <2>2. /\ announced'.entities = Append(announced.entities, n)
        /\ announced'.types = announced.types
    BY <1>1, <2>1
  <2>3. Names
    BY <1>1, <2>2, EndOf
  <2> QED BY <2>1, <2>3
<1>8. ASSUME NEW n \in Types, SendType(n) PROVE Kept /\ Names
  <2>1. UNCHANGED <<main, copy, rpc, msg, askedThen>>
        /\ announced' = [announced EXCEPT !.types = Append(@, n)]
    BY <1>8 DEF SendType, Send
  <2>2. /\ announced'.types = Append(announced.types, n)
        /\ announced'.entities = announced.entities
    BY <1>1, <2>1
  <2>3. Names
    BY <1>1, <2>2, EndOf
  <2> QED BY <2>1, <2>3
<1>9. ASSUME Kept, Names
      PROVE  /\ rpc = "header" /\ UNCHANGED <<msg, askedThen>> /\ copy'[main'] = copy[main]
             /\ Known(copy[main], msg) => EntityOf(msg)' = EntityOf(msg) /\ TypeOf(msg)' = TypeOf(msg)
  BY <1>9, NamesMet DEF Known, EntityOf, TypeOf
<1>10. ~NextStep
  <2> SUFFICES ASSUME CallNext \/ ReadEntity \/ ReadMessageType \/ ReadCommand
                      \/ ReadTerminator \/ End \/ Filter
               PROVE  FALSE
    BY DEF NextStep
  <2> QED BY DEF CallNext, ReadEntity, ReadMessageType, ReadCommand, ReadTerminator, End, Filter,
             Throw, AtBlock
<1> QED BY <1>3, <1>4, <1>5, <1>6, <1>7, <1>8, <1>9, <1>10 DEF Next, CallStep, ServerStep

\* what next() makes of a message stays right until it is judged
LEMMA JudgedStep ==
  ASSUME TypeInv, NumbersInv, NamesInv, CommandsInv, ResetInv, ReturnsInv, [Next]_vars
  PROVE  NextReturnsOnlyAsked' /\ NothingAskedIsDropped'
<1>1. CASE rpc' # "header"
  BY <1>1 DEF NextReturnsOnlyAsked, NothingAskedIsDropped, Judged
<1>2. CASE rpc' = "header" /\ ReadHeader
  BY <1>2, HeaderDropped, HeaderReturned DEF ReturnsInv
<1>3. CASE rpc' = "header" /\ ~ReadHeader
  <2>1. /\ rpc = "header" /\ UNCHANGED <<msg, askedThen>> /\ copy'[main'] = copy[main]
        /\ Known(copy[main], msg) => EntityOf(msg)' = EntityOf(msg) /\ TypeOf(msg)' = TypeOf(msg)
    BY <1>3, HeaderStays
  <2>2. (Judged' <=> Judged) /\ (Passes(copy[main], msg)' <=> Passes(copy[main], msg))
    BY <1>3, <2>1 DEF Judged, Known, Passes
  <2>3. Judged => EntityOf(msg)' = EntityOf(msg) /\ TypeOf(msg)' = TypeOf(msg)
    BY <2>1 DEF Judged
  <2>4. NextReturnsOnlyAsked /\ NothingAskedIsDropped
    BY DEF ReturnsInv
  <2> QED BY <2>1, <2>2, <2>3, <2>4 DEF NextReturnsOnlyAsked, NothingAskedIsDropped
<1> QED BY <1>1, <1>2, <1>3

\* before the first call the server sends what select() asked for, and the
\* filters are open
LEMMA ReturnsInit ==
  ASSUME Init
  PROVE  ReturnsInv
<1>1. TypeInv
  BY TypeInit
<1>2. /\ copy[shadow] = NewCopy /\ rpc = "out" /\ caller.pc = "free"
      /\ todo = <<>> /\ position = 0 /\ stream = <<>>
      /\ announced = [entities |-> <<>>, types |-> <<>>]
      /\ asked.entities = subscription.entities /\ asked.types = subscription.types
      /\ asked.resets = 0
  <2>1. PICK es \in SUBSET Entities, ts \in SUBSET (Types \ SystemTypes) :
           /\ subscription = [entities |-> es, types |-> ts]
           /\ asked = [NothingAsked EXCEPT !.entities = es, !.types = ts]
    BY DEF Init
  <2> QED BY <2>1 DEF Init, Free, NothingAsked
<1>3. /\ NewCopy.first = -1 /\ NewCopy.last = -1 /\ NewCopy.lastReset = 0
      /\ NewCopy.resetting = FALSE
      /\ NewCopy.entities = NewFilter /\ NewCopy.types = NewFilter
  BY DEF NewCopy, None, Unset
<1>4. /\ DOMAIN stream = {} /\ Len(stream) = 0 /\ Len(todo) = 0 /\ DOMAIN todo = {}
      /\ todo \in Seq(Accepted)
  BY <1>1, <1>2 DEF TypeInv, ServerTypes
<1>5. /\ WaitsUnmet(NewFilter) /\ \A n : Says(NewFilter, n) = {FALSE}
  <2>1. NewFilter.names = <<>> /\ NewFilter.default = FALSE /\ NewFilter.later = <<>>
    BY DEF NewFilter
  <2>2. \A n : Numbers(NewFilter, n) = {} /\ Word(NewFilter, n) = FALSE
    BY <2>1 DEF Numbers, Word
  <2> QED BY <2>1, <2>2, SaysWhat DEF WaitsUnmet
<1>6. CallInv
  BY <1>2 DEF CallInv
<1>7. FilterInv
  BY <1>2, <1>3, <1>5 DEF FilterInv
<1>8. DropInv
  BY <1>2, <1>3, <1>5 DEF DropInv, Kinds
<1>9. LeakInv
  <2> SUFFICES ASSUME NEW k \in Kinds, NEW n \in AskedNames(k), n \notin asked[k]
               PROVE  Silent(k, n)
    BY DEF LeakInv
  <2>1. n \notin subscription[k]
    BY <1>2 DEF Kinds
  <2>2. Pending = <<>> /\ Len(Pending) = 0
    BY <1>2 DEF Pending
  <2>3. ~Sends(subscription[k], <<>>, k, n, 0)
    BY <2>1 DEF Sends
  <2>4. Places(stream, k, announced[k], n) = {}
    BY <1>4 DEF Places
  <2>5. \A r : Quiet(subscription[k], <<>>, k, n, r, stream, {})
    BY <2>3 DEF Quiet
  <2> QED BY <2>2, <2>3, <2>4, <2>5 DEF Silent
<1>10. BoundInv
  <2>1. \A ids : AtMost(stream, todo, position, ids, 0)
    <3>1. ResetsTo(todo, 0) = 0
      BY <1>4, ResetsToKept
    <3> QED BY <1>2, <1>4, <3>1 DEF AtMost
  <2>2. AnsweredReset = 0
    BY <1>2 DEF AnsweredReset
  <2> QED BY <1>2, <1>3, <2>1, <2>2 DEF BoundInv
<1>11. NextReturnsOnlyAsked /\ NothingAskedIsDropped
  BY <1>2 DEF NextReturnsOnlyAsked, NothingAskedIsDropped, Judged
<1> QED BY <1>6, <1>7, <1>8, <1>9, <1>10, <1>11 DEF ReturnsInv

-----------------------------------------------------------------------------
(* The theorems.                                                           *)

\* What the filters say of the names, what the server will still send of them and
\* which resets come before what is on the way agree with what the calls asked
\* for, however the calls, the server and next() interleave.
THEOREM CursorReturnsInvariant == Spec => []ReturnsInv
<1>1. Init => ReturnsInv
  BY ReturnsInit
<1>2. SubscriptionInv /\ ReturnsInv /\ [Next]_vars => ReturnsInv'
  <2> SUFFICES ASSUME SubscriptionInv, ReturnsInv, [Next]_vars PROVE ReturnsInv'
    OBVIOUS
  <2>1. /\ TypeInv /\ NumbersInv /\ NamesInv /\ CommandsInv /\ ResetInv
        /\ CallInv /\ FilterInv /\ DropInv /\ LeakInv /\ BoundInv
    BY DEF SubscriptionInv, ReturnsInv
  <2>2. CallInv' /\ FilterInv' /\ DropInv'
    BY <2>1, CallStays, FilterStep, DropStep
  <2>3. LeakInv'
    BY <2>1, LeakStep
  <2>4. BoundInv'
    BY <2>1, BoundStep
  <2>5. NextReturnsOnlyAsked' /\ NothingAskedIsDropped'
    BY <2>1, JudgedStep
  <2> QED BY <2>2, <2>3, <2>4, <2>5 DEF ReturnsInv
<1> QED BY <1>1, <1>2, SubscriptionInvariant, PTL DEF Spec

\* Whatever the server still sends from before a call, next() returns only what
\* the calls so far asked for, for any names and any number of calls, failures
\* and blocks on the way.
THEOREM ReturnsOnlyAsked == Spec => []NextReturnsOnlyAsked
<1>1. ReturnsInv => NextReturnsOnlyAsked
  BY DEF ReturnsInv
<1> QED BY <1>1, CursorReturnsInvariant, PTL

\* A message next() drops was not asked for or is from before a reset, for any
\* names and any number of calls, failures and blocks on the way.
THEOREM NothingIsDropped == Spec => []NothingAskedIsDropped
<1>1. ReturnsInv => NothingAskedIsDropped
  BY DEF ReturnsInv
<1> QED BY <1>1, CursorReturnsInvariant, PTL
=============================================================================
