--------------------- MODULE CursorSubscription_proofs ---------------------
(***************************************************************************)
(* What TLC checks of CursorSubscription for one entity, two types and two *)
(* calls, proved for any names and any number of calls, failures and       *)
(* blocks on the way.                                                      *)
(***************************************************************************)
EXTENDS CursorSubscription, FiniteSetTheorems, SequenceTheorems, TLAPS

-----------------------------------------------------------------------------
(* Sequences that grow at their end and are taken from at their front, and *)
(* how many of their places, from one on, are in some set.                 *)

\* the parts of a sequence that is not empty
LEMMA FrontOf ==
  ASSUME NEW S, NEW s \in Seq(S), s # <<>>
  PROVE  /\ Len(s) \in Nat \ {0} /\ DOMAIN s = 1 .. Len(s)
         /\ Head(s) = s[1] /\ Head(s) \in S
         /\ Tail(s) \in Seq(S) /\ Len(Tail(s)) = Len(s) - 1
         /\ DOMAIN Tail(s) = 1 .. Len(s) - 1
         /\ \A i \in 1 .. Len(s) - 1 : Tail(s)[i] = s[i + 1]
OBVIOUS

\* a sequence with one more element
LEMMA EndOf ==
  ASSUME NEW S, NEW s \in Seq(S), NEW x \in S
  PROVE  /\ Len(s) \in Nat /\ DOMAIN s = 1 .. Len(s)
         /\ Append(s, x) \in Seq(S) /\ Len(Append(s, x)) = Len(s) + 1
         /\ DOMAIN Append(s, x) = 1 .. Len(s) + 1
         /\ Append(s, x)[Len(s) + 1] = x
         /\ \A i \in 1 .. Len(s) : Append(s, x)[i] = s[i]
OBVIOUS

\* how many of the numbers from i to m are in D
Count(D, i, m) == Cardinality({j \in i .. m : j \in D})

\* a count is a number, and that of no numbers is 0
LEMMA CountIsNat ==
  ASSUME NEW D, NEW i \in Int, NEW m \in Int
  PROVE  /\ IsFiniteSet({j \in i .. m : j \in D}) /\ Count(D, i, m) \in Nat
         /\ i > m => Count(D, i, m) = 0
<1>1. IsFiniteSet(i .. m)
  BY FS_Interval
<1>2. IsFiniteSet({j \in i .. m : j \in D})
  BY <1>1, FS_Subset
<1>3. ASSUME i > m PROVE {j \in i .. m : j \in D} = {}
  BY <1>3
<1> QED BY <1>2, <1>3, FS_CardinalityType, FS_EmptySet DEF Count

\* without the first of the numbers
LEMMA CountFirst ==
  ASSUME NEW D, NEW i \in Int, NEW m \in Int, i <= m
  PROVE  Count(D, i, m) = Count(D, i + 1, m) + (IF i \in D THEN 1 ELSE 0)
<1> DEFINE rest == {j \in i + 1 .. m : j \in D}
<1>1. IsFiniteSet(rest) /\ Cardinality(rest) \in Nat
  BY CountIsNat DEF Count
<1>2. i \notin rest
  OBVIOUS
<1>3. CASE i \in D
  <2>1. {j \in i .. m : j \in D} = rest \cup {i}
    BY <1>3
  <2>2. Cardinality(rest \cup {i}) = Cardinality(rest) + 1
    BY <1>1, <1>2, FS_AddElement
  <2> QED BY <1>3, <2>1, <2>2 DEF Count
<1>4. CASE i \notin D
  <2>1. {j \in i .. m : j \in D} = rest
    BY <1>4
  <2> QED BY <1>1, <1>4, <2>1 DEF Count
<1> QED BY <1>3, <1>4

\* with one more number, for a set that may differ beyond them
LEMMA CountLast ==
  ASSUME NEW D, NEW E, NEW i \in Int, NEW m \in Int, i <= m + 1,
         \A j \in i .. m : j \in E <=> j \in D
  PROVE  Count(E, i, m + 1) = Count(D, i, m) + (IF m + 1 \in E THEN 1 ELSE 0)
<1> DEFINE rest == {j \in i .. m : j \in D}
<1>1. IsFiniteSet(rest) /\ Cardinality(rest) \in Nat
  BY CountIsNat DEF Count
<1>2. m + 1 \notin rest
  OBVIOUS
<1>3. CASE m + 1 \in E
  <2>1. {j \in i .. m + 1 : j \in E} = rest \cup {m + 1}
    BY <1>3
  <2>2. Cardinality(rest \cup {m + 1}) = Cardinality(rest) + 1
    BY <1>1, <1>2, FS_AddElement
  <2> QED BY <1>3, <2>1, <2>2 DEF Count
<1>4. CASE m + 1 \notin E
  <2>1. {j \in i .. m + 1 : j \in E} = rest
    BY <1>4
  <2>2. Count(E, i, m + 1) = Cardinality(rest) /\ Count(D, i, m) = Cardinality(rest)
    BY <2>1 DEF Count
  <2> HIDE DEF rest
  <2> QED BY <1>1, <1>4, <2>2
<1> QED BY <1>3, <1>4

\* the same numbers, one place on
LEMMA CountShift ==
  ASSUME NEW D, NEW E, NEW i \in Int, NEW m \in Int,
         \A j \in i .. m : j \in E <=> j + 1 \in D
  PROVE  Count(E, i, m) = Count(D, i + 1, m + 1)
<1> DEFINE here  == {j \in i .. m : j \in E}
           there == {j \in i + 1 .. m + 1 : j \in D}
           f     == [j \in here |-> j + 1]
<1>1. IsFiniteSet(here)
  BY CountIsNat
<1>2. \A j \in here : j + 1 \in there
  OBVIOUS
<1>3. \A j \in there : j - 1 \in here /\ (j - 1) + 1 = j
  OBVIOUS
<1>4. f \in [here -> there]
  BY <1>2
<1>5. \A a, b \in here : f[a] = f[b] => a = b
  OBVIOUS
<1>6. \A j \in there : \E a \in here : f[a] = j
  <2> TAKE j \in there
  <2>1. f[j - 1] = j
    BY <1>3
  <2> WITNESS j - 1 \in here
  <2> QED BY <2>1
<1>7. f \in Bijection(here, there)
  BY <1>4, <1>5, <1>6 DEF Bijection, Injection, Surjection, IsInjective
<1>8. ExistsBijection(here, there)
  BY <1>7 DEF ExistsBijection
<1>9. Cardinality(here) = Cardinality(there)
  BY <1>1, <1>8, FS_Bijection
<1> QED BY <1>9 DEF Count

\* how many blocks of a kind s has, from its place i on
From(s, i, k) == Count({j \in DOMAIN s : s[j].kind = k}, i, Len(s))

\* how many resets t has, of the calls the server accepted, from its place i on
ResetsFrom(t, i) == Count({j \in DOMAIN t : t[j].request.kind = "reset"}, i, Len(t))

\* from the place after the last there is nothing; from any other, there is the
\* block in that place and what is after it
LEMMA FromPlace ==
  ASSUME NEW S, NEW s \in Seq(S), NEW k
  PROVE  /\ \A i \in Nat \ {0} : From(s, i, k) \in Nat
         /\ From(s, Len(s) + 1, k) = 0
         /\ \A i \in 1 .. Len(s) :
               From(s, i, k) = From(s, i + 1, k) + (IF s[i].kind = k THEN 1 ELSE 0)
<1>1. Len(s) \in Nat /\ DOMAIN s = 1 .. Len(s)
  OBVIOUS
<1>2. ASSUME NEW i \in 1 .. Len(s)
      PROVE  From(s, i, k) = From(s, i + 1, k) + (IF s[i].kind = k THEN 1 ELSE 0)
  BY <1>1, CountFirst DEF From
<1>3. \A i \in Nat \ {0} : From(s, i, k) \in Nat
  <2> TAKE i \in Nat \ {0}
  <2>1. i \in Int /\ Len(s) \in Int
    BY <1>1
  <2> QED BY <2>1, CountIsNat DEF From
<1>4. From(s, Len(s) + 1, k) = 0
  <2>1. Len(s) + 1 \in Int /\ Len(s) \in Int /\ Len(s) + 1 > Len(s)
    BY <1>1
  <2> QED BY <2>1, CountIsNat DEF From
<1> QED BY <1>2, <1>3, <1>4

\* a block more
LEMMA FromAppended ==
  ASSUME NEW S, NEW s \in Seq(S), NEW x \in S, NEW k, NEW i \in 1 .. Len(s) + 1
  PROVE  From(Append(s, x), i, k) = From(s, i, k) + (IF x.kind = k THEN 1 ELSE 0)
<1> DEFINE t == Append(s, x)
<1>1. /\ Len(s) \in Nat /\ DOMAIN s = 1 .. Len(s) /\ Len(t) = Len(s) + 1 /\ DOMAIN t = 1 .. Len(t)
      /\ t[Len(s) + 1] = x /\ \A j \in 1 .. Len(s) : t[j] = s[j]
  BY EndOf
<1> HIDE DEF t
<1>2. \A j \in i .. Len(s) :
         j \in {l \in DOMAIN t : t[l].kind = k} <=> j \in {l \in DOMAIN s : s[l].kind = k}
  BY <1>1
<1>3. Len(s) + 1 \in {l \in DOMAIN t : t[l].kind = k} <=> x.kind = k
  BY <1>1
<1>4. From(t, i, k) = Count({l \in DOMAIN t : t[l].kind = k}, i, Len(s) + 1)
  BY <1>1 DEF From
<1> QED BY <1>1, <1>2, <1>3, <1>4, CountLast DEF From, t

\* without the first block
LEMMA FromTail ==
  ASSUME NEW S, NEW s \in Seq(S), s # <<>>, NEW k
  PROVE  /\ \A i \in 1 .. Len(s) : From(Tail(s), i, k) = From(s, i + 1, k)
         /\ From(Tail(s), 1, k) = From(s, 1, k) - (IF Head(s).kind = k THEN 1 ELSE 0)
<1> DEFINE t == Tail(s)
<1>1. /\ Len(s) \in Nat \ {0} /\ DOMAIN s = 1 .. Len(s) /\ Len(t) = Len(s) - 1
      /\ DOMAIN t = 1 .. Len(t) /\ Head(s) = s[1] /\ \A j \in 1 .. Len(t) : t[j] = s[j + 1]
  BY FrontOf
<1> HIDE DEF t
<1>2. ASSUME NEW i \in 1 .. Len(s) PROVE From(t, i, k) = From(s, i + 1, k)
  <2>1. \A j \in i .. Len(t) :
           j \in {l \in DOMAIN t : t[l].kind = k} <=> j + 1 \in {l \in DOMAIN s : s[l].kind = k}
    BY <1>1
  <2>2. From(s, i + 1, k) = Count({l \in DOMAIN s : s[l].kind = k}, i + 1, Len(t) + 1)
    BY <1>1 DEF From
  <2>3. From(t, i, k) = Count({l \in DOMAIN t : t[l].kind = k}, i, Len(t))
    BY DEF From
  <2>4. i \in Int /\ Len(t) \in Int
    BY <1>1
  <2> QED BY <2>1, <2>2, <2>3, <2>4, CountShift
<1>3. /\ From(s, 2, k) \in Nat
      /\ From(s, 1, k) = From(s, 1 + 1, k) + (IF s[1].kind = k THEN 1 ELSE 0)
  <2>1. 1 \in 1 .. Len(s) /\ 2 \in Nat \ {0}
    BY <1>1
  <2> QED BY <2>1, FromPlace
<1> QED BY <1>1, <1>2, <1>3 DEF t

\* the same of the calls the server accepted
LEMMA ResetsFromPlace ==
  ASSUME NEW S, NEW t \in Seq(S)
  PROVE  /\ \A i \in Nat \ {0} : ResetsFrom(t, i) \in Nat
         /\ ResetsFrom(t, Len(t) + 1) = 0
         /\ \A i \in 1 .. Len(t) : ResetsFrom(t, i) =
               ResetsFrom(t, i + 1) + (IF t[i].request.kind = "reset" THEN 1 ELSE 0)
<1>1. Len(t) \in Nat /\ DOMAIN t = 1 .. Len(t)
  OBVIOUS
<1>2. ASSUME NEW i \in 1 .. Len(t)
      PROVE  ResetsFrom(t, i) =
                ResetsFrom(t, i + 1) + (IF t[i].request.kind = "reset" THEN 1 ELSE 0)
  BY <1>1, CountFirst DEF ResetsFrom
<1>3. \A i \in Nat \ {0} : ResetsFrom(t, i) \in Nat
  <2> TAKE i \in Nat \ {0}
  <2>1. i \in Int /\ Len(t) \in Int
    BY <1>1
  <2> QED BY <2>1, CountIsNat DEF ResetsFrom
<1>4. ResetsFrom(t, Len(t) + 1) = 0
  <2>1. Len(t) + 1 \in Int /\ Len(t) \in Int /\ Len(t) + 1 > Len(t)
    BY <1>1
  <2> QED BY <2>1, CountIsNat DEF ResetsFrom
<1> QED BY <1>2, <1>3, <1>4

\* a call that is accepted is one reset more, or none
LEMMA ResetsFromAppended ==
  ASSUME NEW S, NEW s \in Seq(S), NEW x \in S, NEW i \in 1 .. Len(s) + 1
  PROVE  ResetsFrom(Append(s, x), i) =
            ResetsFrom(s, i) + (IF x.request.kind = "reset" THEN 1 ELSE 0)
<1> DEFINE t == Append(s, x)
           P(q) == {l \in DOMAIN q : q[l].request.kind = "reset"}
<1>1. /\ Len(s) \in Nat /\ DOMAIN s = 1 .. Len(s) /\ Len(t) = Len(s) + 1 /\ DOMAIN t = 1 .. Len(t)
      /\ t[Len(s) + 1] = x /\ \A j \in 1 .. Len(s) : t[j] = s[j]
  BY EndOf
<1> HIDE DEF t
<1>2. \A j \in i .. Len(s) : j \in P(t) <=> j \in P(s)
  BY <1>1
<1>3. Len(s) + 1 \in P(t) <=> x.request.kind = "reset"
  BY <1>1
<1>4. ResetsFrom(t, i) = Count(P(t), i, Len(s) + 1) /\ ResetsFrom(s, i) = Count(P(s), i, Len(s))
  BY <1>1 DEF ResetsFrom
<1> HIDE DEF P
<1>5. Count(P(t), i, Len(s) + 1) =
         Count(P(s), i, Len(s)) + (IF Len(s) + 1 \in P(t) THEN 1 ELSE 0)
  BY <1>1, <1>2, CountLast
<1> QED BY <1>3, <1>4, <1>5 DEF t

\* the call that is applied is one reset less, or none
LEMMA ResetsFromTail ==
  ASSUME NEW S, NEW s \in Seq(S), s # <<>>
  PROVE  /\ \A i \in 1 .. Len(s) : ResetsFrom(Tail(s), i) = ResetsFrom(s, i + 1)
         /\ ResetsFrom(Tail(s), 1) =
               ResetsFrom(s, 1) - (IF Head(s).request.kind = "reset" THEN 1 ELSE 0)
<1> DEFINE t == Tail(s)
           P(q) == {l \in DOMAIN q : q[l].request.kind = "reset"}
<1>1. /\ Len(s) \in Nat \ {0} /\ DOMAIN s = 1 .. Len(s) /\ Len(t) = Len(s) - 1
      /\ DOMAIN t = 1 .. Len(t) /\ Head(s) = s[1] /\ \A j \in 1 .. Len(t) : t[j] = s[j + 1]
  BY FrontOf
<1> HIDE DEF t
<1>2. ASSUME NEW i \in 1 .. Len(s) PROVE ResetsFrom(t, i) = ResetsFrom(s, i + 1)
  <2>1. \A j \in i .. Len(t) : j \in P(t) <=> j + 1 \in P(s)
    BY <1>1
  <2>2. ResetsFrom(s, i + 1) = Count(P(s), i + 1, Len(t) + 1)
        /\ ResetsFrom(t, i) = Count(P(t), i, Len(t))
    BY <1>1 DEF ResetsFrom
  <2> HIDE DEF P
  <2> QED BY <1>1, <2>1, <2>2, CountShift
<1>3. ResetsFrom(s, 2) \in Nat
      /\ ResetsFrom(s, 1) =
            ResetsFrom(s, 2) + (IF s[1].request.kind = "reset" THEN 1 ELSE 0)
  BY <1>1, ResetsFromPlace
<1> QED BY <1>1, <1>2, <1>3 DEF t

-----------------------------------------------------------------------------
(* The types of the variables, in full: TypeOK says less.                  *)

Tables(S) == UNION {[D -> BOOLEAN] : D \in SUBSET S}

Filters(S) ==
    {f \in [names : Seq(S), default : BOOLEAN, data : Tables(Nat), later : Tables(S)] :
        DOMAIN f.data \subseteq DOMAIN f.names}

Copies == [entities : Filters(Entities), types : Filters(Types),
           first : Int, last : Int, lastReset : Int, resetting : BOOLEAN]

Listings(S) == [all : BOOLEAN, names : SUBSET S]

CallTypes ==
    [kind : {"entities"}, action : {"ADD", "REMOVE", "SET"}, list : Listings(Entities)]
    \cup [kind : {"types"}, action : {"ADD", "REMOVE", "SET"}, list : Listings(Types)]
    \cup [kind : {"reset"}, action : {"SET"}, list : Listings({})]

Callers ==
    {Free} \cup [pc : {"asking"}, call : CallTypes]
    \cup [pc : {"answered"}, call : CallTypes, id : Nat]

Askings == [entities : SUBSET Entities, types : SUBSET Types,
            unsure : SUBSET (Entities \cup Types), resets : Nat, stuck : BOOLEAN]

Messages == [kind : {"message"}, entity : Nat, type : Nat, position : Nat]

Blocks ==
    [kind : {"entity"}, id : Nat, name : Entities]
    \cup [kind : {"type"}, id : Nat, name : Types]
    \cup [kind : {"command"}, id : Nat] \cup [kind : {"terminator"}] \cup Messages

Accepted == [id : Nat, request : CallTypes]

CursorTypes ==
    /\ copy \in [SubStates -> Copies] /\ main \in SubStates /\ shadow \in SubStates
    /\ updated \in BOOLEAN /\ atEnd \in BOOLEAN

ReaderTypes ==
    /\ rpc \in {"out", "record", "header", "ending", "dead"}
    /\ msg \in Messages /\ askedThen \in Askings

CallerTypes ==
    /\ caller \in Callers /\ asked \in Askings
    /\ calls \in 0 .. MaxCalls /\ faults \in 0 .. MaxFaults

ServerTypes ==
    /\ subscription \in [entities : SUBSET Entities, types : SUBSET Types]
    /\ todo \in Seq(Accepted) /\ nextId \in Nat \ {0} /\ position \in Nat /\ done \in BOOLEAN
    /\ announced \in [entities : Seq(Entities), types : Seq(Types)]

StreamTypes == stream \in Seq(Blocks) /\ Len(stream) <= MaxBlocks

TypeInv == CursorTypes /\ ReaderTypes /\ CallerTypes /\ ServerTypes /\ StreamTypes

\* a table of nothing, one with some places written, and one without a name
LEMMA TableTypes ==
  ASSUME NEW S
  PROVE  /\ <<>> \in Tables(S) /\ DOMAIN <<>> = {}
         /\ \A t \in Tables(S) : DOMAIN t \subseteq S /\ \A i \in DOMAIN t : t[i] \in BOOLEAN
         /\ \A t \in Tables(S), D \in SUBSET S, x \in BOOLEAN :
               Put(t, D, x) \in Tables(S) /\ DOMAIN Put(t, D, x) = DOMAIN t \cup D
         /\ \A t \in Tables(S), n \in S :
               Without(t, n) \in Tables(S) /\ DOMAIN Without(t, n) = DOMAIN t \ {n}
<1>1. \A D \in SUBSET S : [D -> BOOLEAN] \subseteq Tables(S)
  BY DEF Tables
<1>2. DOMAIN <<>> = {} /\ <<>> \in [{} -> BOOLEAN] /\ {} \in SUBSET S
  OBVIOUS
<1>3. \A t \in Tables(S) : DOMAIN t \subseteq S /\ t \in [DOMAIN t -> BOOLEAN]
  BY DEF Tables
<1>4. ASSUME NEW t \in Tables(S), NEW D \in SUBSET S, NEW x \in BOOLEAN
      PROVE  Put(t, D, x) \in Tables(S) /\ DOMAIN Put(t, D, x) = DOMAIN t \cup D
  <2>1. Put(t, D, x) \in [DOMAIN t \cup D -> BOOLEAN]
    BY <1>3 DEF Put
  <2>2. DOMAIN t \cup D \in SUBSET S
    BY <1>3
  <2> QED BY <1>1, <2>1, <2>2
<1>5. ASSUME NEW t \in Tables(S), NEW n \in S
      PROVE  Without(t, n) \in Tables(S) /\ DOMAIN Without(t, n) = DOMAIN t \ {n}
  <2>1. Without(t, n) \in [DOMAIN t \ {n} -> BOOLEAN]
    BY <1>3 DEF Without
  <2>2. DOMAIN t \ {n} \in SUBSET S
    BY <1>3
  <2> QED BY <1>1, <2>1, <2>2
<1>6. \A t \in Tables(S) : \A i \in DOMAIN t : t[i] \in BOOLEAN
  BY <1>3
<1>7. <<>> \in Tables(S)
  BY <1>1, <1>2
<1> QED BY <1>2, <1>3, <1>4, <1>5, <1>6, <1>7

\* what the calls and the blocks make of a filter is a filter; a call leaves the
\* names alone, and a block adds its own
LEMMA FilterTypes ==
  ASSUME NEW S
  PROVE  /\ NewFilter \in Filters(S) /\ NewFilter.names = <<>>
         /\ \A f \in Filters(S), x \in BOOLEAN :
               Cleared(f, x) \in Filters(S) /\ Cleared(f, x).names = f.names
         /\ \A f \in Filters(S), l \in Listings(S), a \in {"ADD", "REMOVE", "SET"} :
               Modify(f, a, l) \in Filters(S) /\ Modify(f, a, l).names = f.names
         /\ \A f \in Filters(S), n \in S :
               /\ RegisterInstrument(f, n) \in Filters(S)
               /\ RegisterInstrument(f, n).names = Append(f.names, n)
               /\ RegisterMessageType(f, n) \in Filters(S)
               /\ RegisterMessageType(f, n).names = Append(f.names, n)
<1> DEFINE Shapes == [names : Seq(S), default : BOOLEAN, data : Tables(Nat), later : Tables(S)]
<1>a. \A f \in Filters(S) : /\ f \in Shapes /\ DOMAIN f.data \subseteq DOMAIN f.names
                            /\ f.names \in Seq(S) /\ f.default \in BOOLEAN
                            /\ f.data \in Tables(Nat) /\ f.later \in Tables(S)
  BY DEF Filters
<1>b. \A f \in Shapes : DOMAIN f.data \subseteq DOMAIN f.names => f \in Filters(S)
  BY DEF Filters
<1>c. \A t \in Tables(Nat), D \in SUBSET Nat, x \in BOOLEAN :
         Put(t, D, x) \in Tables(Nat) /\ DOMAIN Put(t, D, x) = DOMAIN t \cup D
  BY TableTypes
<1>1. NewFilter \in Filters(S) /\ NewFilter.names = <<>>
  <2>1. <<>> \in Tables(Nat) /\ <<>> \in Tables(S) /\ <<>> \in Seq(S)
    BY TableTypes
  <2>2. NewFilter \in Shapes /\ NewFilter.data = <<>> /\ NewFilter.names = <<>>
    BY <2>1 DEF NewFilter
  <2> QED BY <1>b, <2>2
<1>2. ASSUME NEW f \in Filters(S), NEW x \in BOOLEAN
      PROVE  Cleared(f, x) \in Filters(S) /\ Cleared(f, x).names = f.names
  <2>1. <<>> \in Tables(Nat) /\ <<>> \in Tables(S) /\ DOMAIN <<>> = {}
    BY TableTypes
  <2>2. /\ Cleared(f, x) \in Shapes /\ Cleared(f, x).names = f.names
        /\ Cleared(f, x).data = <<>>
    BY <1>a, <2>1 DEF Cleared
  <2>3. DOMAIN Cleared(f, x).data \subseteq DOMAIN Cleared(f, x).names
    BY <2>1, <2>2
  <2> QED BY <1>b, <2>2, <2>3
<1>3. ASSUME NEW f \in Filters(S), NEW l \in Listings(S), NEW a \in {"ADD", "REMOVE", "SET"}
      PROVE  Modify(f, a, l) \in Filters(S) /\ Modify(f, a, l).names = f.names
  <2> DEFINE b        == Base(f, a, l)
             removing == a = "REMOVE"
             met      == {i \in DOMAIN f.names : f.names[i] \in l.names}
             later    == IF b.default = removing THEN b.later
                         ELSE Put(b.later, Unmet(f, l), removing)
  <2>1. b \in Filters(S) /\ b.names = f.names
    BY <1>2 DEF Base
  <2>2. met \in SUBSET Nat /\ met \subseteq DOMAIN f.names /\ removing \in BOOLEAN
    BY <1>a
  <2>3. Unmet(f, l) \in SUBSET S
    BY DEF Unmet, Listings
  <2>4. /\ Put(b.data, met, removing) \in Tables(Nat)
        /\ DOMAIN Put(b.data, met, removing) \subseteq DOMAIN b.names
    <3>1. b.data \in Tables(Nat) /\ DOMAIN b.data \subseteq DOMAIN b.names
      BY <1>a, <2>1
    <3> HIDE DEF b, met, removing
    <3>2. /\ Put(b.data, met, removing) \in Tables(Nat)
          /\ DOMAIN Put(b.data, met, removing) = DOMAIN b.data \cup met
      BY <3>1, <2>2, <1>c
    <3> QED BY <3>1, <3>2, <2>1, <2>2
  <2>5. later \in Tables(S)
    <3>1. b.later \in Tables(S)
      BY <1>a, <2>1
    <3> QED BY <3>1, <2>2, <2>3, TableTypes
  <2>6. Modify(f, a, l) = [b EXCEPT !.data = Put(b.data, met, removing), !.later = later]
    BY DEF Modify
  <2>7. b \in Shapes
    BY <1>a, <2>1
  <2> HIDE DEF b, met, later, removing
  <2>8. /\ Modify(f, a, l) \in Shapes /\ Modify(f, a, l).names = b.names
        /\ Modify(f, a, l).data = Put(b.data, met, removing)
    BY <2>4, <2>5, <2>6, <2>7
  <2> QED BY <1>b, <2>1, <2>4, <2>8
<1>4. ASSUME NEW f \in Filters(S), NEW n \in S
      PROVE  /\ Append(f.names, n) \in Seq(S) /\ Len(f.names) \in Nat
             /\ {Len(f.names) + 1} \in SUBSET Nat
             /\ DOMAIN f.data \subseteq DOMAIN Append(f.names, n)
             /\ DOMAIN f.data \cup {Len(f.names) + 1} \subseteq DOMAIN Append(f.names, n)
  <2>1. f.names \in Seq(S) /\ DOMAIN f.data \subseteq DOMAIN f.names
    BY <1>a
  <2>2. DOMAIN f.names = 1 .. Len(f.names) /\ Len(f.names) \in Nat
        /\ DOMAIN Append(f.names, n) = 1 .. Len(f.names) + 1 /\ Append(f.names, n) \in Seq(S)
    BY <2>1, EndOf
  <2> QED BY <2>1, <2>2
<1>5. ASSUME NEW f \in Filters(S), NEW n \in S
      PROVE  /\ RegisterInstrument(f, n) \in Filters(S)
             /\ RegisterInstrument(f, n).names = Append(f.names, n)
  <2> DEFINE i == Len(f.names) + 1
             g == [f EXCEPT !.names = Append(f.names, n)]
  <2>1. g \in Shapes /\ g.names = Append(f.names, n) /\ g.data = f.data
    BY <1>a, <1>4
  <2>2. CASE n \in DOMAIN f.later
    <3> DEFINE data  == Put(f.data, {i}, f.later[n])
               later == Without(f.later, n)
    <3>1. f.data \in Tables(Nat) /\ f.later \in Tables(S) /\ f.later[n] \in BOOLEAN
      BY <1>a, <2>2, TableTypes
    <3>2. data \in Tables(Nat) /\ DOMAIN data = DOMAIN f.data \cup {i}
      BY <3>1, <1>4, <1>c
    <3>3. later \in Tables(S)
      BY <3>1, TableTypes
    <3>4. RegisterInstrument(f, n) = [g EXCEPT !.data = data, !.later = later]
      BY <2>2 DEF RegisterInstrument
    <3> HIDE DEF data, later, g, i
    <3>5. /\ RegisterInstrument(f, n) \in Shapes /\ RegisterInstrument(f, n).names = g.names
          /\ RegisterInstrument(f, n).data = data
      BY <2>1, <3>2, <3>3, <3>4
    <3>6. DOMAIN data \subseteq DOMAIN Append(f.names, n)
      BY <3>2, <1>4 DEF i
    <3> QED BY <1>b, <2>1, <3>5, <3>6
  <2>3. CASE n \notin DOMAIN f.later
    <3>1. RegisterInstrument(f, n) = g
      BY <2>3 DEF RegisterInstrument
    <3> QED BY <1>b, <1>4, <2>1, <3>1
  <2> QED BY <2>2, <2>3
<1>6. ASSUME NEW f \in Filters(S), NEW n \in S
      PROVE  /\ RegisterMessageType(f, n) \in Filters(S)
             /\ RegisterMessageType(f, n).names = Append(f.names, n)
  <2> DEFINE i        == Len(f.names) + 1
             siblings == Numbers(f, n)
             skipped  == IF n \in DOMAIN f.later THEN f.later[n]
                         ELSE IF siblings = {} THEN f.default
                         ELSE \E j \in siblings :
                                 (\A k \in siblings : k <= j) /\ Skipped(f, j)
             data     == Put(f.data, {i}, skipped)
             later    == Without(f.later, n)
  <2>1. f.data \in Tables(Nat) /\ f.later \in Tables(S)
    BY <1>a
  <2>2. skipped \in BOOLEAN
    BY <1>a, <2>1, TableTypes
  <2>3. data \in Tables(Nat) /\ DOMAIN data = DOMAIN f.data \cup {i}
    <3> HIDE DEF skipped
    <3> QED BY <2>1, <2>2, <1>4, <1>c
  <2>4. later \in Tables(S)
    BY <2>1, TableTypes
  <2>5. RegisterMessageType(f, n) =
           [f EXCEPT !.names = Append(f.names, n), !.data = data, !.later = later]
    BY DEF RegisterMessageType
  <2>6. DOMAIN data \subseteq DOMAIN Append(f.names, n)
    <3> HIDE DEF data
    <3> QED BY <2>3, <1>4
  <2> HIDE DEF data, later, skipped, siblings, i
  <2>7. /\ RegisterMessageType(f, n) \in Shapes
        /\ RegisterMessageType(f, n).names = Append(f.names, n)
        /\ RegisterMessageType(f, n).data = data
    BY <1>a, <1>4, <2>3, <2>4, <2>5
  <2> QED BY <1>b, <2>6, <2>7
<1> QED BY <1>1, <1>2, <1>3, <1>5, <1>6

\* the calls the interface can be given, and what the server takes them for
LEMMA CallsHaveTypes ==
  /\ \A c \in Calls : c \in CallTypes
  /\ \A c \in CallTypes : Request(c) \in CallTypes /\ Request(c).kind = c.kind
  /\ \A c \in CallTypes :
        /\ c.kind \in {"entities", "types", "reset"} /\ c.action \in {"ADD", "REMOVE", "SET"}
        /\ c.kind = "entities" => c.list \in Listings(Entities)
        /\ c.kind = "types" => c.list \in Listings(Types)
<1>1. ASSUME NEW c \in Calls PROVE c \in CallTypes
  <2>1. /\ \A l \in Lists(Entities) \cup {Everything} : l \in Listings(Entities)
        /\ \A l \in Lists(Types \ SystemTypes) \cup {Everything} : l \in Listings(Types)
        /\ Only({}) \in Listings(Types) /\ Only({}) \in Listings({})
    <3>1. \A S, T : \A ns \in SUBSET S : S \subseteq T => Only(ns) \in Listings(T)
      BY DEF Only, Listings
    <3>2. \A T : Everything \in Listings(T) /\ Only({}) \in Listings(T)
      BY DEF Everything, Only, Listings
    <3>3. \A S, T : S \subseteq T => Lists(S) \subseteq Listings(T)
      BY <3>1 DEF Lists
    <3> QED BY <3>2, <3>3
  <2>2. \/ /\ c \in [kind : {"entities"}, action : {"ADD", "REMOVE", "SET"}, list : Listings(Entities)]
        \/ /\ c \in [kind : {"types"}, action : {"ADD", "REMOVE", "SET"}, list : Listings(Types)]
        \/ /\ c \in [kind : {"reset"}, action : {"SET"}, list : Listings({})]
    BY <2>1 DEF Calls
  <2> QED BY <2>2 DEF CallTypes
<1>2. ASSUME NEW c \in CallTypes PROVE Request(c) \in CallTypes /\ Request(c).kind = c.kind
  <2>1. Everything \in Listings(Entities)
    BY DEF Everything, Listings
  <2> QED BY <2>1 DEF CallTypes, Request
<1> QED BY <1>1, <1>2 DEF CallTypes

\* what the calls ask for are names the stream has
LEMMA SubscribedTypes ==
  ASSUME NEW All, NEW S \in SUBSET All, NEW l \in Listings(All),
         NEW a \in {"ADD", "REMOVE", "SET"}
  PROVE  Subscribed(S, a, l, All) \in SUBSET All
BY DEF Subscribed, Listings

\* the types of what the calls have asked for; only a reset that returned counts
\* as one
LEMMA AskingTypes ==
  ASSUME TypeInv, NEW c \in CallTypes
  PROVE  /\ AskFor(c) \in Askings /\ AskFor(c).resets = asked.resets
         /\ caller.pc # "free" => Doubted(caller.call) \in Askings
                                  /\ Doubted(caller.call).resets = asked.resets
<1>1. asked \in Askings /\ copy[shadow].entities.names \in Seq(Entities)
      /\ copy[shadow].types.names \in Seq(Types)
  BY DEF TypeInv, CallerTypes, CursorTypes, Copies, Filters
<1>2. ASSUME NEW f, NEW S, NEW l \in Listings(S), NEW a PROVE Wavering(f, a, l) \in SUBSET S
  BY DEF Wavering, Unmet, Listings
<1>3. AskFor(c) \in Askings /\ AskFor(c).resets = asked.resets
  <2>1. CASE c.kind = "reset"
    BY <2>1, <1>1 DEF AskFor
  <2>2. CASE c.kind = "entities"
    <3> DEFINE w == Wavering(copy[shadow].entities, c.action, c.list)
               n == Subscribed(asked.entities, c.action, c.list, Entities)
    <3>1. w \in SUBSET Entities
      BY <2>2, <1>2, CallsHaveTypes
    <3>2. n \in SUBSET Entities
      BY <2>2, <1>1, SubscribedTypes, CallsHaveTypes DEF Askings
    <3>3. AskFor(c) = [asked EXCEPT !.entities = n, !.unsure = asked.unsure \cup w]
      BY <2>2, <1>1 DEF AskFor, Askings
    <3> HIDE DEF w, n
    <3> QED BY <1>1, <3>1, <3>2, <3>3 DEF Askings
  <2>3. CASE c.kind = "types"
    <3> DEFINE w == Wavering(copy[shadow].types, c.action, c.list)
               n == Subscribed(asked.types, c.action, c.list, Types)
    <3>1. w \in SUBSET Types
      BY <2>3, <1>2, CallsHaveTypes
    <3>2. n \in SUBSET Types
      BY <2>3, <1>1, SubscribedTypes, CallsHaveTypes DEF Askings
    <3>3. AskFor(c) = [asked EXCEPT !.types = n, !.unsure = asked.unsure \cup w]
      BY <2>3, <1>1 DEF AskFor, Askings
    <3> HIDE DEF w, n
    <3> QED BY <1>1, <3>1, <3>2, <3>3 DEF Askings
  <2> QED BY <2>1, <2>2, <2>3, CallsHaveTypes
<1>4. ASSUME caller.pc # "free"
      PROVE  Doubted(caller.call) \in Askings /\ Doubted(caller.call).resets = asked.resets
  <2>1. caller.call \in CallTypes
    BY <1>4 DEF TypeInv, CallerTypes, Callers, Free
  <2>2. Touched(caller.call) \in SUBSET (Entities \cup Types)
    BY <2>1, CallsHaveTypes DEF Touched, Listings
  <2> QED BY <2>2, <1>1 DEF Doubted, Askings
<1> QED BY <1>3, <1>4

-----------------------------------------------------------------------------
(* The two copies.                                                         *)

\* of two copies there is another one
LEMMA OtherCopy ==
  ASSUME NEW s \in SubStates
  PROVE  Other(s) \in SubStates /\ Other(s) # s
<1>1. Cardinality(SubStates \ {s}) = 1 /\ IsFiniteSet(SubStates \ {s})
  BY FS_RemoveElement, ConstantsAssumption
<1>2. SubStates \ {s} # {}
  BY <1>1, FS_EmptySet
<1> QED BY <1>2 DEF Other

\* the types of the copies
LEMMA CopyTypes ==
  /\ NewCopy \in Copies
  /\ \A i \in SubStates : TypeInv => copy[i] \in Copies
<1>1. NewFilter \in Filters(Entities) /\ NewFilter \in Filters(Types)
  BY FilterTypes
<1> QED BY <1>1 DEF NewCopy, Copies, None, Unset, TypeInv, CursorTypes

\* a call writes the shadow, which is not the copy that is read
LEMMA WritesShadow ==
  ASSUME TypeInv, NEW s \in Copies, WriteShadow(s)
  PROVE  /\ copy' \in [SubStates -> Copies] /\ shadow' \in SubStates /\ updated' \in BOOLEAN
         /\ copy'[shadow'] = s /\ copy'[main] = copy[main] /\ shadow' # main
         /\ \A i \in SubStates : i # shadow' => copy'[i] = copy[i]
         /\ updated' <=> updated \/ main = shadow
<1>1. main \in SubStates /\ shadow \in SubStates /\ copy \in [SubStates -> Copies]
      /\ updated \in BOOLEAN
  BY DEF TypeInv, CursorTypes
<1>2. Other(main) \in SubStates /\ Other(main) # main
  BY <1>1, OtherCopy
<1> QED BY <1>1, <1>2 DEF WriteShadow

\* next() takes the shadow over, and changes it to s
LEMMA TakesShadow ==
  ASSUME TypeInv, NEW s \in Copies, SynchronizeAnd(s)
  PROVE  /\ copy' \in [SubStates -> Copies] /\ main' = shadow /\ shadow' = shadow
         /\ main' \in SubStates /\ updated' = FALSE /\ copy'[shadow] = s /\ caller = Free
         /\ \A i \in SubStates : i # shadow => copy'[i] = NewCopy
<1>1. main \in SubStates /\ shadow \in SubStates /\ copy \in [SubStates -> Copies]
  BY DEF TypeInv, CursorTypes
<1>2. caller = Free
  BY DEF SynchronizeAnd, thisLockFree, TypeInv, CallerTypes, Callers
<1> QED BY <1>1, <1>2, CopyTypes DEF SynchronizeAnd

\* what BeginCall writes
Written(c) ==
    LET s == copy[shadow] IN
    CASE c.kind = "reset" ->
           [s EXCEPT !.resetting = TRUE,
                     !.entities = Cleared(@, FALSE), !.types = Cleared(@, FALSE)]
      [] c.kind = "entities" -> [s EXCEPT !.entities = Modify(@, c.action, c.list)]
      [] c.kind = "types"    -> [s EXCEPT !.types = Modify(@, c.action, c.list)]

\* a call changes the filters, and a reset says that it is one
LEMMA WrittenCopy ==
  ASSUME TypeInv, NEW c \in CallTypes
  PROVE  LET s == copy[shadow]
             w == Written(c)
         IN  /\ w \in Copies
             /\ w.first = s.first /\ w.last = s.last /\ w.lastReset = s.lastReset
             /\ w.entities.names = s.entities.names /\ w.types.names = s.types.names
             /\ w.resetting = (s.resetting \/ c.kind = "reset")
<1> DEFINE s == copy[shadow]
<1>1. /\ s \in Copies /\ s.entities \in Filters(Entities) /\ s.types \in Filters(Types)
      /\ s.resetting \in BOOLEAN
  BY DEF TypeInv, CursorTypes, Copies
<1>2. CASE c.kind = "reset"
  <2>1. /\ Cleared(s.entities, FALSE) \in Filters(Entities)
        /\ Cleared(s.entities, FALSE).names = s.entities.names
        /\ Cleared(s.types, FALSE) \in Filters(Types)
        /\ Cleared(s.types, FALSE).names = s.types.names
    BY <1>1, FilterTypes
  <2>2. Written(c) = [s EXCEPT !.resetting = TRUE, !.entities = Cleared(s.entities, FALSE),
                               !.types = Cleared(s.types, FALSE)]
    BY <1>1, <1>2 DEF Written, Copies
  <2> HIDE DEF s
  <2>3. LET w == Written(c) IN
        /\ w \in Copies
        /\ w.first = s.first /\ w.last = s.last /\ w.lastReset = s.lastReset
        /\ w.entities.names = s.entities.names /\ w.types.names = s.types.names
        /\ w.resetting = TRUE
    BY <1>1, <2>1, <2>2 DEF Copies
  <2> QED BY <1>2, <2>3 DEF s
<1>3. CASE c.kind = "entities"
  <2> DEFINE f == Modify(s.entities, c.action, c.list)
  <2>1. f \in Filters(Entities) /\ f.names = s.entities.names
    <3>1. c.list \in Listings(Entities) /\ c.action \in {"ADD", "REMOVE", "SET"}
      BY <1>3, CallsHaveTypes
    <3>2. \A g \in Filters(Entities), l \in Listings(Entities), a \in {"ADD", "REMOVE", "SET"} :
             Modify(g, a, l) \in Filters(Entities) /\ Modify(g, a, l).names = g.names
      BY FilterTypes
    <3> QED BY <1>1, <3>1, <3>2
  <2>2. Written(c) = [s EXCEPT !.entities = f]
    BY <1>1, <1>3 DEF Written, Copies
  <2> HIDE DEF s, f
  <2>3. LET w == Written(c) IN
        /\ w \in Copies
        /\ w.first = s.first /\ w.last = s.last /\ w.lastReset = s.lastReset
        /\ w.entities.names = s.entities.names /\ w.types.names = s.types.names
        /\ w.resetting = s.resetting
    BY <1>1, <2>1, <2>2 DEF Copies
  <2> QED BY <1>3, <2>3, <1>1 DEF s
<1>4. CASE c.kind = "types"
  <2> DEFINE f == Modify(s.types, c.action, c.list)
  <2>1. f \in Filters(Types) /\ f.names = s.types.names
    <3>1. c.list \in Listings(Types) /\ c.action \in {"ADD", "REMOVE", "SET"}
      BY <1>4, CallsHaveTypes
    <3>2. \A g \in Filters(Types), l \in Listings(Types), a \in {"ADD", "REMOVE", "SET"} :
             Modify(g, a, l) \in Filters(Types) /\ Modify(g, a, l).names = g.names
      BY FilterTypes
    <3> QED BY <1>1, <3>1, <3>2
  <2>2. Written(c) = [s EXCEPT !.types = f]
    BY <1>1, <1>4 DEF Written, Copies
  <2> HIDE DEF s, f
  <2>3. LET w == Written(c) IN
        /\ w \in Copies
        /\ w.first = s.first /\ w.last = s.last /\ w.lastReset = s.lastReset
        /\ w.entities.names = s.entities.names /\ w.types.names = s.types.names
        /\ w.resetting = s.resetting
    BY <1>1, <2>1, <2>2 DEF Copies
  <2> QED BY <1>4, <2>3, <1>1 DEF s
<1> QED BY <1>2, <1>3, <1>4, CallsHaveTypes

\* the number of a call that was answered is written, if it is the one that is
\* expected
LEMMA EndedCall ==
  ASSUME TypeInv, caller.pc = "answered", NEW id \in Int, EndCall(id)
  PROVE  LET s     == copy[shadow]
             c     == caller.call
             reset == c.kind = "reset"
             fits  == s.last = None \/ id = s.last + 1
             t     == copy'[shadow]
         IN  /\ copy' \in [SubStates -> Copies] /\ asked' \in Askings /\ atEnd' \in BOOLEAN
             /\ caller' = Free
             /\ \A i \in SubStates : i # shadow => copy'[i] = copy[i]
             /\ t.entities = s.entities /\ t.types = s.types /\ t.resetting = s.resetting
             /\ fits => /\ t.first = IF s.last = None THEN id ELSE s.first
                        /\ t.last = id
                        /\ t.lastReset = IF reset THEN id ELSE s.lastReset
             /\ ~fits => t = s
             /\ asked'.resets = IF fits /\ id # None /\ reset THEN asked.resets + 1
                                ELSE asked.resets
<1> DEFINE s     == copy[shadow]
           c     == caller.call
           reset == c.kind = "reset"
           fits  == s.last = None \/ id = s.last + 1
           t     == [s EXCEPT !.first = IF s.last = None THEN id ELSE @,
                              !.last = id,
                              !.lastReset = IF reset THEN id ELSE @]
<1>1. /\ copy \in [SubStates -> Copies] /\ shadow \in SubStates /\ s \in Copies
      /\ c \in CallTypes /\ asked \in Askings /\ atEnd \in BOOLEAN
  BY DEF TypeInv, CursorTypes, CallerTypes, Callers, Free
<1>2. Doubted(c) \in Askings /\ Doubted(c).resets = asked.resets
  BY <1>1, AskingTypes
<1>3. /\ t \in Copies /\ t.entities = s.entities /\ t.types = s.types
      /\ t.resetting = s.resetting /\ t.first = (IF s.last = None THEN id ELSE s.first)
      /\ t.last = id /\ t.lastReset = IF reset THEN id ELSE s.lastReset
  <2> HIDE DEF s, reset
  <2> QED BY <1>1 DEF Copies
<1>4. [asked EXCEPT !.resets = @ + 1, !.stuck = FALSE] \in Askings
      /\ [asked EXCEPT !.resets = @ + 1, !.stuck = FALSE].resets = asked.resets + 1
  <2>1. asked.resets \in Nat /\ asked.resets + 1 \in Nat
    BY <1>1 DEF Askings
  <2>2. [asked EXCEPT !.resets = @ + 1, !.stuck = FALSE] =
           [asked EXCEPT !.resets = asked.resets + 1, !.stuck = FALSE]
    BY <1>1 DEF Askings
  <2>3. \A n \in Nat : /\ [asked EXCEPT !.resets = n, !.stuck = FALSE] \in Askings
                       /\ [asked EXCEPT !.resets = n, !.stuck = FALSE].resets = n
    BY <1>1 DEF Askings
  <2> QED BY <2>1, <2>2, <2>3
<1>5. /\ caller' = Free
      /\ fits => copy' = [copy EXCEPT ![shadow] = t] /\ atEnd' = FALSE
      /\ ~fits => copy' = copy /\ atEnd' = atEnd
      /\ asked' = IF ~fits \/ id = None THEN Doubted(c)
                  ELSE IF reset THEN [asked EXCEPT !.resets = @ + 1, !.stuck = FALSE]
                  ELSE asked
  BY DEF EndCall
<1> HIDE DEF t, c
<1>6. asked' \in Askings
      /\ asked'.resets = IF fits /\ id # None /\ reset THEN asked.resets + 1 ELSE asked.resets
  BY <1>1, <1>2, <1>4, <1>5
<1>7. CASE fits
  <2>1. copy'[shadow] = t /\ copy' \in [SubStates -> Copies]
        /\ \A i \in SubStates : i # shadow => copy'[i] = copy[i]
    BY <1>1, <1>3, <1>5, <1>7
  <2> HIDE DEF s, fits, reset
  <2>2. /\ copy' \in [SubStates -> Copies] /\ asked' \in Askings /\ atEnd' \in BOOLEAN
        /\ caller' = Free /\ \A i \in SubStates : i # shadow => copy'[i] = copy[i]
        /\ copy'[shadow].entities = s.entities /\ copy'[shadow].types = s.types
        /\ copy'[shadow].resetting = s.resetting
        /\ copy'[shadow].first = (IF s.last = None THEN id ELSE s.first)
        /\ copy'[shadow].last = id
        /\ copy'[shadow].lastReset = IF reset THEN id ELSE s.lastReset
    BY <1>3, <1>5, <1>6, <1>7, <2>1
  <2> QED BY <1>6, <1>7, <2>2 DEF s, fits, reset, c
<1>8. CASE ~fits
  BY <1>1, <1>5, <1>6, <1>8 DEF c
<1> QED BY <1>7, <1>8

\* the types of what the copies say of the commands that are expected
LEMMA ExecutedCopy ==
  ASSUME NEW s \in Copies
  PROVE  /\ Executed(s) \in Copies
         /\ Executed(s).entities = s.entities /\ Executed(s).types = s.types
         /\ Executed(s).first = IF s.first = s.last THEN None ELSE s.first + 1
         /\ Executed(s).last = IF s.first = s.last THEN None ELSE s.last
         /\ s.resetting /\ s.first = s.lastReset =>
               Executed(s).resetting = FALSE /\ Executed(s).lastReset = None
         /\ ~(s.resetting /\ s.first = s.lastReset) =>
               Executed(s).resetting = s.resetting /\ Executed(s).lastReset = s.lastReset
         /\ \A r \in Readings(s) :
               /\ r \in Copies /\ r.entities = s.entities /\ r.types = s.types
               /\ r.first = s.first /\ r.last = s.last /\ r.resetting = s.resetting
               /\ \/ r.lastReset = s.lastReset
                  \/ /\ s.resetting /\ s.lastReset = Unset
                     /\ r.lastReset = None \/ r.lastReset = s.first
<1>1. /\ s.first \in Int /\ s.last \in Int /\ s.lastReset \in Int /\ s.resetting \in BOOLEAN
      /\ None \in Int
  BY DEF Copies, None
<1> DEFINE resetDone == s.resetting /\ s.first = s.lastReset
           f == IF s.first = s.last THEN None ELSE s.first + 1
           l == IF s.first = s.last THEN None ELSE s.last
           d == s.resetting /\ ~resetDone
           n == IF resetDone THEN None ELSE s.lastReset
<1>2. f \in Int /\ l \in Int /\ n \in Int /\ d \in BOOLEAN
  BY <1>1
<1>3. Executed(s) = [s EXCEPT !.resetting = d, !.lastReset = n, !.first = f, !.last = l]
  BY <1>1 DEF Executed, Copies
<1>5. /\ Executed(s) \in Copies /\ Executed(s).first = f /\ Executed(s).last = l
      /\ Executed(s).resetting = d /\ Executed(s).lastReset = n
      /\ Executed(s).entities = s.entities /\ Executed(s).types = s.types
  <2> HIDE DEF f, l, d, n
  <2> QED BY <1>2, <1>3 DEF Copies
<1>4. ASSUME NEW r \in Readings(s)
      PROVE  /\ r \in Copies /\ r.entities = s.entities /\ r.types = s.types
             /\ r.first = s.first /\ r.last = s.last /\ r.resetting = s.resetting
             /\ \/ r.lastReset = s.lastReset
                \/ /\ s.resetting /\ s.lastReset = Unset
                   /\ r.lastReset = None \/ r.lastReset = s.first
  <2>1. \A i \in Int : /\ [s EXCEPT !.lastReset = i] \in Copies
                       /\ [s EXCEPT !.lastReset = i].lastReset = i
                       /\ [s EXCEPT !.lastReset = i].entities = s.entities
                       /\ [s EXCEPT !.lastReset = i].types = s.types
                       /\ [s EXCEPT !.lastReset = i].first = s.first
                       /\ [s EXCEPT !.lastReset = i].last = s.last
                       /\ [s EXCEPT !.lastReset = i].resetting = s.resetting
    BY DEF Copies
  <2>2. CASE s.resetting /\ s.lastReset = Unset
    <3>1. \/ r = [s EXCEPT !.lastReset = None]
          \/ r = [s EXCEPT !.lastReset = s.first]
      BY <1>4, <2>2 DEF Readings
    <3>2. s.first \in Int /\ None \in Int
      BY <1>1 DEF None
    <3>3. CASE r = [s EXCEPT !.lastReset = None]
      BY <2>1, <2>2, <3>2, <3>3
    <3>4. CASE r = [s EXCEPT !.lastReset = s.first]
      BY <2>1, <2>2, <3>2, <3>4
    <3> QED BY <3>1, <3>3, <3>4
  <2>3. CASE ~(s.resetting /\ s.lastReset = Unset)
    <3>1. r = s
      BY <1>4, <2>3 DEF Readings
    <3> QED BY <3>1
  <2> QED BY <2>2, <2>3
<1>6. d = IF resetDone THEN FALSE ELSE s.resetting
  BY <1>1
<1> QED BY <1>4, <1>5, <1>6

-----------------------------------------------------------------------------
(* What next() does with the blocks.                                       *)

\* what a block holds
LEMMA BlockTypes ==
  /\ \A b \in Blocks :
        /\ b.kind \in {"entity", "type", "command", "terminator", "message"}
        /\ b.kind = "entity" => b.id \in Nat /\ b.name \in Entities
        /\ b.kind = "type" => b.id \in Nat /\ b.name \in Types
        /\ b.kind = "command" => b.id \in Nat /\ b = CommandBlock(b.id)
        /\ b.kind = "message" => b \in Messages /\ b.entity \in Nat /\ b.type \in Nat
                                 /\ b.position \in Nat
  /\ \A i \in Nat, n \in Entities : EntityBlock(i, n) \in Blocks
        /\ EntityBlock(i, n).kind = "entity"
        /\ EntityBlock(i, n).id = i /\ EntityBlock(i, n).name = n
  /\ \A i \in Nat, n \in Types : TypeBlock(i, n) \in Blocks /\ TypeBlock(i, n).kind = "type"
        /\ TypeBlock(i, n).id = i /\ TypeBlock(i, n).name = n
  /\ \A i \in Nat : CommandBlock(i) \in Blocks
        /\ CommandBlock(i).kind = "command" /\ CommandBlock(i).id = i
  /\ Terminator \in Blocks /\ Terminator.kind = "terminator"
  /\ \A e, t, p \in Nat : Message(e, t, p) \in Messages /\ Message(e, t, p) \in Blocks
        /\ Message(e, t, p).kind = "message" /\ Message(e, t, p).entity = e
        /\ Message(e, t, p).type = t /\ Message(e, t, p).position = p
BY DEF Blocks, Messages, EntityBlock, TypeBlock, CommandBlock, Terminator, Message

\* ... of commands, and of messages
LEMMA CommandBlocks ==
  /\ \A b \in Blocks : b.kind = "command" => b.id \in Nat
  /\ \A i \in Nat : CommandBlock(i) \in Blocks
        /\ CommandBlock(i).kind = "command" /\ CommandBlock(i).id = i
BY BlockTypes

\* a message is a block, and what the server sends as one is a message
LEMMA MessageBlocks ==
  /\ \A b \in Blocks : b.kind = "message" => b \in Messages
  /\ \A e, t, p \in Nat : Message(e, t, p) \in Blocks
        /\ Message(e, t, p).kind = "message" /\ Message(e, t, p).position = p
BY BlockTypes

\* the first block goes
LEMMA TakesBlock ==
  ASSUME TypeInv, NEW kind, AtBlock(kind)
  PROVE  /\ rpc = "record" /\ Head(stream) \in Blocks /\ Head(stream).kind = kind
         /\ Head(stream) = stream[1] /\ Len(stream) \in Nat \ {0} /\ StreamTypes'
         /\ stream' = Tail(stream) /\ stream # <<>> /\ Len(stream') = Len(stream) - 1
<1>1. stream \in Seq(Blocks) /\ Len(stream) <= MaxBlocks /\ MaxBlocks \in Nat
  BY ConstantsAssumption DEF TypeInv, StreamTypes
<1>2. stream # <<>> /\ rpc = "record" /\ Head(stream).kind = kind /\ stream' = Tail(stream)
  BY DEF AtBlock
<1> QED BY <1>1, <1>2, FrontOf DEF StreamTypes

\* next() takes a block and the shadow, which becomes s
Reads(kind, s) ==
    /\ AtBlock(kind) /\ SynchronizeAnd(s) /\ atEnd' \in BOOLEAN
    /\ UNCHANGED <<msg, askedThen, callVars, serverVars>>

\* s is as t but for the filters
SameCommands(s, t) ==
    /\ s.first = t.first /\ s.last = t.last /\ s.lastReset = t.lastReset
    /\ s.resetting = t.resetting

SameNames(s, t) == s.entities.names = t.entities.names /\ s.types.names = t.types.names

\* the copy with one name more
LEMMA MetName ==
  ASSUME NEW s \in Copies
  PROVE  /\ \A n \in Entities :
               LET t == [s EXCEPT !.entities = RegisterInstrument(@, n)] IN
               /\ t \in Copies /\ SameCommands(t, s) /\ t.types = s.types
               /\ t.entities.names = Append(s.entities.names, n)
         /\ \A n \in Types :
               LET t == [s EXCEPT !.types = RegisterMessageType(@, n)] IN
               /\ t \in Copies /\ SameCommands(t, s) /\ t.entities = s.entities
               /\ t.types.names = Append(s.types.names, n)
<1>1. s.entities \in Filters(Entities) /\ s.types \in Filters(Types)
  BY DEF Copies
<1>2. ASSUME NEW n \in Entities
      PROVE  LET t == [s EXCEPT !.entities = RegisterInstrument(@, n)] IN
             /\ t \in Copies /\ SameCommands(t, s) /\ t.types = s.types
             /\ t.entities.names = Append(s.entities.names, n)
  <2> DEFINE f == RegisterInstrument(s.entities, n)
  <2>1. f \in Filters(Entities) /\ f.names = Append(s.entities.names, n)
    BY <1>1, FilterTypes
  <2>2. [s EXCEPT !.entities = RegisterInstrument(@, n)] = [s EXCEPT !.entities = f]
    BY DEF Copies
  <2> HIDE DEF f
  <2> QED BY <2>1, <2>2 DEF Copies, SameCommands
<1>3. ASSUME NEW n \in Types
      PROVE  LET t == [s EXCEPT !.types = RegisterMessageType(@, n)] IN
             /\ t \in Copies /\ SameCommands(t, s) /\ t.entities = s.entities
             /\ t.types.names = Append(s.types.names, n)
  <2> DEFINE f == RegisterMessageType(s.types, n)
  <2>1. f \in Filters(Types) /\ f.names = Append(s.types.names, n)
    BY <1>1, FilterTypes
  <2>2. [s EXCEPT !.types = RegisterMessageType(@, n)] = [s EXCEPT !.types = f]
    BY DEF Copies
  <2> HIDE DEF f
  <2> QED BY <2>1, <2>2 DEF Copies, SameCommands
<1> QED BY <1>2, <1>3

\* next() reads an entity: its name is the next one, or it throws
LEMMA EntityRead ==
  ASSUME TypeInv, ReadEntity
  PROVE  \E s \in Copies :
            /\ Reads("entity", s) /\ SameCommands(s, copy[shadow])
            /\ s.types.names = copy[shadow].types.names
            /\ \/ /\ Head(stream).id = Len(copy[shadow].entities.names) + 1 /\ rpc' = rpc
                  /\ s.entities.names = Append(copy[shadow].entities.names, Head(stream).name)
               \/ /\ Head(stream).id # Len(copy[shadow].entities.names) + 1 /\ rpc' = "dead"
                  /\ s.entities.names = copy[shadow].entities.names
<1> DEFINE s == copy[shadow]
           b == Head(stream)
           t == [s EXCEPT !.entities = RegisterInstrument(@, b.name)]
<1>1. s \in Copies /\ b.name \in Entities /\ AtBlock("entity") /\ atEnd \in BOOLEAN
  BY TakesBlock, BlockTypes DEF TypeInv, CursorTypes, ReadEntity
<1>2. CASE b.id = Len(s.entities.names) + 1
  <2>1. t \in Copies /\ SameCommands(t, s) /\ t.types = s.types
        /\ t.entities.names = Append(s.entities.names, b.name)
    BY <1>1, MetName
  <2>2. Reads("entity", t) /\ rpc' = rpc
    BY <1>1, <1>2 DEF ReadEntity, Reads
  <2> QED BY <1>2, <2>1, <2>2
<1>3. CASE b.id # Len(s.entities.names) + 1
  <2>1. Reads("entity", s) /\ rpc' = "dead"
    BY <1>1, <1>3 DEF ReadEntity, Reads, Throw
  <2> QED BY <1>1, <1>3, <2>1 DEF SameCommands
<1> QED BY <1>2, <1>3

\* next() reads a message type, as it reads an entity
LEMMA TypeRead ==
  ASSUME TypeInv, ReadMessageType
  PROVE  \E s \in Copies :
            /\ Reads("type", s) /\ SameCommands(s, copy[shadow])
            /\ s.entities.names = copy[shadow].entities.names
            /\ \/ /\ Head(stream).id = Len(copy[shadow].types.names) + 1 /\ rpc' = rpc
                  /\ s.types.names = Append(copy[shadow].types.names, Head(stream).name)
               \/ /\ Head(stream).id # Len(copy[shadow].types.names) + 1 /\ rpc' = "dead"
                  /\ s.types.names = copy[shadow].types.names
<1> DEFINE s == copy[shadow]
           b == Head(stream)
           t == [s EXCEPT !.types = RegisterMessageType(@, b.name)]
<1>1. s \in Copies /\ b.name \in Types /\ AtBlock("type") /\ atEnd \in BOOLEAN
  BY TakesBlock, BlockTypes DEF TypeInv, CursorTypes, ReadMessageType
<1>2. CASE b.id = Len(s.types.names) + 1
  <2>1. t \in Copies /\ SameCommands(t, s) /\ t.entities = s.entities
        /\ t.types.names = Append(s.types.names, b.name)
    BY <1>1, MetName
  <2>2. Reads("type", t) /\ rpc' = rpc
    BY <1>1, <1>2 DEF ReadMessageType, Reads
  <2> QED BY <1>2, <2>1, <2>2
<1>3. CASE b.id # Len(s.types.names) + 1
  <2>1. Reads("type", s) /\ rpc' = "dead"
    BY <1>1, <1>3 DEF ReadMessageType, Reads, Throw
  <2> QED BY <1>1, <1>3, <2>1 DEF SameCommands
<1> QED BY <1>2, <1>3

\* next() reads that a command was done: it is the one that is expected, or it
\* throws
LEMMA CommandRead ==
  ASSUME TypeInv, ReadCommand
  PROVE  \E s \in Copies, r \in Readings(copy[shadow]) :
            /\ Reads("command", s) /\ SameNames(s, copy[shadow]) /\ r \in Copies
            /\ \/ /\ Head(stream).id = r.first /\ ~ResetLost(r) /\ rpc' = rpc
                  /\ s = Executed(r)
               \/ /\ Head(stream).id # r.first \/ ResetLost(r)
                  /\ rpc' = "dead" /\ s = r
<1>1. copy[shadow] \in Copies /\ AtBlock("command") /\ atEnd \in BOOLEAN
  BY DEF TypeInv, CursorTypes, ReadCommand
<1>2. PICK r \in Readings(copy[shadow]) :
         IF Head(stream).id = r.first /\ ~ResetLost(r)
         THEN SynchronizeAnd(Executed(r)) /\ UNCHANGED <<rpc, atEnd>>
         ELSE SynchronizeAnd(r) /\ Throw
  BY DEF ReadCommand
<1>3. /\ r \in Copies /\ SameNames(r, copy[shadow])
      /\ Executed(r) \in Copies /\ SameNames(Executed(r), copy[shadow])
  BY <1>1, ExecutedCopy DEF SameNames
<1>4. CASE Head(stream).id = r.first /\ ~ResetLost(r)
  <2>1. Reads("command", Executed(r)) /\ rpc' = rpc
    BY <1>1, <1>2, <1>4 DEF Reads, ReadCommand
  <2> QED BY <1>3, <1>4, <2>1
<1>5. CASE Head(stream).id # r.first \/ ResetLost(r)
  <2>1. Reads("command", r) /\ rpc' = "dead"
    BY <1>1, <1>2, <1>5 DEF Reads, Throw, ReadCommand
  <2> QED BY <1>3, <1>5, <2>1
<1> QED BY <1>4, <1>5

\* next() reads the end of the data, and takes the shadow over as it is
LEMMA TerminatorRead ==
  ASSUME TypeInv, ReadTerminator
  PROVE  Reads("terminator", copy[shadow]) /\ copy[shadow] \in Copies
         /\ rpc' \in {"record", "ending"}
BY TakesBlock DEF ReadTerminator, Reads, TypeInv, CursorTypes

\* a header is read with the shadow taken over, if it changed
LEMMA HeaderRead ==
  ASSUME TypeInv, ReadHeader
  PROVE  /\ AtBlock("message") /\ rpc' = "header" /\ msg' = Head(stream) /\ askedThen' = asked
         /\ UNCHANGED <<callVars, serverVars>>
         /\ \/ updated /\ SynchronizeAnd(copy[shadow]) /\ copy[shadow] \in Copies /\ atEnd' = FALSE
            \/ ~updated /\ UNCHANGED cursorVars
BY DEF ReadHeader, TypeInv, CursorTypes

-----------------------------------------------------------------------------
(* The types are kept.                                                     *)

\* select() leaves every variable with its type
LEMMA TypeInit ==
  ASSUME Init
  PROVE  TypeInv
<1> USE ConstantsAssumption DEF Init
<1>1. CursorTypes
  BY CopyTypes DEF CursorTypes
<1>2. ReaderTypes
  <2>1. NothingAsked \in Askings
    BY DEF NothingAsked, Askings
  <2> QED BY <2>1, BlockTypes DEF ReaderTypes, NoMessage
<1>3. CallerTypes
  <2>1. \A es \in SUBSET Entities, ts \in SUBSET (Types \ SystemTypes) :
           [NothingAsked EXCEPT !.entities = es, !.types = ts] \in Askings
    BY DEF NothingAsked, Askings
  <2>2. asked \in Askings
    BY <2>1
  <2>3. calls \in 0 .. MaxCalls /\ faults \in 0 .. MaxFaults
    OBVIOUS
  <2>4. caller = Free
    OBVIOUS
  <2> QED BY <2>2, <2>3, <2>4 DEF CallerTypes, Callers
<1>4. ServerTypes
  <2>1. subscription \in [entities : SUBSET Entities, types : SUBSET Types]
    BY SystemTypes \subseteq Types
  <2>2. announced \in [entities : Seq(Entities), types : Seq(Types)]
    OBVIOUS
  <2>3. todo \in Seq(Accepted) /\ nextId \in Nat \ {0} /\ position \in Nat /\ done \in BOOLEAN
    <3>1. todo \in Seq(Accepted)
      OBVIOUS
    <3>2. nextId \in Nat \ {0} /\ position \in Nat
      OBVIOUS
    <3>3. done \in BOOLEAN
      OBVIOUS
    <3> HIDE DEF Init
    <3> QED BY <3>1, <3>2, <3>3
  <2> QED BY <2>1, <2>2, <2>3 DEF ServerTypes
<1>5. StreamTypes
  BY DEF StreamTypes
<1> QED BY <1>1, <1>2, <1>3, <1>4, <1>5 DEF TypeInv

\* what the calls do
LEMMA CallTypeStep ==
  ASSUME TypeInv, CallStep
  PROVE  TypeInv'
<1> USE DEF callVars, serverVars, readerVars, cursorVars
<1>1. ReaderTypes' /\ ServerTypes' /\ StreamTypes'
  <2>1. UNCHANGED <<readerVars, serverVars, stream>>
    BY DEF CallStep, BeginCall, RegisterUserMessageType, RequestFails, RequestAnswered,
           AnswerMalformed, EndCall
  <2> QED BY <2>1 DEF TypeInv, ReaderTypes, ServerTypes, StreamTypes
<1>a. CursorTypes /\ CallerTypes /\ calls \in Nat /\ faults \in Nat
      /\ MaxCalls \in Nat /\ MaxFaults \in Nat
  BY ConstantsAssumption DEF TypeInv, CallerTypes
<1>2. ASSUME NEW c \in Calls, BeginCall(c) PROVE CursorTypes' /\ CallerTypes'
  <2>1. c \in CallTypes
    BY CallsHaveTypes
  <2>2. Written(c) \in Copies /\ WriteShadow(Written(c))
    BY <1>2, <2>1, WrittenCopy DEF BeginCall, Written
  <2>3. AskFor(c) \in Askings
    BY <2>1, AskingTypes
  <2> QED BY <1>2, <1>a, <2>1, <2>2, <2>3, WritesShadow
          DEF BeginCall, CursorTypes, CallerTypes, Callers
<1>3. CASE RegisterUserMessageType
  <2>1. copy[shadow] \in Copies
    BY DEF TypeInv, CursorTypes
  <2>2. CursorTypes'
    BY <1>3, <1>a, <2>1, WritesShadow DEF RegisterUserMessageType, CursorTypes
  <2>3. calls' \in 0 .. MaxCalls /\ UNCHANGED <<caller, asked, faults>>
    BY <1>3, <1>a DEF RegisterUserMessageType, CallerTypes
  <2>4. caller \in Callers /\ asked \in Askings /\ faults \in 0 .. MaxFaults
    BY <1>a DEF CallerTypes
  <2>5. CallerTypes'
    BY <2>3, <2>4 DEF CallerTypes
  <2> QED BY <1>1, <2>2, <2>5 DEF TypeInv
<1>4. CASE RequestFails
  <2>1. Doubted(caller.call) \in Askings
    <3>1. caller.pc # "free" /\ caller.call \in CallTypes
      BY <1>4 DEF RequestFails, TypeInv, CallerTypes, Callers, Free
    <3> QED BY <3>1, AskingTypes
  <2>2. faults' \in 0 .. MaxFaults /\ caller' = Free /\ asked' \in Askings /\ UNCHANGED calls
    BY <1>4, <1>a, <2>1 DEF RequestFails, CallerTypes
  <2>3. CursorTypes'
    BY <1>4, <1>a DEF RequestFails, CursorTypes
  <2>4. calls \in 0 .. MaxCalls /\ Free \in Callers
    BY <1>a DEF CallerTypes, Callers
  <2>5. CallerTypes'
    BY <2>2, <2>4 DEF CallerTypes
  <2> QED BY <1>1, <2>3, <2>5 DEF TypeInv
<1>5. ASSUME RequestAnswered \/ AnswerMalformed PROVE CursorTypes' /\ CallerTypes'
  <2>1. caller.pc = "answered" /\ faults' \in 0 .. MaxFaults
        /\ UNCHANGED <<main, shadow, updated, calls>>
    BY <1>5, <1>a DEF RequestAnswered, AnswerMalformed, EndCall, CallerTypes
  <2>2. PICK id \in Int : EndCall(id)
    <3>1. CASE RequestAnswered
      <4>1. caller.id \in Int
        BY <2>1 DEF TypeInv, CallerTypes, Callers, Free
      <4> QED BY <3>1, <4>1 DEF RequestAnswered
    <3>2. CASE AnswerMalformed
      BY <3>2 DEF AnswerMalformed, None
    <3> QED BY <1>5, <3>1, <3>2
  <2>3. copy' \in [SubStates -> Copies] /\ asked' \in Askings /\ atEnd' \in BOOLEAN
        /\ caller' = Free
    BY <2>1, <2>2, EndedCall
  <2> QED BY <1>a, <2>1, <2>3 DEF CursorTypes, CallerTypes, Callers
<1> QED BY <1>1, <1>2, <1>3, <1>4, <1>5 DEF CallStep, TypeInv

\* what the server does
LEMMA ServerTypeStep ==
  ASSUME TypeInv, ServerStep
  PROVE  TypeInv'
<1> USE DEF callVars, serverVars, readerVars, cursorVars
<1>1. CursorTypes' /\ ReaderTypes'
  <2>1. UNCHANGED <<cursorVars, readerVars>>
    BY DEF ServerStep, AcceptCall, ApplyCall, SendMessage, SendTerminator, SendEntity, SendType, Send
  <2> QED BY <2>1 DEF TypeInv, ReaderTypes, CursorTypes
<1>a. /\ CallerTypes /\ ServerTypes /\ StreamTypes /\ stream \in Seq(Blocks) /\ MaxBlocks \in Nat
      /\ announced.entities \in Seq(Entities) /\ announced.types \in Seq(Types)
      /\ SystemTypes \subseteq Types /\ position \in Nat
  BY ConstantsAssumption DEF TypeInv, ServerTypes, StreamTypes
<1>2. ASSUME NEW b \in Blocks, CanSend, stream' = Append(stream, b) PROVE StreamTypes'
  BY <1>a, <1>2, EndOf DEF CanSend, StreamTypes
<1>3. CASE AcceptCall
  <2>1. caller.call \in CallTypes /\ caller.pc = "asking"
    BY <1>3 DEF AcceptCall, TypeInv, CallerTypes, Callers, Free
  <2>2. Request(caller.call) \in CallTypes /\ nextId \in Nat
    BY <2>1, CallsHaveTypes DEF TypeInv, ServerTypes
  <2>3. [id |-> nextId, request |-> Request(caller.call)] \in Accepted
    BY <2>2 DEF Accepted
  <2>4. ServerTypes'
    BY <1>3, <1>a, <2>2, <2>3 DEF AcceptCall, ServerTypes
  <2>5. CallerTypes'
    BY <1>3, <1>a, <2>1, <2>2 DEF AcceptCall, CallerTypes, Callers
  <2> QED BY <1>1, <1>3, <1>a, <2>4, <2>5 DEF AcceptCall, TypeInv, StreamTypes
<1>4. CASE ApplyCall
  <2> DEFINE r == Head(todo).request
  <2>1. Head(todo) \in Accepted /\ Tail(todo) \in Seq(Accepted) /\ todo # <<>>
    BY <1>4, <1>a, FrontOf DEF ApplyCall, ServerTypes
  <2>2. r \in CallTypes /\ Head(todo).id \in Nat
    BY <2>1 DEF Accepted
  <2>3. subscription' \in [entities : SUBSET Entities, types : SUBSET Types]
    <3>1. subscription \in [entities : SUBSET Entities, types : SUBSET Types]
      BY <1>a DEF ServerTypes
    <3>2. CASE r.kind = "reset"
      BY <1>4, <3>1, <3>2 DEF ApplyCall
    <3>3. CASE r.kind = "entities"
      <4> DEFINE n == Subscribed(subscription.entities, r.action, r.list, Entities)
      <4>1. r.list \in Listings(Entities) /\ r.action \in {"ADD", "REMOVE", "SET"}
        BY <2>2, <3>3, CallsHaveTypes
      <4>2. n \in SUBSET Entities
        BY <3>1, <4>1, SubscribedTypes
      <4>3. subscription' = [subscription EXCEPT !.entities = n]
        BY <1>4, <3>1, <3>3 DEF ApplyCall
      <4> HIDE DEF n
      <4> QED BY <3>1, <4>2, <4>3
    <3>4. CASE r.kind = "types"
      <4> DEFINE n == Subscribed(subscription.types, r.action, r.list, Types)
      <4>1. r.list \in Listings(Types) /\ r.action \in {"ADD", "REMOVE", "SET"}
        BY <2>2, <3>4, CallsHaveTypes
      <4>2. n \in SUBSET Types
        BY <3>1, <4>1, SubscribedTypes
      <4>3. subscription' = [subscription EXCEPT !.types = n]
        BY <1>4, <3>1, <3>4 DEF ApplyCall
      <4> HIDE DEF n
      <4> QED BY <3>1, <4>2, <4>3
    <3> QED BY <2>2, <3>2, <3>3, <3>4, CallsHaveTypes
  <2>4. ServerTypes'
    <3>1. position' \in Nat /\ done' \in BOOLEAN /\ todo' = Tail(todo)
          /\ UNCHANGED <<nextId, announced>>
      <4>1. position + 1 \in Nat
        BY <1>a
      <4> QED BY <1>4, <1>a, <4>1 DEF ApplyCall
    <3> QED BY <1>a, <2>1, <2>3, <3>1 DEF ServerTypes
  <2>5. StreamTypes'
    BY <1>2, <1>4, <2>2, BlockTypes DEF ApplyCall
  <2> QED BY <1>1, <1>4, <1>a, <2>4, <2>5 DEF ApplyCall, TypeInv, CallerTypes
<1>5. ASSUME NEW b \in Blocks, Send(b),
             announced' \in [entities : Seq(Entities), types : Seq(Types)]
      PROVE  TypeInv'
  <2>1. StreamTypes'
    BY <1>2, <1>5 DEF Send
  <2> QED BY <1>1, <1>a, <1>5, <2>1 DEF Send, TypeInv, ServerTypes, CallerTypes
<1>6. ASSUME NEW n \in Entities, SendEntity(n) PROVE TypeInv'
  <2>1. EntityBlock(Len(announced.entities) + 1, n) \in Blocks
    BY <1>a, BlockTypes
  <2>2. Append(announced.entities, n) \in Seq(Entities)
    BY <1>a
  <2>3. announced' = [announced EXCEPT !.entities = Append(announced.entities, n)]
    BY <1>6, <1>a DEF SendEntity, ServerTypes
  <2>4. announced' \in [entities : Seq(Entities), types : Seq(Types)]
    BY <1>a, <2>2, <2>3 DEF ServerTypes
  <2> QED BY <1>5, <1>6, <2>1, <2>4 DEF SendEntity
<1>7. ASSUME NEW n \in Types, SendType(n) PROVE TypeInv'
  <2>1. TypeBlock(Len(announced.types) + 1, n) \in Blocks
    BY <1>a, BlockTypes
  <2>2. Append(announced.types, n) \in Seq(Types)
    BY <1>a
  <2>3. announced' = [announced EXCEPT !.types = Append(announced.types, n)]
    BY <1>7, <1>a DEF SendType, ServerTypes
  <2>4. announced' \in [entities : Seq(Entities), types : Seq(Types)]
    BY <1>a, <2>2, <2>3 DEF ServerTypes
  <2> QED BY <1>5, <1>7, <2>1, <2>4 DEF SendType
<1>8. CASE SendMessage
  <2>1. PICK i \in DOMAIN announced.entities, j \in DOMAIN announced.types :
           Send(Message(i, j, position)) /\ UNCHANGED announced
    BY <1>8 DEF SendMessage
  <2>2. Message(i, j, position) \in Blocks
    <3>1. i \in Nat /\ j \in Nat
      BY <1>a
    <3> QED BY <1>a, <3>1, BlockTypes
  <2> QED BY <1>5, <1>a, <2>1, <2>2 DEF ServerTypes
<1>9. CASE SendTerminator
  <2>1. StreamTypes'
    BY <1>2, <1>9, BlockTypes DEF SendTerminator
  <2> QED BY <1>1, <1>9, <1>a, <2>1 DEF SendTerminator, TypeInv, ServerTypes, CallerTypes
<1> QED BY <1>3, <1>4, <1>6, <1>7, <1>8, <1>9 DEF ServerStep

\* what next() does
LEMMA NextTypeStep ==
  ASSUME TypeInv, NextStep
  PROVE  TypeInv'
<1> USE DEF callVars, serverVars, cursorVars
<1>1. CallerTypes' /\ ServerTypes'
  <2>1. UNCHANGED <<callVars, serverVars>>
    BY DEF NextStep, CallNext, ReadEntity, ReadMessageType, ReadCommand, ReadTerminator, End,
           ReadHeader, Filter
  <2> QED BY <2>1 DEF TypeInv, CallerTypes, ServerTypes
<1>2. ASSUME NEW kind, NEW s \in Copies, Reads(kind, s),
             rpc' \in {"out", "record", "header", "ending", "dead"}
      PROVE  TypeInv'
  <2>1. CursorTypes'
    BY <1>2, TakesShadow DEF Reads, CursorTypes
  <2>2. StreamTypes'
    BY <1>2, TakesBlock DEF Reads
  <2>3. ReaderTypes'
    BY <1>2 DEF Reads, TypeInv, ReaderTypes
  <2> QED BY <1>1, <2>1, <2>2, <2>3 DEF TypeInv
<1>3. rpc \in {"out", "record", "header", "ending", "dead"}
  BY DEF TypeInv, ReaderTypes
<1>4. CASE ReadEntity
  BY <1>2, <1>3, <1>4, EntityRead
<1>5. CASE ReadMessageType
  BY <1>2, <1>3, <1>5, TypeRead
<1>6. CASE ReadCommand
  BY <1>2, <1>3, <1>6, CommandRead
<1>7. CASE ReadTerminator
  BY <1>2, <1>7, TerminatorRead
<1>8. CASE ReadHeader
  <2>1. /\ AtBlock("message") /\ rpc' = "header" /\ msg' = Head(stream) /\ askedThen' = asked
        /\ UNCHANGED <<callVars, serverVars>>
        /\ \/ updated /\ SynchronizeAnd(copy[shadow]) /\ copy[shadow] \in Copies /\ atEnd' = FALSE
           \/ ~updated /\ UNCHANGED cursorVars
    BY <1>8, HeaderRead
  <2>2. StreamTypes' /\ Head(stream) \in Messages
    <3>1. StreamTypes' /\ Head(stream) \in Blocks /\ Head(stream).kind = "message"
      BY <2>1, TakesBlock
    <3> QED BY <3>1, MessageBlocks
  <2>3. ReaderTypes'
    BY <2>1, <2>2 DEF TypeInv, ReaderTypes, CallerTypes
  <2>4. CursorTypes'
    BY <2>1, TakesShadow DEF TypeInv, CursorTypes
  <2> QED BY <1>1, <2>2, <2>3, <2>4 DEF TypeInv
<1>9. CASE CallNext \/ End \/ Filter
  <2>1. NothingAsked \in Askings /\ NoMessage \in Messages
    BY BlockTypes DEF NothingAsked, Askings, NoMessage
  <2>2. UNCHANGED <<copy, main, shadow, updated, stream>> /\ atEnd' \in BOOLEAN
    BY <1>9 DEF CallNext, End, Filter, Throw, TypeInv, CursorTypes
  <2>3. ReaderTypes'
    BY <1>9, <2>1 DEF CallNext, End, Filter, Throw, TypeInv, ReaderTypes
  <2> QED BY <1>1, <2>2, <2>3 DEF TypeInv, CursorTypes, StreamTypes
<1> QED BY <1>4, <1>5, <1>6, <1>7, <1>8, <1>9 DEF NextStep

\* and no step takes it away
LEMMA TypeStep ==
  ASSUME TypeInv, [Next]_vars
  PROVE  TypeInv'
<1>1. CASE UNCHANGED vars
  BY <1>1 DEF vars, callVars, serverVars, readerVars, cursorVars, TypeInv, CursorTypes,
              ReaderTypes, CallerTypes, ServerTypes, StreamTypes
<1> QED BY <1>1, CallTypeStep, ServerTypeStep, NextTypeStep DEF Next

-----------------------------------------------------------------------------
(* The numbers of the calls.                                               *)

\* the commands a copy expects are numbers that were given
IdsOk(s, n) ==
    /\ s.first = None <=> s.last = None
    /\ s.first # None => s.first \in 1 .. s.last /\ s.last < n
    /\ None <= s.lastReset /\ s.lastReset < n

\* a number is given to a call once, and taken to the stream once; the shadow
\* is another copy than the one that is read, exactly as long as it is to be
\* taken over
NumbersInv ==
    /\ position + Len(todo) < nextId
    /\ nextId + (IF caller.pc = "asking" THEN 1 ELSE 0) <= calls + 1
    /\ caller.pc = "answered" => nextId > 1 /\ caller.id = nextId - 1
    /\ \A i \in SubStates : IdsOk(copy[i], nextId)
    /\ updated <=> main # shadow
    /\ caller.pc # "free" => main # shadow

\* the order of the numbers is kept by every step
LEMMA NumbersStep ==
  ASSUME TypeInv, NumbersInv, [Next]_vars
  PROVE  NumbersInv'
<1> USE DEF callVars, serverVars, readerVars, cursorVars
<1>a. /\ nextId \in Nat \ {0} /\ position \in Nat /\ calls \in Nat /\ todo \in Seq(Accepted)
      /\ Len(todo) \in Nat /\ copy \in [SubStates -> Copies] /\ shadow \in SubStates
      /\ main \in SubStates /\ updated \in BOOLEAN /\ caller \in Callers
  BY ConstantsAssumption DEF TypeInv, ServerTypes, CallerTypes, CursorTypes
<1>b. \A s \in Copies : s.first \in Int /\ s.last \in Int /\ s.lastReset \in Int
                        /\ s.resetting \in BOOLEAN
  BY DEF Copies
<1>c. \A s, t \in Copies, n \in Nat, m \in Nat :
         IdsOk(t, n) /\ s.first = t.first /\ s.last = t.last /\ s.lastReset = t.lastReset
           /\ n <= m => IdsOk(s, m)
  BY <1>b DEF IdsOk
<1>d. NewCopy \in Copies /\ IdsOk(NewCopy, nextId)
  BY <1>a, CopyTypes DEF NewCopy, IdsOk, None, Unset
<1>e. /\ Free \in Callers /\ Free.pc = "free"
      /\ \A c : [pc |-> "asking", call |-> c].pc = "asking"
      /\ \A c, i : [pc |-> "answered", call |-> c, id |-> i].pc = "answered"
                   /\ [pc |-> "answered", call |-> c, id |-> i].id = i
  BY DEF Callers, Free
<1>1. ASSUME NEW c \in Calls, BeginCall(c) PROVE NumbersInv'
  <2> DEFINE w == Written(c)
  <2>1. w \in Copies /\ WriteShadow(w) /\ w.first = copy[shadow].first
        /\ w.last = copy[shadow].last /\ w.lastReset = copy[shadow].lastReset
    BY <1>1, CallsHaveTypes, WrittenCopy DEF BeginCall, Written
  <2> HIDE DEF w
  <2>2. \A i \in SubStates : IdsOk(copy'[i], nextId)
    BY <2>1, <1>a, <1>c, WritesShadow DEF NumbersInv
  <2>3. UNCHANGED <<main, serverVars>> /\ calls' = calls + 1 /\ caller.pc = "free"
        /\ caller'.pc = "asking"
    BY <1>1, <1>e DEF BeginCall, thisLockFree
  <2> QED BY <2>1, <2>2, <2>3, <1>a, WritesShadow DEF NumbersInv
<1>2. CASE RegisterUserMessageType
  <2>1. copy[shadow] \in Copies /\ WriteShadow(copy[shadow])
    BY <1>2, <1>a DEF RegisterUserMessageType
  <2>2. \A i \in SubStates : IdsOk(copy'[i], nextId)
    BY <2>1, <1>a, WritesShadow DEF NumbersInv
  <2>3. UNCHANGED <<main, serverVars, caller>> /\ calls' = calls + 1 /\ caller.pc = "free"
    BY <1>2 DEF RegisterUserMessageType, thisLockFree
  <2> QED BY <2>1, <2>2, <2>3, <1>a, WritesShadow DEF NumbersInv
<1>3. CASE RequestFails
  BY <1>3, <1>a, <1>e DEF RequestFails, NumbersInv
<1>4. ASSUME RequestAnswered \/ AnswerMalformed PROVE NumbersInv'
  <2>1. PICK id \in Int : EndCall(id) /\ (id = nextId - 1 \/ id = None)
    <3>1. CASE RequestAnswered
      BY <3>1, <1>a DEF RequestAnswered, NumbersInv
    <3>2. CASE AnswerMalformed
      BY <3>2 DEF AnswerMalformed, None
    <3> QED BY <1>4, <3>1, <3>2
  <2>2. caller.pc = "answered" /\ UNCHANGED <<main, shadow, updated, calls, serverVars>>
    BY <1>4 DEF RequestAnswered, AnswerMalformed, EndCall
  <2> DEFINE s == copy[shadow]
             t == copy'[shadow]
  <2>3. /\ s \in Copies /\ t \in Copies /\ IdsOk(s, nextId) /\ caller' = Free
        /\ \A i \in SubStates : i # shadow => copy'[i] = copy[i]
        /\ \/ t = s
           \/ /\ s.last = None \/ id = s.last + 1
              /\ t.first = IF s.last = None THEN id ELSE s.first
              /\ t.last = id
              /\ t.lastReset = id \/ t.lastReset = s.lastReset
    BY <2>1, <2>2, <1>a, EndedCall DEF NumbersInv
  <2>4. 1 <= nextId - 1
    BY <2>2, <1>a DEF NumbersInv
  <2>5. IdsOk(t, nextId)
    <3> HIDE DEF s, t
    <3> QED BY <2>1, <2>3, <2>4, <1>a, <1>b DEF IdsOk, None
  <2>6. \A i \in SubStates : IdsOk(copy'[i], nextId)
    BY <2>3, <2>5, <1>a DEF NumbersInv
  <2> QED BY <2>2, <2>3, <2>6, <1>a, <1>e DEF NumbersInv
<1>5. CASE AcceptCall
  <2>1. /\ nextId' = nextId + 1 /\ Len(todo') = Len(todo) + 1 /\ caller.pc = "asking"
        /\ caller'.pc = "answered" /\ caller'.id = nextId
        /\ UNCHANGED <<position, calls, cursorVars>>
    BY <1>5, <1>a, <1>e DEF AcceptCall
  <2>2. \A i \in SubStates : IdsOk(copy[i], nextId + 1)
    BY <1>a, <1>c DEF NumbersInv
  <2> QED BY <2>1, <2>2, <1>a DEF NumbersInv
<1>6. CASE ApplyCall
  <2>1. Len(todo') = Len(todo) - 1
    BY <1>6, <1>a DEF ApplyCall
  <2>2. position' <= position + 1 /\ position' \in Nat /\ UNCHANGED <<nextId, cursorVars, callVars>>
    BY <1>6, <1>a DEF ApplyCall
  <2> QED BY <2>1, <2>2, <1>a DEF NumbersInv
<1>7. ASSUME \/ \E n \in Entities : SendEntity(n)
             \/ \E n \in Types : SendType(n)
             \/ SendMessage \/ SendTerminator
      PROVE  NumbersInv'
  <2>1. UNCHANGED <<position, todo, nextId, caller, calls, cursorVars>>
    BY <1>7 DEF SendEntity, SendType, SendMessage, SendTerminator, Send
  <2> QED BY <2>1 DEF NumbersInv
<1>8. CASE CallNext \/ End \/ Filter
  <2>1. UNCHANGED <<position, todo, nextId, caller, calls, copy, main, shadow, updated>>
    BY <1>8 DEF CallNext, End, Filter
  <2> QED BY <2>1 DEF NumbersInv
<1>9. ASSUME NEW s \in Copies, SynchronizeAnd(s), IdsOk(s, nextId),
             UNCHANGED <<callVars, serverVars>>
      PROVE  NumbersInv'
  <2>1. \A i \in SubStates : IdsOk(copy'[i], nextId)
    BY <1>9, <1>a, <1>d, TakesShadow DEF NumbersInv
  <2> QED BY <1>9, <2>1, <1>a, <1>e, TakesShadow DEF NumbersInv
<1>10. IdsOk(copy[shadow], nextId) /\ copy[shadow] \in Copies
  BY <1>a DEF NumbersInv
<1>11. CASE ReadEntity \/ ReadMessageType
  <2>1. PICK s \in Copies, kind \in {"entity", "type"} :
           Reads(kind, s) /\ SameCommands(s, copy[shadow])
    BY <1>11, EntityRead, TypeRead
  <2>2. IdsOk(s, nextId)
    BY <2>1, <1>10, <1>a, <1>c DEF SameCommands
  <2> QED BY <1>9, <2>1, <2>2 DEF Reads
<1>12. CASE ReadCommand
  <2>1. PICK s \in Copies, r \in Readings(copy[shadow]) :
            /\ Reads("command", s) /\ r \in Copies
            /\ s = r \/ (Head(stream).id = r.first /\ s = Executed(r))
    BY <1>12, CommandRead
  <2>2. Head(stream).id \in Nat
    <3>1. AtBlock("command")
      BY <2>1 DEF Reads
    <3>2. Head(stream) \in Blocks /\ Head(stream).kind = "command"
      BY <3>1, TakesBlock
    <3> QED BY <3>2, BlockTypes
  <2>3. IdsOk(r, nextId)
    <3>1. /\ r.first = copy[shadow].first /\ r.last = copy[shadow].last
          /\ \/ r.lastReset = copy[shadow].lastReset \/ r.lastReset = None
             \/ r.lastReset = copy[shadow].first
      BY <1>10, ExecutedCopy
    <3> QED BY <3>1, <1>10, <1>a, <1>b DEF IdsOk, None
  <2>4. IdsOk(Executed(r), nextId) \/ s = r
    <3>1. CASE Head(stream).id = r.first
      <4> DEFINE e == Executed(r)
      <4>1. /\ e \in Copies
            /\ e.first = IF r.first = r.last THEN None ELSE r.first + 1
            /\ e.last = IF r.first = r.last THEN None ELSE r.last
            /\ e.lastReset = None \/ e.lastReset = r.lastReset
        BY <2>1, ExecutedCopy
      <4>2. r.first \in Nat
        BY <2>2, <3>1
      <4> HIDE DEF e
      <4>3. IdsOk(e, nextId)
        BY <2>1, <2>3, <4>1, <4>2, <1>a, <1>b DEF IdsOk, None
      <4> QED BY <4>3 DEF e
    <3> QED BY <2>1, <3>1
  <2> QED BY <1>9, <2>1, <2>3, <2>4 DEF Reads
<1>13. CASE ReadTerminator
  BY <1>9, <1>10, <1>13, TerminatorRead DEF Reads
<1>14. CASE ReadHeader
  <2>1. CASE SynchronizeAnd(copy[shadow])
    BY <1>9, <1>10, <1>14, <2>1, HeaderRead
  <2>2. CASE UNCHANGED cursorVars
    <3>1. UNCHANGED <<position, todo, nextId, caller, calls, cursorVars>>
      BY <1>14, <2>2 DEF ReadHeader
    <3> QED BY <3>1 DEF NumbersInv
  <2> QED BY <1>14, <2>1, <2>2, HeaderRead
<1>15. CASE UNCHANGED vars
  BY <1>15 DEF vars, NumbersInv
<1> QED BY <1>1, <1>2, <1>3, <1>4, <1>5, <1>6, <1>7, <1>8, <1>11, <1>12, <1>13, <1>14, <1>15
        DEF Next, CallStep, ServerStep, NextStep

-----------------------------------------------------------------------------
(* The names that were announced, and those that are still on the way.     *)

\* the blocks of a kind in str are the last of the names in ann
Announces(str, kind, ann) ==
    /\ From(str, 1, kind) <= Len(ann)
    /\ \A i \in DOMAIN str : str[i].kind = kind =>
          LET id == Len(ann) - From(str, i + 1, kind) IN
          id \in 1 .. Len(ann) /\ str[i].id = id /\ str[i].name = ann[id]

\* the names in ann that are not on the way
Arrived(ann, str, kind) == SubSeq(ann, 1, Len(ann) - From(str, 1, kind))

\* a message is of names announced before it
MessagesKnown(str, entities, types) ==
    \A i \in DOMAIN str : str[i].kind = "message" =>
        /\ str[i].entity \in 1 .. entities - From(str, i, "entity")
        /\ str[i].type \in 1 .. types - From(str, i, "type")

\* a block of another kind is sent
LEMMA AnnouncesOther ==
  ASSUME NEW N, NEW S, NEW str \in Seq(S), NEW ann \in Seq(N), NEW kind, NEW b \in S,
         b.kind # kind, Announces(str, kind, ann)
  PROVE  /\ Announces(Append(str, b), kind, ann)
         /\ Arrived(ann, Append(str, b), kind) = Arrived(ann, str, kind)
<1> DEFINE t == Append(str, b)
<1>1. /\ Len(str) \in Nat /\ DOMAIN str = 1 .. Len(str) /\ DOMAIN t = 1 .. Len(str) + 1
      /\ t[Len(str) + 1] = b /\ \A i \in 1 .. Len(str) : t[i] = str[i]
  BY EndOf
<1>2. \A i \in 1 .. Len(str) + 1 : From(t, i, kind) = From(str, i, kind)
  <2> TAKE i \in 1 .. Len(str) + 1
  <2>1. From(t, i, kind) = From(str, i, kind) + (IF b.kind = kind THEN 1 ELSE 0)
    BY FromAppended
  <2>2. From(str, i, kind) \in Nat
    <3>1. i \in Nat \ {0}
      BY <1>1
    <3> QED BY <3>1, FromPlace
  <2> QED BY <2>1, <2>2
<1> HIDE DEF t
<1>3. Announces(t, kind, ann)
  BY <1>1, <1>2 DEF Announces
<1>4. From(t, 1, kind) = From(str, 1, kind)
  BY <1>1, <1>2
<1>5. Arrived(ann, t, kind) = Arrived(ann, str, kind)
  BY <1>4 DEF Arrived
<1> QED BY <1>3, <1>5 DEF t

\* the next name is announced
LEMMA AnnouncesOwn ==
  ASSUME NEW N, NEW S, NEW str \in Seq(S), NEW ann \in Seq(N), NEW kind, NEW b \in S, NEW n \in N,
         b.kind = kind, b.id = Len(ann) + 1, b.name = n, Announces(str, kind, ann)
  PROVE  /\ Announces(Append(str, b), kind, Append(ann, n))
         /\ Arrived(Append(ann, n), Append(str, b), kind) = Arrived(ann, str, kind)
<1> DEFINE t == Append(str, b)
           a == Append(ann, n)
<1>1. /\ Len(str) \in Nat /\ DOMAIN str = 1 .. Len(str) /\ DOMAIN t = 1 .. Len(str) + 1
      /\ Len(t) = Len(str) + 1
      /\ t[Len(str) + 1] = b /\ \A i \in 1 .. Len(str) : t[i] = str[i]
  BY EndOf
<1>2. /\ Len(ann) \in Nat /\ Len(a) = Len(ann) + 1 /\ a \in Seq(N)
      /\ a[Len(ann) + 1] = n /\ \A i \in 1 .. Len(ann) : a[i] = ann[i]
  BY EndOf
<1>3. \A i \in 1 .. Len(str) + 1 :
         From(t, i, kind) = From(str, i, kind) + 1 /\ From(str, i, kind) \in Nat
  <2> TAKE i \in 1 .. Len(str) + 1
  <2>1. From(t, i, kind) = From(str, i, kind) + (IF b.kind = kind THEN 1 ELSE 0)
    BY FromAppended
  <2>2. From(str, i, kind) \in Nat
    <3>1. i \in Nat \ {0}
      BY <1>1
    <3> QED BY <3>1, FromPlace
  <2> QED BY <2>1, <2>2
<1>4. From(t, Len(str) + 2, kind) = 0
  <2>1. t \in Seq(S)
    BY EndOf
  <2>2. From(t, Len(t) + 1, kind) = 0
    BY <2>1, FromPlace
  <2> QED BY <1>1, <2>2
<1> HIDE DEF t, a
<1>5. ASSUME NEW i \in DOMAIN t, t[i].kind = kind
      PROVE  LET id == Len(a) - From(t, i + 1, kind) IN
             id \in 1 .. Len(a) /\ t[i].id = id /\ t[i].name = a[id]
  <2>1. CASE i = Len(str) + 1
    <3>1. From(t, i + 1, kind) = 0
      BY <1>1, <1>4, <2>1
    <3> QED BY <1>1, <1>2, <2>1, <3>1
  <2>2. CASE i # Len(str) + 1
    <3>1. i \in 1 .. Len(str) /\ i + 1 \in 1 .. Len(str) + 1
      BY <1>1, <2>2
    <3>2. From(t, i + 1, kind) = From(str, i + 1, kind) + 1 /\ From(str, i + 1, kind) \in Nat
      BY <1>3, <3>1
    <3>3. str[i].kind = kind /\ t[i] = str[i]
      BY <1>1, <1>5, <3>1
    <3>4. LET id == Len(ann) - From(str, i + 1, kind) IN
          id \in 1 .. Len(ann) /\ str[i].id = id /\ str[i].name = ann[id]
      BY <1>1, <3>1, <3>3 DEF Announces
    <3> QED BY <1>2, <3>2, <3>3, <3>4
  <2> QED BY <2>1, <2>2
<1>6. From(t, 1, kind) = From(str, 1, kind) + 1 /\ From(str, 1, kind) \in Nat
      /\ From(str, 1, kind) <= Len(ann)
  BY <1>1, <1>3 DEF Announces
<1>7. Announces(t, kind, a)
  BY <1>2, <1>5, <1>6 DEF Announces
<1>8. Arrived(a, t, kind) = Arrived(ann, str, kind)
  <2> DEFINE m == Len(ann) - From(str, 1, kind)
  <2>1. Len(a) - From(t, 1, kind) = m /\ m \in 0 .. Len(ann)
    BY <1>2, <1>6
  <2> HIDE DEF m
  <2>2. SubSeq(a, 1, m) = SubSeq(ann, 1, m)
    BY <1>2, <2>1
  <2> QED BY <2>1, <2>2 DEF Arrived, m
<1> QED BY <1>7, <1>8 DEF t, a

\* the first block arrives
LEMMA AnnouncesTail ==
  ASSUME NEW N, NEW S, NEW str \in Seq(S), NEW ann \in Seq(N), NEW kind, str # <<>>,
         Announces(str, kind, ann)
  PROVE  /\ Announces(Tail(str), kind, ann)
         /\ Head(str).kind # kind => Arrived(ann, Tail(str), kind) = Arrived(ann, str, kind)
         /\ Head(str).kind = kind =>
               /\ Head(str).id = Len(Arrived(ann, str, kind)) + 1
               /\ Arrived(ann, Tail(str), kind) =
                     Append(Arrived(ann, str, kind), Head(str).name)
<1> DEFINE t == Tail(str)
<1>1. /\ Len(str) \in Nat \ {0} /\ DOMAIN str = 1 .. Len(str) /\ Len(t) = Len(str) - 1
      /\ DOMAIN t = 1 .. Len(str) - 1 /\ Head(str) = str[1] /\ t \in Seq(S)
      /\ \A j \in 1 .. Len(str) - 1 : t[j] = str[j + 1]
  BY FrontOf
<1>2. /\ \A i \in 1 .. Len(str) : From(t, i, kind) = From(str, i + 1, kind)
      /\ From(t, 1, kind) = From(str, 1, kind) - (IF Head(str).kind = kind THEN 1 ELSE 0)
  BY FromTail
<1>3. From(str, 1, kind) \in Nat /\ From(t, 1, kind) \in Nat /\ Len(ann) \in Nat
  <2>1. 1 \in Nat \ {0}
    OBVIOUS
  <2>2. From(str, 1, kind) \in Nat
    BY <2>1, FromPlace
  <2>3. From(t, 1, kind) \in Nat
    BY <1>1, <2>1, FromPlace
  <2>4. Len(ann) \in Nat
    OBVIOUS
  <2> QED BY <2>2, <2>3, <2>4
<1> HIDE DEF t
<1>4. Announces(t, kind, ann)
  <2>1. From(t, 1, kind) <= Len(ann)
    BY <1>2, <1>3 DEF Announces
  <2>2. ASSUME NEW i \in DOMAIN t, t[i].kind = kind
        PROVE  LET id == Len(ann) - From(t, i + 1, kind) IN
               id \in 1 .. Len(ann) /\ t[i].id = id /\ t[i].name = ann[id]
    <3>1. i + 1 \in DOMAIN str /\ t[i] = str[i + 1] /\ i + 1 \in 1 .. Len(str)
      BY <1>1
    <3>2. From(t, i + 1, kind) = From(str, (i + 1) + 1, kind)
      BY <1>2, <3>1
    <3> QED BY <2>2, <3>1, <3>2 DEF Announces
  <2> QED BY <2>1, <2>2 DEF Announces
<1>5. ASSUME Head(str).kind = kind
      PROVE  /\ Head(str).id = Len(Arrived(ann, str, kind)) + 1
             /\ Arrived(ann, t, kind) = Append(Arrived(ann, str, kind), Head(str).name)
  <2> DEFINE m == Len(ann) - From(str, 1, kind)
  <2>1. From(t, 1, kind) = From(str, 1, kind) - 1 /\ From(str, 1 + 1, kind) = From(t, 1, kind)
    BY <1>1, <1>2, <1>5
  <2>2. 1 \in DOMAIN str /\ str[1].kind = kind
    BY <1>1, <1>5
  <2>3. /\ m + 1 \in 1 .. Len(ann) /\ Head(str).id = m + 1 /\ Head(str).name = ann[m + 1]
        /\ m \in Nat
    <3>1. Len(ann) - From(str, 1 + 1, kind) = m + 1
      BY <1>3, <2>1
    <3>2. From(str, 1, kind) <= Len(ann)
      BY DEF Announces
    <3> QED BY <1>1, <1>3, <2>2, <3>1, <3>2 DEF Announces
  <2>4. Arrived(ann, str, kind) = SubSeq(ann, 1, m) /\ Arrived(ann, t, kind) = SubSeq(ann, 1, m + 1)
    <3>1. Len(ann) - From(t, 1, kind) = m + 1
      BY <1>3, <2>1
    <3> QED BY <3>1 DEF Arrived
  <2> HIDE DEF m
  <2>5. /\ SubSeq(ann, 1, m) \in Seq(N) /\ Len(SubSeq(ann, 1, m)) = m
        /\ SubSeq(ann, 1, m + 1) \in Seq(N) /\ Len(SubSeq(ann, 1, m + 1)) = m + 1
        /\ \A i \in 1 .. m : SubSeq(ann, 1, m)[i] = ann[i]
        /\ \A i \in 1 .. m + 1 : SubSeq(ann, 1, m + 1)[i] = ann[i]
    <3>1. \A l \in 0 .. Len(ann) :
             /\ SubSeq(ann, 1, l) \in Seq(N) /\ Len(SubSeq(ann, 1, l)) = l
             /\ \A i \in 1 .. l : SubSeq(ann, 1, l)[i] = ann[i]
      BY SubSeqProperties
    <3>2. m \in 0 .. Len(ann) /\ m + 1 \in 0 .. Len(ann)
      BY <1>3, <2>3
    <3> QED BY <3>1, <3>2
  <2>6. SubSeq(ann, 1, m + 1) = Append(SubSeq(ann, 1, m), ann[m + 1])
    BY <2>3, <2>5
  <2> QED BY <2>3, <2>4, <2>5, <2>6
<1>6. ASSUME Head(str).kind # kind PROVE Arrived(ann, t, kind) = Arrived(ann, str, kind)
  BY <1>2, <1>3, <1>6 DEF Arrived
<1> QED BY <1>4, <1>5, <1>6 DEF t

\* the names of a message stay known
LEMMA MessagesAppended ==
  ASSUME NEW S, NEW str \in Seq(S), NEW b \in S, NEW e \in Nat, NEW t \in Nat,
         MessagesKnown(str, e, t),
         b.kind = "message" => b.entity \in 1 .. e /\ b.type \in 1 .. t
  PROVE  MessagesKnown(Append(str, b), e + (IF b.kind = "entity" THEN 1 ELSE 0),
                                       t + (IF b.kind = "type" THEN 1 ELSE 0))
<1> DEFINE s == Append(str, b)
           d == IF b.kind = "entity" THEN 1 ELSE 0
           f == IF b.kind = "type" THEN 1 ELSE 0
<1>1. /\ Len(str) \in Nat /\ DOMAIN str = 1 .. Len(str) /\ DOMAIN s = 1 .. Len(str) + 1
      /\ s[Len(str) + 1] = b /\ \A i \in 1 .. Len(str) : s[i] = str[i]
  BY EndOf
<1>2. ASSUME NEW i \in 1 .. Len(str) + 1
      PROVE  /\ From(s, i, "entity") = From(str, i, "entity") + d
             /\ From(s, i, "type") = From(str, i, "type") + f
             /\ From(str, i, "entity") \in Nat /\ From(str, i, "type") \in Nat
  <2>1. i \in Nat \ {0}
    BY <1>1
  <2>2. From(s, i, "entity") = From(str, i, "entity") + d
    BY FromAppended
  <2>3. From(s, i, "type") = From(str, i, "type") + f
    BY FromAppended
  <2>4. From(str, i, "entity") \in Nat
    BY <2>1, FromPlace
  <2>5. From(str, i, "type") \in Nat
    BY <2>1, FromPlace
  <2> QED BY <2>2, <2>3, <2>4, <2>5
<1>3. From(str, Len(str) + 1, "entity") = 0 /\ From(str, Len(str) + 1, "type") = 0
  <2>1. From(str, Len(str) + 1, "entity") = 0
    BY FromPlace
  <2>2. From(str, Len(str) + 1, "type") = 0
    BY FromPlace
  <2> QED BY <2>1, <2>2
<1>4. d \in Nat /\ f \in Nat /\ (b.kind = "message" => d = 0 /\ f = 0)
  OBVIOUS
<1> HIDE DEF s, d, f
<1>5. ASSUME NEW i \in DOMAIN s, s[i].kind = "message"
      PROVE  /\ s[i].entity \in 1 .. (e + d) - From(s, i, "entity")
             /\ s[i].type \in 1 .. (t + f) - From(s, i, "type")
  <2>1. i \in 1 .. Len(str) + 1
    BY <1>1
  <2>2. /\ From(s, i, "entity") = From(str, i, "entity") + d
        /\ From(s, i, "type") = From(str, i, "type") + f
        /\ From(str, i, "entity") \in Nat /\ From(str, i, "type") \in Nat
    BY <1>2, <2>1
  <2>3. CASE i = Len(str) + 1
    <3>1. s[i] = b /\ b.kind = "message"
      BY <1>1, <1>5, <2>3
    <3>2. d = 0 /\ f = 0
      BY <1>4, <3>1
    <3>3. From(s, i, "entity") = 0 /\ From(s, i, "type") = 0
      BY <1>3, <2>2, <2>3, <3>2
    <3>4. b.entity \in 1 .. e /\ b.type \in 1 .. t
      BY <3>1
    <3> QED BY <3>1, <3>2, <3>3, <3>4
  <2>4. CASE i # Len(str) + 1
    <3>1. i \in DOMAIN str /\ str[i] = s[i]
      BY <1>1, <2>1, <2>4
    <3>2. /\ str[i].entity \in 1 .. e - From(str, i, "entity")
          /\ str[i].type \in 1 .. t - From(str, i, "type")
      BY <1>5, <3>1 DEF MessagesKnown
    <3> QED BY <1>4, <2>2, <3>1, <3>2
  <2> QED BY <2>3, <2>4
<1>6. MessagesKnown(s, e + d, t + f)
  BY <1>5 DEF MessagesKnown
<1> QED BY <1>6 DEF s, d, f

\* and when the first block is taken
LEMMA MessagesTail ==
  ASSUME NEW S, NEW str \in Seq(S), str # <<>>, NEW e \in Nat, NEW t \in Nat,
         MessagesKnown(str, e, t)
  PROVE  MessagesKnown(Tail(str), e, t)
<1> DEFINE s == Tail(str)
<1>1. /\ Len(str) \in Nat \ {0} /\ DOMAIN str = 1 .. Len(str) /\ DOMAIN s = 1 .. Len(str) - 1
      /\ \A j \in 1 .. Len(str) - 1 : s[j] = str[j + 1]
  BY FrontOf
<1>2. \A i \in 1 .. Len(str) : /\ From(s, i, "entity") = From(str, i + 1, "entity")
                               /\ From(s, i, "type") = From(str, i + 1, "type")
  <2>1. \A i \in 1 .. Len(str) : From(s, i, "entity") = From(str, i + 1, "entity")
    BY FromTail
  <2>2. \A i \in 1 .. Len(str) : From(s, i, "type") = From(str, i + 1, "type")
    BY FromTail
  <2> QED BY <2>1, <2>2
<1> HIDE DEF s
<1>3. \A i \in DOMAIN s : i + 1 \in DOMAIN str /\ i \in 1 .. Len(str) /\ s[i] = str[i + 1]
  BY <1>1
<1>4. MessagesKnown(s, e, t)
  BY <1>2, <1>3 DEF MessagesKnown
<1> QED BY <1>4 DEF s

\* Both copies have the names that arrived, and what next() reads the header of
\* is of names it has.
HasArrived(s) ==
    /\ s.entities.names = Arrived(announced.entities, stream, "entity")
    /\ s.types.names = Arrived(announced.types, stream, "type")

NamesInv ==
    /\ Announces(stream, "entity", announced.entities)
    /\ Announces(stream, "type", announced.types)
    /\ MessagesKnown(stream, Len(announced.entities), Len(announced.types))
    /\ HasArrived(copy[main]) /\ HasArrived(copy[shadow])
    /\ IF rpc = "header"
       THEN /\ msg.entity \in 1 .. Len(copy[main].entities.names)
            /\ msg.type \in 1 .. Len(copy[main].types.names)
       ELSE msg = NoMessage

\* the server sends a block, that announces a name or is of names it announced
LEMMA NamesSent ==
  ASSUME TypeInv, NamesInv, NEW b \in Blocks, stream' = Append(stream, b),
         UNCHANGED <<copy, main, shadow, rpc, msg>>,
         \/ b.kind \in {"command", "terminator", "message"} /\ UNCHANGED announced
         \/ \E n \in Entities : /\ b = EntityBlock(Len(announced.entities) + 1, n)
                                /\ announced' = [announced EXCEPT !.entities = Append(@, n)]
         \/ \E n \in Types : /\ b = TypeBlock(Len(announced.types) + 1, n)
                             /\ announced' = [announced EXCEPT !.types = Append(@, n)],
         b.kind = "message" => /\ b.entity \in DOMAIN announced.entities
                               /\ b.type \in DOMAIN announced.types
  PROVE  NamesInv'
<1> DEFINE e == announced.entities
           t == announced.types
<1>1. /\ stream \in Seq(Blocks) /\ e \in Seq(Entities) /\ t \in Seq(Types)
      /\ announced \in [entities : Seq(Entities), types : Seq(Types)]
      /\ Len(e) \in Nat /\ Len(t) \in Nat /\ DOMAIN e = 1 .. Len(e) /\ DOMAIN t = 1 .. Len(t)
  BY DEF TypeInv, StreamTypes, ServerTypes
<1>2. /\ Announces(stream, "entity", e) /\ Announces(stream, "type", t)
      /\ MessagesKnown(stream, Len(e), Len(t))
  BY DEF NamesInv
<1> DEFINE Goal ==
         /\ Announces(stream', "entity", e') /\ Announces(stream', "type", t')
         /\ Arrived(e', stream', "entity") = Arrived(e, stream, "entity")
         /\ Arrived(t', stream', "type") = Arrived(t, stream, "type")
         /\ Len(e') = Len(e) + (IF b.kind = "entity" THEN 1 ELSE 0)
         /\ Len(t') = Len(t) + (IF b.kind = "type" THEN 1 ELSE 0)
<1>3. Goal
  <2>1. CASE b.kind \in {"command", "terminator", "message"} /\ UNCHANGED announced
    <3>1. b.kind # "entity" /\ b.kind # "type" /\ e' = e /\ t' = t
      BY <2>1
    <3>2. Announces(stream', "entity", e) /\ Arrived(e, stream', "entity") = Arrived(e, stream, "entity")
      BY <1>1, <1>2, <3>1, AnnouncesOther
    <3>3. Announces(stream', "type", t) /\ Arrived(t, stream', "type") = Arrived(t, stream, "type")
      BY <1>1, <1>2, <3>1, AnnouncesOther
    <3> QED BY <1>1, <3>1, <3>2, <3>3
  <2>2. ASSUME NEW n \in Entities, b = EntityBlock(Len(e) + 1, n),
               announced' = [announced EXCEPT !.entities = Append(@, n)]
        PROVE  Goal
    <3>1. b.kind = "entity" /\ b.id = Len(e) + 1 /\ b.name = n
      BY <2>2 DEF EntityBlock
    <3>2. e' = Append(e, n) /\ t' = t
      BY <1>1, <2>2
    <3>3. Announces(stream', "entity", Append(e, n))
          /\ Arrived(Append(e, n), stream', "entity") = Arrived(e, stream, "entity")
      BY <1>1, <1>2, <3>1, AnnouncesOwn
    <3>4. Announces(stream', "type", t) /\ Arrived(t, stream', "type") = Arrived(t, stream, "type")
      BY <1>1, <1>2, <3>1, AnnouncesOther
    <3>5. Len(Append(e, n)) = Len(e) + 1
      BY <1>1
    <3> QED BY <1>1, <3>1, <3>2, <3>3, <3>4, <3>5
  <2>3. ASSUME NEW n \in Types, b = TypeBlock(Len(t) + 1, n),
               announced' = [announced EXCEPT !.types = Append(@, n)]
        PROVE  Goal
    <3>1. b.kind = "type" /\ b.id = Len(t) + 1 /\ b.name = n
      BY <2>3 DEF TypeBlock
    <3>2. t' = Append(t, n) /\ e' = e
      BY <1>1, <2>3
    <3>3. Announces(stream', "type", Append(t, n))
          /\ Arrived(Append(t, n), stream', "type") = Arrived(t, stream, "type")
      <4>1. stream \in Seq(Blocks) /\ t \in Seq(Types) /\ Announces(stream, "type", t)
        BY <1>1, <1>2
      <4> HIDE DEF e, t, Goal
      <4> QED BY <3>1, <4>1, AnnouncesOwn
    <3>4. Announces(stream', "entity", e) /\ Arrived(e, stream', "entity") = Arrived(e, stream, "entity")
      BY <1>1, <1>2, <3>1, AnnouncesOther
    <3>5. Len(Append(t, n)) = Len(t) + 1
      BY <1>1
    <3> QED BY <1>1, <3>1, <3>2, <3>3, <3>4, <3>5
  <2> QED BY <2>1, <2>2, <2>3
<1>4. MessagesKnown(stream', Len(e'), Len(t'))
  <2>1. b.kind = "message" => b.entity \in 1 .. Len(e) /\ b.type \in 1 .. Len(t)
    BY <1>1
  <2>2. MessagesKnown(stream', Len(e) + (IF b.kind = "entity" THEN 1 ELSE 0),
                               Len(t) + (IF b.kind = "type" THEN 1 ELSE 0))
    <3> HIDE DEF e, t
    <3> QED BY <1>1, <1>2, <2>1, MessagesAppended
  <2> QED BY <1>3, <2>2
<1>5. HasArrived(copy[main])' /\ HasArrived(copy[shadow])'
  BY <1>3 DEF NamesInv, HasArrived
<1> QED BY <1>3, <1>4, <1>5 DEF NamesInv

\* next() takes a block
LEMMA NamesTaken ==
  ASSUME TypeInv, NamesInv, stream # <<>>, stream' = Tail(stream), UNCHANGED announced
  PROVE  LET e == announced.entities
             t == announced.types
             b == Head(stream)
         IN  /\ Announces(stream', "entity", e) /\ Announces(stream', "type", t)
             /\ MessagesKnown(stream', Len(e), Len(t))
             /\ b.kind # "entity" => Arrived(e, stream', "entity") = Arrived(e, stream, "entity")
             /\ b.kind # "type" => Arrived(t, stream', "type") = Arrived(t, stream, "type")
             /\ b.kind = "entity" =>
                   /\ b.id = Len(Arrived(e, stream, "entity")) + 1
                   /\ Arrived(e, stream', "entity") = Append(Arrived(e, stream, "entity"), b.name)
             /\ b.kind = "type" =>
                   /\ b.id = Len(Arrived(t, stream, "type")) + 1
                   /\ Arrived(t, stream', "type") = Append(Arrived(t, stream, "type"), b.name)
             /\ b.kind = "message" =>
                   /\ b.entity \in 1 .. Len(Arrived(e, stream, "entity"))
                   /\ b.type \in 1 .. Len(Arrived(t, stream, "type"))
<1> DEFINE e == announced.entities
           t == announced.types
           b == Head(stream)
<1>1. /\ stream \in Seq(Blocks) /\ e \in Seq(Entities) /\ t \in Seq(Types)
      /\ Len(e) \in Nat /\ Len(t) \in Nat
  BY DEF TypeInv, StreamTypes, ServerTypes
<1>2. /\ Announces(stream, "entity", e) /\ Announces(stream, "type", t)
      /\ MessagesKnown(stream, Len(e), Len(t))
  BY DEF NamesInv
<1>3. /\ Announces(stream', "entity", e)
      /\ b.kind # "entity" => Arrived(e, stream', "entity") = Arrived(e, stream, "entity")
      /\ b.kind = "entity" =>
            /\ b.id = Len(Arrived(e, stream, "entity")) + 1
            /\ Arrived(e, stream', "entity") = Append(Arrived(e, stream, "entity"), b.name)
  BY <1>1, <1>2, AnnouncesTail
<1>4. /\ Announces(stream', "type", t)
      /\ b.kind # "type" => Arrived(t, stream', "type") = Arrived(t, stream, "type")
      /\ b.kind = "type" =>
            /\ b.id = Len(Arrived(t, stream, "type")) + 1
            /\ Arrived(t, stream', "type") = Append(Arrived(t, stream, "type"), b.name)
  BY <1>1, <1>2, AnnouncesTail
<1>5. MessagesKnown(stream', Len(e), Len(t))
  BY <1>1, <1>2, MessagesTail
<1>6. ASSUME b.kind = "message"
      PROVE  /\ b.entity \in 1 .. Len(Arrived(e, stream, "entity"))
             /\ b.type \in 1 .. Len(Arrived(t, stream, "type"))
  <2>1. 1 \in DOMAIN stream /\ b = stream[1]
    BY <1>1, FrontOf
  <2>2. /\ b.entity \in 1 .. Len(e) - From(stream, 1, "entity")
        /\ b.type \in 1 .. Len(t) - From(stream, 1, "type")
    BY <1>2, <1>6, <2>1 DEF MessagesKnown
  <2>3. 1 \in Nat \ {0}
    OBVIOUS
  <2>4. From(stream, 1, "entity") \in Nat /\ From(stream, 1, "entity") <= Len(e)
    <3>1. From(stream, 1, "entity") \in Nat
      BY <1>1, <2>3, FromPlace
    <3> QED BY <1>2, <3>1 DEF Announces
  <2>5. From(stream, 1, "type") \in Nat /\ From(stream, 1, "type") <= Len(t)
    <3>1. From(stream, 1, "type") \in Nat
      BY <1>1, <2>3, FromPlace
    <3> QED BY <1>2, <3>1 DEF Announces
  <2>6. \A N : \A ann \in Seq(N) : \A m \in 0 .. Len(ann) : Len(SubSeq(ann, 1, m)) = m
    OBVIOUS
  <2>7. Len(Arrived(e, stream, "entity")) = Len(e) - From(stream, 1, "entity")
    BY <1>1, <2>4, <2>6 DEF Arrived
  <2>8. Len(Arrived(t, stream, "type")) = Len(t) - From(stream, 1, "type")
    BY <1>1, <2>5, <2>6 DEF Arrived
  <2> QED BY <2>2, <2>7, <2>8
<1> QED BY <1>3, <1>4, <1>5, <1>6

\* no step loses a name, or makes a message be of one that is unknown
LEMMA NamesStep ==
  ASSUME TypeInv, NumbersInv, NamesInv, [Next]_vars
  PROVE  NamesInv'
<1> USE DEF callVars, serverVars, readerVars, cursorVars
<1>a. /\ copy \in [SubStates -> Copies] /\ shadow \in SubStates /\ main \in SubStates
      /\ updated \in BOOLEAN
  BY DEF TypeInv, CursorTypes
<1>1. ASSUME NEW s \in Copies, WriteShadow(s), SameNames(s, copy[shadow]),
             UNCHANGED <<main, rpc, msg, announced, stream>>
      PROVE  NamesInv'
  <2>1. HasArrived(s) /\ HasArrived(copy[main])
    BY <1>1 DEF SameNames, NamesInv, HasArrived
  <2>2. copy'[shadow'] = s /\ copy'[main] = copy[main]
    BY <1>1, WritesShadow
  <2> HIDE DEF WriteShadow
  <2> QED BY <1>1, <2>1, <2>2 DEF NamesInv, HasArrived
<1>2. ASSUME NEW c \in Calls, BeginCall(c) PROVE NamesInv'
  <2>1. Written(c) \in Copies /\ WriteShadow(Written(c)) /\ SameNames(Written(c), copy[shadow])
    BY <1>2, CallsHaveTypes, WrittenCopy DEF BeginCall, Written, SameNames
  <2> QED BY <1>1, <1>2, <2>1 DEF BeginCall
<1>3. CASE RegisterUserMessageType
  BY <1>1, <1>3, <1>a DEF RegisterUserMessageType, SameNames
<1>4. CASE RequestFails
  BY <1>4 DEF RequestFails, NamesInv, HasArrived
<1>5. ASSUME RequestAnswered \/ AnswerMalformed PROVE NamesInv'
  <2>1. PICK id \in Int : EndCall(id)
    <3>1. CASE RequestAnswered
      <4>1. caller.id \in Int
        BY <3>1 DEF RequestAnswered, TypeInv, CallerTypes, Callers, Free
      <4> QED BY <3>1, <4>1 DEF RequestAnswered
    <3>2. CASE AnswerMalformed
      BY <3>2 DEF AnswerMalformed, None
    <3> QED BY <1>5, <3>1, <3>2
  <2>2. caller.pc = "answered" /\ UNCHANGED <<main, shadow, rpc, msg, announced, stream>>
    BY <1>5 DEF RequestAnswered, AnswerMalformed, EndCall
  <2>3. /\ copy'[shadow].entities = copy[shadow].entities
        /\ copy'[shadow].types = copy[shadow].types
        /\ main # shadow /\ copy'[main] = copy[main]
    BY <2>1, <2>2, <1>a, EndedCall DEF NumbersInv
  <2> QED BY <2>2, <2>3 DEF NamesInv, HasArrived
<1>6. CASE AcceptCall
  BY <1>6 DEF AcceptCall, NamesInv, HasArrived
<1>7. CASE ApplyCall
  <2>1. Head(todo).id \in Nat /\ stream' = Append(stream, CommandBlock(Head(todo).id))
        /\ UNCHANGED <<announced, cursorVars, readerVars>>
    <3>1. Head(todo) \in Accepted
      BY <1>7, FrontOf DEF ApplyCall, TypeInv, ServerTypes
    <3> QED BY <1>7, <3>1 DEF ApplyCall, Accepted
  <2>2. CommandBlock(Head(todo).id) \in Blocks /\ CommandBlock(Head(todo).id).kind = "command"
    BY <2>1, BlockTypes
  <2> QED BY <2>1, <2>2, NamesSent
<1>8. ASSUME NEW n \in Entities, SendEntity(n) PROVE NamesInv'
  <2>1. announced.entities \in Seq(Entities)
    BY DEF TypeInv, ServerTypes
  <2>2. EntityBlock(Len(announced.entities) + 1, n) \in Blocks
        /\ EntityBlock(Len(announced.entities) + 1, n).kind # "message"
    BY <2>1, BlockTypes
  <2> QED BY <1>8, <2>2, NamesSent DEF SendEntity, Send
<1>9. ASSUME NEW n \in Types, SendType(n) PROVE NamesInv'
  <2>1. announced.types \in Seq(Types)
    BY DEF TypeInv, ServerTypes
  <2>2. TypeBlock(Len(announced.types) + 1, n) \in Blocks
        /\ TypeBlock(Len(announced.types) + 1, n).kind # "message"
    BY <2>1, BlockTypes
  <2> QED BY <1>9, <2>2, NamesSent DEF SendType, Send
<1>10. CASE SendMessage
  <2>1. PICK i \in DOMAIN announced.entities, j \in DOMAIN announced.types :
           Send(Message(i, j, position)) /\ UNCHANGED announced
    BY <1>10 DEF SendMessage
  <2>2. i \in Nat /\ j \in Nat /\ position \in Nat
    BY DEF TypeInv, ServerTypes
  <2>3. /\ Message(i, j, position) \in Blocks /\ Message(i, j, position).kind = "message"
        /\ Message(i, j, position).entity = i /\ Message(i, j, position).type = j
    BY <2>2, BlockTypes
  <2> QED BY <2>1, <2>3, NamesSent DEF Send
<1>11. CASE SendTerminator
  BY <1>11, BlockTypes, NamesSent DEF SendTerminator
<1>12. CASE CallNext \/ End \/ Filter
  <2>1. UNCHANGED <<copy, main, shadow, announced, stream>> /\ rpc' # "header"
        /\ \/ msg' = NoMessage
           \/ rpc # "header" /\ msg' = msg
    <3>1. CASE CallNext
      BY <3>1 DEF CallNext
    <3>2. CASE End
      BY <3>2 DEF End
    <3>3. CASE Filter
      <4>1. rpc' \in {"out", "record", "dead"}
        BY <3>3 DEF Filter, Throw
      <4>2. msg' = NoMessage /\ UNCHANGED <<copy, main, shadow, announced, stream>>
        BY <3>3 DEF Filter
      <4> QED BY <4>1, <4>2
    <3> QED BY <1>12, <3>1, <3>2, <3>3
  <2> QED BY <2>1 DEF NamesInv, HasArrived
<1>13. ASSUME NEW kind, NEW s \in Copies, Reads(kind, s), rpc' # "header",
              /\ s.entities.names = Arrived(announced.entities, stream', "entity")
              /\ s.types.names = Arrived(announced.types, stream', "type")
       PROVE  NamesInv'
  <2>1. /\ stream # <<>> /\ stream' = Tail(stream) /\ rpc = "record"
        /\ UNCHANGED <<msg, announced>> /\ SynchronizeAnd(s)
    BY <1>13 DEF Reads, AtBlock
  <2>2. copy'[main'] = s /\ copy'[shadow'] = s
    BY <2>1, TakesShadow
  <2>3. /\ Announces(stream', "entity", announced.entities)
        /\ Announces(stream', "type", announced.types)
        /\ MessagesKnown(stream', Len(announced.entities), Len(announced.types))
    BY <2>1, NamesTaken
  <2>4. msg' = NoMessage
    BY <2>1 DEF NamesInv
  <2> QED BY <1>13, <2>1, <2>2, <2>3, <2>4 DEF NamesInv, HasArrived
<1>14. HasArrived(copy[shadow]) /\ HasArrived(copy[main]) /\ copy[shadow] \in Copies
  BY <1>a DEF NamesInv
<1>15. ASSUME NEW kind, AtBlock(kind)
       PROVE  /\ Head(stream).kind = kind /\ stream # <<>> /\ stream' = Tail(stream)
              /\ rpc = "record"
  BY <1>15 DEF AtBlock
<1>16. CASE ReadEntity
  <2>1. PICK s \in Copies :
            /\ Reads("entity", s) /\ s.types.names = copy[shadow].types.names
            /\ \/ /\ Head(stream).id = Len(copy[shadow].entities.names) + 1 /\ rpc' = rpc
                  /\ s.entities.names = Append(copy[shadow].entities.names, Head(stream).name)
               \/ Head(stream).id # Len(copy[shadow].entities.names) + 1
    BY <1>16, EntityRead
  <2>2. AtBlock("entity") /\ UNCHANGED announced
    BY <2>1 DEF Reads
  <2>3. /\ Head(stream).id = Len(Arrived(announced.entities, stream, "entity")) + 1
        /\ Arrived(announced.entities, stream', "entity") =
              Append(Arrived(announced.entities, stream, "entity"), Head(stream).name)
        /\ Arrived(announced.types, stream', "type") = Arrived(announced.types, stream, "type")
    BY <1>15, <2>2, NamesTaken
  <2>4. rpc' = rpc /\ rpc = "record"
    BY <1>14, <1>15, <2>1, <2>2, <2>3 DEF HasArrived
  <2> QED BY <1>13, <1>14, <2>1, <2>3, <2>4 DEF HasArrived
<1>17. CASE ReadMessageType
  <2>1. PICK s \in Copies :
            /\ Reads("type", s) /\ s.entities.names = copy[shadow].entities.names
            /\ \/ /\ Head(stream).id = Len(copy[shadow].types.names) + 1 /\ rpc' = rpc
                  /\ s.types.names = Append(copy[shadow].types.names, Head(stream).name)
               \/ Head(stream).id # Len(copy[shadow].types.names) + 1
    BY <1>17, TypeRead
  <2>2. AtBlock("type") /\ UNCHANGED announced
    BY <2>1 DEF Reads
  <2>3. /\ Head(stream).id = Len(Arrived(announced.types, stream, "type")) + 1
        /\ Arrived(announced.types, stream', "type") =
              Append(Arrived(announced.types, stream, "type"), Head(stream).name)
        /\ Arrived(announced.entities, stream', "entity") =
              Arrived(announced.entities, stream, "entity")
    BY <1>15, <2>2, NamesTaken
  <2>4. rpc' = rpc /\ rpc = "record"
    BY <1>14, <1>15, <2>1, <2>2, <2>3 DEF HasArrived
  <2> QED BY <1>13, <1>14, <2>1, <2>3, <2>4 DEF HasArrived
<1>18. CASE ReadCommand \/ ReadTerminator
  <2>1. PICK s \in Copies, kind \in {"command", "terminator"} :
           Reads(kind, s) /\ SameNames(s, copy[shadow]) /\ rpc' # "header"
    <3>1. CASE ReadCommand
      <4>1. rpc = "record"
        BY <3>1 DEF ReadCommand, AtBlock
      <4> QED BY <3>1, <4>1, CommandRead
    <3>2. CASE ReadTerminator
      BY <3>2, TerminatorRead DEF SameNames
    <3> QED BY <1>18, <3>1, <3>2
  <2>2. AtBlock(kind) /\ UNCHANGED announced
    BY <2>1 DEF Reads
  <2>3. Head(stream).kind # "entity" /\ Head(stream).kind # "type"
    BY <1>15, <2>2
  <2>4. /\ Arrived(announced.entities, stream', "entity") =
              Arrived(announced.entities, stream, "entity")
        /\ Arrived(announced.types, stream', "type") = Arrived(announced.types, stream, "type")
    BY <1>15, <2>2, <2>3, NamesTaken
  <2> QED BY <1>13, <1>14, <2>1, <2>4 DEF HasArrived, SameNames
<1>19. CASE ReadHeader
  <2>1. /\ AtBlock("message") /\ rpc' = "header" /\ msg' = Head(stream) /\ UNCHANGED announced
        /\ \/ updated /\ SynchronizeAnd(copy[shadow]) /\ copy[shadow] \in Copies /\ atEnd' = FALSE
           \/ ~updated /\ UNCHANGED cursorVars
    BY <1>19, HeaderRead
  <2>2. /\ Announces(stream', "entity", announced.entities)
        /\ Announces(stream', "type", announced.types)
        /\ MessagesKnown(stream', Len(announced.entities), Len(announced.types))
        /\ Arrived(announced.entities, stream', "entity") =
              Arrived(announced.entities, stream, "entity")
        /\ Arrived(announced.types, stream', "type") = Arrived(announced.types, stream, "type")
        /\ msg'.entity \in 1 .. Len(Arrived(announced.entities, stream, "entity"))
        /\ msg'.type \in 1 .. Len(Arrived(announced.types, stream, "type"))
    <3>1. Head(stream).kind = "message" /\ stream # <<>> /\ stream' = Tail(stream)
      BY <1>15, <2>1
    <3> QED BY <2>1, <3>1, NamesTaken
  <2>3. copy'[main'] = copy[shadow] /\ copy'[shadow'] = copy[shadow]
    BY <2>1, TakesShadow DEF NumbersInv
  <2> QED BY <1>14, <2>1, <2>2, <2>3 DEF NamesInv, HasArrived
<1>20. CASE UNCHANGED vars
  BY <1>20 DEF vars, NamesInv, HasArrived
<1> QED BY <1>2, <1>3, <1>4, <1>5, <1>6, <1>7, <1>8, <1>9, <1>10, <1>11, <1>12, <1>16, <1>17,
           <1>18, <1>19, <1>20 DEF Next, CallStep, ServerStep, NextStep

-----------------------------------------------------------------------------
(* The commands that are done, and those that wait for the server.         *)

\* the commands among the blocks bs are the numbers before next, in order
CommandsBefore(bs, next) ==
    /\ \A i \in DOMAIN bs : bs[i].kind = "command" =>
          bs[i].id < next /\ bs[i].id = next - From(bs, i, "command")
    /\ \A i, j \in DOMAIN bs :
          bs[i].kind = "command" /\ bs[j].kind = "command" /\ i < j => bs[i].id < bs[j].id

\* those in t are the numbers from n on
NumberedFrom(t, n) == \A i \in DOMAIN t : t[i].id = n + i - 1

\* a block that is sent, be it the next command or none, keeps the order
LEMMA CommandSent ==
  ASSUME NEW S, NEW str \in Seq(S), NEW b \in S, NEW n \in Nat, CommandsBefore(str, n),
         b.kind = "command" => b.id = n,
         \A x \in S : x.kind = "command" => x.id \in Nat
  PROVE  CommandsBefore(Append(str, b), n + (IF b.kind = "command" THEN 1 ELSE 0))
<1> DEFINE s == Append(str, b)
           d == IF b.kind = "command" THEN 1 ELSE 0
<1>1. /\ Len(str) \in Nat /\ DOMAIN str = 1 .. Len(str) /\ DOMAIN s = 1 .. Len(str) + 1
      /\ s[Len(str) + 1] = b /\ \A i \in 1 .. Len(str) : s[i] = str[i] /\ str[i] \in S
  BY EndOf
<1>2. ASSUME NEW i \in 1 .. Len(str) + 1
      PROVE  From(s, i, "command") = From(str, i, "command") + d
             /\ From(str, i, "command") \in Nat
  <2>1. i \in Nat \ {0}
    BY <1>1
  <2>2. From(s, i, "command") = From(str, i, "command") + d
    BY FromAppended
  <2>3. From(str, i, "command") \in Nat
    BY <2>1, FromPlace
  <2> QED BY <2>2, <2>3
<1>3. From(str, Len(str) + 1, "command") = 0
  BY FromPlace
<1>4. d \in {0, 1} /\ (b.kind = "command" <=> d = 1)
  OBVIOUS
<1> HIDE DEF s, d
<1>5. ASSUME NEW i \in DOMAIN s, s[i].kind = "command"
      PROVE  s[i].id < n + d /\ s[i].id = (n + d) - From(s, i, "command")
  <2>1. i \in 1 .. Len(str) + 1
    BY <1>1
  <2>2. CASE i = Len(str) + 1
    <3>1. b.kind = "command" /\ s[i] = b /\ d = 1 /\ b.id = n
      BY <1>1, <1>4, <1>5, <2>2
    <3>2. From(s, i, "command") = 1
      BY <1>2, <1>3, <2>1, <2>2, <3>1
    <3> QED BY <3>1, <3>2
  <2>3. CASE i # Len(str) + 1
    <3>1. i \in DOMAIN str /\ s[i] = str[i] /\ str[i] \in S
      BY <1>1, <2>1, <2>3
    <3>2. str[i].id \in Nat /\ str[i].id < n /\ str[i].id = n - From(str, i, "command")
      BY <1>5, <3>1 DEF CommandsBefore
    <3>3. From(s, i, "command") = From(str, i, "command") + d
          /\ From(str, i, "command") \in Nat
      BY <1>2, <2>1
    <3> QED BY <1>4, <3>1, <3>2, <3>3
  <2> QED BY <2>2, <2>3
<1>6. ASSUME NEW i \in DOMAIN s, NEW j \in DOMAIN s,
             s[i].kind = "command", s[j].kind = "command", i < j
      PROVE  s[i].id < s[j].id
  <2>1. i \in DOMAIN str /\ s[i] = str[i]
    BY <1>1, <1>6
  <2>2. CASE j = Len(str) + 1
    BY <1>1, <1>6, <2>1, <2>2 DEF CommandsBefore
  <2>3. CASE j # Len(str) + 1
    <3>1. j \in DOMAIN str /\ s[j] = str[j]
      BY <1>1, <2>3
    <3> QED BY <1>6, <2>1, <3>1 DEF CommandsBefore
  <2> QED BY <2>2, <2>3
<1>7. CommandsBefore(s, n + d)
  <2>1. \A i \in DOMAIN s : s[i].kind = "command" =>
           s[i].id < n + d /\ s[i].id = (n + d) - From(s, i, "command")
    BY <1>5
  <2>2. \A i, j \in DOMAIN s :
           s[i].kind = "command" /\ s[j].kind = "command" /\ i < j => s[i].id < s[j].id
    BY <1>6
  <2> QED BY <2>1, <2>2 DEF CommandsBefore
<1> QED BY <1>7 DEF s, d

\* the first of the commands is the one with the lowest number
LEMMA CommandTaken ==
  ASSUME NEW S, NEW str \in Seq(S), str # <<>>, NEW n \in Nat, CommandsBefore(str, n)
  PROVE  /\ CommandsBefore(Tail(str), n)
         /\ Head(str).kind = "command" =>
               /\ Head(str).id = n - From(str, 1, "command")
               /\ Head(str).id < n
<1> DEFINE s == Tail(str)
<1>1. /\ Len(str) \in Nat \ {0} /\ DOMAIN str = 1 .. Len(str) /\ DOMAIN s = 1 .. Len(str) - 1
      /\ Head(str) = str[1] /\ \A j \in 1 .. Len(str) - 1 : s[j] = str[j + 1]
  BY FrontOf
<1>2. \A i \in 1 .. Len(str) : From(s, i, "command") = From(str, i + 1, "command")
  BY FromTail
<1> HIDE DEF s
<1>3. \A i \in DOMAIN s : i + 1 \in DOMAIN str /\ i \in 1 .. Len(str) /\ s[i] = str[i + 1]
  BY <1>1
<1>4. CommandsBefore(s, n)
  <2>1. \A i \in DOMAIN s : s[i].kind = "command" =>
           s[i].id < n /\ s[i].id = n - From(s, i, "command")
    BY <1>2, <1>3 DEF CommandsBefore
  <2>2. ASSUME NEW i \in DOMAIN s, NEW j \in DOMAIN s,
               s[i].kind = "command", s[j].kind = "command", i < j
        PROVE  s[i].id < s[j].id
    <3>1. i + 1 < j + 1
      BY <1>1, <2>2
    <3> QED BY <1>3, <2>2, <3>1 DEF CommandsBefore
  <2> QED BY <2>1, <2>2 DEF CommandsBefore
<1>5. 1 \in DOMAIN str
  BY <1>1
<1> QED BY <1>1, <1>4, <1>5 DEF s, CommandsBefore

\* what the server sends of its own
LEMMA SentBlock ==
  ASSUME TypeInv,
         \/ \E e \in Entities : SendEntity(e)
         \/ \E t \in Types : SendType(t)
         \/ SendMessage \/ SendTerminator
  PROVE  /\ \E b \in Blocks : /\ stream' = Append(stream, b) /\ b.kind # "command"
                              /\ b.kind = "message" => b.position = position
         /\ rpc # "dead"
         /\ UNCHANGED <<todo, nextId, position, cursorVars, readerVars, callVars>>
<1>1. /\ announced.entities \in Seq(Entities) /\ announced.types \in Seq(Types)
      /\ DOMAIN announced.entities \subseteq Nat /\ DOMAIN announced.types \subseteq Nat
      /\ position \in Nat
  BY DEF TypeInv, ServerTypes
<1> DEFINE Goal == \E b \in Blocks : /\ stream' = Append(stream, b) /\ b.kind # "command"
                                     /\ b.kind = "message" => b.position = position
<1>2. Goal
  <2>1. ASSUME NEW e \in Entities, SendEntity(e) PROVE Goal
    <3>1. EntityBlock(Len(announced.entities) + 1, e) \in Blocks
          /\ EntityBlock(Len(announced.entities) + 1, e).kind = "entity"
      BY <1>1, BlockTypes
    <3> QED BY <2>1, <3>1 DEF SendEntity, Send
  <2>2. ASSUME NEW t \in Types, SendType(t) PROVE Goal
    <3>1. TypeBlock(Len(announced.types) + 1, t) \in Blocks
          /\ TypeBlock(Len(announced.types) + 1, t).kind = "type"
      BY <1>1, BlockTypes
    <3> QED BY <2>2, <3>1 DEF SendType, Send
  <2>3. CASE SendMessage
    <3>1. PICK i \in DOMAIN announced.entities, j \in DOMAIN announced.types :
             Send(Message(i, j, position))
      BY <2>3 DEF SendMessage
    <3>2. Message(i, j, position) \in Blocks /\ Message(i, j, position).kind = "message"
          /\ Message(i, j, position).position = position
      <4>1. i \in Nat /\ j \in Nat
        BY <1>1
      <4>2. position \in Nat
        BY <1>1
      <4> QED BY <4>1, <4>2, MessageBlocks
    <3> QED BY <3>1, <3>2 DEF Send
  <2>4. CASE SendTerminator
    BY <2>4, BlockTypes DEF SendTerminator
  <2> QED BY <2>1, <2>2, <2>3, <2>4
<1>3. rpc # "dead" /\ UNCHANGED <<todo, nextId, position, cursorVars, readerVars, callVars>>
  BY DEF SendEntity, SendType, SendMessage, SendTerminator, Send, CanSend
<1> QED BY <1>2, <1>3

CommandsInv ==
    /\ CommandsBefore(stream, nextId - Len(todo))
    /\ NumberedFrom(todo, nextId - Len(todo))
    /\ From(stream, 1, "command") + Len(todo) < nextId

\* the commands stay in the order of their numbers
LEMMA CommandsStep ==
  ASSUME TypeInv, NumbersInv, CommandsInv, [Next]_vars
  PROVE  CommandsInv'
<1> USE DEF callVars, serverVars, readerVars, cursorVars
<1> DEFINE n == nextId - Len(todo)
<1>a. /\ stream \in Seq(Blocks) /\ todo \in Seq(Accepted) /\ Len(todo) \in Nat
      /\ nextId \in Nat \ {0} /\ n \in Nat /\ position \in Nat
      /\ DOMAIN todo = 1 .. Len(todo) /\ Len(stream) \in Nat
  BY DEF TypeInv, StreamTypes, ServerTypes, NumbersInv
<1>b. From(stream, 1, "command") \in Nat
  <2>1. 1 \in Nat \ {0}
    OBVIOUS
  <2> QED BY <1>a, <2>1, FromPlace
<1>c. \A x \in Blocks : x.kind = "command" => x.id \in Nat
  BY BlockTypes
<1>1. CASE UNCHANGED <<stream, todo, nextId>>
  BY <1>1 DEF CommandsInv
<1>2. ASSUME NEW b \in Blocks, stream' = Append(stream, b), b.kind # "command",
             UNCHANGED <<todo, nextId>>
      PROVE  CommandsInv'
  <2>1. CommandsBefore(stream', n)
    <3>1. CommandsBefore(Append(stream, b), n + (IF b.kind = "command" THEN 1 ELSE 0))
      <4> HIDE DEF n
      <4> QED BY <1>2, <1>a, <1>c, CommandSent DEF CommandsInv, n
    <3> QED BY <1>2, <1>a, <3>1
  <2>2. From(stream', 1, "command") = From(stream, 1, "command")
    <3>1. 1 \in 1 .. Len(stream) + 1
      BY <1>a
    <3>2. From(Append(stream, b), 1, "command") =
             From(stream, 1, "command") + (IF b.kind = "command" THEN 1 ELSE 0)
      BY <1>a, <3>1, FromAppended
    <3> QED BY <1>2, <1>b, <3>2
  <2> QED BY <1>2, <2>1, <2>2 DEF CommandsInv
<1>3. CASE AcceptCall
  <2>1. /\ UNCHANGED stream /\ nextId' = nextId + 1
        /\ todo' = Append(todo, [id |-> nextId, request |-> Request(caller.call)])
    BY <1>3 DEF AcceptCall
  <2>2. [id |-> nextId, request |-> Request(caller.call)] \in Accepted
    <3>1. Request(caller.call) \in CallTypes
      BY <1>3, CallsHaveTypes DEF AcceptCall, TypeInv, CallerTypes, Callers, Free
    <3> QED BY <1>a, <3>1 DEF Accepted
  <2>3. /\ Len(todo') = Len(todo) + 1 /\ DOMAIN todo' = 1 .. Len(todo) + 1
        /\ todo'[Len(todo) + 1].id = nextId /\ \A i \in 1 .. Len(todo) : todo'[i] = todo[i]
    BY <1>a, <2>1, <2>2, EndOf
  <2>4. nextId' - Len(todo') = n
    BY <1>a, <2>1, <2>3
  <2>5. NumberedFrom(todo', n)
    BY <1>a, <2>3 DEF CommandsInv, NumberedFrom
  <2> QED BY <1>a, <1>b, <2>1, <2>3, <2>4, <2>5 DEF CommandsInv
<1>4. CASE ApplyCall
  <2> DEFINE b == CommandBlock(Head(todo).id)
  <2>1. /\ stream' = Append(stream, b) /\ todo' = Tail(todo) /\ nextId' = nextId /\ todo # <<>>
    BY <1>4 DEF ApplyCall
  <2>2. /\ Len(todo) \in Nat \ {0} /\ Head(todo) = todo[1] /\ Head(todo).id \in Nat
        /\ Len(todo') = Len(todo) - 1 /\ DOMAIN todo' = 1 .. Len(todo) - 1
        /\ \A i \in 1 .. Len(todo) - 1 : todo'[i] = todo[i + 1]
    <3>1. /\ Len(todo) \in Nat \ {0} /\ Head(todo) = todo[1] /\ Head(todo) \in Accepted
          /\ Len(Tail(todo)) = Len(todo) - 1 /\ DOMAIN Tail(todo) = 1 .. Len(todo) - 1
          /\ \A i \in 1 .. Len(todo) - 1 : Tail(todo)[i] = todo[i + 1]
      BY <1>a, <2>1, FrontOf
    <3> QED BY <2>1, <3>1 DEF Accepted
  <2>3. b \in Blocks /\ b.kind = "command" /\ b.id = n
    <3>1. Head(todo).id = n
      BY <1>a, <2>2 DEF CommandsInv, NumberedFrom
    <3> QED BY <2>2, <3>1, BlockTypes
  <2>4. nextId' - Len(todo') = n + 1
    BY <1>a, <2>1, <2>2
  <2> HIDE DEF b
  <2>5. CommandsBefore(stream', n + 1)
    <3>1. CommandsBefore(Append(stream, b), n + (IF b.kind = "command" THEN 1 ELSE 0))
      <4> HIDE DEF n
      <4> QED BY <2>3, <1>a, <1>c, CommandSent DEF CommandsInv, n
    <3> QED BY <1>a, <2>1, <2>3, <3>1
  <2>6. NumberedFrom(todo', n + 1)
    <3>1. \A i \in 1 .. Len(todo) - 1 : i + 1 \in DOMAIN todo /\ todo'[i] = todo[i + 1]
      BY <1>a, <2>2
    <3>2. \A i \in DOMAIN todo : todo[i].id = n + i - 1
      BY DEF CommandsInv, NumberedFrom
    <3>3. ASSUME NEW i \in 1 .. Len(todo) - 1 PROVE todo'[i].id = (n + 1) + i - 1
      <4>1. todo[i + 1].id = n + (i + 1) - 1
        BY <3>1, <3>2
      <4>2. n + (i + 1) - 1 = (n + 1) + i - 1
        BY <1>a, <2>2
      <4> QED BY <3>1, <4>1, <4>2
    <3> QED BY <2>2, <3>3 DEF NumberedFrom
  <2>7. From(stream', 1, "command") = From(stream, 1, "command") + 1
    <3>1. 1 \in 1 .. Len(stream) + 1
      BY <1>a
    <3>2. From(Append(stream, b), 1, "command") =
             From(stream, 1, "command") + (IF b.kind = "command" THEN 1 ELSE 0)
      BY <1>a, <2>3, <3>1, FromAppended
    <3> QED BY <1>b, <2>1, <2>3, <3>2
  <2> QED BY <1>a, <1>b, <2>1, <2>2, <2>4, <2>5, <2>6, <2>7 DEF CommandsInv
<1>5. ASSUME stream # <<>>, stream' = Tail(stream), UNCHANGED <<todo, nextId>>
      PROVE  CommandsInv'
  <2>1. CommandsBefore(stream', n)
    <3> HIDE DEF n
    <3> QED BY <1>5, <1>a, CommandTaken DEF CommandsInv, n
  <2>2. From(stream', 1, "command") <= From(stream, 1, "command")
        /\ From(stream', 1, "command") \in Nat
    <3>1. From(Tail(stream), 1, "command") =
             From(stream, 1, "command") - (IF Head(stream).kind = "command" THEN 1 ELSE 0)
      BY <1>a, <1>5, FromTail
    <3>2. Tail(stream) \in Seq(Blocks) /\ 1 \in Nat \ {0}
      BY <1>a, <1>5
    <3>3. From(Tail(stream), 1, "command") \in Nat
      BY <3>2, FromPlace
    <3> QED BY <1>b, <1>5, <3>1, <3>3
  <2> QED BY <1>a, <1>b, <1>5, <2>1, <2>2 DEF CommandsInv
<1>6. CASE CallStep
  BY <1>1, <1>6 DEF CallStep, BeginCall, RegisterUserMessageType, RequestFails, RequestAnswered,
                    AnswerMalformed, EndCall
<1>7. ASSUME \/ \E e \in Entities : SendEntity(e)
             \/ \E t \in Types : SendType(t)
             \/ SendMessage \/ SendTerminator
      PROVE  CommandsInv'
  <2>1. PICK b \in Blocks : stream' = Append(stream, b) /\ b.kind # "command"
                            /\ UNCHANGED <<todo, nextId>>
    BY <1>7, SentBlock
  <2> QED BY <1>2, <2>1
<1>8. CASE NextStep
  <2>1. CASE CallNext \/ End \/ Filter
    BY <1>1, <2>1 DEF CallNext, End, Filter
  <2>2. CASE ReadEntity \/ ReadMessageType \/ ReadCommand \/ ReadTerminator \/ ReadHeader
    <3>1. stream # <<>> /\ stream' = Tail(stream) /\ UNCHANGED <<todo, nextId>>
      BY <2>2 DEF ReadEntity, ReadMessageType, ReadCommand, ReadTerminator, ReadHeader, AtBlock
    <3> QED BY <1>5, <3>1
  <2> QED BY <1>8, <2>1, <2>2 DEF NextStep
<1>9. CASE UNCHANGED vars
  BY <1>1, <1>9 DEF vars
<1> QED BY <1>3, <1>4, <1>6, <1>7, <1>8, <1>9 DEF Next, ServerStep

-----------------------------------------------------------------------------
(* Without a failure, what next() reads is what it expects.                *)

\* the calls the server accepted, and next() has not seen done
Out == From(stream, 1, "command") + Len(todo)

\* The copy s expects the last out of the numbers before next, but for the last
\* one if it is being written (written = 1); a reset, unless it is being called,
\* is one of those that are expected.
Expects(s, next, out, written, called) ==
    /\ written <= out
    /\ IF out = written THEN s.first = None
       ELSE s.first = next - out /\ s.last = (next - 1) - written
    /\ s.resetting /\ ~called => s.first # None /\ s.lastReset \in s.first .. s.last

BeingWritten == IF caller.pc = "answered" THEN 1 ELSE 0
ResetCalled  == caller.pc # "free" /\ caller.call.kind = "reset"

\* As long as no request failed, the commands the shadow expects are those the
\* server has accepted, but for the one whose answer is being written, and a
\* reset is one of them: nothing next() reads makes it throw.
FaultlessInv ==
    faults = 0 =>
        rpc # "dead" /\ Expects(copy[shadow], nextId, Out, BeingWritten, ResetCalled)

\* a name that is announced is the next one
LEMMA NameIsNext ==
  ASSUME TypeInv, NamesInv, ReadEntity \/ ReadMessageType
  PROVE  rpc' = rpc
<1>1. HasArrived(copy[shadow]) /\ UNCHANGED announced
  BY DEF NamesInv, ReadEntity, ReadMessageType, serverVars
<1>2. CASE ReadEntity
  <2>1. Head(stream).kind = "entity" /\ stream # <<>> /\ stream' = Tail(stream)
    BY <1>2 DEF ReadEntity, AtBlock
  <2>2. Head(stream).id = Len(Arrived(announced.entities, stream, "entity")) + 1
    BY <1>1, <2>1, NamesTaken
  <2> QED BY <1>1, <1>2, <2>2, EntityRead DEF HasArrived
<1>3. CASE ReadMessageType
  <2>1. Head(stream).kind = "type" /\ stream # <<>> /\ stream' = Tail(stream)
    BY <1>3 DEF ReadMessageType, AtBlock
  <2>2. Head(stream).id = Len(Arrived(announced.types, stream, "type")) + 1
    BY <1>1, <2>1, NamesTaken
  <2> QED BY <1>1, <1>3, <2>2, TypeRead DEF HasArrived
<1> QED BY <1>2, <1>3

\* a command that is read is one less that is out, and one that is applied is
\* on its way
LEMMA OutStep ==
  ASSUME TypeInv, NumbersInv, CommandsInv
  PROVE  /\ Out \in Nat /\ Out < nextId
         /\ ApplyCall => Out' = Out
         /\ AcceptCall => Out' = Out + 1
         /\ \A b \in Blocks : /\ stream' = Append(stream, b) /\ b.kind # "command"
                             /\ UNCHANGED todo
                             => Out' = Out
         /\ stream # <<>> /\ stream' = Tail(stream) /\ UNCHANGED todo =>
               Out' = Out - (IF Head(stream).kind = "command" THEN 1 ELSE 0) /\ Out' \in Nat
<1>a. /\ stream \in Seq(Blocks) /\ todo \in Seq(Accepted) /\ Len(todo) \in Nat
      /\ nextId \in Nat /\ Len(stream) \in Nat /\ 1 \in Nat \ {0} /\ 1 \in 1 .. Len(stream) + 1
  BY DEF TypeInv, StreamTypes, ServerTypes
<1>b. From(stream, 1, "command") \in Nat
  BY <1>a, FromPlace
<1>1. Out \in Nat /\ Out < nextId
  BY <1>a, <1>b DEF Out, CommandsInv
<1>2. ASSUME ApplyCall PROVE Out' = Out
  <2>1. /\ stream' = Append(stream, CommandBlock(Head(todo).id)) /\ todo' = Tail(todo)
        /\ todo # <<>>
    BY <1>2 DEF ApplyCall
  <2>2. Len(todo') = Len(todo) - 1 /\ Head(todo) \in Accepted
    BY <1>a, <2>1, FrontOf
  <2>3. CommandBlock(Head(todo).id) \in Blocks /\ CommandBlock(Head(todo).id).kind = "command"
    BY <2>2, BlockTypes DEF Accepted
  <2>4. From(stream', 1, "command") = From(stream, 1, "command") + 1
    <3>1. From(Append(stream, CommandBlock(Head(todo).id)), 1, "command") =
             From(stream, 1, "command")
               + (IF CommandBlock(Head(todo).id).kind = "command" THEN 1 ELSE 0)
      BY <1>a, <2>3, FromAppended
    <3> QED BY <2>1, <2>3, <3>1
  <2> QED BY <1>a, <1>b, <2>2, <2>4 DEF Out
<1>3. ASSUME AcceptCall PROVE Out' = Out + 1
  <2>1. UNCHANGED stream /\ Len(todo') = Len(todo) + 1
    BY <1>3, <1>a DEF AcceptCall
  <2> QED BY <1>a, <1>b, <2>1 DEF Out
<1>4. ASSUME NEW b \in Blocks, stream' = Append(stream, b), b.kind # "command", UNCHANGED todo
      PROVE  Out' = Out
  <2>1. From(Append(stream, b), 1, "command") =
           From(stream, 1, "command") + (IF b.kind = "command" THEN 1 ELSE 0)
    BY <1>a, FromAppended
  <2> QED BY <1>4, <1>b, <2>1 DEF Out
<1>5. ASSUME stream # <<>>, stream' = Tail(stream), UNCHANGED todo
      PROVE  Out' = Out - (IF Head(stream).kind = "command" THEN 1 ELSE 0) /\ Out' \in Nat
  <2>1. From(Tail(stream), 1, "command") =
           From(stream, 1, "command") - (IF Head(stream).kind = "command" THEN 1 ELSE 0)
    BY <1>a, <1>5, FromTail
  <2>2. Tail(stream) \in Seq(Blocks)
    BY <1>a, <1>5
  <2>3. From(Tail(stream), 1, "command") \in Nat
    BY <1>a, <2>2, FromPlace
  <2>4. From(stream', 1, "command") =
           From(stream, 1, "command") - (IF Head(stream).kind = "command" THEN 1 ELSE 0)
        /\ From(stream', 1, "command") \in Nat /\ Len(todo') = Len(todo)
    BY <1>5, <2>1, <2>3
  <2> QED BY <1>a, <1>b, <2>4 DEF Out
<1> QED BY <1>1, <1>2, <1>3, <1>4, <1>5

\* what a copy expects when the server gives the call a number
LEMMA ExpectsAccepted ==
  ASSUME NEW s \in Copies, NEW n \in Nat, NEW out \in Nat, NEW called \in BOOLEAN,
         Expects(s, n, out, 0, called)
  PROVE  Expects(s, n + 1, out + 1, 1, called)
<1>1. out = 0 <=> out + 1 = 1
  OBVIOUS
<1>2. (n + 1) - (out + 1) = n - out /\ ((n + 1) - 1) - 1 = (n - 1) - 0 /\ 1 <= out + 1
  OBVIOUS
<1> QED BY <1>1, <1>2 DEF Expects

\* the number fits, and a copy t it is written to expects one command more
LEMMA ExpectsWritten ==
  ASSUME NEW s \in Copies, NEW t \in Copies, NEW n \in Nat, NEW out \in Nat, out < n,
         IdsOk(s, n), NEW called \in BOOLEAN, Expects(s, n, out, 1, called),
         s.last = None \/ n - 1 = s.last + 1 =>
             /\ t.first = IF s.last = None THEN n - 1 ELSE s.first
             /\ t.last = n - 1
             /\ t.lastReset = IF called THEN n - 1 ELSE s.lastReset,
         t.resetting = s.resetting
  PROVE  Expects(t, n, out, 0, FALSE)
<1>1. /\ s.first \in Int /\ s.last \in Int /\ s.lastReset \in Int
      /\ t.first \in Int /\ t.last \in Int /\ t.lastReset \in Int
  BY DEF Copies
<1>2. CASE out = 1
  <2>1. s.first = None /\ s.last = None
    BY <1>2 DEF Expects, IdsOk
  <2>2. s.resetting => called
    BY <2>1 DEF Expects
  <2> QED BY <1>1, <1>2, <2>1, <2>2 DEF Expects, None
<1>3. CASE out # 1
  <2>1. s.first = n - out /\ s.last = (n - 1) - 1 /\ 1 <= out
        /\ (s.resetting /\ ~called => s.lastReset \in s.first .. s.last)
    BY <1>3 DEF Expects
  <2>2. s.first \in Nat \ {0} /\ s.last \in Nat /\ s.last # None /\ n - 1 = s.last + 1
    BY <1>1, <1>3, <2>1 DEF None, IdsOk
  <2> QED BY <1>1, <1>3, <2>1, <2>2 DEF Expects, None
<1> QED BY <1>2, <1>3

\* the first of the commands a copy expects is done
LEMMA ExpectsExecuted ==
  ASSUME NEW s \in Copies, NEW n \in Nat, NEW out \in Nat, out < n, out > 0,
         Expects(s, n, out, 0, FALSE)
  PROVE  /\ s.first = n - out /\ ~ResetLost(s)
         /\ \A r \in Readings(s) : r = s
         /\ Expects(Executed(s), n, out - 1, 0, FALSE)
<1>1. /\ s.first \in Int /\ s.last \in Int /\ s.lastReset \in Int /\ s.resetting \in BOOLEAN
  BY DEF Copies
<1>2. s.first = n - out /\ s.last = n - 1
      /\ (s.resetting => s.lastReset \in s.first .. s.last)
  BY DEF Expects
<1>3. ~ResetLost(s)
  BY <1>2 DEF ResetLost
<1>4. \A r \in Readings(s) : r = s
  <2>1. ~(s.resetting /\ s.lastReset = Unset)
    BY <1>1, <1>2 DEF Unset
  <2> QED BY <2>1 DEF Readings
<1> DEFINE e == Executed(s)
<1>5. /\ e.first = IF s.first = s.last THEN None ELSE s.first + 1
      /\ e.last = IF s.first = s.last THEN None ELSE s.last
      /\ e.resetting => s.resetting /\ e.lastReset = s.lastReset /\ s.first # s.lastReset
  BY <1>1, ExecutedCopy
<1> HIDE DEF e
<1>6. CASE out = 1
  <2>1. e.first = None /\ ~e.resetting
    BY <1>1, <1>2, <1>5, <1>6
  <2>2. Expects(e, n, out - 1, 0, FALSE)
    BY <1>6, <2>1 DEF Expects
  <2> QED BY <1>2, <1>3, <1>4, <2>2 DEF e
<1>7. CASE out # 1
  <2>1. e.first = s.first + 1 /\ e.last = s.last /\ e.first # None
    BY <1>1, <1>2, <1>5, <1>7 DEF None
  <2>2. e.resetting => e.lastReset \in e.first .. e.last
    BY <1>1, <1>2, <1>5, <2>1
  <2>3. e.first = n - (out - 1) /\ e.last = (n - 1) - 0 /\ 0 <= out - 1
    BY <1>2, <2>1
  <2>4. Expects(e, n, out - 1, 0, FALSE)
    BY <1>7, <2>1, <2>2, <2>3 DEF Expects
  <2> QED BY <1>2, <1>3, <1>4, <2>4 DEF e
<1> QED BY <1>6, <1>7

\* no step makes next() throw, as long as no request has failed
LEMMA FaultlessStep ==
  ASSUME TypeInv, NumbersInv, NamesInv, CommandsInv, FaultlessInv, [Next]_vars
  PROVE  FaultlessInv'
<1> USE DEF callVars, serverVars, readerVars, cursorVars
<1> DEFINE s == copy[shadow]
<1>a. /\ copy \in [SubStates -> Copies] /\ shadow \in SubStates /\ main \in SubStates
      /\ s \in Copies /\ faults \in Nat /\ nextId \in Nat \ {0} /\ caller \in Callers
      /\ IdsOk(s, nextId) /\ Out \in Nat /\ Out < nextId
      /\ BeingWritten \in {0, 1} /\ ResetCalled \in BOOLEAN
  BY ConstantsAssumption, OutStep
     DEF TypeInv, CursorTypes, CallerTypes, ServerTypes, NumbersInv, BeingWritten, ResetCalled
<1>b. /\ Free.pc = "free"
      /\ \A c : [pc |-> "asking", call |-> c].pc = "asking"
                /\ [pc |-> "asking", call |-> c].call = c
      /\ \A c, i : [pc |-> "answered", call |-> c, id |-> i].pc = "answered"
                   /\ [pc |-> "answered", call |-> c, id |-> i].call = c
  BY DEF Free
<1>c. \A t \in Copies :
         /\ Expects(s, nextId, Out, 0, FALSE)
         /\ t.first = s.first /\ t.last = s.last /\ t.lastReset = s.lastReset
         => /\ t.resetting = s.resetting => Expects(t, nextId, Out, 0, FALSE)
            /\ Expects(t, nextId, Out, 0, TRUE)
  BY DEF Expects
<1>1. CASE UNCHANGED <<faults, rpc, copy, shadow, nextId, stream, todo, caller>>
  BY <1>1 DEF FaultlessInv, Out, BeingWritten, ResetCalled
<1>2. ASSUME NEW t \in Copies, WriteShadow(t),
             /\ t.first = s.first /\ t.last = s.last /\ t.lastReset = s.lastReset
             /\ t.resetting = (s.resetting \/ (ResetCalled)'),
             caller.pc = "free", caller'.pc # "answered",
             UNCHANGED <<faults, rpc, nextId, stream, todo>>
      PROVE  FaultlessInv'
  <2>1. copy'[shadow'] = t /\ Out' = Out
    BY <1>2, WritesShadow DEF Out
  <2>2. BeingWritten = 0 /\ ResetCalled = FALSE /\ BeingWritten' = 0 /\ ResetCalled' \in BOOLEAN
    BY <1>2 DEF BeingWritten, ResetCalled
  <2>3. ASSUME Expects(s, nextId, Out, 0, FALSE) PROVE Expects(t, nextId, Out, 0, ResetCalled')
    <3>1. CASE ResetCalled'
      <4>1. Expects(t, nextId, Out, 0, TRUE)
        BY <1>2, <1>c, <2>3
      <4> QED BY <3>1, <4>1 DEF Expects
    <3>2. CASE ~ResetCalled'
      <4>1. Expects(t, nextId, Out, 0, FALSE)
        BY <1>2, <1>a, <1>c, <2>3, <3>2 DEF Copies
      <4> QED BY <3>2, <4>1 DEF Expects
    <3> QED BY <3>1, <3>2
  <2> QED BY <1>2, <2>1, <2>2, <2>3 DEF FaultlessInv
<1>3. ASSUME NEW c \in Calls, BeginCall(c) PROVE FaultlessInv'
  <2>1. /\ Written(c) \in Copies /\ WriteShadow(Written(c))
        /\ Written(c).first = s.first /\ Written(c).last = s.last
        /\ Written(c).lastReset = s.lastReset
        /\ Written(c).resetting = (s.resetting \/ c.kind = "reset")
    BY <1>3, CallsHaveTypes, WrittenCopy DEF BeginCall, Written
  <2>2. /\ caller.pc = "free" /\ caller' = [pc |-> "asking", call |-> c]
        /\ UNCHANGED <<faults, rpc, nextId, stream, todo>>
    BY <1>3 DEF BeginCall, thisLockFree
  <2>3. caller'.pc = "asking" /\ caller'.call = c
    BY <2>2, <1>b
  <2>4. ResetCalled' <=> c.kind = "reset"
    BY <2>3 DEF ResetCalled
  <2> QED BY <1>2, <2>1, <2>2, <2>3, <2>4
<1>4. CASE RegisterUserMessageType
  <2>1. WriteShadow(s) /\ caller.pc = "free" /\ ~(ResetCalled')
        /\ UNCHANGED <<faults, rpc, nextId, stream, todo, caller>>
    BY <1>4 DEF RegisterUserMessageType, thisLockFree, ResetCalled
  <2>2. s.resetting = (s.resetting \/ (ResetCalled)')
    BY <2>1, <1>a DEF Copies
  <2> QED BY <1>2, <1>a, <2>1, <2>2
<1>5. CASE RequestFails \/ AnswerMalformed
  <2>1. faults' = faults + 1
    BY <1>5 DEF RequestFails, AnswerMalformed
  <2> QED BY <2>1, <1>a DEF FaultlessInv
<1>6. CASE RequestAnswered
  <2> DEFINE t == copy'[shadow]
             c == caller.call
  <2>1. /\ caller.pc = "answered" /\ EndCall(nextId - 1) /\ nextId - 1 \in Int
        /\ UNCHANGED <<faults, rpc, nextId, stream, todo, shadow>>
    <3>1. caller.pc = "answered" /\ EndCall(caller.id) /\ UNCHANGED faults
      BY <1>6 DEF RequestAnswered
    <3>2. caller.id = nextId - 1
      BY <3>1 DEF NumbersInv
    <3>3. UNCHANGED <<rpc, nextId, stream, todo, shadow>>
      BY <3>1 DEF EndCall
    <3> QED BY <1>a, <3>1, <3>2, <3>3
  <2>2. /\ t \in Copies /\ caller' = Free /\ t.resetting = s.resetting
        /\ s.last = None \/ nextId - 1 = s.last + 1 =>
              /\ t.first = IF s.last = None THEN nextId - 1 ELSE s.first
              /\ t.last = nextId - 1
              /\ t.lastReset = IF c.kind = "reset" THEN nextId - 1 ELSE s.lastReset
    BY <2>1, <1>a, EndedCall
  <2>3. /\ BeingWritten = 1 /\ (ResetCalled <=> c.kind = "reset")
        /\ BeingWritten' = 0 /\ ~(ResetCalled') /\ Out' = Out
    BY <2>1, <2>2, <1>b DEF BeingWritten, ResetCalled, Out
  <2> HIDE DEF s, t, c
  <2>4. Expects(s, nextId, Out, 1, ResetCalled) => Expects(t, nextId, Out, 0, FALSE)
    BY <2>2, <2>3, <1>a, ExpectsWritten
  <2>5. Expects(t, nextId, Out, 0, FALSE) => Expects(t, nextId, Out, 0, ResetCalled')
    BY <2>3 DEF Expects
  <2> QED BY <2>1, <2>3, <2>4, <2>5 DEF FaultlessInv, s, t
<1>7. CASE AcceptCall
  <2>1. /\ caller.pc = "asking" /\ nextId' = nextId + 1 /\ Out' = Out + 1
        /\ caller' = [pc |-> "answered", call |-> caller.call, id |-> nextId]
        /\ UNCHANGED <<faults, rpc, copy, shadow>>
    BY <1>7, OutStep DEF AcceptCall
  <2>2. /\ BeingWritten = 0 /\ BeingWritten' = 1 /\ ResetCalled' = ResetCalled
    BY <2>1, <1>b DEF BeingWritten, ResetCalled
  <2>3. Expects(s, nextId, Out, 0, ResetCalled) =>
           Expects(s, nextId + 1, Out + 1, 1, ResetCalled)
    <3> HIDE DEF s
    <3> QED BY <1>a, ExpectsAccepted
  <2> QED BY <2>1, <2>2, <2>3 DEF FaultlessInv
<1>8. ASSUME Out' = Out, UNCHANGED <<faults, rpc, copy, shadow, nextId, caller>>
      PROVE  FaultlessInv'
  BY <1>8 DEF FaultlessInv, BeingWritten, ResetCalled
<1>9. CASE ApplyCall
  BY <1>8, <1>9, OutStep DEF ApplyCall
<1>10. ASSUME \/ \E e \in Entities : SendEntity(e)
              \/ \E t \in Types : SendType(t)
              \/ SendMessage \/ SendTerminator
       PROVE  FaultlessInv'
  <2>1. PICK b \in Blocks : stream' = Append(stream, b) /\ b.kind # "command"
                            /\ UNCHANGED <<todo, nextId, cursorVars, readerVars, callVars>>
    BY <1>10, SentBlock
  <2>2. Out' = Out
    BY <2>1, OutStep
  <2> QED BY <1>8, <2>1, <2>2
<1>11. CASE CallNext \/ End
  <2>1. rpc' # "dead" /\ UNCHANGED <<faults, copy, shadow, nextId, stream, todo, caller>>
    BY <1>11 DEF CallNext, End
  <2> QED BY <2>1 DEF FaultlessInv, Out, BeingWritten, ResetCalled
<1>12. CASE Filter
  <2>1. Known(copy[main], msg)
    BY <1>12 DEF Filter, Known, NamesInv
  <2>2. rpc' # "dead" /\ UNCHANGED <<faults, copy, shadow, nextId, stream, todo, caller>>
    BY <1>12, <2>1 DEF Filter
  <2> QED BY <2>2 DEF FaultlessInv, Out, BeingWritten, ResetCalled
<1>13. ASSUME NEW kind, NEW t \in Copies, AtBlock(kind), kind # "command", SynchronizeAnd(t),
              SameCommands(t, s), rpc' # "dead", UNCHANGED <<callVars, serverVars>>
       PROVE  FaultlessInv'
  <2>1. /\ stream # <<>> /\ stream' = Tail(stream) /\ Head(stream).kind = kind
    BY <1>13 DEF AtBlock
  <2>2. Out' = Out
    BY <1>13, <2>1, <1>a, OutStep
  <2>3. copy'[shadow'] = t /\ caller = Free
    BY <1>13, TakesShadow
  <2>4. BeingWritten = 0 /\ ResetCalled = FALSE /\ BeingWritten' = 0 /\ ResetCalled' = FALSE
    BY <1>13, <2>3, <1>b DEF BeingWritten, ResetCalled
  <2>5. Expects(s, nextId, Out, 0, FALSE) => Expects(t, nextId, Out, 0, FALSE)
    BY <1>13, <1>c DEF SameCommands
  <2> QED BY <1>13, <2>2, <2>3, <2>4, <2>5 DEF FaultlessInv
<1>14. CASE ReadEntity \/ ReadMessageType
  <2>1. rpc' = rpc
    BY <1>14, NameIsNext
  <2>2. \E kind \in {"entity", "type"}, t \in Copies : Reads(kind, t) /\ SameCommands(t, s)
    BY <1>14, EntityRead, TypeRead
  <2> QED BY <1>13, <2>1, <2>2 DEF Reads, AtBlock
<1>15. CASE ReadCommand
  <2>1. PICK t \in Copies, r \in Readings(s) :
            /\ Reads("command", t)
            /\ \/ Head(stream).id = r.first /\ ~ResetLost(r) /\ rpc' = rpc /\ t = Executed(r)
               \/ Head(stream).id # r.first \/ ResetLost(r)
    BY <1>15, CommandRead
  <2>2. /\ stream # <<>> /\ stream' = Tail(stream) /\ Head(stream).kind = "command"
        /\ rpc = "record" /\ SynchronizeAnd(t) /\ UNCHANGED <<callVars, serverVars>>
    BY <2>1 DEF Reads, AtBlock
  <2>3. Out' = Out - 1 /\ Out' \in Nat
    BY <2>2, OutStep
  <2>4. Head(stream).id = nextId - Out
    <3>1. Head(stream).id = (nextId - Len(todo)) - From(stream, 1, "command")
      <4>1. nextId - Len(todo) \in Nat /\ stream \in Seq(Blocks)
        BY DEF TypeInv, ServerTypes, StreamTypes, NumbersInv
      <4> QED BY <2>2, <4>1, CommandTaken DEF CommandsInv
    <3>2. From(stream, 1, "command") \in Nat
      <4>1. 1 \in Nat \ {0} /\ stream \in Seq(Blocks)
        BY DEF TypeInv, StreamTypes
      <4> QED BY <4>1, FromPlace
    <3>3. Len(todo) \in Nat
      BY DEF TypeInv, ServerTypes
    <3> QED BY <1>a, <3>1, <3>2, <3>3 DEF Out
  <2>5. copy'[shadow'] = t /\ caller = Free
    BY <2>1, <2>2, TakesShadow
  <2>6. BeingWritten = 0 /\ ResetCalled = FALSE /\ BeingWritten' = 0 /\ ResetCalled' = FALSE
    BY <2>2, <2>5, <1>b DEF BeingWritten, ResetCalled
  <2>7. ASSUME Expects(s, nextId, Out, 0, FALSE)
        PROVE  Expects(t, nextId, Out - 1, 0, FALSE) /\ rpc' # "dead"
    <3>1. Out > 0
      BY <2>3, <1>a
    <3>2. /\ s.first = nextId - Out /\ ~ResetLost(s) /\ \A q \in Readings(s) : q = s
          /\ Expects(Executed(s), nextId, Out - 1, 0, FALSE)
      <4> HIDE DEF s
      <4> QED BY <2>7, <3>1, <1>a, ExpectsExecuted
    <3> QED BY <2>1, <2>2, <2>4, <3>2
  <2> QED BY <2>2, <2>3, <2>5, <2>6, <2>7 DEF FaultlessInv
<1>16. CASE ReadTerminator
  BY <1>13, <1>16, TerminatorRead DEF Reads, SameCommands
<1>17. CASE ReadHeader
  <2>1. /\ AtBlock("message") /\ rpc' = "header" /\ UNCHANGED <<callVars, serverVars>>
        /\ \/ SynchronizeAnd(s)
           \/ UNCHANGED cursorVars
    BY <1>17, HeaderRead
  <2>2. Out' = Out
    BY <2>1, <1>a, OutStep DEF AtBlock
  <2>3. CASE SynchronizeAnd(s)
    BY <1>13, <1>a, <2>1, <2>3 DEF SameCommands
  <2>4. CASE UNCHANGED cursorVars
    BY <2>1, <2>2, <2>4 DEF FaultlessInv, BeingWritten, ResetCalled
  <2> QED BY <2>1, <2>3, <2>4
<1>18. CASE UNCHANGED vars
  BY <1>1, <1>18 DEF vars
<1> QED BY <1>3, <1>4, <1>5, <1>6, <1>7, <1>9, <1>10, <1>11, <1>12, <1>14, <1>15, <1>16, <1>17,
           <1>18 DEF Next, CallStep, ServerStep, NextStep

-----------------------------------------------------------------------------
(* What was sent before a reset, and what after it.                        *)

\* behind place k, str has nothing from before the n-th reset, and nothing of
\* that kind will be added, as the server is at its reset pos
ClearAfter(str, k, pos, n) ==
    /\ pos >= n
    /\ \A i \in DOMAIN str : i > k /\ str[i].kind = "message" => str[i].position >= n

\* command r is one that, when it is done, is followed by nothing from before
\* the n-th reset; it is in the stream str, or among the calls td the server
\* still has to apply
DoneAfter(str, td, pos, r, n) ==
    \/ \E j \in DOMAIN td :
          td[j].id = r /\ pos + (ResetsFrom(td, 1) - ResetsFrom(td, j + 1)) >= n
    \/ \E k \in DOMAIN str : str[k] = CommandBlock(r) /\ ClearAfter(str, k, pos, n)

\* nothing from before a reset comes later
LEMMA ClearKept ==
  ASSUME NEW str \in Seq(Blocks), NEW pos \in Nat, NEW n \in Nat
  PROVE  /\ \A k \in Nat, b \in Blocks, q \in Nat :
               /\ ClearAfter(str, k, pos, n) /\ pos <= q
               /\ b.kind = "message" => b.position = pos
               => ClearAfter(Append(str, b), k, q, n)
         /\ str # <<>> => \A k \in Nat : ClearAfter(str, k + 1, pos, n) =>
                             ClearAfter(Tail(str), k, pos, n)
         /\ \A k \in Nat : ClearAfter(str, 0, pos, n) => ClearAfter(str, k, pos, n)
         /\ ClearAfter(str, Len(str) + 1, pos, n) <=> pos >= n
         /\ n = 0 => ClearAfter(str, 0, pos, n)
<1>1. Len(str) \in Nat /\ DOMAIN str = 1 .. Len(str) /\ \A i \in 1 .. Len(str) : str[i] \in Blocks
  OBVIOUS
<1>2. ASSUME NEW k \in Nat, NEW b \in Blocks, NEW q \in Nat, ClearAfter(str, k, pos, n), pos <= q,
             b.kind = "message" => b.position = pos
      PROVE  ClearAfter(Append(str, b), k, q, n)
  <2> DEFINE t == Append(str, b)
  <2>1. DOMAIN t = 1 .. Len(str) + 1 /\ t[Len(str) + 1] = b
        /\ \A i \in 1 .. Len(str) : t[i] = str[i]
    BY EndOf
  <2> HIDE DEF t
  <2>2. ASSUME NEW i \in DOMAIN t, i > k, t[i].kind = "message" PROVE t[i].position >= n
    <3>1. CASE i = Len(str) + 1
      BY <1>2, <2>1, <2>2, <3>1 DEF ClearAfter
    <3>2. CASE i # Len(str) + 1
      <4>1. i \in 1 .. Len(str)
        BY <1>1, <2>1, <3>2
      <4> QED BY <1>1, <1>2, <2>1, <2>2, <4>1 DEF ClearAfter
    <3> QED BY <3>1, <3>2
  <2>3. q >= n
    BY <1>2 DEF ClearAfter
  <2> QED BY <2>2, <2>3 DEF ClearAfter, t
<1>3. ASSUME str # <<>>, NEW k \in Nat, ClearAfter(str, k + 1, pos, n)
      PROVE  ClearAfter(Tail(str), k, pos, n)
  <2> DEFINE t == Tail(str)
  <2>1. DOMAIN t = 1 .. Len(str) - 1 /\ \A i \in 1 .. Len(str) - 1 : t[i] = str[i + 1]
    BY <1>3, FrontOf
  <2> HIDE DEF t
  <2>2. ASSUME NEW i \in DOMAIN t, i > k, t[i].kind = "message" PROVE t[i].position >= n
    <3>1. i + 1 \in 1 .. Len(str) /\ i + 1 > k + 1 /\ t[i] = str[i + 1]
      BY <1>1, <2>1, <2>2
    <3> QED BY <1>1, <1>3, <2>2, <3>1 DEF ClearAfter
  <2> QED BY <1>3, <2>2 DEF ClearAfter, t
<1>4. ASSUME NEW k \in Nat, ClearAfter(str, 0, pos, n) PROVE ClearAfter(str, k, pos, n)
  BY <1>1, <1>4 DEF ClearAfter
<1>5. ClearAfter(str, Len(str) + 1, pos, n) <=> pos >= n
  BY <1>1 DEF ClearAfter
<1>6. ASSUME n = 0 PROVE ClearAfter(str, 0, pos, n)
  <2>1. \A i \in DOMAIN str : str[i].kind = "message" => str[i].position \in Nat
    BY <1>1, BlockTypes
  <2> QED BY <1>6, <2>1 DEF ClearAfter
<1> QED BY <1>2, <1>3, <1>4, <1>5, <1>6

\* what command r does, as calls are accepted, applied and read
LEMMA DoneKept ==
  ASSUME NEW str \in Seq(Blocks), NEW td \in Seq(Accepted), NEW pos \in Nat,
         NEW r, NEW n \in Nat, DoneAfter(str, td, pos, r, n)
  PROVE  /\ \A b \in Blocks : (b.kind = "message" => b.position = pos) =>
               DoneAfter(Append(str, b), td, pos, r, n)
         /\ \A x \in Accepted : DoneAfter(str, Append(td, x), pos, r, n)
         /\ td # <<>> =>
               DoneAfter(Append(str, CommandBlock(Head(td).id)), Tail(td),
                         pos + (IF Head(td).request.kind = "reset" THEN 1 ELSE 0), r, n)
         /\ str # <<>> /\ Head(str) # CommandBlock(r) => DoneAfter(Tail(str), td, pos, r, n)
         /\ n <= pos + ResetsFrom(td, 1)
<1>a. /\ Len(str) \in Nat /\ DOMAIN str = 1 .. Len(str) /\ Len(td) \in Nat
      /\ DOMAIN td = 1 .. Len(td) /\ \A j \in 1 .. Len(td) : td[j] \in Accepted
  OBVIOUS
<1>b. /\ \A j \in Nat \ {0} : ResetsFrom(td, j) \in Nat
  BY ResetsFromPlace
<1>c. \A j \in 1 .. Len(td) : j + 1 \in Nat \ {0}
  BY <1>a
<1> DEFINE Waits(j) == td[j].id = r /\ pos + (ResetsFrom(td, 1) - ResetsFrom(td, j + 1)) >= n
           Sent(k) == str[k] = CommandBlock(r) /\ ClearAfter(str, k, pos, n)
<1>d. (\E j \in 1 .. Len(td) : Waits(j)) \/ (\E k \in 1 .. Len(str) : Sent(k))
  BY <1>a DEF DoneAfter
<1>1. ASSUME NEW b \in Blocks, b.kind = "message" => b.position = pos
      PROVE  DoneAfter(Append(str, b), td, pos, r, n)
  <2>1. ASSUME NEW k \in 1 .. Len(str), Sent(k) PROVE DoneAfter(Append(str, b), td, pos, r, n)
    <3>1. k \in DOMAIN Append(str, b) /\ Append(str, b)[k] = CommandBlock(r)
      BY <2>1, EndOf
    <3>2. ClearAfter(Append(str, b), k, pos, n)
      BY <1>1, <2>1, ClearKept
    <3> QED BY <3>1, <3>2 DEF DoneAfter
  <2> QED BY <1>a, <1>d, <2>1 DEF DoneAfter
<1>2. ASSUME NEW x \in Accepted PROVE DoneAfter(str, Append(td, x), pos, r, n)
  <2> DEFINE t == Append(td, x)
  <2>1. ASSUME NEW j \in 1 .. Len(td), Waits(j) PROVE DoneAfter(str, t, pos, r, n)
    <3>1. j \in DOMAIN t /\ t[j] = td[j]
      BY EndOf
    <3>2. 1 \in 1 .. Len(td) + 1 /\ j + 1 \in 1 .. Len(td) + 1
      BY <1>a
    <3>3. \A i \in 1 .. Len(td) + 1 :
             ResetsFrom(t, i) = ResetsFrom(td, i) + (IF x.request.kind = "reset" THEN 1 ELSE 0)
      BY ResetsFromAppended
    <3>4. ResetsFrom(t, 1) - ResetsFrom(t, j + 1) = ResetsFrom(td, 1) - ResetsFrom(td, j + 1)
      <4>1. ResetsFrom(td, 1) \in Nat /\ ResetsFrom(td, j + 1) \in Nat
        BY <1>b, <1>c
      <4> HIDE DEF t
      <4> QED BY <3>2, <3>3, <4>1
    <3> QED BY <2>1, <3>1, <3>4 DEF DoneAfter
  <2> QED BY <1>a, <1>d, <2>1 DEF DoneAfter
<1>3. ASSUME td # <<>>
      PROVE  DoneAfter(Append(str, CommandBlock(Head(td).id)), Tail(td),
                       pos + (IF Head(td).request.kind = "reset" THEN 1 ELSE 0), r, n)
  <2> DEFINE b == CommandBlock(Head(td).id)
             t == Tail(td)
             d == IF Head(td).request.kind = "reset" THEN 1 ELSE 0
             q == pos + d
             Goal == DoneAfter(Append(str, b), t, q, r, n)
  <2>1. /\ Head(td) = td[1] /\ Head(td) \in Accepted /\ DOMAIN t = 1 .. Len(td) - 1
        /\ \A j \in 1 .. Len(td) - 1 : t[j] = td[j + 1]
    BY <1>3, FrontOf
  <2>2. b \in Blocks /\ b.kind = "command" /\ d \in {0, 1} /\ q \in Nat /\ pos <= q
    <3>1. Head(td).id \in Nat
      BY <2>1 DEF Accepted
    <3>2. b \in Blocks /\ b.kind = "command"
      BY <3>1, CommandBlocks
    <3>3. d \in {0, 1} /\ q \in Nat /\ pos <= q
      OBVIOUS
    <3> QED BY <3>2, <3>3
  <2>3. /\ \A i \in 1 .. Len(td) : ResetsFrom(t, i) = ResetsFrom(td, i + 1)
        /\ ResetsFrom(td, 1) = ResetsFrom(td, 2) + d
    <3>1. \A i \in 1 .. Len(td) : ResetsFrom(t, i) = ResetsFrom(td, i + 1)
      BY <1>3, ResetsFromTail
    <3>2. 1 \in 1 .. Len(td) /\ 1 + 1 = 2
      BY <1>a, <1>3
    <3>3. \A i \in 1 .. Len(td) : ResetsFrom(td, i) =
             ResetsFrom(td, i + 1) + (IF td[i].request.kind = "reset" THEN 1 ELSE 0)
      BY ResetsFromPlace
    <3>4. ResetsFrom(td, 1) = ResetsFrom(td, 2) + (IF td[1].request.kind = "reset" THEN 1 ELSE 0)
      BY <3>2, <3>3
    <3> QED BY <2>1, <3>1, <3>4
  <2>4. /\ DOMAIN Append(str, b) = 1 .. Len(str) + 1 /\ Append(str, b)[Len(str) + 1] = b
        /\ \A i \in 1 .. Len(str) : Append(str, b)[i] = str[i]
    BY <2>2, EndOf
  <2>5. ASSUME NEW k \in 1 .. Len(str), Sent(k) PROVE Goal
    <3>1. k \in DOMAIN Append(str, b) /\ Append(str, b)[k] = CommandBlock(r)
      BY <1>a, <2>4, <2>5
    <3>2. ClearAfter(Append(str, b), k, q, n)
      <4> HIDE DEF b, q
      <4> QED BY <2>2, <2>5, ClearKept
    <3> HIDE DEF b, q, t
    <3> QED BY <3>1, <3>2 DEF DoneAfter
  <2>6. ASSUME Waits(1), Len(td) > 0 PROVE Goal
    <3>1. ResetsFrom(td, 1) \in Nat /\ ResetsFrom(td, 2) \in Nat
      BY <1>b
    <3>2. q >= n
      BY <2>2, <2>3, <2>6, <3>1
    <3>3. Len(str) + 1 \in DOMAIN Append(str, b)
          /\ Append(str, b)[Len(str) + 1] = CommandBlock(r)
      BY <1>a, <2>1, <2>4, <2>6
    <3>4. ClearAfter(Append(str, b), Len(str) + 1, q, n)
      <4> HIDE DEF b, q
      <4> QED BY <1>a, <2>4, <3>2 DEF ClearAfter
    <3> HIDE DEF b, q, t
    <3> QED BY <3>3, <3>4 DEF DoneAfter
  <2>7. ASSUME NEW j \in 1 .. Len(td), Waits(j), j # 1 PROVE Goal
    <3> DEFINE i == j - 1
    <3>1. i \in DOMAIN t /\ i \in 1 .. Len(td) /\ t[i] = td[j] /\ i + 1 = j
      BY <1>a, <2>1, <2>7
    <3>2. /\ ResetsFrom(t, i + 1) = ResetsFrom(td, j + 1)
          /\ ResetsFrom(t, 1) = ResetsFrom(td, 1) - d
          /\ ResetsFrom(td, 1) \in Nat /\ ResetsFrom(td, j + 1) \in Nat
      <4>1. 1 \in 1 .. Len(td) /\ 1 + 1 = 2 /\ i + 1 \in 1 .. Len(td)
        BY <1>a, <2>7, <3>1
      <4>2. ResetsFrom(td, 1) \in Nat /\ ResetsFrom(td, j + 1) \in Nat /\ ResetsFrom(td, 2) \in Nat
        BY <1>b, <1>c
      <4>3. ResetsFrom(t, 1) = ResetsFrom(td, 2) /\ ResetsFrom(t, i + 1) = ResetsFrom(td, j + 1)
        BY <2>3, <3>1, <4>1
      <4> HIDE DEF t, d
      <4> QED BY <2>2, <2>3, <4>2, <4>3
    <3>3. q + (ResetsFrom(t, 1) - ResetsFrom(t, i + 1)) >= n
      <4> HIDE DEF t, d, i
      <4> QED BY <2>2, <2>7, <3>2
    <3> HIDE DEF b, q, t, i
    <3> QED BY <2>7, <3>1, <3>3 DEF DoneAfter
  <2>8. Goal
    <3>1. CASE \E j \in 1 .. Len(td) : Waits(j)
      <4>1. PICK j \in 1 .. Len(td) : Waits(j)
        BY <3>1
      <4>2. Len(td) > 0
        BY <1>a
      <4>3. CASE j = 1
        <5> HIDE DEF Goal, Waits
        <5> QED BY <2>6, <4>1, <4>2, <4>3
      <4> HIDE DEF Goal, Waits
      <4> QED BY <2>7, <4>1, <4>3
    <3> HIDE DEF Goal, Sent, Waits
    <3> QED BY <1>d, <2>5, <3>1
  <2> QED BY <2>8
<1>4. ASSUME str # <<>>, Head(str) # CommandBlock(r) PROVE DoneAfter(Tail(str), td, pos, r, n)
  <2> DEFINE t == Tail(str)
  <2>1. /\ Head(str) = str[1] /\ DOMAIN t = 1 .. Len(str) - 1
        /\ \A j \in 1 .. Len(str) - 1 : t[j] = str[j + 1]
    BY <1>4, FrontOf
  <2>2. ASSUME NEW k \in 1 .. Len(str), Sent(k) PROVE DoneAfter(t, td, pos, r, n)
    <3> DEFINE i == k - 1
    <3>1. k # 1
      BY <1>4, <2>1, <2>2
    <3>2. i \in DOMAIN t /\ t[i] = str[k] /\ i \in Nat /\ i + 1 = k
      BY <1>a, <2>1, <2>2, <3>1
    <3>3. ClearAfter(t, i, pos, n)
      <4> HIDE DEF i
      <4> QED BY <1>4, <2>2, <3>2, ClearKept
    <3> HIDE DEF t, i
    <3> QED BY <2>2, <3>2, <3>3 DEF DoneAfter
  <2> QED BY <1>a, <1>d, <2>2 DEF DoneAfter
<1>5. n <= pos + ResetsFrom(td, 1)
  <2>1. ResetsFrom(td, 1) \in Nat /\ \A j \in 1 .. Len(td) : ResetsFrom(td, j + 1) \in Nat
    BY <1>b, <1>c
  <2>2. ASSUME NEW j \in 1 .. Len(td), Waits(j) PROVE n <= pos + ResetsFrom(td, 1)
    BY <2>1, <2>2
  <2>3. ASSUME NEW k \in 1 .. Len(str), Sent(k) PROVE n <= pos + ResetsFrom(td, 1)
    BY <2>1, <2>3 DEF ClearAfter
  <2> QED BY <1>d, <2>2, <2>3
<1> QED BY <1>1, <1>2, <1>3, <1>4, <1>5

\* what the copy s knows of n resets: when the last one is done, and, if none is
\* outstanding, that all of them are
KnowsResets(s, str, td, pos, n) ==
    /\ n <= pos + ResetsFrom(td, 1)
    /\ s.lastReset = Unset => n = 0
    /\ s.lastReset >= 1 => s.resetting /\ DoneAfter(str, td, pos, s.lastReset, n)
    /\ ~s.resetting => ClearAfter(str, 0, pos, n)

\* it knows the same when calls are accepted and applied, and when a block is
\* sent or read that is not the end of the reset it waits for
LEMMA KnowsResetsKept ==
  ASSUME NEW s \in Copies, NEW str \in Seq(Blocks), NEW td \in Seq(Accepted), NEW pos \in Nat,
         NEW n \in Nat, KnowsResets(s, str, td, pos, n)
  PROVE  /\ \A b \in Blocks : (b.kind = "message" => b.position = pos) =>
               KnowsResets(s, Append(str, b), td, pos, n)
         /\ \A x \in Accepted : KnowsResets(s, str, Append(td, x), pos, n)
         /\ td # <<>> =>
               KnowsResets(s, Append(str, CommandBlock(Head(td).id)), Tail(td),
                           pos + (IF Head(td).request.kind = "reset" THEN 1 ELSE 0), n)
         /\ str # <<>> /\ (s.lastReset >= 1 => Head(str) # CommandBlock(s.lastReset)) =>
               KnowsResets(s, Tail(str), td, pos, n)
<1>a. ResetsFrom(td, 1) \in Nat /\ s.lastReset \in Int /\ s.resetting \in BOOLEAN /\ 0 \in Nat
  <2>1. 1 \in Nat \ {0}
    OBVIOUS
  <2> QED BY <2>1, ResetsFromPlace DEF Copies
<1>1. ASSUME NEW b \in Blocks, b.kind = "message" => b.position = pos
      PROVE  KnowsResets(s, Append(str, b), td, pos, n)
  <2>1. s.lastReset >= 1 => DoneAfter(Append(str, b), td, pos, s.lastReset, n)
    BY <1>1, DoneKept DEF KnowsResets
  <2>2. ~s.resetting => ClearAfter(Append(str, b), 0, pos, n)
    <3>1. pos <= pos
      OBVIOUS
    <3> QED BY <1>1, <1>a, <3>1, ClearKept DEF KnowsResets
  <2> QED BY <2>1, <2>2 DEF KnowsResets
<1>2. ASSUME NEW x \in Accepted PROVE KnowsResets(s, str, Append(td, x), pos, n)
  <2>1. s.lastReset >= 1 => DoneAfter(str, Append(td, x), pos, s.lastReset, n)
    BY DoneKept DEF KnowsResets
  <2>2. n <= pos + ResetsFrom(Append(td, x), 1)
    <3>1. 1 \in 1 .. Len(td) + 1
      OBVIOUS
    <3>2. ResetsFrom(Append(td, x), 1) =
             ResetsFrom(td, 1) + (IF x.request.kind = "reset" THEN 1 ELSE 0)
      BY <3>1, ResetsFromAppended
    <3> QED BY <1>a, <3>2 DEF KnowsResets
  <2> QED BY <2>1, <2>2 DEF KnowsResets
<1>3. ASSUME td # <<>>
      PROVE  KnowsResets(s, Append(str, CommandBlock(Head(td).id)), Tail(td),
                         pos + (IF Head(td).request.kind = "reset" THEN 1 ELSE 0), n)
  <2> DEFINE d == IF Head(td).request.kind = "reset" THEN 1 ELSE 0
             b == CommandBlock(Head(td).id)
  <2>1. s.lastReset >= 1 => DoneAfter(Append(str, b), Tail(td), pos + d, s.lastReset, n)
    BY <1>3, DoneKept DEF KnowsResets
  <2>2. b \in Blocks /\ b.kind # "message"
    <3>1. Head(td) \in Accepted
      BY <1>3, FrontOf
    <3>2. Head(td).id \in Nat
      BY <3>1 DEF Accepted
    <3>3. b \in Blocks /\ b.kind = "command"
      BY <3>2, CommandBlocks
    <3> QED BY <3>3
  <2>3. d \in {0, 1} /\ pos + d \in Nat /\ pos <= pos + d
    OBVIOUS
  <2>4. ~s.resetting => ClearAfter(Append(str, b), 0, pos + d, n)
    <3> HIDE DEF b, d
    <3> QED BY <1>a, <2>2, <2>3, ClearKept DEF KnowsResets
  <2>5. n <= (pos + d) + ResetsFrom(Tail(td), 1)
    <3>1. ResetsFrom(Tail(td), 1) = ResetsFrom(td, 1) - d
      BY <1>3, ResetsFromTail
    <3> HIDE DEF d
    <3> QED BY <1>a, <2>3, <3>1 DEF KnowsResets
  <2> QED BY <2>1, <2>4, <2>5 DEF KnowsResets
<1>4. ASSUME str # <<>>, s.lastReset >= 1 => Head(str) # CommandBlock(s.lastReset)
      PROVE  KnowsResets(s, Tail(str), td, pos, n)
  <2>1. s.lastReset >= 1 => DoneAfter(Tail(str), td, pos, s.lastReset, n)
    BY <1>4, DoneKept DEF KnowsResets
  <2>2. ~s.resetting => ClearAfter(Tail(str), 0, pos, n)
    <3>1. ~s.resetting => ClearAfter(str, 0 + 1, pos, n)
      BY <1>a, ClearKept DEF KnowsResets
    <3> QED BY <1>4, <1>a, <3>1, ClearKept
  <2> QED BY <2>1, <2>2 DEF KnowsResets
<1> QED BY <1>1, <1>2, <1>3, <1>4

\* the command at the head of the stream is the only one with its number, and
\* what it ends is over when it is read
LEMMA DoneNow ==
  ASSUME NEW str \in Seq(Blocks), NEW td \in Seq(Accepted), NEW pos \in Nat, NEW n \in Nat,
         NEW next \in Nat, CommandsBefore(str, next), NumberedFrom(td, next),
         str # <<>>, Head(str).kind = "command", DoneAfter(str, td, pos, Head(str).id, n)
  PROVE  ClearAfter(Tail(str), 0, pos, n)
<1> DEFINE r == Head(str).id
<1>1. /\ Len(str) \in Nat \ {0} /\ DOMAIN str = 1 .. Len(str) /\ Head(str) = str[1]
      /\ Head(str) \in Blocks /\ \A j \in 1 .. Len(str) : str[j] \in Blocks
  BY FrontOf
<1>2. r \in Nat /\ r < next
  <2>1. r \in Nat
    BY <1>1, CommandBlocks
  <2>2. 1 \in DOMAIN str /\ str[1].kind = "command" /\ str[1].id = r
    BY <1>1
  <2> QED BY <2>1, <2>2 DEF CommandsBefore
<1>3. ASSUME NEW j \in DOMAIN td PROVE td[j].id # r
  <2>1. j \in Nat \ {0} /\ td[j].id = next + j - 1
    BY <1>3 DEF NumberedFrom
  <2> HIDE DEF r
  <2> QED BY <1>2, <2>1
<1>4. ASSUME NEW k \in DOMAIN str, str[k] = CommandBlock(r) PROVE k = 1
  <2>1. str[k].kind = "command" /\ str[k].id = r
    BY <1>4 DEF CommandBlock
  <2>2. CASE 1 < k
    <3>1. str[1].id < str[k].id
      BY <1>1, <2>1, <2>2 DEF CommandsBefore
    <3> QED BY <1>1, <1>2, <2>1, <3>1
  <2> QED BY <1>1, <2>2
<1>5. ClearAfter(str, 1, pos, n)
  <2> HIDE DEF r
  <2>1. PICK k \in DOMAIN str : str[k] = CommandBlock(r) /\ ClearAfter(str, k, pos, n)
    BY <1>3 DEF DoneAfter, r
  <2> QED BY <1>4, <2>1
<1>6. 0 \in Nat /\ ClearAfter(str, 0 + 1, pos, n)
  BY <1>5
<1> QED BY <1>6, ClearKept

\* Once reset() returned, nothing from before it passes: as long as the shadow
\* says that a reset is outstanding, nothing passes at all; and when it is done,
\* nothing from before any of them is on the way.
ResetInv ==
    rpc # "dead" =>
        LET s == copy[shadow] IN
        /\ KnowsResets(s, stream, todo, position, asked.resets)
        /\ ResetCalled => s.resetting
        /\ ResetCalled /\ caller.pc = "answered" =>
              DoneAfter(stream, todo, position, caller.id, asked.resets + 1)
        /\ rpc = "header" /\ ~copy[main].resetting => msg.position >= askedThen.resets

\* no step lets a message from before a reset pass after it
LEMMA ResetStep ==
  ASSUME TypeInv, NumbersInv, CommandsInv, ResetInv, [Next]_vars
  PROVE  ResetInv'
<1> USE DEF callVars, serverVars, readerVars, cursorVars
<1> DEFINE s == copy[shadow]
           n == asked.resets
<1>a. /\ copy \in [SubStates -> Copies] /\ shadow \in SubStates /\ main \in SubStates
      /\ updated \in BOOLEAN
      /\ s \in Copies /\ n \in Nat /\ nextId \in Nat \ {0} /\ caller \in Callers
      /\ IdsOk(s, nextId) /\ stream \in Seq(Blocks) /\ todo \in Seq(Accepted)
      /\ position \in Nat
  BY DEF TypeInv, CursorTypes, CallerTypes, ServerTypes, StreamTypes, NumbersInv, Askings
<1>b. /\ Free.pc = "free"
      /\ \A c : [pc |-> "asking", call |-> c].pc = "asking"
                /\ [pc |-> "asking", call |-> c].call = c
      /\ \A c, i : [pc |-> "answered", call |-> c, id |-> i].pc = "answered"
                   /\ [pc |-> "answered", call |-> c, id |-> i].call = c
                   /\ [pc |-> "answered", call |-> c, id |-> i].id = i
  BY DEF Free
<1>1. ASSUME rpc' # "header" \/ UNCHANGED <<rpc, copy, main, msg, askedThen>>,
             rpc' # "dead" => rpc # "dead",
             UNCHANGED <<copy, shadow, stream, todo, position, asked, caller>>
      PROVE  ResetInv'
  BY <1>1 DEF ResetInv, ResetCalled
<1>2. ASSUME NEW t \in Copies, WriteShadow(t), t.lastReset = s.lastReset,
             t.resetting = (s.resetting \/ (ResetCalled)'),
             caller.pc = "free", caller'.pc # "answered",
             UNCHANGED <<readerVars, main, stream, todo, position>>, asked'.resets = n
      PROVE  ResetInv'
  <2>1. copy'[shadow'] = t /\ copy'[main'] = copy[main]
    BY <1>2, WritesShadow
  <2>2. KnowsResets(s, stream, todo, position, n) => KnowsResets(t, stream, todo, position, n)
    BY <1>2, <1>a DEF KnowsResets, Copies
  <2>3. ResetCalled' => t.resetting
    BY <1>2
  <2> QED BY <1>2, <2>1, <2>2, <2>3 DEF ResetInv
<1>3. ASSUME NEW c \in Calls, BeginCall(c) PROVE ResetInv'
  <2>1. /\ Written(c) \in Copies /\ WriteShadow(Written(c))
        /\ Written(c).lastReset = s.lastReset
        /\ Written(c).resetting = (s.resetting \/ c.kind = "reset")
    BY <1>3, CallsHaveTypes, WrittenCopy DEF BeginCall, Written
  <2>2. /\ caller.pc = "free" /\ caller' = [pc |-> "asking", call |-> c]
        /\ UNCHANGED <<readerVars, main, stream, todo, position>> /\ asked' = AskFor(c)
    BY <1>3 DEF BeginCall, thisLockFree
  <2>3. asked'.resets = n
    <3>1. c \in CallTypes
      BY <1>3, CallsHaveTypes
    <3> QED BY <2>2, <3>1, AskingTypes
  <2>4. caller'.pc = "asking" /\ (ResetCalled' <=> c.kind = "reset")
    BY <2>2, <1>b DEF ResetCalled
  <2> QED BY <1>2, <2>1, <2>2, <2>3, <2>4
<1>4. CASE RegisterUserMessageType
  <2>1. WriteShadow(s) /\ caller.pc = "free" /\ ~(ResetCalled')
        /\ UNCHANGED <<readerVars, main, stream, todo, position, caller, asked>>
    BY <1>4 DEF RegisterUserMessageType, thisLockFree, ResetCalled
  <2>2. s.resetting = (s.resetting \/ (ResetCalled)')
    BY <2>1, <1>a DEF Copies
  <2> QED BY <1>2, <1>a, <2>1, <2>2
<1>5. CASE RequestFails
  <2>1. caller' = Free /\ asked'.resets = n
        /\ UNCHANGED <<cursorVars, readerVars, stream, todo, position>>
    <3>1. asked' = Doubted(caller.call) /\ caller.call \in CallTypes /\ caller.pc # "free"
      BY <1>5, <1>a DEF RequestFails, Callers, Free
    <3>2. asked'.resets = n
      BY <3>1, AskingTypes
    <3> QED BY <1>5, <3>2 DEF RequestFails
  <2>2. ~(ResetCalled')
    BY <2>1, <1>b DEF ResetCalled
  <2> QED BY <2>1, <2>2 DEF ResetInv
<1>6. ASSUME RequestAnswered \/ AnswerMalformed PROVE ResetInv'
  <2>1. PICK id \in Int : EndCall(id) /\ (id = caller.id \/ id = None)
    <3>1. CASE RequestAnswered
      BY <3>1, <1>a DEF RequestAnswered, NumbersInv
    <3>2. CASE AnswerMalformed
      BY <3>2 DEF AnswerMalformed, None
    <3> QED BY <1>6, <3>1, <3>2
  <2>2. caller.pc = "answered" /\ UNCHANGED <<main, shadow, stream, todo, position, readerVars>>
    BY <1>6 DEF RequestAnswered, AnswerMalformed, EndCall
  <2> DEFINE t == copy'[shadow]
             reset == caller.call.kind = "reset"
             fits == s.last = None \/ id = s.last + 1
  <2>3. /\ t \in Copies /\ caller' = Free /\ t.resetting = s.resetting
        /\ copy'[main] = copy[main]
        /\ fits => t.lastReset = IF reset THEN id ELSE s.lastReset
        /\ ~fits => t = s
        /\ asked'.resets = IF fits /\ id # None /\ reset THEN n + 1 ELSE n
    BY <2>1, <2>2, <1>a, EndedCall DEF NumbersInv
  <2>4. (ResetCalled <=> reset) /\ ~(ResetCalled')
    BY <2>2, <2>3, <1>b DEF ResetCalled
  <2>5. ASSUME rpc # "dead" PROVE KnowsResets(t, stream, todo, position, asked'.resets)
    <3>1. /\ KnowsResets(s, stream, todo, position, n)
          /\ reset => s.resetting /\ DoneAfter(stream, todo, position, caller.id, n + 1)
      BY <2>2, <2>4, <2>5 DEF ResetInv
    <3>2. CASE ~fits
      BY <2>3, <3>1, <3>2
    <3>3. CASE fits /\ ~reset
      <4>1. t.lastReset = s.lastReset /\ t.resetting = s.resetting /\ asked'.resets = n
        BY <2>3, <3>3
      <4> HIDE DEF s, t, n, fits, reset
      <4> QED BY <3>1, <4>1 DEF KnowsResets
    <3>4. CASE fits /\ reset /\ id = None
      <4>1. t.lastReset = None /\ t.resetting = s.resetting /\ asked'.resets = n /\ s.resetting
        BY <2>3, <3>1, <3>4
      <4> HIDE DEF s, t, n, fits, reset
      <4> QED BY <3>1, <4>1 DEF KnowsResets, None, Unset
    <3>5. CASE fits /\ reset /\ id # None
      <4>1. /\ t.lastReset = id /\ t.resetting = s.resetting /\ asked'.resets = n + 1
            /\ s.resetting /\ id = caller.id
        BY <2>1, <2>3, <3>1, <3>5
      <4>2. id >= 1
        BY <2>2, <4>1, <1>a DEF NumbersInv
      <4>3. DoneAfter(stream, todo, position, id, n + 1)
        BY <3>1, <3>5, <4>1
      <4>4. n + 1 <= position + ResetsFrom(todo, 1)
        <5>1. n + 1 \in Nat
          BY <1>a
        <5> HIDE DEF n
        <5> QED BY <1>a, <4>3, <5>1, DoneKept
      <4> HIDE DEF s, t, n, fits, reset
      <4> QED BY <4>1, <4>2, <4>3, <4>4 DEF KnowsResets, Unset
    <3> QED BY <3>2, <3>3, <3>4, <3>5
  <2> HIDE DEF fits, reset
  <2> QED BY <2>2, <2>3, <2>4, <2>5 DEF ResetInv
<1>7. CASE AcceptCall
  <2> DEFINE x == [id |-> nextId, request |-> Request(caller.call)]
  <2>1. /\ caller.pc = "asking" /\ todo' = Append(todo, x)
        /\ caller' = [pc |-> "answered", call |-> caller.call, id |-> nextId]
        /\ UNCHANGED <<cursorVars, readerVars, stream, position, asked>>
    BY <1>7 DEF AcceptCall
  <2>2. /\ caller.call \in CallTypes /\ x \in Accepted
        /\ x.request.kind = caller.call.kind /\ x.id = nextId
    <3>1. caller.call \in CallTypes
      BY <2>1, <1>a DEF Callers, Free
    <3>2. Request(caller.call) \in CallTypes /\ Request(caller.call).kind = caller.call.kind
      BY <3>1, CallsHaveTypes
    <3> QED BY <1>a, <3>1, <3>2 DEF Accepted
  <2>3. /\ ResetCalled' = ResetCalled /\ caller'.pc = "answered" /\ caller'.id = nextId
        /\ (ResetCalled <=> caller.call.kind = "reset")
    BY <2>1, <1>b DEF ResetCalled
  <2> HIDE DEF x
  <2>4. KnowsResets(s, stream, todo, position, n) => KnowsResets(s, stream, todo', position, n)
    <3> HIDE DEF s, n
    <3> QED BY <1>a, <2>1, <2>2, KnowsResetsKept
  <2>5. ASSUME KnowsResets(s, stream, todo, position, n), ResetCalled
        PROVE  DoneAfter(stream, todo', position, nextId, n + 1)
    <3> DEFINE l == Len(todo) + 1
    <3>1. l \in DOMAIN todo' /\ todo'[l].id = nextId /\ Len(todo) \in Nat
          /\ Len(todo') = l
      BY <1>a, <2>1, <2>2, EndOf
    <3>2. ResetsFrom(todo', 1) = ResetsFrom(todo, 1) + 1 /\ ResetsFrom(todo, 1) \in Nat
      <4>1. 1 \in 1 .. Len(todo) + 1 /\ 1 \in Nat \ {0}
        BY <3>1
      <4>2. ResetsFrom(Append(todo, x), 1) =
               ResetsFrom(todo, 1) + (IF x.request.kind = "reset" THEN 1 ELSE 0)
        BY <1>a, <2>2, <4>1, ResetsFromAppended
      <4>3. ResetsFrom(todo, 1) \in Nat
        BY <1>a, <4>1, ResetsFromPlace
      <4> QED BY <2>1, <2>2, <2>3, <2>5, <4>2, <4>3
    <3>3. ResetsFrom(todo', l + 1) = 0
      <4>1. todo' \in Seq(Accepted)
        BY <1>a, <2>1, <2>2
      <4>2. ResetsFrom(todo', Len(todo') + 1) = 0
        BY <4>1, ResetsFromPlace
      <4> QED BY <3>1, <4>2
    <3>4. position + (ResetsFrom(todo', 1) - ResetsFrom(todo', l + 1)) >= n + 1
      <4>1. n <= position + ResetsFrom(todo, 1)
        BY <2>5 DEF KnowsResets
      <4> HIDE DEF n, l
      <4> QED BY <1>a, <3>2, <3>3, <4>1
    <3> HIDE DEF n, l
    <3> QED BY <3>1, <3>4 DEF DoneAfter
  <2> QED BY <2>1, <2>3, <2>4, <2>5 DEF ResetInv
<1>8. CASE ApplyCall
  <2>1. /\ todo # <<>> /\ todo' = Tail(todo) /\ rpc # "dead"
        /\ stream' = Append(stream, CommandBlock(Head(todo).id))
        /\ position' = position + (IF Head(todo).request.kind = "reset" THEN 1 ELSE 0)
        /\ UNCHANGED <<cursorVars, readerVars, callVars>>
    BY <1>8, <1>a DEF ApplyCall, CanSend
  <2>2. KnowsResets(s, stream, todo, position, n) => KnowsResets(s, stream', todo', position', n)
    <3> HIDE DEF s, n
    <3> QED BY <1>a, <2>1, KnowsResetsKept
  <2>3. \A r, m \in Nat : DoneAfter(stream, todo, position, r, m) =>
           DoneAfter(stream', todo', position', r, m)
    BY <1>a, <2>1, DoneKept
  <2>4. ResetCalled' = ResetCalled /\ n + 1 \in Nat
        /\ (caller.pc = "answered" => caller.id \in Nat)
    BY <2>1, <1>a DEF ResetCalled, Callers, Free
  <2> QED BY <2>1, <2>2, <2>3, <2>4 DEF ResetInv
<1>9. ASSUME \/ \E e \in Entities : SendEntity(e)
             \/ \E t \in Types : SendType(t)
             \/ SendMessage \/ SendTerminator
      PROVE  ResetInv'
  <2>1. PICK b \in Blocks : stream' = Append(stream, b) /\ (b.kind = "message" => b.position = position)
    BY <1>9, SentBlock
  <2>2. UNCHANGED <<todo, nextId, position, cursorVars, readerVars, callVars>>
    BY <1>9, SentBlock
  <2>3. KnowsResets(s, stream, todo, position, n) => KnowsResets(s, stream', todo, position, n)
    <3> HIDE DEF s, n
    <3> QED BY <1>a, <2>1, KnowsResetsKept
  <2>4. \A r, m \in Nat : DoneAfter(stream, todo, position, r, m) =>
           DoneAfter(stream', todo, position, r, m)
    BY <1>a, <2>1, DoneKept
  <2>5. ResetCalled' = ResetCalled /\ n + 1 \in Nat
        /\ (caller.pc = "answered" => caller.id \in Nat)
    BY <2>2, <1>a DEF ResetCalled, Callers, Free
  <2> QED BY <2>2, <2>3, <2>4, <2>5 DEF ResetInv
<1>10. CASE CallNext \/ End \/ Filter
  <2>1. rpc # "dead" /\ rpc' # "header"
        /\ UNCHANGED <<copy, shadow, stream, todo, position, asked, caller>>
    BY <1>10 DEF CallNext, End, Filter, Throw
  <2> QED BY <1>1, <2>1
<1>11. ASSUME NEW kind, NEW t \in Copies, Reads(kind, t), rpc' # "header",
              KnowsResets(s, stream, todo, position, n) /\ rpc' # "dead" =>
                  KnowsResets(t, stream', todo, position, n)
       PROVE  ResetInv'
  <2>1. SynchronizeAnd(t) /\ rpc # "dead" /\ UNCHANGED <<callVars, serverVars>>
    BY <1>11 DEF Reads, AtBlock
  <2>2. copy'[shadow'] = t /\ caller = Free
    BY <2>1, TakesShadow
  <2>3. ~(ResetCalled')
    BY <2>1, <2>2, <1>b DEF ResetCalled
  <2> QED BY <1>11, <2>1, <2>2, <2>3 DEF ResetInv
<1>12. ASSUME NEW kind, kind # "command", AtBlock(kind), KnowsResets(s, stream, todo, position, n)
       PROVE  KnowsResets(s, stream', todo, position, n)
  <2>1. stream # <<>> /\ stream' = Tail(stream) /\ Head(stream).kind # "command"
    BY <1>12 DEF AtBlock
  <2>2. \A r : Head(stream) # CommandBlock(r)
    BY <2>1 DEF CommandBlock
  <2> HIDE DEF s, n
  <2> QED BY <1>a, <1>12, <2>1, <2>2, KnowsResetsKept
<1>13. CASE ReadEntity \/ ReadMessageType
  <2>1. PICK kind \in {"entity", "type"}, t \in Copies : Reads(kind, t) /\ SameCommands(t, s)
                                                        /\ rpc' \in {rpc, "dead"}
    BY <1>13, EntityRead, TypeRead
  <2>2. rpc = "record" /\ AtBlock(kind) /\ kind # "command"
    BY <2>1 DEF Reads, AtBlock
  <2>3. KnowsResets(s, stream', todo, position, n) => KnowsResets(t, stream', todo, position, n)
    BY <2>1 DEF SameCommands, KnowsResets
  <2> QED BY <1>11, <1>12, <2>1, <2>2, <2>3
<1>14. CASE ReadTerminator
  <2>1. Reads("terminator", s) /\ rpc' \in {"record", "ending"}
    BY <1>14, TerminatorRead
  <2>2. AtBlock("terminator")
    BY <2>1 DEF Reads
  <2> QED BY <1>11, <1>12, <1>a, <2>1, <2>2
<1>15. CASE ReadCommand
  <2>1. PICK t \in Copies, r \in Readings(s) :
            /\ Reads("command", t) /\ r \in Copies
            /\ \/ Head(stream).id = r.first /\ ~ResetLost(r) /\ rpc' = rpc /\ t = Executed(r)
               \/ rpc' = "dead"
    BY <1>15, CommandRead
  <2>2. /\ stream # <<>> /\ stream' = Tail(stream) /\ Head(stream).kind = "command"
        /\ rpc = "record" /\ Head(stream) \in Blocks
    <3>1. AtBlock("command")
      BY <2>1 DEF Reads
    <3> QED BY <3>1, TakesBlock
  <2>3. Head(stream).id \in Nat /\ Head(stream) = CommandBlock(Head(stream).id)
    BY <2>2, BlockTypes
  <2>4. ASSUME KnowsResets(s, stream, todo, position, n), rpc' # "dead"
        PROVE  KnowsResets(t, stream', todo, position, n)
    <3>1. /\ Head(stream).id = r.first /\ ~ResetLost(r) /\ t = Executed(r)
      BY <2>1, <2>4
    <3>2. /\ r.first = s.first /\ r.resetting = s.resetting
          /\ \/ r.lastReset = s.lastReset
             \/ s.resetting /\ s.lastReset = Unset /\ r.lastReset \in {None, s.first}
      BY <1>a, ExecutedCopy
    <3>3. /\ r.resetting /\ r.first = r.lastReset => t.resetting = FALSE /\ t.lastReset = None
          /\ ~(r.resetting /\ r.first = r.lastReset) =>
                t.resetting = r.resetting /\ t.lastReset = r.lastReset
      BY <2>1, <3>1, ExecutedCopy
    <3>4. n <= position + ResetsFrom(todo, 1)
      BY <2>4 DEF KnowsResets
    <3>5. CASE r.resetting /\ r.first = r.lastReset
      <4>1. ~t.resetting /\ t.lastReset = None
        BY <3>3, <3>5
      <4>2. ClearAfter(stream', 0, position, n)
        <5>1. CASE n = 0
          <6>1. stream' \in Seq(Blocks)
            BY <1>a, <2>2
          <6> HIDE DEF n
          <6> QED BY <1>a, <5>1, <6>1, ClearKept
        <5>2. CASE n # 0
          <6>1. r.lastReset = s.lastReset /\ s.lastReset # Unset
            BY <2>4, <3>2, <5>2 DEF KnowsResets
          <6>2. s.lastReset = Head(stream).id /\ s.lastReset >= 1
            BY <2>3, <3>1, <3>5, <6>1 DEF Unset
          <6>3. DoneAfter(stream, todo, position, Head(stream).id, n)
            BY <2>4, <6>2 DEF KnowsResets
          <6>4. nextId - Len(todo) \in Nat
            BY <1>a DEF NumbersInv
          <6> HIDE DEF n
          <6> QED BY <1>a, <2>2, <6>3, <6>4, DoneNow DEF CommandsInv
        <5> QED BY <5>1, <5>2
      <4> HIDE DEF n
      <4> QED BY <3>4, <4>1, <4>2 DEF KnowsResets, None, Unset
    <3>6. CASE ~(r.resetting /\ r.first = r.lastReset)
      <4>1. t.resetting = r.resetting /\ t.lastReset = r.lastReset
        BY <3>3, <3>6
      <4>2. r.lastReset = s.lastReset
        <5>1. CASE s.resetting /\ r.lastReset = None
          BY <2>3, <3>1, <3>2, <5>1 DEF ResetLost, None
        <5> QED BY <3>2, <3>6, <5>1
      <4>3. s.lastReset >= 1 => Head(stream) # CommandBlock(s.lastReset)
        <5>1. ASSUME s.lastReset >= 1, Head(stream) = CommandBlock(s.lastReset) PROVE FALSE
          <6>1. Head(stream).id = s.lastReset
            BY <5>1 DEF CommandBlock
          <6>2. s.resetting
            BY <2>4, <5>1 DEF KnowsResets
          <6> QED BY <3>1, <3>2, <3>6, <4>2, <6>1, <6>2
        <5> QED BY <5>1
      <4>4. KnowsResets(s, stream', todo, position, n)
        <5> HIDE DEF s, n
        <5> QED BY <1>a, <2>2, <2>4, <4>3, KnowsResetsKept
      <4> HIDE DEF s, n
      <4> QED BY <3>2, <4>1, <4>2, <4>4 DEF KnowsResets
    <3> QED BY <3>5, <3>6
  <2>5. rpc' # "header"
    BY <2>1, <2>2
  <2> HIDE DEF s, n
  <2> QED BY <1>11, <2>1, <2>4, <2>5 DEF s, n
<1>16. CASE ReadHeader
  <2>1. /\ AtBlock("message") /\ rpc' = "header" /\ msg' = Head(stream) /\ askedThen' = asked
        /\ UNCHANGED <<callVars, serverVars>>
        /\ \/ SynchronizeAnd(s)
           \/ ~updated /\ UNCHANGED cursorVars
    BY <1>16, HeaderRead
  <2>2. /\ stream # <<>> /\ Head(stream).kind = "message" /\ rpc = "record"
        /\ Head(stream) = stream[1] /\ 1 \in DOMAIN stream
    <3>1. stream # <<>> /\ Head(stream).kind = "message" /\ rpc = "record"
      BY <2>1 DEF AtBlock
    <3>2. Head(stream) = stream[1] /\ 1 \in DOMAIN stream
      BY <1>a, <3>1, FrontOf
    <3> QED BY <3>1, <3>2
  <2>3. copy'[main'] = s /\ copy'[shadow'] = s
    <3>1. CASE SynchronizeAnd(s)
      BY <1>a, <3>1, TakesShadow
    <3>2. CASE ~updated /\ UNCHANGED cursorVars
      BY <3>2 DEF NumbersInv
    <3> QED BY <2>1, <3>1, <3>2
  <2>4. KnowsResets(s, stream, todo, position, n)
    BY <2>2 DEF ResetInv
  <2>5. KnowsResets(s, stream', todo, position, n)
    BY <1>12, <2>1, <2>4
  <2>6. ~s.resetting => msg'.position >= askedThen'.resets
    BY <2>1, <2>2, <2>4 DEF KnowsResets, ClearAfter
  <2>7. ASSUME NEW r, NEW m \in Nat, DoneAfter(stream, todo, position, r, m)
        PROVE  DoneAfter(stream', todo, position, r, m)
    <3>1. Head(stream) # CommandBlock(r) /\ stream' = Tail(stream)
      BY <2>1, <2>2 DEF CommandBlock, AtBlock
    <3> QED BY <1>a, <2>2, <2>7, <3>1, DoneKept
  <2>8. ResetCalled' = ResetCalled /\ n + 1 \in Nat /\ rpc # "dead"
    BY <2>1, <2>2, <1>a DEF ResetCalled
  <2> HIDE DEF s
  <2> QED BY <2>1, <2>3, <2>5, <2>6, <2>7, <2>8 DEF ResetInv, s
<1>17. CASE UNCHANGED vars
  <2>1. UNCHANGED <<rpc, copy, main, msg, askedThen, shadow, stream, todo, position, asked, caller>>
    BY <1>17 DEF vars
  <2> QED BY <1>1, <2>1
<1> QED BY <1>3, <1>4, <1>5, <1>6, <1>7, <1>8, <1>9, <1>10, <1>13, <1>14, <1>15, <1>16, <1>17
        DEF Next, CallStep, ServerStep, NextStep

-----------------------------------------------------------------------------
(* The theorems.                                                           *)

SubscriptionInv ==
    TypeInv /\ NumbersInv /\ NamesInv /\ CommandsInv /\ FaultlessInv /\ ResetInv

\* next() has read nothing yet, and no call was made
LEMMA SubscriptionInit ==
  ASSUME Init
  PROVE  SubscriptionInv
<1>1. TypeInv
  BY TypeInit
<1>2. /\ copy = [i \in SubStates |-> NewCopy] /\ main \in SubStates /\ shadow = main
      /\ updated = FALSE /\ rpc = "out" /\ msg = NoMessage /\ caller = Free /\ calls = 0
      /\ todo = <<>> /\ nextId = 1 /\ position = 0 /\ stream = <<>>
      /\ announced = [entities |-> <<>>, types |-> <<>>] /\ asked.resets = 0
  BY DEF Init, NothingAsked
<1>3. /\ NewCopy.first = None /\ NewCopy.last = None /\ NewCopy.lastReset = Unset
      /\ NewCopy.resetting = FALSE
      /\ NewCopy.entities.names = <<>> /\ NewCopy.types.names = <<>>
  BY DEF NewCopy, NewFilter
<1>4. /\ \A kind : From(stream, 1, kind) = 0
      /\ ResetsFrom(todo, 1) = 0 /\ Len(todo) = 0 /\ Len(stream) = 0
      /\ DOMAIN stream = {} /\ DOMAIN todo = {}
  <2>1. stream \in Seq(Blocks) /\ todo \in Seq(Accepted)
    BY <1>1 DEF TypeInv, StreamTypes, ServerTypes
  <2>2. Len(stream) = 0 /\ Len(todo) = 0
    BY <1>2
  <2>3. \A kind : From(stream, Len(stream) + 1, kind) = 0
    BY <2>1, FromPlace
  <2>4. ResetsFrom(todo, Len(todo) + 1) = 0
    BY <2>1, ResetsFromPlace
  <2> QED BY <1>2, <2>1, <2>2, <2>3, <2>4
<1>5. caller.pc = "free"
  BY <1>2 DEF Free
<1>6. NumbersInv
  <2>1. \A i \in SubStates : IdsOk(copy[i], nextId)
    BY <1>2, <1>3 DEF IdsOk, None, Unset
  <2> QED BY <1>2, <1>4, <1>5, <2>1 DEF NumbersInv
<1>7. NamesInv
  <2>1. Len(announced.entities) = 0 /\ Len(announced.types) = 0
        /\ announced.entities = <<>> /\ announced.types = <<>>
    BY <1>2
  <2>2. /\ Arrived(announced.entities, stream, "entity") = <<>>
        /\ Arrived(announced.types, stream, "type") = <<>>
    BY <1>4, <2>1 DEF Arrived
  <2>3. HasArrived(copy[main]) /\ HasArrived(copy[shadow])
    BY <1>2, <1>3, <2>2 DEF HasArrived
  <2> QED BY <1>2, <1>4, <2>1, <2>3 DEF NamesInv, Announces, MessagesKnown
<1>8. CommandsInv
  BY <1>2, <1>4 DEF CommandsInv, CommandsBefore, NumberedFrom
<1>9. FaultlessInv
  <2>1. Out = 0 /\ BeingWritten = 0 /\ ResetCalled = FALSE
    BY <1>4, <1>5 DEF Out, BeingWritten, ResetCalled
  <2>2. copy[shadow].first = None /\ copy[shadow].resetting = FALSE
    BY <1>2, <1>3
  <2>3. Expects(copy[shadow], nextId, Out, BeingWritten, ResetCalled)
    BY <2>1, <2>2 DEF Expects
  <2> QED BY <1>2, <2>3 DEF FaultlessInv
<1>10. ResetInv
  <2>1. ClearAfter(stream, 0, position, asked.resets)
    BY <1>2, <1>4 DEF ClearAfter
  <2>2. copy[shadow].lastReset = 0 /\ copy[shadow].resetting = FALSE
    BY <1>2, <1>3 DEF Unset
  <2>3. KnowsResets(copy[shadow], stream, todo, position, asked.resets)
    BY <1>2, <1>4, <2>1, <2>2 DEF KnowsResets
  <2> QED BY <1>2, <1>5, <2>3 DEF ResetInv, ResetCalled
<1> QED BY <1>1, <1>6, <1>7, <1>8, <1>9, <1>10 DEF SubscriptionInv

\* The types, the order of the numbers and of the names, and what the two copies
\* know of the commands and of the resets hold at every moment, however the calls,
\* the server and next() interleave.
THEOREM SubscriptionInvariant == Spec => []SubscriptionInv
<1>1. Init => SubscriptionInv
  BY SubscriptionInit
<1>2. SubscriptionInv /\ [Next]_vars => SubscriptionInv'
  BY TypeStep, NumbersStep, NamesStep, CommandsStep, FaultlessStep, ResetStep
     DEF SubscriptionInv
<1> QED BY <1>1, <1>2, PTL DEF Spec

\* Every variable has its type: the numbers of the commands, the counters and what
\* is on the way stay in their bounds, and next() has a message exactly when it has
\* read a header.
THEOREM TypeCorrect == Spec => []TypeOK
<1>1. SubscriptionInv => TypeOK
  <2> SUFFICES ASSUME SubscriptionInv PROVE TypeOK
    OBVIOUS
  <2>1. /\ copy \in [SubStates -> Copies] /\ main \in SubStates /\ shadow \in SubStates
        /\ updated \in BOOLEAN /\ atEnd \in BOOLEAN
        /\ rpc \in {"out", "record", "header", "ending", "dead"}
        /\ caller \in Callers /\ calls \in 0 .. MaxCalls /\ faults \in 0 .. MaxFaults
        /\ subscription \in [entities : SUBSET Entities, types : SUBSET Types]
        /\ todo \in Seq(Accepted) /\ nextId \in Nat \ {0} /\ position \in Nat
        /\ done \in BOOLEAN /\ Len(stream) <= MaxBlocks
    BY DEF SubscriptionInv, TypeInv, CursorTypes, ReaderTypes, CallerTypes, ServerTypes,
           StreamTypes
  <2>2. /\ Len(todo) \in Nat /\ MaxCalls \in Nat /\ calls \in Nat /\ calls <= MaxCalls
        /\ position + Len(todo) < nextId /\ nextId <= calls + 1
    BY <2>1, ConstantsAssumption DEF SubscriptionInv, NumbersInv
  <2>3. nextId \in 1 .. MaxCalls + 1 /\ position \in 0 .. MaxCalls /\ Len(todo) <= MaxCalls
    BY <2>1, <2>2
  <2>4. ASSUME NEW i \in SubStates
        PROVE  LET s == copy[i] IN
               /\ {s.first, s.last, s.lastReset} \subseteq Ids
               /\ s.resetting \in BOOLEAN
               /\ \A f \in {s.entities, s.types} :
                     /\ DOMAIN f.data \subseteq DOMAIN f.names
                     /\ f.default \in BOOLEAN
                     /\ \A j \in DOMAIN f.data : f.data[j] \in BOOLEAN
               /\ DOMAIN s.entities.later \subseteq Entities
               /\ DOMAIN s.types.later \subseteq Types
    <3> DEFINE s == copy[i]
    <3>1. /\ s \in Copies /\ s.first \in Int /\ s.last \in Int /\ s.lastReset \in Int
          /\ s.resetting \in BOOLEAN
          /\ s.entities \in Filters(Entities) /\ s.types \in Filters(Types)
      BY <2>1 DEF Copies
    <3>2. IdsOk(s, nextId)
      BY DEF SubscriptionInv, NumbersInv
    <3> HIDE DEF s
    <3>3. {s.first, s.last, s.lastReset} \subseteq Ids
      BY <2>1, <2>2, <3>1, <3>2 DEF IdsOk, Ids, None, Unset
    <3>4. ASSUME NEW S, NEW f \in Filters(S)
          PROVE  /\ DOMAIN f.data \subseteq DOMAIN f.names /\ f.default \in BOOLEAN
                 /\ \A j \in DOMAIN f.data : f.data[j] \in BOOLEAN
                 /\ DOMAIN f.later \subseteq S
      <4>1. /\ f.data \in Tables(Nat) /\ f.later \in Tables(S) /\ f.default \in BOOLEAN
            /\ DOMAIN f.data \subseteq DOMAIN f.names
        BY <3>4 DEF Filters
      <4>2. \A j \in DOMAIN f.data : f.data[j] \in BOOLEAN
        BY <4>1, TableTypes
      <4>3. DOMAIN f.later \subseteq S
        BY <4>1, TableTypes
      <4> QED BY <4>1, <4>2, <4>3
    <3>5. /\ DOMAIN s.entities.data \subseteq DOMAIN s.entities.names
          /\ s.entities.default \in BOOLEAN
          /\ \A j \in DOMAIN s.entities.data : s.entities.data[j] \in BOOLEAN
          /\ DOMAIN s.entities.later \subseteq Entities
      BY <3>1, <3>4
    <3>6. /\ DOMAIN s.types.data \subseteq DOMAIN s.types.names
          /\ s.types.default \in BOOLEAN
          /\ \A j \in DOMAIN s.types.data : s.types.data[j] \in BOOLEAN
          /\ DOMAIN s.types.later \subseteq Types
      BY <3>1, <3>4
    <3> QED BY <3>1, <3>3, <3>5, <3>6 DEF s
  <2>5. (rpc = "header") = (msg # NoMessage)
    <3>1. NoMessage.entity = 0
      BY DEF NoMessage, Message
    <3>2. CASE rpc = "header"
      <4>1. msg.entity # 0
        BY <3>2 DEF SubscriptionInv, NamesInv
      <4> QED BY <3>1, <3>2, <4>1
    <3>3. CASE rpc # "header"
      BY <3>3 DEF SubscriptionInv, NamesInv
    <3> QED BY <3>2, <3>3
  <2>6. caller.pc \in {"free", "asking", "answered"}
    BY <2>1 DEF Callers, Free
  <2> QED BY <2>1, <2>2, <2>3, <2>4, <2>5, <2>6 DEF TypeOK
<1> QED BY <1>1, SubscriptionInvariant, PTL

\* next() throws only after a request failed: every block the server sends is the
\* one the cursor expects, for any number of calls, names and blocks, whatever
\* overtakes what.
THEOREM ThrowsAfterFault == Spec => []ThrowsOnlyAfterFault
<1>1. SubscriptionInv => ThrowsOnlyAfterFault
  <2>1. TypeInv => faults \in Nat
    BY ConstantsAssumption DEF TypeInv, CallerTypes
  <2> QED BY <2>1 DEF SubscriptionInv, FaultlessInv, ThrowsOnlyAfterFault
<1> QED BY <1>1, SubscriptionInvariant, PTL

\* Once reset() returned, next() returns no message from before it, for any
\* number of resets and of other calls outstanding.
THEOREM NothingOldAfterReset == Spec => []NothingFromBeforeReset
<1>1. SubscriptionInv => NothingFromBeforeReset
  BY DEF SubscriptionInv, ResetInv, NothingFromBeforeReset, Judged, Passes
<1> QED BY <1>1, SubscriptionInvariant, PTL

\* The copy next() reads and the one the calls change have the names the server
\* announced, but for those that are still on the way.
THEOREM TablesStayTheSame == Spec => []TablesAgree
<1>1. ASSUME NEW kind
      PROVE  TypeInv => Cardinality({i \in DOMAIN stream : stream[i].kind = kind})
                           = From(stream, 1, kind)
  <2>1. TypeInv => DOMAIN stream = 1 .. Len(stream)
    BY DEF TypeInv, StreamTypes
  <2> QED BY <2>1 DEF From, Count
<1>2. SubscriptionInv => TablesAgree
  <2>1. \A kind : TypeInv => Cardinality({i \in DOMAIN stream : stream[i].kind = kind})
                                = From(stream, 1, kind)
    BY <1>1
  <2> QED BY <2>1 DEF SubscriptionInv, NamesInv, HasArrived, Arrived, TablesAgree
<1> QED BY <1>2, SubscriptionInvariant, PTL

\* The terminator ends the cursor only if no command is outstanding, and no call
\* is being made.
THEOREM EndsWhenDone == Spec => EndsOnlyWhenDone
<1> DEFINE A == rpc = "record" /\ rpc' = "ending" => ~Executing(copy[shadow]) /\ thisLockFree
<1>1. [Next]_vars => [A]_vars
  <2> SUFFICES ASSUME Next, rpc = "record", rpc' = "ending"
               PROVE  ~Executing(copy[shadow]) /\ thisLockFree
    OBVIOUS
  <2> USE DEF readerVars, cursorVars, callVars, serverVars
  <2>1. CASE CallStep
    BY <2>1 DEF CallStep, BeginCall, RegisterUserMessageType, RequestFails, RequestAnswered,
                AnswerMalformed, EndCall
  <2>2. CASE ServerStep
    BY <2>2 DEF ServerStep, AcceptCall, ApplyCall, SendMessage, SendTerminator, SendEntity,
                SendType, Send
  <2>3. CASE NextStep
    <3>1. CASE ReadTerminator
      BY <3>1 DEF ReadTerminator, SynchronizeAnd
    <3>2. CASE CallNext \/ End \/ ReadHeader \/ Filter
      BY <3>2 DEF CallNext, End, ReadHeader, Filter
    <3>3. CASE ReadEntity \/ ReadMessageType
      BY <3>3 DEF ReadEntity, ReadMessageType, Throw
    <3>4. CASE ReadCommand
      BY <3>4 DEF ReadCommand, Throw
    <3> QED BY <2>3, <3>1, <3>2, <3>3, <3>4 DEF NextStep
  <2> QED BY <2>1, <2>2, <2>3 DEF Next
<1> QED BY <1>1, PTL DEF Spec, EndsOnlyWhenDone
=============================================================================
